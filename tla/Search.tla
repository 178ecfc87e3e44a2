------------------------------- MODULE Search -------------------------------
(***************************************************************************)
(* Find, replace and incremental search (src/usearch.c, src/uisrch.c): a   *)
(* search keeps its own pointers into the text that it changes, a record   *)
(* of the places it asked about to go back to, and hands the marked block  *)
(* to itself and back.                                                     *)
(***************************************************************************)
EXTENDS Regex, FiniteSetsExt, SequencesExt

CONSTANTS
  Scenarios   \* text, starts, blocks, wrap, finds, keys (of an incremental
              \* search), chars (typed between searches), commands (bound),
              \* typed (bound on what an incremental search keeps)

VARIABLES
  scenario,
  b,          \* the buffer and the window's pointers: text, at, ops, units
  srch,       \* the search: globalsrch, or the one that asks
  mode,       \* "edit", "asking" (dopfrepl's prompt) or "isrch" (itype's)
  isrch, lastisrch, lastpat, smode,
  left,       \* commands still to be given
  asked,      \* the questions of this search so far, for the properties
  done        \* the last command or answer, for the properties

vars == <<scenario, b, srch, mode, isrch, lastisrch, lastpat, smode, left, asked, done>>

None == -1
None2 == [none |-> TRUE]

(* One edit: all pointers move.  During a replacement the block's end      *)
(* stays behind what is put in there (P's end).                            *)
AllAt(f) == [cursor |-> f["cursor"], markb |-> f["markb"], markk |-> f["markk"],
             sb |-> f["sb"], sk |-> f["sk"], wrap |-> f["wrap"]]
Closed(q, lo, hi) == IF q <= lo THEN q ELSE IF q >= hi THEN q - (hi - lo) ELSE lo
bdel(buf, lo, hi) ==
  [buf EXCEPT !.text = SubSeq(@, 1, lo) \o SubSeq(@, hi + 1, Len(@)),
              !.at = LET old == @ IN AllAt([n \in DOMAIN old |-> Closed(old[n], lo, hi)]),
              !.ops = IF lo = hi THEN @ ELSE Append(@, [del |-> TRUE, at |-> lo, s |-> Span(buf.text, lo, hi)])]
binsm(buf, p, s, ends) ==
  [buf EXCEPT !.text = SubSeq(@, 1, p) \o s \o SubSeq(@, p + 1, Len(@)),
              !.at = LET old == @
                     IN AllAt([n \in DOMAIN old |->
                          IF old[n] > p \/ (old[n] = p /\ n \in ends) THEN old[n] + Len(s) ELSE old[n]]),
              !.ops = IF s = <<>> THEN @ ELSE Append(@, [del |-> FALSE, at |-> p, s |-> s])]
pgoto(buf, p) == [buf EXCEPT !.at.cursor = IF p <= Len(buf.text) THEN p ELSE Len(buf.text)]

(* The changes of one command are one unit, which uundo takes back whole.  *)
Ended(buf) == IF buf.ops = <<>> THEN buf ELSE [buf EXCEPT !.units = Append(@, buf.ops), !.ops = <<>>]
Reverted(buf, op) ==
  IF op.del THEN binsm(buf, op.at, op.s, {}) ELSE bdel(buf, op.at, op.at + Len(op.s))
uundo(buf) ==
  IF buf.units = <<>> THEN buf
  ELSE LET back == FoldRight(LAMBDA op, acc : Reverted(acc, op), Last(buf.units), buf)
       IN [back EXCEPT !.units = Front(buf.units), !.ops = <<>>]

-----------------------------------------------------------------------------
(* The search record                                                       *)
mksrch(pat, repl, ignore, backwards, repeat, replace) ==
  [pat |-> pat, repl |-> repl, ignore |-> ignore, backwards |-> backwards, repeat |-> repeat,
   replace |-> replace, rest |-> FALSE, flg |-> FALSE, addr |-> None, wrap_flag |-> FALSE,
   valid |-> FALSE, block_restrict |-> FALSE, recs |-> <<>>, pieces |-> NoPieces, entire |-> <<>>]

markv(at) == at.markb # None /\ at.markk > at.markb
(* The bundle a command works on: buffer, search and how it stands.        *)
With(buf, s) == [b |-> buf, s |-> s, r |-> "going"]
setmark(e) ==
  [e EXCEPT !.s.valid = @ \/ markv(e.b.at),
            !.b.at.sb = e.b.at.markb, !.b.at.sk = e.b.at.markk,
            !.b.at.markb = None, !.b.at.markk = None]
pfsave(e) ==
  [e EXCEPT !.s.rest = FALSE, !.s.repeat = -1, !.s.flg = FALSE,
            !.b.at.markb = e.b.at.sb, !.b.at.markk = e.b.at.sk, !.b.at.sb = None, !.b.at.sk = None]
(* rmsrch: the search's own marks become the block, and there are none     *)
(* once pfsave has been there.                                             *)
rmsrch(buf) == [buf EXCEPT !.at.markb = buf.at.sb, !.at.markk = buf.at.sk, !.at.sb = None, !.at.sk = None,
                           !.at.wrap = None]

-----------------------------------------------------------------------------
(* searchf, searchb: the nearest match, first on one side, then, once and  *)
(* if wrap allows, on the other up to where the search began.              *)
Ahead(e) ==
  IF e.s.backwards
  THEN {q \in 0..e.b.at.cursor - 1 : e.s.wrap_flag => q >= e.b.at.wrap}
  ELSE {q \in e.b.at.cursor..Len(e.b.text) : e.s.wrap_flag => q < e.b.at.wrap}
Beyond(e) ==
  IF ~scenario.wrap \/ e.s.wrap_flag \/ e.b.at.wrap = None THEN {}
  ELSE IF e.s.backwards THEN {q \in 0..Len(e.b.text) - 1 : q >= e.b.at.wrap}
  ELSE {q \in 0..Len(e.b.text) : q < e.b.at.wrap}
Wrapped(e) == [e EXCEPT !.s.wrap_flag = @ \/ (scenario.wrap /\ e.b.at.wrap # None)]
Hits(e, places) == {q \in places : Match(e.s.pat, e.b.text, q, e.s.ignore).ok}
Placed(e, q, m) ==
  [e EXCEPT !.b.at.cursor = IF e.s.backwards THEN q ELSE m.p,
            !.s.pieces = m.pieces, !.s.entire = Span(e.b.text, q, m.p), !.r = "found"]
Found(e, q) == Placed(e, q, Match(e.s.pat, e.b.text, q, e.s.ignore))
Nearer(S, backwards) == IF backwards THEN Max(S) ELSE Min(S)
Taken(e, near, far) ==
  IF near # {} THEN Found(e, Nearer(near, e.s.backwards))
  ELSE IF far # {} THEN Found(Wrapped(e), Nearer(far, e.s.backwards))
  ELSE [Wrapped(e) EXCEPT !.r = "none"]
(* Faulty variant of search: the other side as soon as this one is there.  *)
search_Far(e) == Taken(e, Hits(e, Ahead(e) \cup Beyond(e)), {})
search(e) == Taken(e, Hits(e, Ahead(e)), Hits(e, Beyond(e)))

(* restrict_to_block, with lines and columns left aside                    *)
restrict_to_block(e) ==
  LET c == e.b.at.cursor
      n == Len(e.s.entire)
  IN CASE ~e.s.valid \/ ~e.s.block_restrict -> "within"
       [] e.s.valid /\ e.s.block_restrict /\ e.s.backwards ->
            IF c < e.b.at.sb THEN "past" ELSE IF c + n > e.b.at.sk THEN "before" ELSE "within"
       [] e.s.valid /\ e.s.block_restrict /\ ~e.s.backwards ->
            IF c > e.b.at.sk THEN "past" ELSE IF c - n < e.b.at.sb THEN "before" ELSE "within"

(* insert: literal characters, pieces of the pattern and \& .              *)
Piece_(k) == [op |-> "piece", k |-> k, c |-> ""]
Lit(c) == [op |-> "lit", k |-> 0, c |-> c]
Entire == [op |-> "entire", k |-> 0, c |-> ""]
Put(s, item) ==
  CASE item.op = "lit" -> <<item.c>>
    [] item.op = "entire" -> s.entire
    [] item.op = "piece" -> s.pieces[item.k]
insert(s) == FlattenSeq([i \in 1..Len(s.repl) |-> Put(s, s.repl[i])])

(* doreplace: the cursor is behind the match, or before it when going      *)
(* backwards; it ends behind the replacement.                              *)
Cut(e, c, n) == IF e.s.backwards THEN bdel(e.b, c, c + n) ELSE bdel(e.b, c - n, c)
Replacement(e, buf) == [e EXCEPT !.b = buf, !.s.addr = buf.at.cursor]
(* Faulty variant of Filled: the block's end does not stay behind.         *)
Filled_Slips(buf, s) == binsm(buf, buf.at.cursor, s, {"cursor"})
Filled(buf, s) == binsm(buf, buf.at.cursor, s, {"cursor", "markk", "sk"})
doreplace(e) == Replacement(e, Filled(Cut(e, e.b.at.cursor, Len(e.s.entire)), insert(e.s)))

(* fnext: to the next match, or through all of them without asking.        *)
Given_up(e, r) == [e EXCEPT !.b = IF e.s.addr >= 0 THEN pgoto(e.b, e.s.addr) ELSE e.b, !.r = r]
RECURSIVE fnext(_), Silent(_, _)
Sought(e) == IF e.r = "none" THEN [e EXCEPT !.s.repeat = -1]
             ELSE IF e.s.rest \/ e.s.repeat # -1 THEN Silent(e, restrict_to_block(e)) ELSE e
again(e) == Sought(search(e))
Silent(e, where) ==
  CASE where = "before" -> again(e)
    [] where = "past" -> Given_up(e, IF e.s.rest THEN "finished" ELSE "none")
    [] where = "within" ->
         fnext(IF e.s.rest \/ e.s.replace THEN doreplace(e) ELSE [e EXCEPT !.s.addr = e.b.at.cursor])
fnext(e) ==
  IF e.s.repeat = 0 THEN [e EXCEPT !.r = "finished"]
  ELSE again(IF e.s.repeat = -1 THEN e ELSE [e EXCEPT !.s.repeat = @ - 1])

visit(e) ==
  IF ~e.s.replace THEN e
  ELSE [e EXCEPT !.s.recs = Append(@, [addr |-> e.b.at.cursor, yn |-> FALSE, wrap_flag |-> e.s.wrap_flag])]
(* The question: the match is the marked block meanwhile.                  *)
Asking(e, c, n) ==
  [e EXCEPT !.s.flg = TRUE, !.s.addr = c, !.r = "asking",
            !.b.at.markb = IF e.s.backwards THEN c ELSE c - n,
            !.b.at.markk = IF e.s.backwards THEN c + n ELSE c]
RECURSIVE Arrived(_)
Come(e, where) ==
  CASE e.r \in {"finished", "none"} -> pfsave(e)
    [] e.r = "found" /\ where = "before" -> Arrived(fnext(e))
    [] e.r = "found" /\ where = "past" -> pfsave(Given_up(e, "none"))
    [] e.r = "found" /\ where = "within" ->
         IF e.s.replace THEN Asking(e, e.b.at.cursor, Len(e.s.entire))
         ELSE pfsave([e EXCEPT !.s.addr = e.b.at.cursor])
Arrived(e) == Come(e, restrict_to_block(e))
dopfnext(e) == Arrived(fnext(visit(e)))

(* goback: to where the search for the question before began.              *)
Back(e, r, buf) ==
  [e EXCEPT !.b = pgoto(buf, r.addr), !.s.recs = Front(@), !.s.wrap_flag = r.wrap_flag]
(* Faulty variant of goback: what was replaced there stays.                *)
goback_Stays(e) == IF e.s.recs = <<>> THEN e ELSE Back(e, Last(e.s.recs), e.b)
goback(e) ==
  IF e.s.recs = <<>> THEN e
  ELSE Back(e, Last(e.s.recs), IF Last(e.s.recs).yn THEN uundo(e.b) ELSE e.b)
Yes_(e) == [e EXCEPT !.s.recs[Len(e.s.recs)].yn = TRUE]
dopfrepl(c, e) ==
  CASE c = "other" -> pfsave(e)
    [] c = "l" -> pfsave(doreplace(Yes_(e)))
    [] c \in {"y", "n", "r", "b"} ->
         dopfnext(CASE c = "n" -> e
                    [] c = "y" -> doreplace(Yes_(e))
                    [] c = "r" -> [doreplace(e) EXCEPT !.s.rest = TRUE]
                    [] c = "b" -> goback(goback(e)))

-----------------------------------------------------------------------------
(* Commands                                                                *)
NoMark == [b |-> None, k |-> None]
Init ==
  \E sc \in Scenarios :
    \E t \in sc.texts, blk \in sc.blocks :
      \E c \in sc.starts \cap 0..Len(t) :
        /\ scenario = sc
        /\ blk.k <= Len(t)
        /\ b = [text |-> t, ops |-> <<>>, units |-> <<>>,
                at |-> [cursor |-> c, markb |-> blk.b, markk |-> blk.k, sb |-> None, sk |-> None, wrap |-> None]]
        /\ srch = None2 /\ isrch = None2 /\ lastisrch = None2
        /\ lastpat = <<>> /\ smode = FALSE /\ mode = "edit"
        /\ left = sc.commands /\ asked = <<>> /\ done = [name |-> "start"]

Question(e) ==
  [text |-> e.b.text, at |-> e.b.at.cursor, entire |-> e.s.entire, wrap_flag |-> e.s.wrap_flag,
   sb |-> e.b.at.sb, sk |-> e.b.at.sk]
(* What a command leaves: the search kept, or its question.                *)
Leaves(e, before, next) ==
  /\ b' = Ended(e.b)
  /\ srch' = e.s
  /\ mode' = IF e.r = "asking" THEN "asking" ELSE next
  /\ asked' = IF e.r = "asking" THEN Append(before, Question(e)) ELSE <<>>

Command ==
  /\ mode = "edit" /\ left > 0
  /\ left' = left - 1
  /\ smode' = FALSE
  /\ UNCHANGED <<scenario, isrch, lastisrch, lastpat>>

(* dofirst and its prompts: o is what was typed there.  Right after an     *)
(* incremental search nothing is asked and that search goes on.            *)
Begun(o) ==
  LET new == mksrch(o.pat, o.repl, o.ignore, o.backwards, o.repeat, o.replace)
  IN setmark(With([b EXCEPT !.at.wrap = b.at.cursor],
                  [new EXCEPT !.block_restrict = o.block, !.addr = b.at.cursor]))
Again(s) ==
  setmark(With([b EXCEPT !.at.wrap = IF @ = None THEN b.at.cursor ELSE @],
               [s EXCEPT !.addr = b.at.cursor, !.valid = FALSE,
                         !.wrap_flag = IF b.at.wrap = None THEN FALSE ELSE @]))
Resume(s) == Leaves(dopfnext(Again(s)), <<>>, "edit") /\ done' = [name |-> "next", s |-> s]
GoesOn == smode /\ srch # None2
pffirst ==
  /\ Command
  /\ \E o \in scenario.finds :
       \/ /\ ~GoesOn
          /\ Leaves(dopfnext(Begun(o)), <<>>, "edit")
          /\ done' = [name |-> "find", o |-> o]
       \/ /\ GoesOn
          /\ \E back, repl \in BOOLEAN :   \* ffirst, rfirst, qrepl
               ~(back /\ repl) /\ Resume([srch EXCEPT !.backwards = back, !.replace = repl])
pfnext ==
  /\ Command
  /\ srch # None2
  /\ Resume(srch)

Answer(c) ==
  /\ mode = "asking"
  /\ Leaves(dopfrepl(c, With(b, [srch EXCEPT !.addr = b.at.cursor])),
            IF c # "b" THEN asked ELSE IF Len(asked) >= 2 THEN Front(Front(asked)) ELSE <<>>, "edit")
  /\ done' = [name |-> c]
  /\ UNCHANGED <<scenario, isrch, lastisrch, lastpat, smode, left>>

(* What else a user does in between.                                       *)
Moves ==
  /\ Command
  /\ \E p \in scenario.starts \cap 0..Len(b.text) : p # b.at.cursor /\ b' = pgoto(b, p)
  /\ done' = [name |-> "moves"]
  /\ UNCHANGED <<srch, mode, asked>>
Types ==
  /\ Command
  /\ \E c \in scenario.chars : b' = Ended(binsm(b, b.at.cursor, <<c>>, {"cursor"}))
  /\ done' = [name |-> "types"]
  /\ UNCHANGED <<srch, mode, asked>>

-----------------------------------------------------------------------------
(* Incremental search                                                      *)
Chars(pat) == [i \in 1..Len(pat) |-> Chr(pat[i])]

(* The search of a key: in the kept record, or in a new one without the    *)
(* block.                                                                  *)
Typing(buf, pat, dir) ==
  With([buf EXCEPT !.at.wrap = IF @ = None THEN buf.at.cursor ELSE @],
       [(IF srch = None2 THEN mksrch(<<>>, <<>>, FALSE, dir, -1, FALSE) ELSE srch)
          EXCEPT !.addr = buf.at.cursor, !.pat = Chars(pat), !.backwards = dir,
                 !.wrap_flag = IF buf.at.wrap = None THEN FALSE ELSE @])
(* One record per key: where the cursor was, where the search began and,   *)
(* for the properties, in which direction it went.                         *)
Recorded(i, s, e, f) ==
  /\ Leaves(f, <<>>, "isrch")
  /\ isrch' = IF s = <<>> /\ f.r = "none" THEN i
              ELSE [i EXCEPT !.pat = @ \o s,
                             !.recs = Append(@, [what |-> Len(s), disp |-> b.at.cursor, start |-> e.b.at.cursor,
                                                 wrap_flag |-> e.s.wrap_flag, dir |-> i.dir])]
Run(i, s, e) == Recorded(i, s, e, dopfnext(e))
(* iappend: the longer pattern is searched from where the shorter was; a   *)
(* repetition (s empty) goes on from the match.                            *)
(* Faulty variant of From: the search always goes on from the match.       *)
From_Here(i, s) == b
From(i, s) == IF i.recs = <<>> \/ s = <<>> THEN b ELSE pgoto(b, Last(i.recs).start)
iappend(i, s) == Run(i, s, Typing(From(i, s), i.pat \o s, i.dir))
Repeated(i) ==
  IF i.recs = <<>> /\ lastpat = <<>>
  THEN isrch' = i /\ mode' = "isrch" /\ UNCHANGED <<b, srch, asked>>
  ELSE iappend(i, IF i.recs = <<>> THEN lastpat ELSE <<>>)

(* uisrch, ursrch: from nothing, or on with what has just ended (smode).   *)
uisrch(dir) ==
  /\ mode = "edit" /\ left > 0 /\ scenario.keys # {} /\ left' = left - 1
  /\ done' = [name |-> "isrch"]
  /\ lastisrch' = None2
  /\ \/ /\ smode /\ lastisrch # None2 /\ Len(lastisrch.recs) < scenario.typed
        /\ Repeated([lastisrch EXCEPT !.dir = dir])
        /\ UNCHANGED lastpat
     \/ /\ ~(smode /\ lastisrch # None2)
        /\ b' = IF srch = None2 THEN b ELSE rmsrch(b)
        /\ srch' = None2 /\ mode' = "isrch" /\ asked' = <<>>
        /\ lastpat' = IF lastisrch = None2 THEN lastpat ELSE lastisrch.pat
        /\ isrch' = [pat |-> <<>>, dir |-> dir, recs |-> <<>>]
  /\ UNCHANGED <<scenario, smode>>

(* itype: a character, a repetition, backspace, a key that ends it, ^C     *)
Key(name) ==
  /\ mode = "isrch"
  /\ done' = [name |-> name]
  /\ UNCHANGED <<scenario, lastpat, left>>
KeyChar ==
  /\ Key("char") /\ Len(isrch.recs) < scenario.typed
  /\ \E c \in scenario.keys : iappend(isrch, <<c>>)
  /\ UNCHANGED <<lastisrch, smode>>
KeyRepeat ==
  /\ Key("repeat") /\ Len(isrch.recs) < scenario.typed
  /\ \E dir \in BOOLEAN : Repeated([isrch EXCEPT !.dir = dir])
  /\ UNCHANGED <<lastisrch, smode>>
Unkeyed(i) == [i EXCEPT !.pat = SubSeq(@, 1, Len(@) - Last(i.recs).what), !.recs = Front(@)]
KeyBack ==
  /\ Key("back") /\ isrch.recs # <<>>
  /\ b' = pgoto(b, Last(isrch.recs).disp)
  /\ srch' = IF srch = None2 THEN srch ELSE [srch EXCEPT !.wrap_flag = Last(isrch.recs).wrap_flag]
  /\ isrch' = Unkeyed(isrch)
  /\ UNCHANGED <<mode, asked, lastisrch, smode>>
KeyDone ==
  /\ Key("done")
  /\ mode' = "edit" /\ smode' = TRUE /\ lastisrch' = isrch /\ isrch' = None2
  /\ UNCHANGED <<b, srch, asked>>
KeyAbort ==
  /\ Key("abort")
  /\ mode' = "edit" /\ smode' = FALSE /\ isrch' = None2
  /\ UNCHANGED <<b, srch, asked, lastisrch>>

Next ==
  \/ pffirst \/ pfnext \/ Moves \/ Types
  \/ \E c \in {"y", "n", "l", "r", "b", "other"} : Answer(c)
  \/ \E dir \in BOOLEAN : uisrch(dir)
  \/ KeyChar \/ KeyRepeat \/ KeyBack \/ KeyDone \/ KeyAbort

Spec == Init /\ [][Next]_vars

-----------------------------------------------------------------------------
(* What a search should find, told by Matches alone: at most n matches,    *)
(* one after the other from lo on, or from hi back.                        *)
EndOf(t, o, q) == Best(o.pat, Matches(o.pat, t, q, o.ignore))[Len(o.pat)]
Occurs(t, o, places) == {q \in places \cap 0..Len(t) : Matches(o.pat, t, q, o.ignore) # {}}
RECURSIVE Chain(_, _, _, _, _)
Chain(t, o, lo, hi, n) ==
  LET S == Occurs(t, o, lo..hi)
  IN IF S = {} \/ n = 0 THEN <<>>
     ELSE LET m == [a |-> Nearer(S, o.backwards), b |-> EndOf(t, o, Nearer(S, o.backwards))]
          IN <<m>> \o (IF o.backwards THEN Chain(t, o, lo, m.a - 1, n - 1) ELSE Chain(t, o, m.b, hi, n - 1))
Near(t, o, c, w, wrapped, n) ==
  IF o.backwards THEN Chain(t, o, IF wrapped THEN w ELSE 0, c - 1, n)
  ELSE Chain(t, o, c, IF wrapped THEN w - 1 ELSE Len(t), n)
Far(t, o, w, n) ==
  IF o.backwards THEN Chain(t, o, w, Len(t) - 1, n) ELSE Chain(t, o, 0, w - 1, n)
InBlock(ms, o, mb, mk) ==
  IF o.block_restrict /\ mb # None /\ mk > mb THEN SelectSeq(ms, LAMBDA m : m.a >= mb /\ m.b <= mk) ELSE ms
Occurrences(t, o, c, w, wrapped, mb, mk, n) ==
  InBlock(Near(t, o, c, w, wrapped, n)
            \o (IF scenario.wrap /\ ~wrapped THEN Far(t, o, w, n) ELSE <<>>), o, mb, mk)
Stop(o, m) == IF o.backwards THEN m.a ELSE m.b

(* The places lo..hi of a text with some of its matches replaced.          *)
ReplacedAt(t, o, m) ==
  LET c == Best(o.pat, Matches(o.pat, t, m.a, o.ignore))
      item == [i \in 1..Len(o.repl) |->
                 CASE o.repl[i].op = "lit" -> <<o.repl[i].c>>
                   [] o.repl[i].op = "entire" -> Span(t, m.a, m.b)
                   [] o.repl[i].op = "piece" -> PieceOf(o.pat, t, c, o.repl[i].k)]
  IN FlattenSeq(item)
Substituted(t, o, ms, lo, hi) ==
  LET text[q \in lo..hi] ==
        IF q = hi THEN <<>>
        ELSE IF \E i \in DOMAIN ms : ms[i].a = q
             THEN LET m == ms[CHOOSE i \in DOMAIN ms : ms[i].a = q] IN ReplacedAt(t, o, m) \o text[m.b]
             ELSE <<t[q + 1]>> \o text[q + 1]
  IN text[lo]

(* The state is of its type: every pointer is in the text or away.         *)
TypeOK ==
  /\ mode \in {"edit", "asking", "isrch"}
  /\ \A n \in DOMAIN b.at : b.at[n] \in {None} \cup 0..Len(b.text)
  /\ b.ops = <<>>
  /\ srch = None2 \/ (srch.repeat = -1 \/ mode = "asking")
  /\ (mode = "isrch") = (isrch # None2)

(* pmatch (regex.c) finds a match exactly where there is one, as far as    *)
(* the shortest \* and the longest \+ go, whatever its attempts in between *)
(* have left; and the pieces are those of that match, as far as no piece   *)
(* comes behind a \+ (see PiecesRight).                                    *)
Sound(s, t, p, all) ==
  LET m == Match(s.pat, t, p, s.ignore)
      M == Matches(s.pat, t, p, s.ignore)
  IN /\ m.ok = (M # {})
     /\ m.ok => LET c == Best(s.pat, M)
                IN /\ m.p = c[Len(s.pat)]
                   /\ \A n \in Pieces(s.pat) :
                        all \/ Undisturbed(s.pat, n) => m.pieces[n] = PieceOf(s.pat, t, c, n)
Examined == done.name = "find"
MatchesExact == Examined => \A p \in 0..Len(b.text) : Sound(srch, b.text, p, FALSE)

(* joe.1.in:727 "\0 - \9 These get replaced with the text which matched    *)
(* the Nth \*, \?, \+ .. in the search string": but the \+ goes on trying  *)
(* behind its last success, and what the attempt has stored stays.         *)
PiecesRight == Examined => \A p \in 0..Len(b.text) : Sound(srch, b.text, p, TRUE)

(* A search that does not replace unasked (ffirst, fnext; usearch.c) goes  *)
(* to the NNth match from the cursor in its direction, round the end of    *)
(* the file if wrap says so, inside the block if it is asked to; it stays  *)
(* where it is when there is none, and leaves text and block alone.        *)
Reaches(o, at, n, found) ==
  /\ Len(found) >= n => b'.at.cursor = Stop(o, found[n])
  /\ found = <<>> /\ ~o.block_restrict => b'.at.cursor = at.cursor
  /\ (found # <<>> /\ o.replace) = (mode' = "asking")
  /\ mode' = "edit" => b'.at.markb = b.at.markb /\ b'.at.markk = b.at.markk
  /\ b'.text = b.text
All(o, at) ==
  Occurrences(b.text, o, at.cursor, at.wrap, o.wrap_flag, at.sb, at.sk, Len(b.text) + 1)
GoesTo(e) == Reaches(e.s, e.b.at, IF e.s.repeat = -1 THEN 1 ELSE e.s.repeat, All(e.s, e.b.at))
FindsStep ==
  \/ done'.name \notin {"find", "next"}
  \/ done'.name = "find" /\ done'.o.replace /\ done'.o.repeat # -1
  \/ GoesTo(IF done'.name = "find" THEN Begun(done'.o) ELSE Again(done'.s))
FindsNearest == [][FindsStep]_vars

(* A replacement without questions (NNN, or answer R; usearch.c fnext)     *)
(* replaces exactly the matches the text had when it began, the first NNN  *)
(* or all of them, and the block it is restricted to holds its text with   *)
(* these replaced.                                                         *)
Replaces(o, at, ms) ==
  /\ b'.text = Substituted(b.text, o, ms, 0, Len(b.text))
  /\ mode' = "edit"
  /\ o.block_restrict /\ o.valid =>
       Span(b'.text, b'.at.markb, b'.at.markk) = Substituted(b.text, o, ms, at.sb, at.sk)
FirstOf(n, ms) == IF n = -1 \/ n >= Len(ms) THEN ms ELSE SubSeq(ms, 1, n)
ReplacesAll(e, first) == Replaces(e.s, e.b.at, first \o FirstOf(e.s.repeat, All(e.s, e.b.at)))
Current == [a |-> b.at.markb, b |-> b.at.markk]
ReplacesStep ==
  /\ done'.name = "find" /\ done'.o.replace /\ done'.o.repeat # -1 =>
       ReplacesAll(Begun(done'.o), <<>>)
  /\ done'.name = "r" => ReplacesAll(With(b, srch), <<Current>>)
ReplacesExact == [][ReplacesStep]_vars

(* Answer B (usearch.c goback) puts the question before again: the same    *)
(* text, the same match, the same block, wrapped or not.                   *)
StepsBackStep ==
  done'.name = "b" /\ Len(asked) >= 2 => mode' = "asking" /\ Last(asked') = asked[Len(asked) - 1]
StepsBack == [][StepsBackStep]_vars

(* An incremental search (uisrch.c) stands where a plain search for what   *)
(* is left of the typed pattern would stand, after any mixture of          *)
(* characters, repetitions and backspaces.                                 *)
Landed(found, from, o) == IF found = <<>> THEN from ELSE Stop(o, found[1])
Lands(o, from) == Landed(Near(b.text, o, from, from, FALSE, 1), from, o)
Replayed(acc, r, from) ==
  [n |-> acc.n + r.what, from |-> from,
   to |-> Lands(mksrch(Chars(SubSeq(isrch.pat, 1, acc.n + r.what)), <<>>, FALSE, r.dir, -1, FALSE), from)]
Replay ==   \* where the search that is typed began last and came to
  FoldLeft(LAMBDA acc, r : Replayed(acc, r, IF r.what = 0 THEN acc.to ELSE acc.from),
           [n |-> 0, from |-> isrch.recs[1].disp, to |-> isrch.recs[1].disp], isrch.recs)
StandsAt(at) == b.at.cursor = at.to /\ Len(isrch.pat) = at.n
IncrementalDirect == mode = "isrch" /\ isrch.recs # <<>> => StandsAt(Replay)
=============================================================================
