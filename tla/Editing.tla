------------------------------ MODULE Editing ------------------------------
(***************************************************************************)
(* uedit.c: moving by words, edges, brackets and lines, deleting, typing,  *)
(* returning, opening lines, book-marks, and the commands of ublock.c and  *)
(* uformat.c, each run the way execmd runs it.                             *)
(***************************************************************************)
EXTENDS Format

CONSTANTS
  Scenarios,  \* [t, o, marks, n]: a text, the options, where marks may be,
              \* and how many commands are run (bound)
  Keys,       \* characters to type
  Outputs,    \* what files and filters contain
  MaxLen      \* bound: longest text that is edited further

VARIABLES
  ed,         \* the edited text
  hung,       \* a command does not return
  did,        \* the command run last
  left        \* how many more commands are run

vars == <<ed, opt, hung, did, left>>

----------------------------------------------------------------------------
(* Where to: offsets in a text.                                            *)

OffLine == Spaces \union Puncts      \* not in a word
PrevWord(t, i) ==
  CASE Before(t, i) \in Letters -> SkipBack(t, i, Letters)
    [] Before(t, i) \in OffLine -> SkipBack(t, SkipBack(t, i, OffLine), Letters)
    [] OTHER -> i
NextWord(t, i) ==
  CASE brc(t, i) \in Letters -> SkipOn(t, i, Letters)
    [] brc(t, i) \in OffLine -> SkipOn(t, SkipOn(t, i, OffLine), Letters)
    [] OTHER -> i

uhomeTo(t, i) ==
  IF IF opt.indentfirst THEN opt.smarthome /\ piscol(t, i) > pisindent(t, i)
     ELSE opt.smarthome /\ pisbol(t, i)
  THEN pboi(t, i) ELSE p_goto_bol(t, i)

(* pisedge: 1 at the right edge of something, -1 at its left edge.         *)
EdgeOfBlank(t, i) ==
  CASE Before(t, i) \in Blanks -> 0
    [] Before(t, i) \notin Blanks /\ brc(t, i) = TAB -> 1
    [] OTHER -> IF brc(t, i + 1) = SP THEN 1 ELSE 0
EdgeOfText(t, i) ==
  CASE Before(t, i) = TAB -> -1
    [] Before(t, i) \notin Blanks -> 0
    [] OTHER -> IF Before(t, i - 1) = SP THEN -1 ELSE 0
pisedge(t, i) ==
  CASE pisbol(t, i) -> -1
    [] ~pisbol(t, i) /\ piseol(t, i) -> 1
    [] ~pisbol(t, i) /\ ~piseol(t, i) /\ pboi(t, i) = i -> -1
    [] OTHER -> IF brc(t, i) \in Blanks THEN EdgeOfBlank(t, i) ELSE EdgeOfText(t, i)

LeftEdges(t, i)  == {k \in 0 .. i - 1 : pisedge(t, k) = -1}
RightEdges(t, i) == {k \in i + 1 .. Len(t) : pisedge(t, k) = 1}

(* Matching delimiters: d counts how deep the place is.                    *)
Mate == "(" :> ")" @@ ")" :> "(" @@ "[" :> "]" @@ "]" :> "[" @@ "<" :> ">" @@ ">" :> "<"
Opening == {"(", "[", "<"}
Other(c) == IF c \in DOMAIN Mate THEN Mate[c] ELSE c
Forward(c, dir) == IF c \in DOMAIN Mate THEN c \in Opening ELSE dir = 1

(* Faulty variant of DeepEnough: the first mate is taken at any depth.     *)
DeepEnough_Any(d) == TRUE

DeepEnough(d) == d = 0
RECURSIVE MatchOn(_, _, _, _)
Opened(t, k, c, d) == MatchOn(t, k + 1, c, IF t[k + 1] = c THEN d + 1 ELSE d)
MatchOn(t, k, c, d) ==        \* k: what is read next
  CASE k = Len(t) -> NULL
    [] k < Len(t) /\ brc(t, k) = Other(c) /\ c \in Opening ->
         IF DeepEnough(d - 1) THEN k ELSE MatchOn(t, k + 1, c, d - 1)
    [] k < Len(t) /\ brc(t, k) = c /\ c \notin Opening ->
         IF d = 1 THEN k ELSE MatchOn(t, k + 1, c, 1)
    [] OTHER -> Opened(t, k, c, d)
RECURSIVE MatchBack(_, _, _, _)
MatchBack(t, k, c, d) ==
  CASE k = 0 -> NULL
    [] k > 0 /\ Before(t, k) = Other(c) ->
         IF DeepEnough(d) THEN k - 1 ELSE MatchBack(t, k - 1, c, d - 1)
    [] OTHER -> MatchBack(t, k - 1, c, IF Before(t, k) = c THEN d + 1 ELSE d)
MatchOf(t, i, c, dir) ==
  IF c = NoData THEN NULL
  ELSE IF Forward(c, dir) THEN MatchOn(t, i, c, 0) ELSE MatchBack(t, i, c, 0)
utomatch_i(t, i, dir) == MatchOf(t, i, brc(t, i), dir)

CharOn(t, i, c)   == {k \in i + 1 .. Len(t) : t[k] = c}
CharBack(t, i, c) == {k \in 0 .. i - 1 : t[k + 1] = c}

----------------------------------------------------------------------------
(* Moving.                                                                 *)

Here(e)   == e.p["cursor"]
To(e, i)  == IF i = NULL THEN e ELSE pset(e, "cursor", i)
KeepCol(e, i) == ToCol(pset(e, "cursor", i), "cursor", e.x["cursor"])

u_goto_left(e) ==
  CASE opt.picture /\ e.x["cursor"] > 0 ->
         [ToCol(e, "cursor", e.x["cursor"] - 1) EXCEPT !.x["cursor"] = @ - 1]
    [] opt.picture /\ e.x["cursor"] = 0 -> e
    [] ~opt.picture /\ e.x["cursor"] # Col(e, "cursor") -> FixXcol(e)
    [] OTHER -> FixXcol(To(e, Bkwd(e.t, Here(e))))
u_goto_right(e) ==
  IF opt.picture
  THEN [ToCol(e, "cursor", e.x["cursor"] + 1) EXCEPT !.x["cursor"] = @ + 1]
  ELSE FixXcol(To(e, Fwrd(e.t, Here(e))))

uuparw(e) == IF OnFirst(e.t, Here(e)) THEN e ELSE KeepCol(e, pprevl(e.t, Here(e)))
udnarw(e) ==
  CASE ~OnLast(e.t, Here(e)) -> KeepCol(e, pnextl(e.t, Here(e)))
    [] OnLast(e.t, Here(e)) /\ opt.picture ->
         KeepCol(Insert(e, Len(e.t), <<NL>>), Len(e.t) + 1)
    [] OTHER -> e

upedge(e) == IF Here(e) = 0 THEN e ELSE To(e, Max(LeftEdges(e.t, Here(e))))

(* There is no right edge on an empty line; unedge looks for one for ever  *)
(* when there is none in what is left of the file.                         *)
EdgeLess(e) == Here(e) < Len(e.t) /\ RightEdges(e.t, Here(e)) = {}
unedge(e)   == IF Here(e) = Len(e.t) THEN e ELSE To(e, Min(RightEdges(e.t, Here(e))))

doline(e, n) == FixXcol(To(e, pline(e.t, n - 1)))
docol(e, n)  == FixXcol(ToCol(e, "cursor", n - 1))
dobyte(e, n) == FixXcol(To(e, Min({n, Len(e.t)})))
dofwrdc(e, c) ==
  IF CharOn(e.t, Here(e), c) = {} THEN e ELSE FixXcol(To(e, Min(CharOn(e.t, Here(e), c))))
dobkwdc(e, c) ==
  IF CharBack(e.t, Here(e), c) = {} THEN e ELSE FixXcol(To(e, Max(CharBack(e.t, Here(e), c))))
dosetmark(e) == pset(e, "book", Here(e))
dogomark(e)  == IF IsSet(e, "book") THEN FixXcol(To(e, e.p["book"])) ELSE e

----------------------------------------------------------------------------
(* Deleting.                                                               *)

udelch(e) == bdel(e, Here(e), Fwrd(e.t, Here(e)))

RECURSIVE BackTo(_, _, _)      \* columns of blanks, not over a line's beginning
BackTo(t, i, cw) ==
  IF pisbol(t, i) \/ cw >= IndentWidth THEN i
  ELSE BackTo(t, i - 1, cw + (IF t[i] = TAB THEN Tab ELSE 1))
BackOne(e, i) ==
  IF ~opt.overtype \/ brc(e.t, i - 1) = TAB \/ pisbol(e.t, i) \/ piseol(e.t, i)
  THEN bdel(e, i - 1, i) ELSE To(e, i - 1)
BackFrom(e, i, col, indent) ==
  CASE col = indent /\ col % IndentWidth = 0 /\ col # 0 /\ opt.smartbacks ->
         pfill(bdel(e, p_goto_bol(e.t, i), i), "cursor", col - IndentWidth, opt.indentc)
    [] col < indent /\ ~pisbol(e.t, i) /\ opt.smartbacks ->
         bdel(e, BackTo(e.t, i - 1, IF Before(e.t, i) = TAB THEN Tab ELSE 1), i)
    [] OTHER -> BackOne(e, i)
ubacks(e) ==
  IF Here(e) = 0 THEN e
  ELSE BackFrom(e, Here(e), Col(e, "cursor"), pisindent(e.t, Here(e)))

WordOrOne(e, i) ==
  CASE brc(e.t, i) \in Letters -> SkipOn(e.t, i, Letters)
    [] brc(e.t, i) \in Spaces -> SkipOn(e.t, i, Spaces)
    [] OTHER -> Fwrd(e.t, i)
u_word_delete(e) == bdel(e, Here(e), WordOrOne(e, Here(e)))
BackWord(e, i) ==
  CASE Before(e.t, i) \in Letters -> SkipBack(e.t, i, Letters)
    [] Before(e.t, i) \in Spaces -> SkipBack(e.t, i, Spaces)
    [] OTHER -> Bkwd(e.t, i)
ubackw(e) == bdel(e, BackWord(e, Here(e)), Here(e))

udelel(e) ==
  IF piseol(e.t, Here(e)) THEN udelch(e) ELSE bdel(e, Here(e), p_goto_eol(e.t, Here(e)))
udelbl(e) ==
  IF pisbol(e.t, Here(e)) THEN ubacks(e) ELSE bdel(e, p_goto_bol(e.t, Here(e)), Here(e))

----------------------------------------------------------------------------
(* Typing.                                                                 *)

Add(e, s) == Type(e, "cursor", s)

(* The line above, at most ten up, that is not blank. *)
RECURSIVE find_indent(_, _, _)
find_indent(t, i, n) ==
  IF n = 0 \/ OnFirst(t, i) THEN NULL
  ELSE IF pisblank(t, LineUp(t, i)) THEN find_indent(t, LineUp(t, i), n - 1)
  ELSE LineUp(t, i)

Leading(t, i) == Cut(t, p_goto_bol(t, i), pboi(t, i))
LikeAbove(e, u) ==      \* the line is to be indented like line u
  /\ u # NULL
  /\ pisindent(e.t, Here(e)) = Col(e, "cursor")
  /\ pisindent(e.t, u) > pisindent(e.t, Here(e))
SmartTab(e, u) ==
  IF LikeAbove(e, u)
  THEN Add(bdel(e, p_goto_bol(e.t, Here(e)), Here(e)), Leading(e.t, u))
  ELSE Add(e, Rep(opt.istep, opt.indentc))

(* A TAB in overtype mode moves to the next tab stop. *)
TabStop(col) == col + Tab - (col % Tab)
OverTab(e, col) ==
  LET m == ToCol(e, "cursor", col)
  IN [IF ~opt.picture /\ piseol(m.t, Here(m))
      THEN pfill(m, "cursor", col, IF opt.spaces THEN SP ELSE TAB) ELSE m
        EXCEPT !.x["cursor"] = col]

Padded(e) ==
  IF opt.picture THEN pfill(e, "cursor", e.x["cursor"], SP) ELSE e
Margin(e) ==
  IF pisblank(e.t, Here(e)) THEN pfill(e, "cursor", opt.lmargin, SP) ELSE e
Overwrite(e, k) ==
  IF opt.overtype /\ ~piseol(e.t, Here(e)) /\ k # TAB THEN udelch(e) ELSE e
WrapTyped(e, k) ==
  IF opt.wordwrap /\ Col(e, "cursor") > opt.rmargin /\ k \notin Blanks
  THEN wrapword(e, "cursor", opt.lmargin, Rep(opt.lmargin, SP)) ELSE e
Typed(e, k) == FixXcol(WrapTyped(Overwrite(Add(Margin(Padded(e)), <<k>>), k), k))

RECURSIVE TypedSpaces(_, _)
TypedSpaces(e, n) == IF n = 0 THEN e ELSE TypedSpaces(Typed(e, SP), n - 1)
ColHere(e) == IF opt.picture THEN e.x["cursor"] ELSE Col(e, "cursor")
TypedTab(e) ==
  CASE opt.overtype /\ ~piseol(e.t, Here(e)) -> OverTab(e, TabStop(e.x["cursor"]))
    [] ~(opt.overtype /\ ~piseol(e.t, Here(e)))
         /\ opt.smartbacks /\ opt.autoindent /\ pisindent(e.t, Here(e)) >= Col(e, "cursor") ->
         FixXcol(SmartTab(e, find_indent(e.t, Here(e), 10)))
    [] OTHER ->
         IF opt.spaces THEN TypedSpaces(e, TabStop(ColHere(e)) - ColHere(e))
         ELSE Typed(e, TAB)
utypebw_raw(e, k) == IF k = TAB THEN TypedTab(e) ELSE Typed(e, k)

rtntw(e) ==
  FixXcol(
    IF opt.overtype
    THEN To(IF OnLast(e.t, Here(e)) THEN Insert(e, Len(e.t), <<NL>>) ELSE e,
            p_goto_eol(e.t, Here(e)) + 1)
    ELSE Add(e, IF opt.autoindent /\ brc(e.t, Here(e)) \notin Blanks
                THEN <<NL>> \o Cut(e.t, p_goto_bol(e.t, Here(e)),
                                   Min({pboi(e.t, Here(e)), Here(e)}))
                ELSE <<NL>>))

----------------------------------------------------------------------------
(* execmd: the flags of cmd.c's table, by command.                         *)

Checks == {"backs", "backw", "delch", "delw", "prevword"}            \* ECHKXCOL
Fixes  == Checks \union                                              \* EFIXXCOL
  {"blkcpy", "blkdel", "blkmove", "bof", "bol", "bop", "center", "delbol", "dellin", "eof",
   "eol", "eop", "fmtblk", "format", "home", "insc", "lindent", "nedge", "nextword", "open",
   "pedge", "picokill", "rindent", "rvmatch", "swap", "tomarkb", "tomarkbk", "tomarkk",
   "tomatch"}
Changes ==                                                           \* EMOD
  {"backs", "backw", "blkcpy", "blkdel", "blkmove", "center", "delbol", "delch", "deleol",
   "dellin", "delw", "filt", "fmtblk", "format", "insc", "insf", "lindent", "lower", "open",
   "picokill", "rindent", "rtn", "type", "upper"}
OnBlock ==                                                           \* EBLOCK
  {"blkcpy", "blkdel", "blkmove", "blksave", "filt", "fmtblk", "lindent", "lower", "rindent",
   "tomarkb", "tomarkbk", "tomarkk", "upper"}

Select(e, name) == IF name \in OnBlock /\ e.marking THEN utoggle_marking(e) ELSE e
S(name) == Select(ed, name)      \* what the command is run on

(* r: what the command makes of S(name). *)
Ran(name, r) ==
  IF name \in Checks /\ ed.x["cursor"] # Col(ed, "cursor") THEN ed
  ELSE IF name \in Changes /\ opt.rdonly THEN S(name) ELSE r

(* Faulty variant of Fixed: delbol, which moves the cursor, is not flagged.*)
Fixed_Few(name, e) == IF name \in Fixes \ {"delbol"} THEN FixXcol(e) ELSE e
Fixed(name, e) == IF name \in Fixes THEN FixXcol(e) ELSE e
Run(name, r) ==
  /\ ~hung /\ left > 0 /\ Len(ed.t) <= MaxLen
  /\ ed' = Fixed(name, Ran(name, r))
  /\ did' = name
  /\ left' = left - 1
  /\ UNCHANGED <<opt, hung>>

Nil == [n \in Pointers |-> IF n \in {"p", "q"} THEN 0 ELSE NULL]
ColAt(t, i) == IF i = NULL THEN 0 ELSE piscol(t, i)

(* The cursor and the marks may have been set anywhere.                    *)
Init ==
  /\ \E s \in Scenarios :
       /\ opt = s.o /\ left = s.n
       /\ \E i \in 0 .. Len(s.t), b, k \in s.marks :
            ed = [t |-> s.t, p |-> ("cursor" :> i @@ "markb" :> b @@ "markk" :> k @@ Nil),
                  x |-> "cursor" :> piscol(s.t, i) @@ "markb" :> ColAt(s.t, b)
                          @@ "markk" :> ColAt(s.t, k),
                  marking |-> FALSE, within |-> FALSE]
  /\ hung = FALSE
  /\ did = "none"

Bol      == Run("bol", To(ed, p_goto_bol(ed.t, Here(ed))))
Eol      == Run("eol", To(ed, p_goto_eol(ed.t, Here(ed))))
Home     == Run("home", To(ed, uhomeTo(ed.t, Here(ed))))
Bof      == Run("bof", To(ed, 0))
Eof      == Run("eof", To(ed, Len(ed.t)))
Left     == Run("ltarw", u_goto_left(ed))
Right    == Run("rtarw", u_goto_right(ed))
Up       == Run("uparw", uuparw(ed))
Down     == Run("dnarw", udnarw(ed))
Prevword == Run("prevword", To(ed, PrevWord(ed.t, Here(ed))))
Nextword == Run("nextword", To(ed, NextWord(ed.t, Here(ed))))
Pedge    == Run("pedge", upedge(ed))
Nedge    == ~EdgeLess(ed) /\ Run("nedge", unedge(ed))
Tomatch  == Run("tomatch", To(ed, utomatch_i(ed.t, Here(ed), 1)))
Rvmatch  == Run("rvmatch", To(ed, utomatch_i(ed.t, Here(ed), -1)))
Bop      == Run("bop", ubop(ed))
Eop      == Run("eop", ueop(ed))
Goto     == \E n \in 1 .. 3 : \/ Run("line", doline(ed, n))
                              \/ Run("col", docol(ed, n))
                              \/ Run("byte", dobyte(ed, n))
Find     == \E c \in Keys : Run("fwrdc", dofwrdc(ed, c)) \/ Run("bkwdc", dobkwdc(ed, c))
Setmark  == Run("setmark", dosetmark(ed))
Gomark   == Run("gomark", dogomark(ed))

(* unedge runs past the end of the file. *)
NedgeHangs ==
  /\ ~hung /\ left > 0 /\ EdgeLess(ed)
  /\ hung' = TRUE
  /\ did' = "nedge"
  /\ UNCHANGED <<ed, opt, left>>

Move == Bol \/ Eol \/ Home \/ Bof \/ Eof \/ Left \/ Right \/ Up \/ Down \/ Prevword \/ Nextword
        \/ Pedge \/ Nedge \/ NedgeHangs \/ Tomatch \/ Rvmatch \/ Bop \/ Eop \/ Goto \/ Find
        \/ Setmark \/ Gomark

KeyIn   == \E k \in Keys : Run("type", utypebw_raw(ed, k))
Rtn     == Run("rtn", rtntw(ed))
Open    == Run("open", binss(ed, "cursor", <<NL>>))
Insc    == Run("insc", binss(ed, "cursor", <<SP>>))
Delch   == Run("delch", udelch(ed))
Backs   == Run("backs", ubacks(ed))
Delw    == Run("delw", u_word_delete(ed))
Backw   == Run("backw", ubackw(ed))
Deleol  == Run("deleol", udelel(ed))
Delbol  == Run("delbol", udelbl(ed))
Dellin  == Run("dellin", udelln(ed))
Center  == Run("center", ucenter(ed))
Reform  == Run("format", uformat(ed))
Fmtblk  == Run("fmtblk", ufmtblk(S("fmtblk")))

Change == KeyIn \/ Rtn \/ Open \/ Insc \/ Delch \/ Backs \/ Delw \/ Backw \/ Deleol \/ Delbol
          \/ Dellin \/ Center \/ Reform \/ Fmtblk

Markb    == Run("markb", umarkb(ed))
Markk    == Run("markk", umarkk(ed))
Markl    == Run("markl", umarkl(ed))
Nmark    == Run("nmark", unmark(ed))
Drop     == Run("drop", udrop(ed))
Begin    == Run("begin_marking", ubegin_marking(ed))
Toggle   == Run("toggle_marking", utoggle_marking(ed))
Uselect  == Run("select", uselect(ed))
Swap     == Run("swap", uswap(ed))
Push     == Run("psh", upsh(ed))
Pop      == (IsSet(ed, "pushb") \/ IsSet(ed, "pushk")) /\ Run("pop", upop(ed))
Tomarkb  == Run("tomarkb", ToMark(S("tomarkb"), "markb"))
Tomarkk  == Run("tomarkk", ToMark(S("tomarkk"), "markk"))
Tomarkbk == Run("tomarkbk", utomarkbk(S("tomarkbk")))

Mark == Markb \/ Markk \/ Markl \/ Nmark \/ Drop \/ Begin \/ Toggle \/ Uselect \/ Swap \/ Push
        \/ Pop \/ Tomarkb \/ Tomarkk \/ Tomarkbk

Blkdel   == Run("blkdel", ublkdel(S("blkdel")))
Blkmove  == Run("blkmove", ublkmove(S("blkmove")))
Blkcpy   == Run("blkcpy", ublkcpy(S("blkcpy")))
Picokill == Run("picokill", upicokill(ed))
Rindent  == Run("rindent", urindent(S("rindent")))
Lindent  == Run("lindent", ulindent(S("lindent")))
Lower    == Run("lower", ulower(S("lower")))
Upper    == Run("upper", uupper(S("upper")))
Filt     == \E s \in Outputs : Run("filt", ufilt(S("filt"), s))
Blksave  == markv(S("blksave")) /\ Run("blksave", Lit(S("blksave")))

(* The file to be inserted may be one a block was written to.              *)
Files    == Outputs \union (IF markv(ed) THEN {dowrite(ed)} ELSE {})
Insf     == \E s \in Files : Run("insf", doinsf(ed, s))

OnMarked == Blkdel \/ Blkmove \/ Blkcpy \/ Picokill \/ Rindent \/ Lindent \/ Lower \/ Upper
            \/ Filt \/ Blksave \/ Insf

Next == Move \/ Change \/ Mark \/ OnMarked
Spec == Init /\ [][Next]_vars

----------------------------------------------------------------------------
(* What should hold.                                                       *)

(* tomatch goes to a delimiter from which it comes back: the two scans of  *)
(* utomatch, which count depths differently, agree.                        *)
MatchReturns ==
  \A i \in 0 .. Len(ed.t) - 1 : \A j \in {utomatch_i(ed.t, i, 1)} :
    brc(ed.t, i) \in DOMAIN Mate /\ j # NULL => utomatch_i(ed.t, j, 1) = i

(* Formatting a paragraph or a block moves words between lines and loses   *)
(* none, and neither uformat nor the word wrap of typing loses the place   *)
(* of the cursor among the words.  (uformat does when the cursor is on the *)
(* empty line behind the last newline, ufmtblk when it is elsewhere.)      *)
Words(t)  == SelectSeq(t, LAMBDA c : c \in Letters)
Behind(e) == Words(Cut(e.t, 0, Here(e)))
AtEnd(e)  == Here(e) = Len(e.t) /\ pisbol(e.t, Here(e))
WordsKept ==
  [][/\ did' \in {"format", "fmtblk"} => Words(ed'.t) = Words(ed.t)
     /\ did' = "format" /\ ~AtEnd(ed) => Behind(ed') = Behind(ed)
     /\ did' = "type" /\ ~opt.overtype =>
          Words(Cut(ed'.t, Here(ed'), Len(ed'.t))) = Words(Cut(ed.t, Here(ed), Len(ed.t)))]_vars

(* After uformat a line reaches beyond the right margin only if the line   *)
(* was there before, outside the paragraph, or if it cannot be broken:     *)
(* wrapword breaks no line at a blank up to the indentation of the second  *)
(* line of the paragraph, or up to the left margin.                        *)
LinesOf(t) == {LineAt(t, i) : i \in {k \in 0 .. Len(t) : pisbol(t, k)}}
NewIndent(e) ==
  LET i == pbop(e, Here(e))
  IN Max({nindent(e.t, Model(e.t, i, peop(e, i))), opt.lmargin})
Breakable(s, indent) == \E k \in 0 .. Len(s) - 1 : brc(s, k) \in Blanks /\ piscol(s, k) > indent
FormatFits ==
  [][did' = "format" =>
       \A s \in LinesOf(ed'.t) \ LinesOf(ed.t) :
         piscol(s, Len(s)) <= opt.rmargin \/ ~Breakable(s, NewIndent(ed))]_vars
FormatSound == WordsKept /\ FormatFits

(* blkmove of a run: the marks are around the same text as before, and     *)
(* what is outside of them is the text without the block.                  *)
InBlock(e) == Cut(e.t, e.p["markb"], e.p["markk"])
Without(e) == Cut(e.t, 0, e.p["markb"]) \o Cut(e.t, e.p["markk"], Len(e.t))
SameBlock(d, e) ==
  IsSet(d, "markb") => InBlock(d) = InBlock(e) /\ Without(d) = Without(e)
BlockMoved ==
  [][did' = "blkmove" /\ ~opt.square /\ markv(Swapped(S("blkmove"))) =>
       SameBlock(ed', Swapped(S("blkmove")))]_vars

(* Deleting, filtering and changing the letter case of a block that is not *)
(* a rectangle leave alone what is before and behind it.                   *)
Rest(e) == Len(e.t) - e.p["markk"]
SameOutside(d, e) ==
  /\ Cut(d.t, 0, e.p["markb"]) = Cut(e.t, 0, e.p["markb"])
  /\ Cut(d.t, Len(d.t) - Rest(e), Len(d.t)) = Cut(e.t, e.p["markk"], Len(e.t))
OutsideKept ==
  [][/\ did' \in {"blkdel", "filt", "lower", "upper"}
     /\ ~opt.square /\ markv(Swapped(S("blkdel")))
     => SameOutside(ed', Swapped(S("blkdel")))]_vars

(* lindent undoes rindent on a block of whole lines, but for the kind of   *)
(* the blanks: rindent writes the whole indentation anew with indentc (or  *)
(* with the blanks that pfill adds to come to a column), and what spaces   *)
(* and tabs it had before is not kept.  Every line is what it was, and     *)
(* begins in the column it began in.                                       *)
Layout(t) ==
  {<<Line(t, i), pisindent(t, i), Cut(t, pboi(t, i), p_goto_eol(t, i))>> :
     i \in {k \in 0 .. Len(t) : pisbol(t, k)}}
IndentUndone ==
  [][/\ did' = "rindent" /\ ~opt.square /\ opt.indentc \in Blanks /\ ~NoRun(S("rindent"))
     /\ pisbol(S("rindent").t, S("rindent").p["markk"])
     => Layout(ulindent(ed').t) = Layout(ed.t)]_vars
BlockKept == BlockMoved /\ OutsideKept /\ IndentUndone

(* blkmove and blkcpy of a rectangle without tabs: the rectangle between   *)
(* the new marks holds the rows of the old one, and unless it overtypes,   *)
(* moving it loses no word.                                                *)
RectangleKept ==
  [][did' \in {"blkmove", "blkcpy"} /\ opt.square /\ markv(ed) /\ TAB \notin Range(ed.t) =>
       /\ Rect(ed') = Rect(ed)
       /\ did' = "blkmove" /\ ~opt.overtype =>
            \A c \in Letters : Len(SelectSeq(ed'.t, LAMBDA d : d = c))
                                 = Len(SelectSeq(ed.t, LAMBDA d : d = c))]_vars

(* What moves, copies, deletes or indents a block loses none of the text.  *)
BlocksKept == BlockKept /\ RectangleKept

(* Unless rectangles or picture mode are on, the column that a vertical    *)
(* movement aims for is the one of the cursor, except after a vertical     *)
(* movement: the flags of cmd.c's table fix it where the command does not. *)
XcolKnown ==
  [][/\ ~opt.square /\ ~opt.picture
     /\ ed.x["cursor"] = Col(ed, "cursor") /\ ed'.x["cursor"] # Col(ed', "cursor")
     => did' \in {"uparw", "dnarw"}]_vars
=============================================================================
