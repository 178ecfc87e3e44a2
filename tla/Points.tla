------------------------------- MODULE Points -------------------------------
(***************************************************************************)
(* How b.c moves a pointer through the segments of GapBuffer's chain: by   *)
(* bytes, characters, lines and columns, and to a string (Boyer-Moore).    *)
(* Each operator is one function of b.c, from buffer and pointer to        *)
(* pointer; a loop is a recursive operator over what the loop changes.     *)
(* At the end of the file pfwrd, pbkwd, pnextl and pprevl return NULL and  *)
(* leave the pointer there; only what they leave is modelled.              *)
(***************************************************************************)
EXTENDS GapBuffer

CONSTANTS
  TAB,      \* the byte whose width depends on the column
  Tab,      \* distance of tab stops, b->o.tab
  Patterns, \* strings to look for
  MaxGoal,  \* largest goal column and line to ask for
  Entries   \* values an entry of the search table can have: 256

ASSUME PatternsAssumption == \A s \in Patterns : Len(s) > 0
ASSUME TabAssumption == Tab \in Nat \ {0} /\ TAB \notin {NL, CR}

----------------------------------------------------------------------------
(* Characters.  In a byte charmap a character is a byte.                   *)

Width(col, c) == IF c = TAB THEN Tab - (col % Tab) ELSE 1

Counted(p, x) ==      \* x: a byte read from p
  IF x[2] = NO_MORE_DATA \/ ~p.valcol THEN x
  ELSE <<[x[1] EXCEPT !.valcol = TRUE,
                      !.col = IF x[2] = NL THEN 0 ELSE p.col + Width(p.col, x[2])], x[2]>>
pgetc(b, p) == Counted(p, pgetb(b, p))

prgetc(b, p) == prgetb(b, p)

piseol(b, p) ==
  brc(b, p) \in {NO_MORE_DATA, NL} \/ (b.crlf /\ brc(b, p) = CR /\ brc(b, Step(b, p)) = NL)

----------------------------------------------------------------------------
(* pfwrd and pbkwd: whole segments are stepped over by their counts.       *)

(* p, at the start of a segment, gets over it without a look at its bytes. *)
Over(b, p) == [p EXCEPT !.byte = @ + GSIZE(b, p.hdr), !.line = @ + b.seg[p.hdr].n]
BackOver(b, p) ==
  IF p.ofst # 0 THEN [p EXCEPT !.byte = @ - p.ofst, !.line = @ - b.seg[p.hdr].n] ELSE p

(* Skipping gives <<pointer, how far it still is>>, 0 at the end.          *)
RECURSIVE SkipOn(_, _, _)
SkippedOn(b, p, n) == IF n > GSIZE(b, p.hdr) THEN SkipOn(b, p, n) ELSE <<p, n>>
SkipOn(b, p, n) ==
  LET q == IF p.ofst = 0 THEN Over(b, p) ELSE p
  IN IF p.hdr = b.pt["eof"].hdr THEN <<pnext(b, q), 0>>
     ELSE SkippedOn(b, pnext(b, q), IF p.ofst = 0 THEN n - GSIZE(b, p.hdr) ELSE n)

RECURSIVE FwrdLoop(_, _, _)
FwrdByte(b, s) ==
  IF s[2] = 0 THEN s[1]
  ELSE FwrdLoop(b, [Bump(s[1]) EXCEPT !.line = IF GCHAR(b, s[1]) = NL THEN @ + 1 ELSE @],
                s[2] - 1)
FwrdLoop(b, p, n) ==
  IF n = 0 THEN Settle(b, p) ELSE FwrdByte(b, IF piseof(b, p) THEN SkipOn(b, p, n) ELSE <<p, n>>)
pfwrd(b, p, n) == IF n = 0 THEN p ELSE FwrdLoop(b, Stale(p), n)

RECURSIVE SkipBack(_, _, _)
SkippedBack(b, p, n) == IF n > GSIZE(b, p.hdr) THEN SkipBack(b, p, n) ELSE <<p, n>>
SkipBack(b, p, n) ==
  IF p.hdr = b.pt["bof"].hdr THEN <<pprev(b, BackOver(b, p)), 0>>
  ELSE SkippedBack(b, pprev(b, BackOver(b, p)), n - p.ofst)

RECURSIVE BkwdLoop(_, _, _)
BkwdByte(b, s) ==
  IF s[2] = 0 THEN s[1] ELSE BkwdLoop(b, Unread(b, OneBack(s[1]))[1], s[2] - 1)
BkwdLoop(b, p, n) ==
  IF n = 0 THEN p ELSE BkwdByte(b, IF p.ofst = 0 THEN SkipBack(b, p, n) ELSE <<p, n>>)
pbkwd(b, p, n) == IF n = 0 THEN p ELSE BkwdLoop(b, Stale(p), n)

pgoto(b, p, loc) ==
  IF loc > p.byte THEN pfwrd(b, p, loc - p.byte) ELSE pbkwd(b, p, p.byte - loc)

----------------------------------------------------------------------------
(* Lines: segments without a newline are stepped over.                     *)

RECURSIVE LineOn(_, _)
LineHere(b, p) == IF b.seg[p.hdr].n = 0 THEN LineOn(b, p) ELSE <<p, TRUE>>
LineOn(b, p) ==      \* <<pointer, found a segment with a newline>>
  LET q == [p EXCEPT !.byte = @ + GSIZE(b, p.hdr) - p.ofst]
  IN IF p.hdr = b.pt["eof"].hdr THEN <<pnext(b, q), FALSE>> ELSE LineHere(b, pnext(b, q))

RECURSIVE pnextl(_, _)
NextlByte(b, s) ==
  IF ~s[2] THEN s[1]
  ELSE IF GCHAR(b, s[1]) = NL THEN Settle(b, NewLine(Bump(s[1]))) ELSE pnextl(b, Bump(s[1]))
pnextl(b, p) == NextlByte(b, IF piseof(b, p) THEN LineOn(b, p) ELSE <<p, TRUE>>)

RECURSIVE LineBack(_, _)
LineThere(b, p) == IF b.seg[p.hdr].n = 0 THEN LineBack(b, p) ELSE <<p, TRUE>>
LineBack(b, p) ==
  LET q == [p EXCEPT !.byte = @ - p.ofst]
  IN IF p.hdr = b.pt["bof"].hdr THEN <<pprev(b, q), FALSE>> ELSE LineThere(b, pprev(b, q))

RECURSIVE ToLineEnd(_, _)
EndOrOn(b, x)  == IF x[2] = NL THEN x ELSE ToLineEnd(b, x[1])
PrevlByte(b, s) ==
  IF s[2] THEN EndOrOn(b, Unread(b, OneBack(s[1]))) ELSE <<s[1], NO_MORE_DATA>>
ToLineEnd(b, p) ==    \* <<pointer, the newline it went back over>>
  PrevlByte(b, IF p.ofst = 0 THEN LineBack(b, p) ELSE <<p, TRUE>>)

(* To the newline, in -crlf to the return before it, as ToLineEnd.         *)
Pprevl(b, p)  == BehindNl(b, ToLineEnd(b, Stale(p)))
pprevl(b, p)  == Pprevl(b, p)[1]

BehindEnd(b, x) == IF x[2] = NL THEN pgetb(b, x[1])[1] ELSE x[1]
p_goto_bol(b, p) == [BehindEnd(b, Pprevl(b, p)) EXCEPT !.col = 0, !.valcol = TRUE]

(* Without -crlf the loop is b.c's own copy of pgetc; it counts a column   *)
(* that is not valid too, which nobody reads.                              *)
RECURSIVE p_goto_eol(_, _)
p_goto_eol(b, p) ==
  IF b.crlf THEN IF piseol(b, p) THEN p ELSE p_goto_eol(b, pgetc(b, p)[1])
  ELSE IF piseof(b, p) \/ GCHAR(b, p) = NL THEN p
  ELSE p_goto_eol(b, [Step(b, p) EXCEPT
                        !.col = IF p.valcol THEN @ + Width(@, GCHAR(b, p)) ELSE 0])

AsAt(b, n) == [b.pt[n] EXCEPT !.ptr = b.pt[n].hdr]   \* pset(p, n)
Apart(i, j) == IF i > j THEN i - j ELSE j - i

RECURSIVE DownTo(_, _, _)
DownTo(b, p, line) == IF line > p.line THEN DownTo(b, pnextl(b, p), line) ELSE p
RECURSIVE UpTo(_, _, _)
UpTo(b, p, line) == IF line < p.line THEN UpTo(b, pprevl(b, p), line) ELSE p

Nearer(b, p, n, line) ==
  IF Apart(b.pt[n].line, line) < Apart(p.line, line) THEN AsAt(b, n) ELSE p
LineFrom(b, p, line) ==
  IF line > p.line THEN DownTo(b, p, line) ELSE p_goto_bol(b, UpTo(b, p, line))
pline(b, p, line) ==
  IF line > b.pt["eof"].line THEN AsAt(b, "eof")
  ELSE LineFrom(b, Nearer(b, Nearer(b, p, "bof", line), "eof", line), line)

----------------------------------------------------------------------------
(* Columns.                                                                *)

RECURSIVE ColLoop(_, _, _)
ColLoop(b, p, pos) == IF p.byte < pos THEN ColLoop(b, pgetc(b, p)[1], pos) ELSE p
pfcol(b, p) == ColLoop(b, p_goto_bol(b, p), p.byte)
piscol(b, p) == IF p.valcol THEN p ELSE pfcol(b, p)

EndsLine(b, p) == piseof(b, p) \/ GCHAR(b, p) = NL \/ (b.crlf /\ GCHAR(b, p) = CR /\ piseol(b, p))
OneOn(b, p) == [Step(b, p) EXCEPT !.col = @ + Width(p.col, GCHAR(b, p))]

(* The loop is a do-while: it takes one character before it looks at col.  *)
RECURSIVE ToCol(_, _, _)
ColOrOn(b, p, goal) == IF p.col = goal THEN p ELSE ToCol(b, p, goal)
ToCol(b, p, goal) ==
  IF EndsLine(b, p) \/ p.col + Width(p.col, GCHAR(b, p)) > goal THEN p
  ELSE ColOrOn(b, OneOn(b, p), goal)
pcol(b, p, goal) == ToCol(b, p_goto_bol(b, p), goal)

RECURSIVE ToColI(_, _, _)
ToColI(b, p, goal) ==
  IF p.col >= goal \/ EndsLine(b, p) THEN p ELSE ToColI(b, OneOn(b, p), goal)
pcoli(b, p, goal) == ToColI(b, p_goto_bol(b, p), goal)

----------------------------------------------------------------------------
(* Searching.  q is the copy that runs through the text (only its header   *)
(* and offset are kept); the table gives a byte's last place in s[0..len-2] *)
(* forwards, in the reversed string backwards.  An entry is one byte, whose *)
(* largest value, 255, stands for none.                                    *)

None == Entries - 1
frgetc(b, q) == [(IF q.ofst = 0 THEN pprev(b, q) ELSE q) EXCEPT !.ofst = @ - 1]

RECURSIVE ffwrd(_, _, _)
ffwrd(b, q, n) ==
  IF n <= GSIZE(b, q.hdr) - q.ofst THEN Settle(b, [q EXCEPT !.ofst = @ + n])
  ELSE IF q.hdr = b.pt["eof"].hdr THEN pnext(b, q)
  ELSE ffwrd(b, pnext(b, q), n - (GSIZE(b, q.hdr) - q.ofst))

Table(s, c) ==
  LET places == {x \in 0 .. Len(s) - 2 : s[x + 1] = c}
  IN IF places = {} THEN None ELSE Max(places) % Entries

(* At a mismatch: <<how far to go, how much of the text that uses up>>.    *)
Shift(s, y, t) ==
  IF t = None THEN <<Len(s) + 1, y + 1>>
  ELSE IF y <= t THEN <<Len(s) - y + 1, 1>> ELSE <<Len(s) - t, y - t>>

RECURSIVE FindLoop(_, _, _, _, _)
FindOn(b, r, s, amnt, jump) ==
  IF amnt < jump[2] THEN <<r, FALSE>>
  ELSE FindLoop(b, ffwrd(b, r, jump[1]), s, Len(s), amnt - jump[2])
FindByte(b, r, s, y, amnt) ==
  IF GCHAR(b, r) # s[y + 1] THEN FindOn(b, r, s, amnt, Shift(s, y, Table(s, GCHAR(b, r))))
  ELSE IF y = 0 THEN <<r, TRUE>> ELSE FindLoop(b, r, s, y, amnt)
FindLoop(b, q, s, x, amnt) ==    \* x characters of s are still to match
  FindByte(b, frgetc(b, q), s, x - 1, amnt)

ffind(b, p, s) ==
  LET amnt == b.pt["eof"].byte - p.byte
  IN IF Len(s) > amnt THEN <<p, FALSE>>
     ELSE FindLoop(b, ffwrd(b, p, Len(s)), s, Len(s), amnt - Len(s))

(* getto: carry the counts along to where q is.                            *)
RECURSIVE getto(_, _, _)
RECURSIVE SkipTo(_, _, _)
SkipTo(b, p, q) ==
  IF p.ofst # 0 \/ p.hdr = q.hdr THEN p
  ELSE SkipTo(b, pnext(b, Over(b, p)), q)
getto(b, p, q) ==
  IF p.hdr = q.hdr /\ p.ofst = q.ofst THEN p
  ELSE getto(b, SkipTo(b, Settle(b, [Bump(p) EXCEPT
                             !.line = IF GCHAR(b, p) = NL THEN @ + 1 ELSE @]), q), q)

Carried(b, p, x) == IF x[2] THEN <<getto(b, p, x[1]), TRUE>> ELSE <<p, FALSE>>
pfind(b, p, s)   == Carried(b, p, ffind(b, p, s))

RECURSIVE fbkwd(_, _, _)
fbkwd(b, q, n) ==
  IF n > q.ofst THEN IF q.hdr = b.pt["bof"].hdr THEN pprev(b, q)
                     ELSE fbkwd(b, pprev(b, q), n - q.ofst)
  ELSE [q EXCEPT !.ofst = @ - n]

fpgetc(b, q) == IF piseof(b, q) THEN <<q, NO_MORE_DATA>>
                ELSE <<[Step(b, q) EXCEPT !.byte = q.byte], GCHAR(b, q)>>

TableBack(s, c) ==
  LET places == {x \in 1 .. Len(s) - 1 : s[x + 1] = c}
  IN IF places = {} THEN None ELSE (Len(s) - Min(places) - 1) % Entries

ShiftBack(s, y, t) ==
  IF t = None THEN <<Len(s) + 1, Len(s) - y + 1>>
  ELSE IF Len(s) - t <= y THEN <<y + 1, 1>> ELSE <<Len(s) - t, Len(s) - t - y>>

RECURSIVE RFindLoop(_, _, _, _, _)
RFindOn(b, r, s, amnt, jump) ==
  IF amnt < jump[2] THEN <<r, FALSE>>
  ELSE RFindLoop(b, fbkwd(b, r, jump[1]), s, 0, amnt - jump[2])
RFindByte(b, g, s, y, amnt) ==
  IF g[2] # s[y] THEN RFindOn(b, g[1], s, amnt, ShiftBack(s, y, TableBack(s, g[2])))
  ELSE IF y = Len(s) THEN <<fbkwd(b, g[1], Len(s)), TRUE>>
  ELSE RFindLoop(b, g[1], s, y, amnt)
RFindLoop(b, q, s, x, amnt) ==    \* x characters of s have matched
  RFindByte(b, fpgetc(b, q), s, x + 1, amnt)

frfind(b, p, s) ==
  LET left == b.pt["eof"].byte - p.byte
      x == IF Len(s) > left THEN Len(s) - left ELSE 0
  IN IF p.byte < x THEN <<p, FALSE>>
     ELSE RFindLoop(b, fbkwd(b, p, x), s, 0, p.byte - x)

RECURSIVE BackTo(_, _, _)
BackOrOn(b, p, q) == IF p.hdr = q.hdr THEN p ELSE BackTo(b, p, q)
BackTo(b, p, q)   == BackOrOn(b, pprev(b, BackOver(b, p)), q)
RECURSIVE rgetto(_, _, _)
rgetto(b, p, q) ==
  IF p.hdr = q.hdr /\ p.ofst = q.ofst THEN p
  ELSE rgetto(b, Unread(b, OneBack(IF p.ofst = 0 THEN BackTo(b, p, q) ELSE p))[1], q)

CarriedBack(b, p, x) == IF x[2] THEN <<rgetto(b, p, x[1]), TRUE>> ELSE <<p, FALSE>>
prfind(b, p, s)      == CarriedBack(b, p, frfind(b, p, s))

----------------------------------------------------------------------------
(* The commands that move a cursor, beside the edits.  The command loop    *)
(* asks for the column of the cursor when a command is done (EFIXXCOL).    *)

MoveTo(u, q) == buf.pt[u].ptr # NULL /\ buf' = Moved(buf, u, q)
Cur(u)       == buf.pt[u]

(* One character, or in hex mode, where nobody asks for columns, one byte. *)
Forward(u) ==
  \/ MoveTo(u, piscol(buf, pgetc(buf, Cur(u))[1]))
  \/ MoveTo(u, pgetb(buf, Cur(u))[1])
Backward(u) ==
  \/ LET To(x) == IF x[2] = NO_MORE_DATA THEN x[1] ELSE piscol(buf, x[1])
     IN MoveTo(u, To(prgetc(buf, piscol(buf, Cur(u)))))
  \/ MoveTo(u, prgetb(buf, Cur(u))[1])

LineStart(u)   == MoveTo(u, p_goto_bol(buf, Cur(u)))
LineFinish(u)  == MoveTo(u, piscol(buf, p_goto_eol(buf, Cur(u))))
Column(u)      == MoveTo(u, piscol(buf, Cur(u)))
GotoByte(u, i) == MoveTo(u, piscol(buf, pgoto(buf, Cur(u), i)))
GotoLine(u, l) ==
  MoveTo(u, piscol(buf, pline(buf, Cur(u), Min({l, buf.pt["eof"].line}))))
GotoCol(u, g)  == MoveTo(u, pcol(buf, Cur(u), g))

(* udnarw and uuparw: to column g of the next or the previous line, if     *)
(* there is one.                                                           *)
NextLine(u, g) ==
  Cur(u).line # buf.pt["eof"].line /\ MoveTo(u, pcol(buf, pnextl(buf, Cur(u)), g))
PrevLine(u, g) ==
  Cur(u).line # 0 /\ MoveTo(u, pcol(buf, pprevl(buf, Cur(u)), g))

(* searchf leaves the cursor behind what it found, searchb before it.      *)
SearchForward(u, s) ==
  LET To(x) == x[2] /\ MoveTo(u, piscol(buf, pfwrd(buf, x[1], Len(s))))
  IN To(pfind(buf, Cur(u), s))
SearchBack(u, s) ==
  LET To(x) == x[2] /\ MoveTo(u, piscol(buf, x[1]))
  IN Cur(u).byte > 0 /\ To(prfind(buf, pbkwd(buf, Cur(u), 1), s))

Move ==
  \E u \in Users :
    \/ Forward(u) \/ Backward(u) \/ LineStart(u) \/ LineFinish(u) \/ Column(u)
    \/ \E i \in 0 .. Size : GotoByte(u, i)
    \/ \E g \in 0 .. MaxGoal : GotoLine(u, g) \/ GotoCol(u, g) \/ NextLine(u, g) \/ PrevLine(u, g)
    \/ \E s \in Patterns : SearchForward(u, s) \/ SearchBack(u, s)

MoveOrEdit == Edit \/ Move

PointsSpec == Init /\ [][MoveOrEdit]_buf

----------------------------------------------------------------------------
(* Properties: each movement against the text.                             *)

BolOf(t, i) == Max({0} \cup {j \in 1 .. i : t[j] = NL})
EolOf(t, i) == Min({Len(t)} \cup {j \in i .. Len(t) - 1 :
                      t[j + 1] = NL \/ (buf.crlf /\ ~Whole(buf, j + 1))})
ColOf(t, i) ==
  LET F[j \in BolOf(t, i) .. i] ==
        IF j = BolOf(t, i) THEN 0 ELSE F[j - 1] + Width(F[j - 1], t[j])
  IN F[i]
LineOf(t, i) == mcnt(SubSeq(t, 1, i))
(* Where line l starts, the end of the file if there is no such line.      *)
BolOfLine(t, l) == Min({Len(t)} \cup {i \in 0 .. Len(t) : i = BolOf(t, i) /\ LineOf(t, i) = l})
IsAt(s, t, i) == i + Len(s) <= Len(t) /\ SubSeq(t, i + 1, i + Len(s)) = s

(* A pointer whose every field tells the truth about its byte.             *)
Truthful(q, z) ==
  q.hdr = z.hdr /\ q.ofst = z.ofst /\ q.line = z.line /\ q.ptr = q.hdr
Right(q) ==
  /\ q.byte \in 0 .. Size /\ Truthful(q, Place(buf, q.byte))
  /\ q.valcol => q.col = ColOf(Text(buf), q.byte)
RightAt(q, i) == q.byte = i /\ Right(q)

(* Where the movements are checked from: a column that is wrong already    *)
(* stays wrong (bcut invalidates those of from's line only, b.c:1623).     *)
Cursors ==
  {p \in {AsAt(buf, u) : u \in Users} : \A q \in {AsAt(buf, "bof"), AsAt(buf, "eof"), p} : Right(q)}

(* "move p n characters forwards/backwards according to loc" (b.c:740):    *)
(* across segments, whole ones skipped by their counts, the byte asked for *)
(* is the byte reached; beyond the ends, the end is.                       *)
BytesReached ==
  \A p \in Cursors :
    /\ \A i \in 0 .. Size : RightAt(pgoto(buf, p, i), i)
    /\ RightAt(pfwrd(buf, p, Size - p.byte + 1), Size)
    /\ RightAt(pbkwd(buf, p, p.byte + 1), 0)

(* A character forward and back again is where one was, and the character  *)
(* read is the same; -crlf takes a return and a newline for one character. *)
CharsReached ==
  \A p \in Cursors :
    LET Back(x, y) == RightAt(y[1], p.byte) /\ y[2] = x[2]
        On(x) == /\ Right(x[1]) /\ Whole(buf, x[1].byte)
                 /\ x[2] = NO_MORE_DATA <=> p.byte = Size
                 /\ x[2] # NO_MORE_DATA => Back(x, prgetc(buf, x[1]))
    IN On(pgetc(buf, p))

(* Lines by number, by the next and by the previous one, from anywhere:    *)
(* bof, eof or the pointer itself, whichever is nearest (b.c:866).         *)
LinesReached ==
  LET t == Text(buf)
  IN \A p \in Cursors :
       /\ \A l \in 0 .. MaxGoal : RightAt(pline(buf, p, l), BolOfLine(t, l))
       /\ RightAt(p_goto_bol(buf, p), BolOf(t, p.byte))
       /\ RightAt(p_goto_eol(buf, p), EolOf(t, p.byte))
       /\ pnextl(buf, p).byte = BolOfLine(t, p.line + 1)
       /\ RightAt(pprevl(buf, p), IF p.line = 0 THEN 0 ELSE EolOf(t, BolOfLine(t, p.line - 1)))

(* The columns: piscol stays where it is; pcol stops at the goal or before *)
(* the character that would cross it, pcoli behind it (b.c:885, b.c:956).  *)
ColumnsReached ==
  LET t == Text(buf)
  IN \A p \in Cursors :
       LET line == BolOf(t, p.byte) .. EolOf(t, p.byte)
       IN /\ p.valcol \/ RightAt([piscol(buf, p) EXCEPT !.valcol = TRUE], p.byte)
          /\ \A g \in 0 .. MaxGoal :
               /\ RightAt(pcol(buf, p, g), Max({i \in line : ColOf(t, i) <= g}))
               /\ RightAt(pcoli(buf, p, g),
                          Min({EolOf(t, p.byte)} \cup {i \in line : ColOf(t, i) >= g}))

(* All of these, and all pointers coherent, after whatever movement: the   *)
(* loops step over whole segments from caches of three kinds, and an error *)
(* at the end of a segment or inside a return and newline would show in    *)
(* certain layouts only.                                                   *)
MovementsExact ==
  PointersCoherent /\ BytesReached /\ CharsReached /\ LinesReached /\ ColumnsReached

(* "find forward substring s in text pointed by p" (b.c:1154): the first   *)
(* one from p on, and backwards the last one that starts no later than p.  *)
FindsNearest ==
  LET t == Text(buf)
      Nearest(x, ones, Best(_)) ==
        IF ones = {} THEN ~x[2] ELSE x[2] /\ RightAt(Stale(x[1]), Best(ones))
  IN \A p \in Cursors, s \in Patterns :
       /\ Nearest(pfind(buf, p, s), {i \in p.byte .. Size : IsAt(s, t, i)}, Min)
       /\ Nearest(prfind(buf, p, s), {i \in 0 .. p.byte : IsAt(s, t, i)}, Max)
PlacesReached == MovementsExact /\ FindsNearest
============================================================================
