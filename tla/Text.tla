-------------------------------- MODULE Text --------------------------------
(***************************************************************************)
(* A buffer as the commands of uedit.c, uformat.c and ublock.c see it: one *)
(* flat text and the pointers into it.  GapBuffer and Points model how b.c *)
(* keeps it in segments; here a pointer is an offset, and what b.c's       *)
(* functions do to a text is stated in terms of the text.                  *)
(*                                                                         *)
(* An edited text is a record e:                                           *)
(*   e.t       the characters                                              *)
(*   e.p       offset of every pointer; NULL for a mark that is not set    *)
(*   e.x       xcol of the cursor and of the marks                         *)
(*   e.marking a block is being selected                                   *)
(*   e.within  ufmtblk is at work: formatting stays within the block       *)
(***************************************************************************)
EXTENDS Integers, Sequences, FiniteSetsExt, TLC

CONSTANT Tab    \* distance of tab stops, b->o.tab
ASSUME TabAssumption == Tab \in Nat \ {0}

NULL == -1
NoData == "eof"      \* NO_MORE_DATA
NL  == "\n"
TAB == "\t"
SP  == " "

Blanks  == {SP, TAB}
Spaces  == Blanks \union {NL}
Letters == {"a", "b", "A", "B"}
Puncts  == {".", "<", ">", "(", ")", "[", "]"}
Chars   == Spaces \union Letters \union Puncts

(* The cursor, the block and the one pushed by upsh, a book-mark, and two  *)
(* pointers for those who make some.                                       *)
Pointers == {"cursor", "markb", "markk", "pushb", "pushk", "book", "p", "q"}

----------------------------------------------------------------------------
(* Positions in a text t.                                                  *)

brc(t, i)    == IF i < Len(t) THEN t[i + 1] ELSE NoData
Before(t, i) == IF i > 0 THEN t[i] ELSE NoData      \* what prgetc reads
Fwrd(t, i)   == IF i < Len(t) THEN i + 1 ELSE i
Bkwd(t, i)   == IF i > 0 THEN i - 1 ELSE i

(* The end of the run of characters of S from i on, and its beginning.     *)
SkipOn(t, i, S)   == Min({k \in i .. Len(t) : brc(t, k) \notin S})
SkipBack(t, i, S) == Max({k \in 0 .. i : Before(t, k) \notin S})

p_goto_bol(t, i) == Max({k \in 0 .. i : Before(t, k) \in {NL, NoData}})
p_goto_eol(t, i) == Min({k \in i .. Len(t) : brc(t, k) \in {NL, NoData}})
pisbol(t, i) == Before(t, i) \in {NL, NoData}
piseol(t, i) == brc(t, i) \in {NL, NoData}

OnLast(t, i)  == p_goto_eol(t, i) = Len(t)      \* pnextl returns NULL
pnextl(t, i)  == Fwrd(t, p_goto_eol(t, i))
OnFirst(t, i) == p_goto_bol(t, i) = 0           \* pprevl returns NULL
pprevl(t, i)  == Bkwd(t, p_goto_bol(t, i))

Line(t, i) == Cardinality({k \in 1 .. i : t[k] = NL})
pline(t, line) ==
  IF line > Line(t, Len(t)) THEN Len(t) ELSE Min({k \in 0 .. Len(t) : Line(t, k) = line})

Width(col, c) == IF c = TAB THEN Tab - (col % Tab) ELSE 1
RECURSIVE piscol(_, _)
Wider(col, c) == col + Width(col, c)
piscol(t, i) == IF pisbol(t, i) THEN 0 ELSE Wider(piscol(t, i - 1), t[i])

(* pcol stops before the character that would exceed the goal, pcoli after *)
(* the first that reaches it.                                              *)
pcol(t, i, goal) ==
  Max({k \in p_goto_bol(t, i) .. p_goto_eol(t, i) : piscol(t, k) <= Max({goal, 0})})
pcoli(t, i, goal) ==
  Min({k \in p_goto_bol(t, i) .. p_goto_eol(t, i) : piscol(t, k) >= goal}
      \union {p_goto_eol(t, i)})
pcolwse(t, i, goal) == SkipBack(t, pcol(t, i, goal), Blanks)

p_goto_indent(t, i, c) ==
  SkipOn(t, p_goto_bol(t, i), IF c \in Blanks THEN Blanks ELSE {c})
pboi(t, i)        == SkipOn(t, p_goto_bol(t, i), Blanks)
pisindent(t, i)   == piscol(t, pboi(t, i))
pisblank(t, i)    == piseol(t, pboi(t, i))
piseolblank(t, i) == piseol(t, SkipOn(t, i, Blanks))

Cut(t, i, j) == SubSeq(t, i + 1, j)      \* the text between two pointers

----------------------------------------------------------------------------
(* Changes.                                                                *)

pset(e, n, i) == [e EXCEPT !.p[n] = i]
Col(e, n)     == piscol(e.t, e.p[n])
FixXcol(e)    == [e EXCEPT !.x["cursor"] = Col(e, "cursor")]

(* Which pointers an insertion pushes: those behind it, and in ufmtblk the *)
(* end of the block (markk->end).                                          *)
Pushed(e, n, at) == e.p[n] > at \/ (e.within /\ n = "markk" /\ e.p[n] = at)

(* s inserted at an offset: fixupins. *)
Insert(e, at, s) ==
  [e EXCEPT !.t = Cut(@, 0, at) \o s \o Cut(@, at, Len(@)),
            !.p = [n \in {k \in Pointers : Pushed(e, k, at)} |-> @[n] + Len(s)] @@ @]

binss(e, n, s) == Insert(e, e.p[n], s)

(* What lay between i and j goes; pointers into it come to i.              *)
bdel(e, i, j) ==
  IF i >= j THEN e
  ELSE [e EXCEPT !.t = Cut(@, 0, i) \o Cut(@, j, Len(@)),
                 !.p = [n \in {k \in Pointers : @[k] > i} |-> Max({i, @[n] - (j - i)})] @@ @]

(* binsc or binss, then the pointer is moved over it.                      *)
Type(e, n, s) == pset(binss(e, n, s), n, e.p[n] + Len(s))

Filler(col, to, c) ==
  IF c = TAB /\ col + Tab - (col % Tab) > to THEN SP ELSE c
RECURSIVE pfill(_, _, _, _)
pfill(e, n, to, c) ==
  IF Col(e, n) >= to THEN e ELSE pfill(Type(e, n, <<Filler(Col(e, n), to, c)>>), n, to, c)

pbackws(e, n) == bdel(e, SkipBack(e.t, e.p[n], Blanks), e.p[n])
=============================================================================
