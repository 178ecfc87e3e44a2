------------------------------- MODULE Blocks -------------------------------
(***************************************************************************)
(* ublock.c: the marks markb and markk and what is done with the text      *)
(* between them, as a run of characters or (square) as a rectangle.        *)
(* Each operator is one function of that file, from edited text to edited  *)
(* text.  A rectangle goes from the line of markb to that of markk and     *)
(* from column e.x["markb"] to before column e.x["markk"].                 *)
(***************************************************************************)
EXTENDS Text, SequencesExt

VARIABLE opt    \* the options: bw->o, and square, lightoff and autoswap;
                \* opt.junk is what the xcol of a new pointer happens to hold

unmark(e)   == [e EXCEPT !.p["markb"] = NULL, !.p["markk"] = NULL]
Lit(e)      == IF opt.lightoff THEN unmark(e) ELSE e
IsSet(e, m) == e.p[m] # NULL

umarkb(e) == [e EXCEPT !.p["markb"] = e.p["cursor"], !.x["markb"] = e.x["cursor"]]
umarkk(e) == [e EXCEPT !.p["markk"] = e.p["cursor"], !.x["markk"] = e.x["cursor"]]

----------------------------------------------------------------------------
(* Is there a block?                                                       *)

Ordered(e, b, k) ==
  /\ IsSet(e, b) /\ IsSet(e, k)
  /\ e.p[b] < e.p[k]
  /\ opt.square => e.x[b] < e.x[k]

markv(e) == Ordered(e, "markb", "markk")

(* markv(1) swaps marks that are set the wrong way round, if autoswap is   *)
(* set.  (It makes new pointers, whose xcol is not initialised: modelled   *)
(* for blocks that are not rectangles, where nothing reads it.)            *)
Swapped(e) ==
  IF opt.autoswap /\ ~opt.square /\ Ordered(e, "markk", "markb")
  THEN [e EXCEPT !.p["markb"] = e.p["markk"], !.p["markk"] = e.p["markb"]]
  ELSE e

----------------------------------------------------------------------------
(* Rectangles.  Each takes the offset i of the first line and the height h.*)
(* Below the last line there is no next one: the last comes again.         *)

Row(t, i, left, right) ==      \* bcpy of nothing or less is empty
  Cut(t, pcol(t, i, left), pcolwse(t, i, right))

RECURSIVE pextrect(_, _, _, _, _)
pextrect(t, i, left, right, h) ==
  IF h = 0 THEN <<>>
  ELSE <<Row(t, i, left, right)>> \o pextrect(t, pnextl(t, i), left, right, h - 1)

RECURSIVE pdelrect(_, _, _, _, _)
(* Faulty variant of DelRow: the column behind the rectangle goes too.     *)
DelRow_Wide(e, a, right) == bdel(e, a, pcol(e.t, a, right + 1))

DelRow(e, a, right) == bdel(e, a, pcol(e.t, a, right))
DelRows(d, a, left, right, h) == pdelrect(d, pnextl(d.t, a), left, right, h)
pdelrect(e, i, left, right, h) ==
  IF h = 0 THEN e
  ELSE DelRows(DelRow(e, pcol(e.t, i, left), right), pcol(e.t, i, left), left, right, h - 1)

RECURSIVE pclrrect(_, _, _, _, _, _)
ClrRows(d, left, right, h, c) == pclrrect(d, pnextl(d.t, d.p["p"]), left, right, h, c)
ClrRow(e, a, b, left, right, h, c) ==
  ClrRows(pfill(pset(bdel(e, a, b), "p", a), "p", piscol(e.t, b), c), left, right, h, c)
pclrrect(e, i, left, right, h, c) ==
  IF h = 0 THEN e
  ELSE ClrRow(e, pcol(e.t, i, left), pcoli(e.t, i, right), left, right, h - 1, c)

HasTab(t, a, right) ==
  \E k \in a .. p_goto_eol(t, a) : brc(t, k) = TAB /\ (k = a \/ piscol(t, k) <= right)
RECURSIVE ptabrect(_, _, _, _, _)
ptabrect(t, i, left, right, h) ==
  IF h = 0 THEN SP
  ELSE IF HasTab(t, pcol(t, i, left), right) THEN TAB
  ELSE ptabrect(t, pnextl(t, i), left, right, h - 1)

(* The lines of a text; pinsrect does not insert an empty last one.        *)
LineAt(s, i) == Cut(s, i, p_goto_eol(s, i))
Lines(s) == [n \in 1 .. Cardinality({k \in 0 .. Len(s) - 1 : pisbol(s, k)}) |->
               LineAt(s, pline(s, n - 1))]

(* Rows inserted at pointer n and its column: what is too short is filled, *)
(* blanks at the end of a line go, and lines are added below the last.     *)
RECURSIVE pinsrect(_, _, _, _, _)
NextRow(e) ==
  IF OnLast(e.t, e.p["p"]) THEN Type(pset(e, "p", Len(e.t)), "p", <<NL>>)
  ELSE pset(e, "p", pnextl(e.t, e.p["p"]))
Trimmed(e) == IF piseol(e.t, e.p["p"]) THEN pbackws(e, "p") ELSE e
AtCol(e, col, c) == pfill(pset(e, "p", pcol(e.t, e.p["p"], col)), "p", col, c)
pinsrect(e, col, rows, width, c) ==
  IF rows = <<>> \/ width = 0 THEN e
  ELSE pinsrect(NextRow(Trimmed(pfill(Type(AtCol(e, col, c), "p", Head(rows)),
                                      "p", col + width, c))),
                col, Tail(rows), width, c)
InsRect(e, n, rows, width, c) == pinsrect(pset(e, "p", e.p[n]), e.x[n], rows, width, c)

(* The rectangle between the marks. *)
Height(e)  == Line(e.t, e.p["markk"]) - Line(e.t, e.p["markb"]) + 1
BlockW(e)  == e.x["markk"] - e.x["markb"]
Rect(e)    == pextrect(e.t, e.p["markb"], e.x["markb"], e.x["markk"], Height(e))
UseTabs(e) == ptabrect(e.t, e.p["markb"], e.x["markb"], e.x["markk"], Height(e))
ClrBlock(e) == pclrrect(e, e.p["markb"], e.x["markb"], e.x["markk"], Height(e), UseTabs(e))
DelBlock(e) == pdelrect(e, e.p["markb"], e.x["markb"], e.x["markk"], Height(e))

ToCol(e, n, col) == pset(e, n, pcol(e.t, e.p[n], col))

(* markk below markb by the height of a rectangle, width columns to the right. *)
MarkRect(e, height, width) ==
  [ToCol(pset(e, "markk", pline(e.t, Line(e.t, e.p["markk"]) + height - 1)),
         "markk", e.x["markb"] + width) EXCEPT !.x["markk"] = e.x["markb"] + width]
MarkRun(e, size) ==
  [e EXCEPT !.p["markk"] = Min({@ + size, Len(e.t)})]

----------------------------------------------------------------------------
(* Setting marks.                                                          *)

Cleared(e, m) == [unmark(e) EXCEPT !.marking = m]
Inside(e)     == e.p["markb"] <= e.p["cursor"] /\ e.p["cursor"] <= e.p["markk"]

(* The marks pushed, and popped again (one level of markstack).            *)
upsh(e) == [e EXCEPT !.p["pushb"] = e.p["markb"], !.p["pushk"] = e.p["markk"]]
upop(e) ==
  Lit([e EXCEPT !.p["markb"] = e.p["pushb"], !.p["markk"] = e.p["pushk"],
                !.x["markb"] = opt.junk, !.x["markk"] = opt.junk])

udrop(e) ==
  IF e.marking /\ IsSet(e, "markb") THEN unmark(e)
  ELSE umarkb([e EXCEPT !.p["markk"] = NULL])

ubegin_marking(e) ==
  CASE e.marking -> e
    [] ~e.marking /\ markv(e) /\ e.p["cursor"] = e.p["markb"] ->   \* extend at the start
         [e EXCEPT !.p["markb"] = e.p["markk"], !.p["markk"] = NULL, !.marking = TRUE]
    [] ~e.marking /\ markv(e) /\ e.p["cursor"] = e.p["markk"] ->
         [e EXCEPT !.p["markk"] = NULL, !.marking = TRUE]
    [] OTHER -> umarkb(Cleared(e, TRUE))

utoggle_marking(e) ==
  CASE markv(e) /\ Inside(e) -> Cleared(e, FALSE)
    [] ~(markv(e) /\ Inside(e)) /\ IsSet(e, "markk") -> umarkb(Cleared(e, TRUE))
    [] ~IsSet(e, "markk") /\ IsSet(e, "markb") /\ e.p["cursor"] < e.p["markb"] ->
         umarkb([e EXCEPT !.p["markk"] = e.p["markb"], !.x["markk"] = opt.junk,
                          !.marking = FALSE])
    [] ~IsSet(e, "markk") /\ IsSet(e, "markb") /\ e.p["cursor"] >= e.p["markb"] ->
         [umarkk(e) EXCEPT !.marking = FALSE]
    [] OTHER -> [umarkb(e) EXCEPT !.marking = TRUE]

uselect(e) == IF IsSet(e, "markb") THEN e ELSE umarkb(e)

ToMark(e, m) == IF IsSet(e, m) THEN pset(e, "cursor", e.p[m]) ELSE e
LineMarked(e, i) ==
  pset(umarkk(pset(umarkb(pset(e, "cursor", i)), "cursor", pnextl(e.t, i))), "cursor", i)
umarkl(e) == ToCol(LineMarked(e, p_goto_bol(e.t, e.p["cursor"])), "cursor", e.x["cursor"])

uswap(e) == IF IsSet(e, "markb") THEN pset(umarkb(e), "cursor", e.p["markb"]) ELSE e
utomarkbk(e) ==
  IF IsSet(e, "markb") /\ e.p["cursor"] # e.p["markb"] THEN ToMark(e, "markb")
  ELSE IF IsSet(e, "markk") /\ e.p["cursor"] # e.p["markk"] THEN ToMark(e, "markk")
  ELSE e

(* A program block: the lines around the cursor indented at least as far.  *)
Deep(t, i, indent) == pisindent(t, i) >= indent \/ pisblank(t, i)
RECURSIVE TopOf(_, _, _)
LineUp(t, i) == p_goto_bol(t, pprevl(t, i))
TopOf(t, i, indent)  ==
  IF OnFirst(t, i) THEN 0
  ELSE IF Deep(t, LineUp(t, i), indent) THEN TopOf(t, LineUp(t, i), indent)
  ELSE p_goto_bol(t, i)
RECURSIVE BottomOf(_, _, _)
BottomOf(t, i, indent) ==
  IF OnLast(t, i) THEN Len(t)
  ELSE IF Deep(t, pnextl(t, i), indent) THEN BottomOf(t, pnextl(t, i), indent)
  ELSE pnextl(t, i)
setindent(e) ==
  IF pisblank(e.t, e.p["cursor"]) THEN e
  ELSE LET indent == pisindent(e.t, e.p["cursor"])
           b == TopOf(e.t, e.p["cursor"], indent)
           k == BottomOf(e.t, e.p["cursor"], indent)
       IN [e EXCEPT !.p["markb"] = b, !.x["markb"] = 0,
                    !.p["markk"] = k, !.x["markk"] = piscol(e.t, k)]

----------------------------------------------------------------------------
(* Deleting, moving and copying.                                           *)

Killed(e) ==
  CASE ~opt.square -> bdel(e, e.p["markb"], e.p["markk"])
    [] opt.square /\ ~opt.overtype -> DelBlock(e)
    [] opt.square /\ opt.overtype -> ToCol(ClrBlock(e), "markk", e.x["markk"])
Deleted(e) == IF markv(e) THEN Lit(Killed(e)) ELSE e
ublkdel(e) == Deleted(Swapped(e))

udelln(e) ==
  LET i == p_goto_bol(e.t, e.p["cursor"])
  IN bdel(pset(e, "cursor", i), i, pnextl(e.t, i))

PicoKilled(e)  == IF markv(Swapped(e)) THEN Deleted(Swapped(e)) ELSE udelln(e)
upicokill(e)   == PicoKilled(umarkk(upsh(e)))

(* Marks around the rectangle or the run that is now at the cursor.        *)
Around(e, height, width) ==
  IF opt.lightoff THEN unmark(e) ELSE MarkRect(umarkk(umarkb(e)), height, width)
AroundRun(e, size) ==
  IF opt.lightoff THEN unmark(e) ELSE MarkRun(umarkk(umarkb(e)), size)

(* What overtyping makes room for at the cursor.                           *)
Overtyped(e, height, width) ==
  pdelrect(e, e.p["cursor"], e.x["cursor"], Col(e, "cursor") + width, height)

RightOf(e) ==      \* the cursor is to the right of the rectangle
  /\ e.x["cursor"] >= e.x["markk"]
  /\ Line(e.t, e.p["cursor"]) \in Line(e.t, e.p["markb"]) .. Line(e.t, e.p["markk"])
Vacated(e, d) ==   \* d: e without the block
  CASE opt.overtype ->
         Overtyped(pfill(ToCol(d, "cursor", Col(e, "cursor")), "cursor", Col(e, "cursor"), SP),
                   Height(e), BlockW(e))
    [] ~opt.overtype /\ RightOf(e) -> [d EXCEPT !.x["cursor"] = @ - BlockW(e)]
    [] OTHER -> d
RectMoved(e) ==
  Around(InsRect(Vacated(e, ublkdel(e)), "cursor", Rect(e), BlockW(e), UseTabs(e)),
         Height(e), BlockW(e))

(* Faulty variant of RunMoved: the old place is deleted where it was.      *)
RunDrawn_Early(e, c) == bdel(c, e.p["markb"], e.p["markk"])

RunDrawn(e, c) == bdel(c, c.p["markb"], c.p["markk"])
RunCopied(e)   == binss(e, "cursor", Cut(e.t, e.p["markb"], e.p["markk"]))
Size(e)        == e.p["markk"] - e.p["markb"]
RunMoved(e)    == AroundRun(RunDrawn(e, RunCopied(e)), Size(e))

Moved(e) ==
  CASE ~markv(e) -> e
    [] markv(e) /\ opt.square -> RectMoved(e)
    [] markv(e) /\ ~opt.square /\ ~Inside(e) -> RunMoved(e)
    [] OTHER -> e
ublkmove(e) == Moved(Swapped(e))

RectCopied(e) ==
  Around(InsRect(IF opt.overtype THEN Overtyped(e, Height(e), BlockW(e)) ELSE e,
                 "cursor", Rect(e), BlockW(e), UseTabs(e)),
         Height(e), BlockW(e))
Copied(e) ==
  CASE ~markv(e) -> e
    [] markv(e) /\ opt.square -> RectCopied(e)
    [] markv(e) /\ ~opt.square -> AroundRun(RunCopied(e), Size(e))
ublkcpy(e) == Copied(Swapped(e))

----------------------------------------------------------------------------
(* Indenting: line by line from the one of markb to before markk.          *)

IndentWidth == IF opt.indentc = TAB THEN Tab * opt.istep ELSE opt.istep

RECURSIVE Reindent(_, _)
NextIndent(e, by)  == Reindent(pset(e, "p", pnextl(e.t, e.p["p"])), by)

OneIndent(e, i, j, by) ==      \* the indentation, from i to j, replaced
  pfill(pset(bdel(e, i, j), "p", i), "p", piscol(e.t, j) + by, opt.indentc)
LineIndent(e, i, by) ==
  IF piseol(e.t, i) THEN pset(e, "p", i)
  ELSE OneIndent(e, i, p_goto_indent(e.t, i, opt.indentc), by)
Reindent(e, by) ==
  IF e.p["p"] >= e.p["markk"] THEN e
  ELSE NextIndent(LineIndent(e, p_goto_bol(e.t, e.p["p"]), by), by)
FromMark(e) == pset(e, "p", e.p["markb"])

BlockLines(e) ==      \* beginnings of the block's lines
  {i \in p_goto_bol(e.t, e.p["markb"]) .. e.p["markk"] - 1 : pisbol(e.t, i)}

lindent_check(e) ==
  \A i \in BlockLines(e) : piseol(e.t, i) \/ pisindent(e.t, i) >= IndentWidth
purity_check(e) ==
  \A i \in BlockLines(e) :
    piseol(e.t, i) \/ SkipOn(e.t, i, {opt.indentc}) - i >= opt.istep

RECURSIVE Unindent(_)
NextUnindent(e) == Unindent(pset(e, "p", pnextl(e.t, e.p["p"])))
Unindent(e) ==        \* istep columns of every line
  IF e.p["p"] >= e.p["markk"] THEN e
  ELSE NextUnindent(IF piseol(e.t, e.p["p"]) THEN e
                    ELSE bdel(e, e.p["p"], pcoli(e.t, e.p["p"], opt.istep)))

NoRun(e) ==           \* no block around the cursor: one is set instead
  \/ ~IsSet(e, "markb") \/ ~IsSet(e, "markk")
  \/ ~Inside(e)
  \/ e.p["markb"] = e.p["markk"]
Squared(e) ==
  /\ IsSet(e, "markb") /\ IsSet(e, "markk")
  /\ e.p["markb"] <= e.p["markk"] /\ e.x["markb"] <= e.x["markk"]

RECURSIVE RectIndent(_, _)
RowIndented(e) ==
  pfill(ToCol(e, "p", e.x["markb"]), "p", e.x["markb"] + opt.istep, opt.indentc)
NextRect(e, last) ==
  IF OnLast(e.t, e.p["p"]) \/ Line(e.t, e.p["p"]) >= last THEN e
  ELSE RectIndent(pset(e, "p", pnextl(e.t, e.p["p"])), last)
RectIndent(e, last) == NextRect(RowIndented(e), last)

MayUnindent(e, i) ==
  \A k \in pcol(e.t, i, e.x["markb"]) .. Len(e.t) :
    piscol(e.t, k) < e.x["markb"] + opt.istep /\ Line(e.t, k) = Line(e.t, i)
      => brc(e.t, k) \in Blanks \union {opt.indentc}
RectLines(e) ==
  {i \in p_goto_bol(e.t, e.p["markb"]) .. Len(e.t) :
     pisbol(e.t, i) /\ Line(e.t, i) <= Line(e.t, e.p["markk"])}

urindent(e) ==
  CASE opt.square /\ Squared(e) -> RectIndent(FromMark(e), Line(e.t, e.p["markk"]))
    [] opt.square /\ ~Squared(e) -> e
    [] ~opt.square /\ NoRun(e) -> setindent(e)
    [] ~opt.square /\ ~NoRun(e) -> Reindent(FromMark(e), IndentWidth)

ulindent(e) ==
  CASE opt.square /\ Squared(e) ->
         IF \A i \in RectLines(e) : MayUnindent(e, i)
         THEN pdelrect(e, e.p["markb"], e.x["markb"], e.x["markb"] + opt.istep,
                       Cardinality(RectLines(e)))
         ELSE e
    [] opt.square /\ ~Squared(e) -> e
    [] ~opt.square /\ NoRun(e) -> setindent(e)
    [] ~opt.square /\ ~NoRun(e) /\ lindent_check(e) -> Reindent(FromMark(e), -IndentWidth)
    [] ~opt.square /\ ~NoRun(e) /\ ~lindent_check(e) /\ purity_check(e) ->
         Unindent(pset(e, "p", p_goto_bol(e.t, e.p["markb"])))
    [] OTHER -> e

----------------------------------------------------------------------------
(* Files, filters, letter case.                                            *)

dowrite(e) ==      \* what the file then holds
  IF opt.square THEN FoldLeft(LAMBDA s, r : s \o r \o <<NL>>, <<>>, Rect(e))
  ELSE Cut(e.t, e.p["markb"], e.p["markk"])

RectHeight(s) == Len(Lines(s))
FileMarks(e, height) ==      \* markk at markb, then around what was inserted
  IF height = 0
  THEN [e EXCEPT !.p["markk"] = e.p["markb"], !.x["markk"] = e.x["markb"]]
  ELSE MarkRect(pset(e, "markk", e.p["markb"]), height, BlockW(e))
FileRect(e, c, s, tabs) == InsRect(c, "markb", Lines(s), BlockW(e), tabs)

DelAtMark(e, height) == pdelrect(e, e.p["markb"], e.x["markb"], e.x["markk"], height)
Cleaned(e, height) ==        \* what doinsf overtypes
  DelAtMark(pclrrect(e, e.p["markb"], e.x["markb"], e.x["markk"],
                     Max({Height(e), height}), UseTabs(e)), height)
InsertedRect(e, s) ==
  FileMarks(FileRect(e, IF opt.overtype THEN Cleaned(e, RectHeight(s)) ELSE e, s, UseTabs(e)),
            RectHeight(s))
doinsf(e, s) ==
  CASE opt.square /\ markv(e) -> InsertedRect(e, s)
    [] opt.square /\ ~markv(e) -> e
    [] ~opt.square -> FixXcol(binss(e, "cursor", s))

Drawn(e, height) ==          \* what dofilt takes away
  IF opt.overtype THEN DelAtMark(ClrBlock(e), Max({height, Height(e)})) ELSE DelBlock(e)
FilteredRect(e, s) ==
  Lit(FileMarks(FileRect(e, Drawn(e, RectHeight(s)), s, UseTabs(e)), RectHeight(s)))

(* The last character of the block stays until what replaces it is there,  *)
(* so that markk stays behind it.                                          *)
Shrunk(e)      == bdel(e, e.p["markb"], e.p["markk"] - 1)
LastGone(e)    == bdel(e, e.p["markk"] - 1, e.p["markk"])
Replaced(e, s) == LastGone(Insert(Shrunk(e), e.p["markb"], s))

FilteredRun(e, s) ==
  IF e.p["markb"] = e.p["markk"] THEN binss(e, "markb", s) ELSE Replaced(e, s)
dofilt(e, s) ==
  FixXcol(IF opt.square THEN FilteredRect(e, s) ELSE Lit(FilteredRun(e, s)))

markall(e) ==
  [e EXCEPT !.p["markb"] = 0, !.x["markb"] = 0,
            !.p["markk"] = Len(e.t), !.x["markk"] = piscol(e.t, Len(e.t))]
Checked(e, s) ==
  CASE markv(e) -> dofilt(e, s)
    [] ~markv(e) /\ opt.square -> e
    [] ~markv(e) /\ ~opt.square -> unmark(dofilt(markall(e), s))
ufilt(e, s) == Checked(Swapped(e), s)

ToLower == "A" :> "a" @@ "B" :> "b"
ToUpper == "a" :> "A" @@ "b" :> "B"
Mapped(s, f) == [k \in DOMAIN s |-> IF s[k] \in DOMAIN f THEN f[s[k]] ELSE s[k]]
Cased(e, f) ==
  IF markv(e) THEN FixXcol(Replaced(e, Mapped(Cut(e.t, e.p["markb"], e.p["markk"]), f)))
  ELSE e
ulower(e) == Cased(Swapped(e), ToLower)
uupper(e) == Cased(Swapped(e), ToUpper)
=============================================================================
