-------------------------------- MODULE Screen --------------------------------
(***************************************************************************)
(* Screen output (src/scrn.c, src/bw.c): windows show lines of one text.   *)
(* Edits and scrolls do not write to the terminal: they note which rows    *)
(* have to be drawn (updtab), where the highlighting is not known (syntab),*)
(* and from where rows can be scrolled (sary).  The update does it all,    *)
(* unless a key comes first.                                               *)
(***************************************************************************)
EXTENDS Integers, Sequences, FiniteSets, FiniteSetsExt, SequencesExt

CONSTANTS
  LI,        \* rows of the terminal
  Setups,    \* what to start with: windows, lines of text, terminal, options
  Amounts,   \* numbers of lines that an edit may insert or delete
  MaxEdits, MaxSteps  \* bounds on the edits and on all steps

VARIABLES
  scr,       \* the screen, see Init
  steps

vars == <<scr, steps>>

Rows    == 0 .. LI - 1
Blank   == [id |-> 0, st |-> 0]
Unknown == [id |-> -1, st |-> 0]    \* in scrn only
Junk    == [id |-> -2, st |-> 0]    \* parts of lines

eofline(s) == Len(s.text) - 1       \* lines are counted from 0
RowsOf(w)  == w.y .. w.y + w.h - 1
LineAt(w, y) == w.top + y - w.y
Mark(s, S) ==                       \* to be drawn, with unknown highlighting
  [s EXCEPT !.updtab = [y \in Rows |-> IF y \in S THEN 1 ELSE @[y]],
            !.syntab = [y \in Rows |-> IF y \in S THEN -1 ELSE @[y]]]
Redraw(s, S) == [s EXCEPT !.updtab = [y \in Rows |-> IF y \in S THEN 1 ELSE @[y]]]
updall(s) == Mark(s, Rows)

-----------------------------------------------------------------------------
(* Requests to scroll: sary says how far below a row is what belongs there,*)
(* LI that it is nowhere.                                                  *)
Scrolls(cap) == (cap.cs /\ cap.sf /\ cap.sr) \/ (cap.al /\ cap.dl)
Amount(s, size, amnt) ==
  IF ~Scrolls(s.cap) \/ amnt > size \/ (amnt < size /\ size - amnt < amnt \div 2) THEN size ELSE amnt
Shifted(q, a) == IF q = LI THEN LI ELSE q + a
Downwards(s, top, bot, a) ==
  [s EXCEPT
     !.sary   = [x \in Rows |-> IF x \in top + a .. bot - 1 THEN Shifted(@[x - a], -a)
                                ELSE IF x \in top .. top + a - 1 THEN LI ELSE @[x]],
     !.updtab = [x \in Rows |-> IF x \in top + a .. bot - 1 THEN @[x - a]
                                ELSE IF x \in top .. top + a - 1 THEN 1 ELSE @[x]],
     !.syntab = [x \in Rows |-> IF x \in top + a .. bot - 1 THEN @[x - a]
                                ELSE IF x \in top .. top + a - 1 THEN -1 ELSE @[x]]]
Upwards(s, top, bot, a) ==
  [s EXCEPT
     !.sary   = [x \in Rows |-> IF x \in top .. bot - a - 1 THEN Shifted(@[x + a], a)
                                ELSE IF x \in bot - a .. bot - 1 THEN LI ELSE @[x]],
     !.updtab = [x \in Rows |-> IF x \in top .. bot - a - 1 THEN @[x + a]
                                ELSE IF x \in bot - a .. bot - 1 THEN 1 ELSE @[x]],
     !.syntab = [x \in Rows |-> IF x \in top .. bot - a - 1 THEN @[x + a]
                                ELSE IF x \in bot - a .. bot - 1 THEN -1 ELSE @[x]]]
Refused(top, bot, amnt) == amnt = 0 \/ top >= bot \/ bot > LI
nscrldn(s, top, bot, amnt) ==
  IF Refused(top, bot, amnt) THEN s ELSE Downwards(s, top, bot, Amount(s, bot - top, amnt))
nscrlup(s, top, bot, amnt) ==
  IF Refused(top, bot, amnt) THEN s ELSE Upwards(s, top, bot, Amount(s, bot - top, amnt))

-----------------------------------------------------------------------------
(* The terminal, from how scrn.c uses it: rows are deleted or inserted in a*)
(* region.  What comes in at the edge of the screen may be something that  *)
(* had left it there.                                                      *)
Up(f, top, bot, a, new) ==
  [x \in Rows |-> IF x \in top .. bot - a - 1 THEN f[x + a]
                  ELSE IF x \in bot - a .. bot - 1 THEN new ELSE f[x]]
Down(f, top, bot, a, new) ==
  [x \in Rows |-> IF x \in top + a .. bot - 1 THEN f[x - a]
                  ELSE IF x \in top .. top + a - 1 THEN new ELSE f[x]]
Above(cap, top) == IF cap.da /\ top = 0 THEN Junk ELSE Blank
Below(cap, bot) == IF cap.db /\ bot = LI THEN Junk ELSE Blank
Delete(cap, t, top, bot, a) == Up(t, top, bot, a, Below(cap, bot))
Insert(t, top, bot, a)      == Down(t, top, bot, a, Blank)
Whole(cap, top, bot) == bot = LI /\ ((top = 0 /\ cap.sf) \/ cap.dl)

(* doupscrl, dodnscrl: with a scrolling region, or rows are deleted at one *)
(* end and inserted at the other.                                          *)
TermUp(cap, t, top, bot, a) ==
  IF Whole(cap, top, bot) \/ (cap.cs /\ cap.sf) THEN Delete(cap, t, top, bot, a)
  ELSE Insert(Delete(cap, t, top, LI, a), bot - a, LI, a)
TermDown(cap, t, top, bot, a) ==
  CASE cap.sr /\ ((top = 0 /\ bot = LI) \/ (cap.cs /\ ~(bot = LI /\ cap.al))) ->
         Down(t, top, bot, a, Above(cap, top))
    [] bot = LI /\ cap.al -> Insert(t, top, LI, a)
    [] OTHER -> Insert(Delete(cap, t, bot - a, LI, a), top, LI, a)
doupscrl(s, top, bot, a) ==
  LET z == [s EXCEPT !.term = TermUp(s.cap, @, top, bot, a)]
  IN IF bot = LI /\ s.cap.db
     THEN Mark([z EXCEPT !.scrn = Up(@, top, bot, a, Unknown)], LI - a .. LI - 1)
     ELSE [z EXCEPT !.scrn = Up(@, top, bot, a, Blank)]
dodnscrl(s, top, bot, a) ==
  LET z == [s EXCEPT !.term = TermDown(s.cap, @, top, bot, a)]
  IN IF top = 0 /\ s.cap.da
     THEN Mark([z EXCEPT !.scrn = Down(@, top, bot, a, Unknown)], 0 .. a - 1)
     ELSE [z EXCEPT !.scrn = Down(@, top, bot, a, Blank)]

(* nscroll: runs of rows with one distance at a time, those that go up from*)
(* the top, those that go down from the bottom; until a key is typed, after*)
(* left pieces of work.                                                    *)
Still(q) == q \in {0, LI}
Worked(s) == [s EXCEPT !.left = @ - 1]
Settled(s, z, y) == [s EXCEPT !.sary = [x \in Rows |-> IF x \in z .. y THEN 0 ELSE @[x]]]
RunEnd(s, y) == Max({z \in y .. LI - 1 : \A x \in y .. z : s.sary[x] = s.sary[y]})
RunStart(s, p) == Min({z \in 0 .. p : \A x \in z .. p : s.sary[x] = s.sary[p]})
FallEnd(s, y) ==
  Max({z \in y .. LI - 1 : \A x \in y .. z : s.sary[x] < 0 \/ s.sary[x] = LI})
ScrollUp(s, y, z) == doupscrl(Settled(s, y, z), y, z + 1 + s.sary[y], s.sary[y])
ScrollDown(s, z, p) == dodnscrl(Settled(s, z, p), z + s.sary[p], p + 1, -s.sary[p])
RECURSIVE Falling(_, _, _), Scrolling(_, _)
Falling(s, p, y) ==
  CASE p < y -> s
    [] p >= y /\ Still(s.sary[p]) -> Falling(s, p - 1, y)
    [] OTHER -> Falling(ScrollDown(s, RunStart(s, p), p), p, y)
Scrolling(s, y) ==
  CASE y = LI -> [s EXCEPT !.sary = [x \in Rows |-> 0]]
    [] y < LI /\ s.left = 0 -> s
    [] y < LI /\ s.left > 0 /\ Still(s.sary[y]) -> Scrolling(s, y + 1)
    [] y < LI /\ s.left > 0 /\ s.sary[y] \in 1 .. LI - 1 ->
         Scrolling(Worked(ScrollUp(s, y, RunEnd(s, y))), RunEnd(s, y) + 1)
    [] OTHER -> Scrolling(Worked(Falling(s, FallEnd(s, y), y)), FallEnd(s, y) + 1)
nscroll(s) == Scrolling(s, 0)

-----------------------------------------------------------------------------
(* The windows.  bwins, bwdel: an edit from line l on has inserted or      *)
(* deleted n ends of lines, flg tells that it left the start of line l;    *)
(* the pointers of the windows have not moved yet.                         *)
bwins(s, w, l, n, flg) ==
  LET bot == w.top + w.h
      scrolls == l + flg + n < bot /\ l + flg >= w.top /\ l + flg <= eofline(s)
      split == IF flg = 1 /\ w.y + l - w.top \in Rows
               THEN [s EXCEPT !.sary[w.y + l - w.top] = LI] ELSE s
      moved == IF scrolls THEN nscrldn(split, w.y + l + flg - w.top, w.y + w.h, n) ELSE s
  IN IF l < bot /\ l >= w.top
     THEN Mark(moved, {y \in RowsOf(w) : LineAt(w, y) \in l .. (l + n)}) ELSE moved

LinesFrom(s, w, ls) == Redraw(s, {y \in RowsOf(w) : LineAt(w, y) \in ls})
MarkedDel(s, w, l, n) ==
  LET z == LinesFrom(s, w, {l, l + 1, l + n})
  IN [z EXCEPT !.syntab = [y \in Rows |-> IF y \in RowsOf(w) /\ LineAt(w, y) = l + 1 THEN -1 ELSE @[y]]]
(* Faulty variant of bwdel: the rows from the line of the change on move,  *)
(* even when their window starts below it.                                 *)
bwdel_Top(s, w, l, n, flg) ==
  LET z == MarkedDel(s, w, l, n)
      bot == w.top + w.h
  IN CASE l < bot /\ (l + n >= bot \/ (l + n = eofline(s) /\ eofline(s) >= bot)) ->
            LinesFrom(z, w, l .. bot)
       [] l < bot /\ l + n < bot /\ l + n = eofline(s) -> LinesFrom(z, w, l .. l + n - 1)
       [] l + n < bot /\ l + n > w.top /\ l + n < eofline(s) ->
            nscrlup(z, Max({w.y, w.y + l + flg - w.top}), w.y + w.h, n)
       [] OTHER -> z
bwdel(s, w, l, n, flg) ==
  LET z == MarkedDel(s, w, l, n)
      bot == w.top + w.h
  IN CASE l < bot /\ (l + n >= bot \/ (l + n = eofline(s) /\ eofline(s) >= bot)) ->
            LinesFrom(z, w, l .. bot)
       [] l < bot /\ l + n < bot /\ l + n = eofline(s) -> LinesFrom(z, w, l .. l + n - 1)
       [] l + n < bot /\ l + n > w.top /\ l + n < eofline(s) ->
            IF l + flg >= w.top THEN nscrlup(z, w.y + l + flg - w.top, w.y + w.h, n)
            ELSE nscrlup(z, w.y, w.y + w.h, l + n - w.top)
       [] OTHER -> z
scrins(s, l, n, flg) == FoldLeft(LAMBDA z, w : bwins(z, w, l, n, flg), s, s.win)
scrdel(s, l, n, flg) == FoldLeft(LAMBDA z, w : bwdel(z, w, l, n, flg), s, s.win)

(* Lines of the text that an edit makes get new numbers; one of them may   *)
(* begin or end a comment.                                                 *)
NewLines(s, k, q) == [i \in 1 .. k |-> [id |-> s.fresh + i, q |-> q /\ i = 1]]
Replaced(s, l, old, k, q) ==
  [s EXCEPT !.text = SubSeq(@, 1, l) \o NewLines(s, k, q) \o SubSeq(@, l + old + 1, Len(@)),
            !.fresh = @ + k]
(* fixupins, bcut: pointers behind the edit move with their text.  A top   *)
(* of a window that was in text that is deleted may end inside a line.     *)
AfterIns(w, l, n, flg, behind) ==
  LET over == w.top > l \/ (w.top = l /\ w.inside /\ (flg = 0 \/ behind))
  IN [w EXCEPT !.top = IF over THEN @ + n ELSE @,
               !.cur = IF @ > l \/ (@ = l /\ behind) THEN @ + n ELSE @]
Fallen(x, l, n) == CASE x <= l -> x [] x \in l + 1 .. l + n -> l [] OTHER -> x - n
AfterDel(w, l, n, flg) ==
  [w EXCEPT !.top = Fallen(@, l, n), !.cur = Fallen(@, l, n),
            !.inside = CASE w.top \in l + 1 .. l + n -> flg = 1
                         [] w.top = l -> @ /\ flg = 1
                         [] OTHER -> @]
binsm(s, l, n, flg, changed, behind, q) ==
  LET old == IF flg = 1 \/ n = 0 \/ changed THEN 1 ELSE 0
      z == Replaced(scrins(s, l, n, flg), l, old, n + old, q)
  IN [z EXCEPT !.win = [i \in DOMAIN @ |-> AfterIns(@[i], l, n, flg, behind)]]
bdel(s, l, n, flg, changed, q) ==
  LET k == IF flg = 1 \/ n = 0 \/ changed THEN 1 ELSE 0
      z == Replaced(scrdel(s, l, n, flg), l, n + k, k, q)
  IN [z EXCEPT !.win = [i \in DOMAIN @ |-> AfterDel(@[i], l, n, flg)]]

(* scrup, scrdn: by n lines as far as there are any.                       *)
Moved(s, i, top, cur) == [s EXCEPT !.win[i].top = top, !.win[i].cur = cur,
                                   !.win[i].inside = @ /\ top = s.win[i].top]
Least(a, b) == IF a < b THEN a ELSE b
scrup(s, i, n, flg) ==
  LET w == s.win[i]
      amnt == Least(n, w.top)
      back == IF w.top > 0 THEN Least(amnt, w.cur) ELSE IF flg THEN w.cur ELSE IF w.cur >= n THEN n ELSE 0
      z == [Moved(s, i, w.top - amnt, w.cur - back) EXCEPT !.win[i].inside = FALSE]
  IN nscrldn(z, w.y, w.y + w.h, amnt)
scrdn(s, i, n, flg) ==
  LET w == s.win[i]
      rest == eofline(s) - (w.top + w.h)
      amnt == IF rest < 0 THEN 0 ELSE Least(n, rest + 1)
      ahead == IF rest >= 0 THEN amnt ELSE IF flg THEN eofline(s) - w.cur ELSE Least(n, eofline(s) - w.cur)
  IN nscrlup(Moved(s, i, w.top + amnt, Least(w.cur + ahead, eofline(s))), w.y, w.y + w.h, amnt)
Half(w) == (w.h + 1) \div 2
upgup(s, i) == IF s.win[i].cur = 0 THEN s ELSE scrup(s, i, Half(s.win[i]), TRUE)
upgdn(s, i) == IF s.win[i].cur = eofline(s) THEN s ELSE scrdn(s, i, Half(s.win[i]), TRUE)
uupslide(s, i) ==
  LET w == s.win[i]
      z == IF w.top + w.h - 1 # w.cur THEN Moved(s, i, w.top, Least(w.cur + 1, eofline(s))) ELSE s
  IN IF w.top = 0 THEN s ELSE scrup(z, i, 1, FALSE)
udnslide(s, i) ==
  LET w == s.win[i]
      z == IF w.top # w.cur THEN Moved(s, i, w.top, Max({w.cur - 1, 0})) ELSE s
  IN IF w.top + w.h > eofline(s) THEN s ELSE scrdn(z, i, 1, FALSE)

(* bwfllw: the window follows its cursor.                                  *)
NewTop(s, w) ==
  CASE w.cur < w.top -> IF s.mid THEN Max({w.cur - w.h \div 2, 0}) ELSE w.cur
    [] w.cur >= w.top + w.h -> w.cur - (IF s.mid THEN w.h \div 2 ELSE w.h - 1)
    [] OTHER -> w.top
bwfllw(s, i) ==
  LET w == s.win[i]
      top == NewTop(s, w)
      z == Moved(s, i, top, w.cur)
  IN CASE top = w.top -> s
       [] top < w.top /\ w.top - top < w.h -> nscrldn(z, w.y, w.y + w.h, w.top - top)
       [] top > w.top /\ top - w.top < w.h -> nscrlup(z, w.y, w.y + w.h, top - w.top)
       [] OTHER -> Mark(z, RowsOf(w))
dofollows(s) == FoldLeft(bwfllw, s, [i \in DOMAIN s.win |-> i])

-----------------------------------------------------------------------------
(* get_highlight_state: whether row y starts inside a comment.  If it is   *)
(* not known, it is derived from the nearest row above where it is, and so *)
(* are those of all rows below that one.                                   *)
Toggles(s, a, b) == Cardinality({i \in (a + 1) .. b : i <= Len(s.text) /\ s.text[i].q}) % 2
KnownRow(s, w, y) == Max({w.y} \cup {x \in w.y .. y : s.syntab[x] >= 0})
Coloured(s, w, k) ==
  LET z == IF s.syntab[k] >= 0 THEN s
           ELSE [s EXCEPT !.syntab[k] = Toggles(s, 0, LineAt(w, k)), !.updtab[k] = 1]
      below == {x \in RowsOf(w) : x > k}
  IN [z EXCEPT !.syntab = [x \in Rows |-> IF x \in below
                             THEN (z.syntab[k] + Toggles(s, LineAt(w, k), LineAt(w, x))) % 2
                             ELSE @[x]],
               !.updtab = [x \in Rows |-> IF x \in below /\ LineAt(w, x) <= Len(s.text) THEN 1 ELSE @[x]]]
get_highlight_state(s, w, y) ==
  IF ~s.highlight \/ s.syntab[y] >= 0 THEN s ELSE Coloured(s, w, KnownRow(s, w, y))

(* lgen, outatr: what is on the screen already is not sent again.          *)
Line(s, w, y) ==
  IF LineAt(w, y) > eofline(s) THEN Blank
  ELSE [id |-> s.text[LineAt(w, y) + 1].id, st |-> IF s.highlight THEN s.syntab[y] ELSE 0]
Send(s, y, c) ==
  [s EXCEPT !.term[y] = IF s.scrn[y] = c THEN @ ELSE c, !.scrn[y] = c]
lgen(s, w, y) ==
  IF s.left > 1 THEN [Worked(Send(s, y, Line(s, w, y))) EXCEPT !.updtab[y] = 0]
  ELSE [Send(s, y, Junk) EXCEPT !.left = 0, !.updtab[y] = 1]   \* a key has come
(* bwgen: from the cursor down, then the rest, until a key has come.       *)
DrawRow(s, i, y) ==
  IF s.updtab[y] = 0 \/ s.left = 0 THEN s
  ELSE lgen(get_highlight_state(s, s.win[i], y), s.win[i], y)
Order(w) ==
  LET c == w.cur - w.top
  IN [x \in 1 .. w.h |-> w.y + IF x <= w.h - c THEN c + x - 1 ELSE x - (w.h - c) - 1]
bwgen(s, i) == FoldLeft(LAMBDA z, y : DrawRow(z, i, y), s, Order(s.win[i]))

(* edupd: all windows, the one of the cursor first.                        *)
edupd(s, k) ==
  LET z == nscroll(dofollows([s EXCEPT !.left = k]))
  IN FoldLeft(bwgen, z, [i \in DOMAIN s.win |-> i])

(* nredraw: the terminal is cleared.                                       *)
nredraw(s) ==
  LET e == [y \in Rows |-> Blank]
  IN [Mark(s, Rows) EXCEPT !.sary = [y \in Rows |-> 0], !.scrn = e, !.term = e]

-----------------------------------------------------------------------------
Start(u) ==
  nredraw([text |-> u.text, fresh |-> Len(u.text), win |-> u.win, cap |-> u.cap, mid |-> u.mid,
           highlight |-> u.highlight, left |-> 0, updates |-> 0, edits |-> 0,
           sary |-> [y \in Rows |-> 0], updtab |-> [y \in Rows |-> 0], syntab |-> [y \in Rows |-> -1],
           scrn |-> [y \in Rows |-> Blank], term |-> [y \in Rows |-> Blank]])
Init == steps = 0 /\ \E u \in Setups : scr = Start(u)

(* With highlighting the colours are claimed only where each step waits for*)
(* an update, lines are not changed above a window, and no whole line that *)
(* begins or ends a comment goes (bwdel marks one row below, no more).     *)
Waits == scr.highlight => scr.updates > 0
Step(s) == Waits /\ steps < MaxSteps /\ steps' = steps + 1 /\ scr' = [s EXCEPT !.updates = 0]
Edit(s) == scr.edits < MaxEdits /\ Step([s EXCEPT !.edits = @ + 1])
JustAbove(l) == \E i \in DOMAIN scr.win : scr.win[i].top = l + 1
InView(l) == scr.highlight => \A i \in DOMAIN scr.win : scr.win[i].top <= l
Uncommented(l, n) == \A x \in l .. l + n : ~scr.text[x + 1].q
Odd == IF scr.highlight THEN BOOLEAN ELSE {FALSE}
Type ==
  \E l \in 0 .. eofline(scr), n \in Amounts \cup {0}, flg \in {0, 1}, changed, behind \in BOOLEAN, q \in Odd :
    /\ n = 0 => flg = 0 /\ ~changed /\ ~behind
    /\ flg = 1 => ~changed
    /\ flg = 1 => ~JustAbove(l)
    /\ InView(l)
    /\ Edit(binsm(scr, l, n, flg, changed, behind, q))
Kill ==
  \E l \in 0 .. eofline(scr), n \in Amounts \cup {0}, flg \in {0, 1}, changed \in BOOLEAN, q \in Odd :
    /\ l + n <= eofline(scr)
    /\ n = 0 => flg = 0 /\ changed
    /\ flg = 1 => ~changed /\ (n > 1 => ~JustAbove(l))
    /\ q => flg = 1 \/ changed
    /\ InView(l) /\ (n > 0 => Uncommented(l, n) /\ ~q)
    /\ Edit(bdel(scr, l, n, flg, changed, q))
Move == \E i \in DOMAIN scr.win, l \in 0 .. eofline(scr) : Step([scr EXCEPT !.win[i].cur = l])
Scroll ==
  \E i \in DOMAIN scr.win :
    Step(upgup(scr, i)) \/ Step(upgdn(scr, i)) \/ Step(uupslide(scr, i)) \/ Step(udnslide(scr, i))
Refresh == Step(updall(scr)) \/ Step(nredraw(scr))
(* Before each key: enough work for all, or a key comes while it goes on.  *)
All == 1000
Interrupted ==
  \E k \in 0 .. 2 * LI :
    /\ edupd(scr, k).left = 0
    /\ Step(edupd(scr, k))
Update ==
  /\ scr.updates < 2
  /\ scr' = [edupd(scr, All) EXCEPT !.left = 0, !.updates = scr.updates + 1]
  /\ UNCHANGED steps
Next == Type \/ Kill \/ Move \/ Scroll \/ Refresh \/ Interrupted \/ Update
Spec == Init /\ [][Next]_vars

-----------------------------------------------------------------------------
(* What should hold.                                                       *)

(* The terminal has what scrn says, which is why rows that have not changed*)
(* need not be sent.                                                       *)
ScrnTrue == \A y \in Rows : scr.scrn[y] \in {Unknown, scr.term[y]}
(* After an update that no key has cut short ("allow typeahead to defer the*)
(* screen update", joe.1.in:944) every row of a window shows its line, or  *)
(* nothing behind the last one; with the colours of the comments it is in  *)
(* when the next update has come, at the latest.                           *)
Wanted(w, y) ==
  IF LineAt(w, y) > eofline(scr) THEN Blank
  ELSE [id |-> scr.text[LineAt(w, y) + 1].id,
        st |-> IF scr.highlight THEN Toggles(scr, 0, LineAt(w, y)) ELSE 0]
AllRows(Right(_, _)) == \A i \in DOMAIN scr.win : \A y \in RowsOf(scr.win[i]) : Right(scr.win[i], y)
TextShown == AllRows(LAMBDA w, y : scr.term[y].id = Wanted(w, y).id)
ColoursShown == AllRows(LAMBDA w, y : scr.term[y] = Wanted(w, y))
ScreenRight ==
  /\ ScrnTrue
  /\ scr.updates > 0 => TextShown
  /\ scr.updates = 2 => ColoursShown
=============================================================================
