------------------------------- MODULE Cursor -------------------------------
(***************************************************************************)
(* Where the cursor of the terminal is (src/scrn.c).  The editor keeps its *)
(* own account of it, finds the cheapest way from there to where it writes *)
(* next (relcost, cposs), and never asks the terminal.                     *)
(*                                                                         *)
(* A terminal is a record of costs: the bytes a capability sends, Never    *)
(* when it has none; homes: setting a scrolling region homes the cursor.   *)
(* Home and last line are those of the screen (no rr).                     *)
(***************************************************************************)
EXTENDS Integers, Sequences, FiniteSets, SequencesExt

CONSTANTS
  CO, LI, tw,   \* columns, rows, distance of the tab stops
  Terminals

VARIABLE crs    \* see Start

Never == 10000
Least(a, b) == IF a < b THEN a ELSE b
Most(a, b)  == IF a > b THEN a ELSE b
Sum(T, way) == FoldSeq(LAMBDA cap, n : T[cap] + n, 0, way)

(* x, y: the cursor as the editor has it, -1 when unknown; at: where it is.*)
(* top, bot: the scrolling region; scrolled: text has moved that should    *)
(* not have; strayed: some output went where it was not to go.             *)
Start(T) ==
  [term |-> T, x |-> -1, y |-> -1, at |-> <<0, 0>>, top |-> 0, bot |-> LI,
   scrolled |-> FALSE, strayed |-> FALSE]

----------------------------------------------------------------------------
(* relcost: what movements relative to position p cost.                    *)

(* One by one, or all at once, with one more byte for a number of two.     *)
Cheaper(unit, all, dist) == Least(unit * dist, all + IF dist < 10 THEN 0 ELSE 1)

RowCost(T, y, oy) ==
  CASE y > oy -> Cheaper(T.lf, T.DO, y - oy)
    [] y < oy -> Cheaper(T.up, T.UP, oy - y)
    [] OTHER -> 0

Ceil(x) == (x + tw - 1) \div tw
(* Tabs from column ox towards x, to the stop before it (under) or past it *)
(* (over): how many, and where they end.  relcost allows them to cost slack*)
(* more than cposs does, and counts one more back from a tab stop.         *)
(* Faulty variant of Tabs: the columns past the last stop are forgotten.   *)
Tabs_Short(x, ox, slack) ==
  IF x > ox THEN (x - ox) \div tw
  ELSE Ceil(ox) - Ceil(x) + IF ox % tw = 0 THEN slack ELSE 0
Tabs(x, ox, slack) ==
  IF x > ox THEN (x - ox + (ox % tw)) \div tw
  ELSE Ceil(ox) - Ceil(x) + IF ox % tw = 0 THEN slack ELSE 0

Tabbing(T, x, ox, slack) ==
  LET right == x > ox
      n == Tabs(x, ox, slack)
      rest == x % tw
      under == IF right THEN rest + T.ta * n ELSE Least(Never, T.bt * n + T.bs * (tw - rest))
      over == CASE right /\ x + tw < CO -> Least(Never, T.bs * (tw - rest) + T.ta * (n + 1))
                [] ~right /\ x >= tw    -> T.bt * (n + 1) + rest
                [] OTHER -> Never
      Short(cost) == cost < IF right THEN x - ox ELSE (ox - x) * T.bs
      before == x - rest
  IN CASE T[IF right THEN "ta" ELSE "bt"] = Never -> [n |-> 0, to |-> ox, cost |-> Never]
       [] under < T[IF right THEN "RI" ELSE "LE"] + slack /\ Short(under) /\ under < over ->
            [n |-> n, cost |-> under,
             to |-> IF n = 0 THEN ox ELSE IF right THEN before ELSE before + tw]
       [] over < T.RI + slack /\ Short(over) ->
            [n |-> n + 1, cost |-> over, to |-> IF right THEN before + tw ELSE before]
       [] OTHER -> [n |-> 0, to |-> ox, cost |-> Never]

ColCost(T, x, ox) ==
  CASE x = ox -> 0
    [] x # ox /\ Tabbing(T, x, ox, 1).cost < Never -> Tabbing(T, x, ox, 1).cost
    [] x < ox /\ Tabbing(T, x, ox, 1).cost >= Never ->
         IF T.bs = Never THEN T.LE ELSE Cheaper(T.bs, T.LE, ox - x)
    [] OTHER -> Cheaper(1, T.RI, x - ox)

relcost(T, x, y, p) ==
  IF -1 \in {p[1], p[2]} THEN Never
  ELSE Least(Never, RowCost(T, y, p[2]) + ColCost(T, x, p[1]))

----------------------------------------------------------------------------
(* cposs: the first of the cheapest ways, in the order in which they are   *)
(* tried; absolute movements first, the rest is relative.                  *)

Ways ==
  << <<>>, <<"cm">>, <<"cr">>, <<"ho">>, <<"ll">>, <<"ch">>, <<"cv">>, <<"cV">>,
     <<"cv", "ch">>, <<"cr", "cv">>, <<"ll", "ch">>, <<"ll", "cv">>, <<"ho", "ch">>,
     <<"ho", "cv">> >>
Tried(way, s, x, y) ==
  /\ way \in {<<"ch">>, <<"cv", "ch">>} => x # s.x
  /\ way \in {<<"cv">>, <<"cv", "ch">>, <<"cr", "cv">>} => y # s.y

(* Where an absolute movement for <<x, y>> leads from p.                   *)
Goes(cap, p, x, y) ==
  CASE cap = "cm" -> <<x, y>>    [] cap = "cr" -> <<0, p[2]>>
    [] cap = "ho" -> <<0, 0>>    [] cap = "ll" -> <<0, LI - 1>>
    [] cap = "ch" -> <<x, p[2]>> [] cap = "cv" -> <<p[1], y>>
    [] cap = "cV" -> <<0, y>>
Along(way, p, x, y) == FoldLeft(LAMBDA q, cap : Goes(cap, q, x, y), p, way)

Cost(s, way, x, y) ==
  IF Tried(way, s, x, y)
  THEN Sum(s.term, way) + relcost(s.term, x, y, Along(way, <<s.x, s.y>>, x, y))
  ELSE 2 * Never
Best(s, x, y) ==
  LET cost == [i \in DOMAIN Ways |-> Cost(s, Ways[i], x, y)] IN
  Ways[CHOOSE i \in DOMAIN Ways :
         /\ \A j \in DOMAIN Ways : cost[i] <= cost[j]
         /\ \A j \in 1 .. i - 1 : cost[i] < cost[j]]

Absolute(s, way, x, y) ==
  LET p == Along(way, <<s.x, s.y>>, x, y) IN
  [s EXCEPT !.x = p[1], !.y = p[2], !.at = Along(way, @, x, y)]

(* Up or down to row y.  The terminal: lf on the last row of the region    *)
(* scrolls, DO stops there.                                                *)
ToRow(s, y) ==
  LET T == s.term
      lf == T.DO >= (y - s.y) * T.lf
      to == s.at[2] + y - s.y IN
  CASE y > s.y -> [s EXCEPT !.y = y, !.at[2] = Least(to, s.bot - 1),
                            !.scrolled = @ \/ (lf /\ to >= s.bot)]
    [] y < s.y /\ Least(T.up, T.UP) < Never -> [s EXCEPT !.y = y, !.at[2] = Most(to, 0)]
    [] OTHER -> [s EXCEPT !.y = y]

(* n tab stops on or back, as the terminal has them.                       *)
Stops(col, n, right) ==
  IF n = 0 THEN col
  ELSE IF right THEN Least((col \div tw + n) * tw, CO - 1) ELSE Most((Ceil(col) - n) * tw, 0)
ToStop(s, x) ==
  LET tabs == Tabbing(s.term, x, s.x, 0) IN
  IF x = s.x THEN s
  ELSE [s EXCEPT !.x = tabs.to, !.at[1] = Stops(@, tabs.n, x > s.x)]

ToColumn(s, x) ==
  LET T == s.term
      can == \/ x < s.x /\ Least(T.bs, T.LE) < Never
             \/ x > s.x /\ (T.nd < Never \/ (x - s.x > 1 /\ T.RI < Never)) IN
  [s EXCEPT !.x = x, !.at[1] = IF can THEN Least(Most(@ + x - s.x, 0), CO - 1) ELSE @]

cposs(s, x, y) == ToColumn(ToStop(ToRow(Absolute(s, Best(s, x, y), x, y), y), x), x)

----------------------------------------------------------------------------
(* Faulty variant of setregn: the cursor is thought to stay.               *)
setregn_Stays(s, top, bot) ==
  IF s.top = top /\ s.bot = bot THEN s
  ELSE [s EXCEPT !.top = top, !.bot = bot, !.at = IF s.term.homes THEN <<0, 0>> ELSE @]
setregn(s, top, bot) ==
  IF s.top = top /\ s.bot = bot THEN s
  ELSE [s EXCEPT !.top = top, !.bot = bot, !.at = IF s.term.homes THEN <<0, 0>> ELSE @,
                 !.x = -1, !.y = -1]

(* n columns written.                                                      *)
Put(s, n) == [s EXCEPT !.x = @ + n, !.at[1] = @ + n]

(* cpos: to the right, up to three characters are written again, as far as *)
(* they are plain ones (k of them).                                        *)
Near(s, x, y) == y = s.y /\ x > s.x /\ x - s.x < 4
Rewritten(s, x, y, k) == IF Near(s, x, y) THEN Put(s, Least(k, x - s.x)) ELSE s
Regioned(s, y) == IF y < s.top \/ y >= s.bot THEN setregn(s, 0, LI) ELSE s
cpos(s, x, y, k) ==
  LET z == Rewritten(s, x, y, k) IN
  IF x = z.x /\ y = z.y THEN z ELSE cposs(Regioned(z, y), x, y)

(* Output of n columns from <<x, y>> on; the last column is left alone.    *)
Written(s, x, y, n) == [Put(s, n) EXCEPT !.strayed = @ \/ s.at # <<x, y>>]
Columns == 0 .. CO - 2
Rows    == 0 .. LI - 1
(* With back tabs, the columns at the stops: README, section 11.           *)
Reached(x) == crs.term.bt < Never => x % tw # 0

outatr ==
  \E x \in Columns, y \in Rows : \E k \in IF Near(crs, x, y) THEN 0 .. 3 ELSE {3} :
    Reached(x) /\ crs' = Written(cpos(crs, x, y, k), x, y, 1)
(* Blanks one by one, or ce and nothing moves.                             *)
eraeol ==
  \E x \in Columns, y \in Rows, n \in {0, 3} :
    /\ Reached(x) /\ x + n < CO
    /\ crs' = Written(cpos(crs, x, y, 0), x, y, n)
(* doupscrl, dodnscrl: in a region, from its last or its first row; or     *)
(* rows are deleted and inserted from the start of one.                    *)
Scroll ==
  \E top \in Rows, bot \in 2 .. LI, last \in BOOLEAN :
    LET y == IF last THEN bot - 1 ELSE top IN
    /\ top < bot /\ Reached(0)
    /\ crs' = Written(cpos(IF crs.term.cs THEN setregn(crs, top, bot) ELSE crs, 0, y, 0), 0, y, 0)
(* After another program had the terminal: where the cursor is and what the*)
(* region is, nobody knows.  Most clear the screen, which homes the cursor.*)
nredraw ==
  \E x \in Columns, y \in Rows :
    crs' = IF crs.term.cl THEN [crs EXCEPT !.x = 0, !.y = 0, !.at = <<0, 0>>, !.top = 0, !.bot = LI]
           ELSE [crs EXCEPT !.x = -1, !.y = -1, !.at = <<x, y>>, !.top = 0, !.bot = LI]

Init == \E T \in Terminals : crs = Start(T)
Next == outatr \/ eraeol \/ Scroll \/ nredraw

(* The cursor is where the editor has it or the editor knows that it does  *)
(* not know; output goes where it is meant to go; and no way there scrolls *)
(* the text (cposs picks between fourteen, by costs that are worked out    *)
(* apart from the movements).                                              *)
CursorRight ==
  /\ -1 \notin {crs.x, crs.y} => crs.at = <<crs.x, crs.y>>
  /\ ~crs.strayed /\ ~crs.scrolled
=============================================================================
