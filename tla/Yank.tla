-------------------------------- MODULE Yank --------------------------------
(***************************************************************************)
(* Killed text (src/undo.c: yankdel, uyapp, uyank, uyankpop, ucopy): a ring*)
(* of what deletions have removed.  Kills in a row collect in one record;  *)
(* yank inserts the newest, yankpop puts the one before it in its place.   *)
(* The kills are those of uedit.c, and what undo removes is kept as well.  *)
(* One buffer; the letters are alphanumeric, "\n" is white space.          *)
(***************************************************************************)
EXTENDS Integers, Sequences, SequencesExt

CONSTANTS
  Letters,
  Original,   \* the text in the beginning
  Limit,      \* 100: the ring is kept below it
  MaxCmds     \* bound on the commands, movements not counted

ASSUME YankAssumption ==
  Original \in Seq(Letters) /\ "x" \in Letters /\ Limit \in Nat /\ Limit > 1

VARIABLES
  t, c,       \* the text and the offset of the cursor
  markb, markk,
  ring,       \* yanked, the oldest first
  justkilled,
  yankwhere,  \* NULL: nothing yanked yet
  last,       \* the records of a yank that is the latest command: undo's unit
  row,        \* history: the text before the kills that make up the newest
  yanking,    \* history: text and cursor before a yank and its yankpops
  cmds

NULL == -1
None == [t |-> <<>>, c |-> NULL]
yankVars == <<t, c, markb, markk, ring, justkilled, yankwhere, last, row, yanking, cmds>>
places   == <<markb, markk>>

Cut(i, j)      == SubSeq(t, i + 1, j)
With(s, i, x)  == SubSeq(s, 1, i) \o x \o SubSeq(s, i + 1, Len(s))
Without(i, j)  == Cut(0, i) \o Cut(j, Len(t))
Newest         == ring[Len(ring)]

(* Pointers at an edit (fixupins, fixupdel): one at the place of an        *)
(* insertion stays, one in a deletion comes to its start.                  *)
Pushed(p, i, n)    == IF p > i THEN p + n ELSE p
Pulled(p, i, j)    == IF p <= i THEN p ELSE IF p < j THEN i ELSE p - (j - i)

----------------------------------------------------------------------------
(* yankdel: text x that was at `where` goes on the ring; after a kill it   *)
(* joins the newest record when it was next to it.                         *)

Joins(where, n) ==
  /\ justkilled /\ ring # <<>>
  /\ where = Newest.where \/ where + n = Newest.where

(* Faulty variant of Joined: text from before the record goes behind it.   *)
Joined_Behind(rec, where, x) == [where |-> where, data |-> rec.data \o x]
Joined(rec, where, x) ==
  IF where = rec.where THEN [rec EXCEPT !.data = @ \o x]
  ELSE [where |-> where, data |-> x \o rec.data]

Enqueued(where, x) ==
  Append(IF Len(ring) + 1 = Limit THEN Tail(ring) ELSE ring, [where |-> where, data |-> x])

Fed(where, x) ==
  IF Joins(where, Len(x)) THEN [ring EXCEPT ![Len(ring)] = Joined(@, where, x)]
  ELSE Enqueued(where, x)

(* row after x has been killed.                                            *)
Row(where, x) ==
  IF ~Joins(where, Len(x)) THEN [t |-> t, c |-> 0] ELSE row

----------------------------------------------------------------------------
(* What execmd leaves behind a command: cmd->flag & EKILL.                 *)

Ends(kill, yank) ==
  /\ cmds < MaxCmds /\ cmds' = cmds + 1
  /\ justkilled' = kill
  /\ yank \/ (yankwhere' = yankwhere /\ last' = <<>> /\ yanking' = None)
  /\ kill \/ row' = None

(* bdel of i .. j by a kill, the cursor having been at or between them, or *)
(* anywhere for a block.  An empty one is an error that counts as a kill.  *)
Kill(i, j) ==
  /\ IF i >= j THEN UNCHANGED <<t, c, places, ring, row>>
     ELSE /\ t' = Without(i, j) /\ c' = Pulled(c, i, j)
          /\ markb' = Pulled(markb, i, j) /\ markk' = Pulled(markk, i, j)
          /\ ring' = Fed(i, Cut(i, j)) /\ row' = Row(i, Cut(i, j))
  /\ Ends(TRUE, FALSE)

Least(a, b)  == IF a < b THEN a ELSE b
Most(a, b)   == IF a > b THEN a ELSE b
At(i)        == IF i < Len(t) THEN t[i + 1] ELSE "eof"
Kind(i)      == IF At(i) \in {"\n", "eof"} THEN At(i) ELSE "letter"
(* The end of what lies ahead of the cursor, up to the first that is not   *)
(* in S.                                                                   *)
Ahead(S) == CHOOSE i \in c .. Len(t) :
  Kind(i) \notin S /\ \A k \in c .. i - 1 : Kind(k) \in S

udelch == Kill(c, Least(c + 1, Len(t)))
ubacks == Kill(Most(c - 1, 0), c)
udelel == Kill(c, Most(Ahead({"letter"}), Least(c + 1, Len(t))))
u_word_delete == Kill(c, Ahead({Kind(c)} \ {"eof"}))

markv == markb # NULL /\ markk > markb
ublkdel == Kill(IF markv THEN markb ELSE c, IF markv THEN markk ELSE c)
(* Copying feeds the ring as a deletion does, and is no kill.              *)
ucopy ==
  /\ ring' = IF markv THEN Fed(markb, Cut(markb, markk)) ELSE ring
  /\ Ends(FALSE, FALSE) /\ UNCHANGED <<t, c, places>>
(* The next kill is to join the newest record, from wherever it is.        *)
uyapp ==
  /\ ring' = IF ring = <<>> THEN ring ELSE [ring EXCEPT ![Len(ring)].where = c]
  /\ row' = None /\ Ends(TRUE, FALSE) /\ UNCHANGED <<t, c, places>>

umarkb == markb' = c /\ Ends(FALSE, FALSE) /\ UNCHANGED <<t, c, markk, ring>>
umarkk == markk' = c /\ Ends(FALSE, FALSE) /\ UNCHANGED <<t, c, markb, ring>>
utype  ==
  /\ t' = With(t, c, <<"x">>) /\ c' = c + 1
  /\ markb' = Pushed(markb, c, 1) /\ markk' = Pushed(markk, c, 1)
  /\ Ends(FALSE, FALSE) /\ UNCHANGED ring

(* Any movement.                                                           *)
Move ==
  /\ \E i \in 0 .. Len(t) : i # c /\ c' = i
  /\ justkilled' = FALSE /\ row' = None /\ yanking' = None /\ last' = <<>>
  /\ UNCHANGED <<t, places, ring, yankwhere, cmds>>

----------------------------------------------------------------------------
(* Yanking.  Insertion of x at i of a text s, the marks being p.           *)

Ins(i, x) == [del |-> FALSE, where |-> i, data |-> x]
Del(i, x) == [del |-> TRUE, where |-> i, data |-> x]
Puts(s, p, i, x) ==
  /\ t' = With(s, i, x) /\ c' = i + Len(x) /\ yankwhere' = i + Len(x)
  /\ markb' = Pushed(p[1], i, Len(x)) /\ markk' = Pushed(p[2], i, Len(x))

uyank ==
  /\ UNCHANGED ring
  /\ IF ring = <<>> THEN Ends(FALSE, FALSE) /\ UNCHANGED <<t, c, places>>
     ELSE /\ Puts(t, places, c, Newest.data)
          /\ last' = <<Ins(c, Newest.data)>> /\ yanking' = [t |-> t, c |-> c]
          /\ Ends(FALSE, TRUE)

(* Faulty variant of Turned: what yankpop takes away goes on the ring.     *)
Turned_Fed(i) == <<Newest>> \o Append(Front(ring), [where |-> i, data |-> Cut(i, c)])
Turned(i) == <<Newest>> \o Front(ring)

(* As many characters as the newest record has, before the cursor, give    *)
(* way to the record before it.                                            *)
uyankpop ==
  IF c # yankwhere THEN uyank
  ELSE LET i == Most(c - Len(Newest.data), 0)
           turned == Turned(i)
           x == Last(turned).data IN
       /\ ring' = turned
       /\ Puts(Without(i, c), <<Pulled(markb, i, c), Pulled(markk, i, c)>>, i, x)
       /\ last' = (IF i < c THEN <<Del(i, Cut(i, c))>> ELSE <<>>) \o <<Ins(i, x)>>
       /\ yanking' = yanking /\ Ends(FALSE, TRUE)

(* Undo of a yank or a yankpop that was the latest command: what it        *)
(* inserted is deleted, which feeds the ring, and what it deleted is back. *)
uundo ==
  /\ last # <<>>
  /\ LET ins == last[Len(last)]
         i == ins.where
         j == i + Len(ins.data)
         back == IF Len(last) = 2 THEN last[1].data ELSE <<>> IN
     /\ t' = With(Without(i, j), i, back) /\ c' = i
     /\ markb' = Pushed(Pulled(markb, i, j), i, Len(back))
     /\ markk' = Pushed(Pulled(markk, i, j), i, Len(back))
     /\ ring' = Fed(i, ins.data)
  /\ Ends(FALSE, FALSE)

----------------------------------------------------------------------------
YankInit ==
  /\ t = Original /\ c = 0 /\ markb = NULL /\ markk = NULL
  /\ ring = <<>> /\ justkilled = FALSE /\ yankwhere = NULL /\ last = <<>>
  /\ row = None /\ yanking = None /\ cmds = 0

YankNext ==
  \/ udelch \/ ubacks \/ udelel \/ u_word_delete \/ ublkdel
  \/ ucopy \/ uyapp \/ umarkb \/ umarkk \/ utype \/ Move
  \/ uyank \/ uyankpop \/ uundo

YankSpec == YankInit /\ [][YankNext]_yankVars

(* Kills in a row are one record: put back where it is from, it gives the  *)
(* text from before the first of them, whichever way they went (yankdel).  *)
RowWhole == row' # None => With(t', Newest'.where, Newest'.data) = row'.t

(* A yankpop behind a yank or a yankpop leaves the text as if the record   *)
(* before the one that was yanked had been yanked instead.                 *)
Before == ring[IF Len(ring) = 1 THEN 1 ELSE Len(ring) - 1]
PopReplaces ==
  yanking # None /\ yanking' = yanking =>
    /\ t' = With(yanking.t, yanking.c, Before.data)
    /\ c' = yanking.c + Len(Before.data)

(* Killed text comes back whole, and a yankpop replaces just what the yank *)
(* before it has inserted.                                                 *)
YankRight == [][RowWhole /\ PopReplaces]_yankVars
=============================================================================
