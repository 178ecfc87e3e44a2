-------------------------------- MODULE Undo --------------------------------
(***************************************************************************)
(* The undo system of one buffer (undo.c) as it is driven by the command   *)
(* loop (macro.c, exmacro) and by the save code (ufile.c, saver).          *)
(*                                                                         *)
(* A buffer keeps one list of undo records.  Every change made to the text *)
(* appends a record or grows the newest one.  The records made during one  *)
(* top-level command are one unit: its first and last record point at each *)
(* other.  Undo walks the list backwards unit by unit from `ptr' and, the  *)
(* changes it makes being changes like any other, appends their inverses   *)
(* to the same list; redo plays these inverses back and removes them.      *)
(*                                                                         *)
(* A command is a sequence of steps between Begin and End.  A record is    *)
(* named by its position in the list, so links move when the oldest unit   *)
(* is evicted or the newest record is removed.                             *)
(***************************************************************************)
EXTENDS Integers, Sequences

CONSTANTS
  Chunk,      (* the texts one primitive insertion can insert              *)
  Kinds,      (* the kinds of command a run explores                       *)
  Limit,      (* Limit[k]: the most primitive steps of a command of kind k *)
  UNDOKEEP,   (* number of units at which the oldest one is evicted        *)
  MaxText,    (* bound on the length of the text                           *)
  MaxRecs,    (* bound on the records in the list when a step is taken     *)
  MaxUnits    (* bound on nrecs when a step is taken                       *)

AllKinds == {"minor", "edit", "undo", "redo", "macro", "save", "notmod"}

ASSUME ChunkAssumption == Chunk \subseteq Seq(Nat) /\ <<>> \notin Chunk
ASSUME KindsAssumption == Kinds \subseteq AllKinds /\ Limit \in [Kinds -> Nat]
ASSUME KeepAssumption == UNDOKEEP \in Nat \ {0, 1}
ASSUME BoundAssumption == MaxText \in Nat /\ MaxRecs \in Nat /\ MaxUnits \in Nat

VARIABLES
  text,       (* the bytes of the buffer                                   *)
  changed,    (* b->changed: there are changes since the last save         *)
  disk,       (* the contents of the file the buffer is saved to           *)
  recs,       (* undo->recs, the oldest record first                       *)
  ptr,        (* undo->ptr: the record undone last, while undoing          *)
  first,      (* undo->first and undo->last: the records of the unit that  *)
  last,       (* the current command has opened                            *)
  nrecs,      (* undo->nrecs: number of units, as the code counts them     *)
  pc,         (* where the command loop is                                 *)
  kind,       (* the kind of the current command                           *)
  steps,      (* primitive steps taken by the current command              *)
  upto        (* the local of uundo and uredo: the record that ends a unit *)

undoVars == <<recs, ptr, first, last, nrecs>>
loopVars == <<pc, kind, steps, upto>>
vars == <<text, changed, disk, undoVars, loopVars>>

(* Values of a link: a position in recs, or one of these.  Freed is a      *)
(* record that is on the free list (frrecs) and no longer in this one.     *)
Null   == 0
Anchor == -1    \* &undo->recs, the head of the circular list
Freed  == -2

Link == Nat \cup {Anchor, Freed}

(* `len' counts the bytes inserted or deleted; only a deletion keeps them. *)
Record == [where: Nat, len: Nat, text: Seq(Nat), del: BOOLEAN, min: BOOLEAN,
           unit: Link, changed: BOOLEAN]

(***************************************************************************)
(* The text (binsm, bdel, pgoto and pfwrd stop at the end of the buffer).  *)
(***************************************************************************)
Clip(p)    == IF p > Len(text) THEN Len(text) ELSE p
Upto(p)    == SubSeq(text, 1, Clip(p))
From(p)    == SubSeq(text, Clip(p) + 1, Len(text))
With(p, s) == Upto(p) \o s \o From(p)
Bytes(p, n)   == SubSeq(text, p + 1, p + n)
Without(p, n) == Upto(p) \o From(p + n)

(***************************************************************************)
(* The list.                                                               *)
(***************************************************************************)
Prev(p) ==
  CASE p = Anchor -> IF recs = <<>> THEN Anchor ELSE Len(recs)
    [] p = Freed  -> Freed
    [] p = 1      -> Anchor
    [] OTHER      -> p - 1

\* Faulty variant: the successor is read before the record is unlinked.
NextAfterPop_Early(p) ==
  IF p = Anchor THEN 1 ELSE IF p = Len(recs) THEN Anchor ELSE p + 1

(* The successor of p once the newest record has been removed and put on   *)
(* the free list; the successor of a freed record is on the free list too. *)
NextAfterPop(p) ==
  CASE p = Anchor        -> IF Len(recs) = 1 THEN Anchor ELSE 1
    [] p = Freed         -> Freed
    [] p = Len(recs)     -> Freed
    [] p = Len(recs) - 1 -> Anchor
    [] OTHER             -> p + 1

enqueb(rec) ==
  /\ recs' = Append(recs, rec)
  /\ first' = IF first = Null THEN Len(recs) + 1 ELSE first
  /\ last' = Len(recs) + 1

GrowNewest(rec) ==
  /\ recs' = [recs EXCEPT ![Len(recs)] = rec]
  /\ UNCHANGED <<first, last>>

Newest == recs[Len(recs)]
Mergeable(del) == recs # <<>> /\ Newest.min /\ Newest.del = del

NewRec(p, n, s, del) ==
  [where |-> p, len |-> n, text |-> s, del |-> del, min |-> TRUE,
   unit |-> Null, changed |-> changed]

(* An insertion at either end of the newest insertion becomes part of it.  *)
undoins(p, n) ==
  IF Mergeable(FALSE) /\ p \in {Newest.where, Newest.where + Newest.len}
  THEN GrowNewest([Newest EXCEPT !.len = @ + n])
  ELSE enqueb(NewRec(p, n, <<>>, FALSE))

\* Faulty variant: backspaced text is put behind what was deleted before.
undodel_Order(p, s) ==
  IF Mergeable(TRUE) /\ (p = Newest.where \/ p + Len(s) = Newest.where)
  THEN GrowNewest([Newest EXCEPT !.text = @ \o s, !.len = @ + Len(s), !.where = p])
  ELSE enqueb(NewRec(p, Len(s), s, TRUE))

(* A deletion that touches the newest deletion becomes part of it: after   *)
(* it (delete forwards) or before it (backspace).                          *)
undodel(p, s) ==
  IF Mergeable(TRUE) /\ p = Newest.where
  THEN GrowNewest([Newest EXCEPT !.text = @ \o s, !.len = @ + Len(s)])
  ELSE IF Mergeable(TRUE) /\ p + Len(s) = Newest.where
  THEN GrowNewest([Newest EXCEPT !.text = s \o @, !.len = @ + Len(s),
                                 !.where = p])
  ELSE enqueb(NewRec(p, Len(s), s, TRUE))

\* Faulty variant: a change by the user does not end a run of undos.
undoover_Never == ptr' = ptr

(* A change that is not made by undo or redo ends a run of undos.          *)
undoover == ptr' = IF ptr \in {Null, Anchor} THEN ptr ELSE Null

Cleared(r) == [i \in 1 .. Len(r) |-> [r[i] EXCEPT !.min = FALSE]]

\* Faulty variant: only the last record is linked to the first one.
Linked_OneWay(r) ==
  [i \in 1 .. Len(r) |-> IF i = last THEN [r[i] EXCEPT !.unit = first] ELSE r[i]]

(* The two ends of the open unit are made to point at each other.          *)
Linked(r) == [i \in 1 .. Len(r) |->
                CASE i = last  -> [r[i] EXCEPT !.unit = first]
                  [] i # last /\ i = first -> [r[i] EXCEPT !.unit = last]
                  [] OTHER -> r[i]]

(* The list without its first n records.                                   *)
Shift(p, n) == CASE p <= 0 -> p [] p \in 1 .. n -> Freed [] OTHER -> p - n
Dropped(r, n) ==
  [i \in 1 .. Len(r) - n |-> [r[i + n] EXCEPT !.unit = Shift(@, n)]]

\* Faulty variant: the walk goes one record too far.
Oldest_Past(r) ==
  IF r = <<>> THEN Freed ELSE IF r[1].unit = Null THEN 2 ELSE r[1].unit + 1

(* The number of records of the oldest unit: Freed when the record that    *)
(* ends it is not in the list.                                             *)
Oldest(r) ==
  IF r = <<>> THEN Freed ELSE IF r[1].unit = Null THEN 1 ELSE r[1].unit

(* The list without its newest record, and a link to the removed record.   *)
Unlinked(p) == IF p = Len(recs) THEN Freed ELSE p
Popped == [i \in 1 .. Len(recs) - 1 |-> [recs[i] EXCEPT !.unit = Unlinked(@)]]

(***************************************************************************)
(* The command loop.  A minor command (typing, backspace, delete: flag     *)
(* EMINOR) leaves the newest record open to merging; every other command   *)
(* closes it before and after (umclear).                                   *)
(***************************************************************************)
Init ==
  /\ text = <<>> /\ disk = <<>> /\ changed = FALSE
  /\ recs = <<>> /\ ptr = Null /\ first = Null /\ last = Null /\ nrecs = 0
  /\ pc = "idle" /\ kind = "none" /\ steps = 0 /\ upto = Null

(* Does the current command have a step left that kinds in ks can take?    *)
May(ks) == pc = "run" /\ kind \in ks /\ steps < Limit[kind]

Room == Len(recs) < MaxRecs /\ nrecs < MaxUnits

Step(next) == pc' = next /\ steps' = steps + 1 /\ UNCHANGED kind

Begin(k) ==
  /\ pc = "idle"
  /\ pc' = "run" /\ kind' = k
  /\ recs' = IF k = "minor" THEN recs ELSE Cleared(recs)
  /\ UNCHANGED <<text, changed, disk, ptr, first, last, nrecs, steps, upto>>

(* binsm, binsb: the text is changed, the change is recorded, and only     *)
(* then is the buffer marked as changed.                                   *)
Insert(p, s) ==
  /\ May({"minor", "edit", "macro"}) /\ Room
  /\ p <= Len(text) /\ Len(text) + Len(s) <= MaxText
  /\ text' = With(p, s)
  /\ undoover /\ undoins(p, Len(s))
  /\ changed' = TRUE
  /\ Step("run")
  /\ UNCHANGED <<disk, nrecs, upto>>

(* bdel                                                                    *)
Delete(p, n) ==
  /\ May({"minor", "edit", "macro"}) /\ Room
  /\ n > 0 /\ p + n <= Len(text)
  /\ text' = Without(p, n)
  /\ undoover /\ undodel(p, Bytes(p, n))
  /\ changed' = TRUE
  /\ Step("run")
  /\ UNCHANGED <<disk, nrecs, upto>>

(* uundo up to its loop.  An undo that has nothing to undo fails, and a    *)
(* failing step ends the command.                                          *)
Undo ==
  /\ May({"undo", "macro"}) /\ Room
  /\ LET p == IF ptr = Null THEN Anchor ELSE ptr IN
       IF nrecs = 0
       THEN Step("failed") /\ UNCHANGED <<ptr, upto>>
       ELSE /\ ptr' = p
            /\ IF Prev(p) \in {Anchor, Freed}
               THEN Step(IF p = Freed THEN "wild" ELSE "failed") /\ UNCHANGED upto
               ELSE Step("undoing") /\ upto' = recs[Prev(p)].unit
  /\ UNCHANGED <<text, changed, disk, recs, first, last, nrecs>>

(* doundo: the text without the change of a record.                        *)
Reverted(rec) ==
  IF rec.del THEN With(Clip(rec.where), rec.text)
             ELSE Upto(rec.where) \o From(rec.where + rec.len)

doundo(rec) == text' = Reverted(rec) /\ changed' = rec.changed

(* The record that the change made by doundo leaves, while undoing.        *)
InverseOf(rec) ==
  LET p == Clip(rec.where)
      s == Bytes(p, Clip(p + rec.len) - p)
  IN CASE rec.del -> undoins(p, rec.len)
       [] ~rec.del /\ s # <<>> -> undodel(p, s)
       [] OTHER -> UNCHANGED <<recs, first, last>>

\* Faulty variants: the loops stop after one record, or never.
MoreThan_One(p) == FALSE
MoreThan_Ever(p) == upto # Null

MoreThan(p) == upto # Null /\ upto # p

(* One iteration of the loop of uundo.                                     *)
UndoRec ==
  /\ pc = "undoing"
  /\ LET p == Prev(ptr) IN
       IF p \in {Anchor, Freed}
       THEN /\ pc' = "wild"
            /\ UNCHANGED <<text, changed, recs, ptr, first, last, upto>>
       ELSE /\ ptr' = p
            /\ doundo(recs[p]) /\ InverseOf(recs[p])
            /\ IF MoreThan(p)
               THEN UNCHANGED <<pc, upto>>
               ELSE pc' = "run" /\ upto' = Null
  /\ UNCHANGED <<disk, nrecs, kind, steps>>

(* uredo up to its loop.                                                   *)
Redo ==
  /\ May({"redo", "macro"})
  /\ IF ptr \in {Null, Anchor}
     THEN Step("failed") /\ UNCHANGED upto
     ELSE IF recs = <<>>
     THEN Step("wild") /\ UNCHANGED upto
     ELSE Step("redoing") /\ upto' = Newest.unit
  /\ UNCHANGED <<text, changed, disk, undoVars>>

(* One iteration of the loop of uredo: the newest record is played back,   *)
(* unrecorded (inredo), and removed, and ptr moves one record forward.     *)
RedoRec ==
  /\ pc = "redoing"
  /\ IF recs = <<>>
     THEN /\ pc' = "wild"
          /\ UNCHANGED <<text, changed, recs, ptr, first, last, upto>>
     ELSE /\ doundo(Newest)
          /\ recs' = Popped
          /\ ptr' = NextAfterPop(ptr)
          /\ first' = Unlinked(first) /\ last' = Unlinked(last)
          /\ IF MoreThan(Len(recs))
             THEN pc' = pc /\ upto' = Unlinked(upto)
             ELSE pc' = "run" /\ upto' = Null
  /\ UNCHANGED <<disk, nrecs, kind, steps>>

\* Faulty variant: a save marks no record.
NewestUnmodified_None(i) == FALSE

(* A successful save, to the file of the buffer or to another one.  The    *)
(* newest record made on an unmodified buffer is marked as made on a       *)
(* modified one.                                                           *)
NewestUnmodified(i) ==
  ~recs[i].changed /\ \A j \in i + 1 .. Len(recs) : recs[j].changed

Save(own) ==
  /\ May({"save"})
  /\ IF own THEN disk' = text /\ changed' = FALSE
            ELSE UNCHANGED <<disk, changed>>
  /\ recs' = [i \in 1 .. Len(recs) |->
                IF NewestUnmodified(i) THEN [recs[i] EXCEPT !.changed = TRUE]
                                       ELSE recs[i]]
  /\ Step("run")
  /\ UNCHANGED <<text, ptr, first, last, nrecs, upto>>

(* The user clears the modified flag by hand.                              *)
unotmod ==
  /\ May({"notmod"})
  /\ changed' = FALSE
  /\ Step("run")
  /\ UNCHANGED <<text, disk, undoVars, upto>>

(* undogc: the oldest unit goes.  If that is where ptr is, ptr goes to the *)
(* unit after it.                                                          *)
undogc(r) ==
  LET n == Oldest(r) IN
  IF n = Freed
  THEN pc' = "wild" /\ recs' = r /\ UNCHANGED <<ptr, nrecs>>
  ELSE /\ recs' = Dropped(r, n) /\ pc' = "idle" /\ UNCHANGED nrecs
       /\ ptr' = IF ptr # 1 THEN Shift(ptr, n) ELSE IF n = Len(r) THEN Anchor ELSE 1

(* undomark: the open unit is closed and counted.                          *)
undomark(r) ==
  \/ /\ first = Null
     /\ recs' = r /\ pc' = "idle" /\ UNCHANGED <<ptr, nrecs>>
  \/ /\ first # Null /\ nrecs + 1 # UNDOKEEP
     /\ recs' = Linked(r) /\ nrecs' = nrecs + 1 /\ pc' = "idle" /\ UNCHANGED ptr
  \/ /\ first # Null /\ nrecs + 1 = UNDOKEEP
     /\ undogc(Linked(r))

(* The end of exmacro.                                                     *)
End ==
  /\ pc \in {"run", "failed"}
  /\ undomark(IF kind = "minor" THEN recs ELSE Cleared(recs))
  /\ first' = Null /\ last' = Null
  /\ kind' = "none" /\ steps' = 0
  /\ UNCHANGED <<text, changed, disk, upto>>

(* The steps that the code takes by itself once a command has begun.       *)
Internal == UndoRec \/ RedoRec \/ End

Next ==
  \/ \E k \in Kinds : Begin(k)
  \/ \E p \in 0 .. MaxText, s \in Chunk : Insert(p, s)
  \/ \E p \in 0 .. MaxText, n \in 1 .. MaxText : Delete(p, n)
  \/ \E own \in BOOLEAN : Save(own)
  \/ Undo \/ Redo \/ unotmod
  \/ Internal

Spec == Init /\ [][Next]_vars

(* A command that has begun is carried through.                            *)
FairSpec == Spec /\ WF_vars(Internal)

-----------------------------------------------------------------------------
(* The variables have their types; links stay inside the list.             *)
InList == Null .. Len(recs)

TypeOK ==
  /\ text \in Seq(Nat) /\ disk \in Seq(Nat) /\ changed \in BOOLEAN
  /\ recs \in Seq(Record)
  /\ \A i \in 1 .. Len(recs) : recs[i].unit \in InList \cup {Freed}
  /\ ptr \in InList \cup {Anchor, Freed}
  /\ first \in InList \cup {Freed} /\ last \in InList \cup {Freed}
  /\ upto \in Link
  /\ nrecs \in Nat /\ steps \in Nat
  /\ kind \in Kinds \cup {"none"}
  /\ pc \in {"idle", "run", "failed", "undoing", "redoing", "wild"}

StartsUnit(r, i) == r[i].unit >= i
EndsUnit(r, i)   == r[i].unit \in 1 .. i

(* The first m records of r are units that lie side by side: the first and *)
(* the last record of a unit point at each other, those between have no    *)
(* link, and where one unit ends the next one starts.                      *)
Units(r, m) ==
  /\ \A i \in 1 .. m : r[i].unit # Null =>
       r[i].unit \in 1 .. m /\ r[r[i].unit].unit = i
  /\ \A i, j \in 1 .. m : i < j /\ j < r[i].unit => r[j].unit = Null
  /\ \A i \in 1 .. m - 1 : EndsUnit(r, i) <=> StartsUnit(r, i + 1)
  /\ m > 0 => StartsUnit(r, 1) /\ EndsUnit(r, m)

(* Between commands the list is a sequence of closed units: undomark,      *)
(* undogc and the removals by uredo keep it so, and the loops of uundo,    *)
(* uredo and undogc rely on it.                                            *)
UnitsWellFormed == pc = "idle" => Units(recs, Len(recs))

(* While the user is undoing, ptr is the first record of a unit that is    *)
(* still in the list: uundo and uredo start from it without looking.       *)
PtrAtUnit ==
  pc = "idle" /\ ptr \notin {Null, Anchor} =>
    ptr \in 1 .. Len(recs) /\ StartsUnit(recs, ptr)

(* uundo, uredo and undogc never follow a link out of the list: the loops  *)
(* stop at the record they were started for (undo.c, `upto').              *)
NeverWild == pc # "wild"

(* ptr, the one reference into the list that outlives a command, is at the *)
(* start of a unit between commands, and the loops that start from it stay *)
(* in the list.                                                            *)
PtrInside == PtrAtUnit /\ NeverWild

(* A buffer that is not marked as changed has the text of its file: undo   *)
(* and redo restore the mark along with the text (doundo, saver).          *)
UnmodifiedMeansSaved == pc = "idle" /\ ~changed => text = disk

(* Every command ends, whatever it undoes or redoes.                       *)
CommandsEnd == (pc # "idle") ~> (pc = "idle")

-----------------------------------------------------------------------------
(* The inductive invariant of a system whose commands are single edits,    *)
(* undos and saves: behind the open unit, if there is one, all units are   *)
(* closed; ptr is in a closed unit; and the loop of uundo is between ptr   *)
(* and the first record of the unit it undoes.                             *)
Closed == IF first = Null THEN Len(recs) ELSE first - 1

OpenUnit ==
  /\ first \in InList /\ last = (IF first = Null THEN Null ELSE Len(recs))
  /\ \A i \in Closed + 1 .. Len(recs) : recs[i].unit = Null
  /\ pc = "idle" => first = Null

PtrInv ==
  /\ ptr \notin {Null, Anchor} =>
       ptr \in 1 .. Closed /\ (pc # "undoing" => StartsUnit(recs, ptr))
  /\ kind = "undo" /\ first # Null => ptr \notin {Null, Anchor}

LoopInv ==
  pc = "undoing" =>
    /\ kind = "undo" /\ ptr # Null
    /\ upto \in 1 .. Closed /\ upto <= Prev(ptr)
    /\ StartsUnit(recs, upto)

UndoInv ==
  /\ Units(recs, Closed) /\ OpenUnit /\ PtrInv /\ LoopInv
  /\ pc \notin {"redoing", "wild"}

=============================================================================
