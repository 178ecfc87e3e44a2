------------------------------- MODULE MCUndo -------------------------------
(***************************************************************************)
(* Undo with two auxiliary variables, the refinement of UndoHistory and    *)
(* the properties that TLC checks.                                         *)
(***************************************************************************)
EXTENDS Undo, FiniteSets, SequencesExt

VARIABLES
  snap,       (* the text, the list and ptr when the last command ended    *)
  undone,     (* the texts undone since the last change, the last one first*)
  unique      (* has every save met at most one unmodified record?         *)

mcvars == <<vars, snap, undone, unique>>

Steps(edit) == [k \in Kinds |->
  CASE k \in {"undo", "redo", "save", "notmod", "minor"} -> 1
    [] OTHER -> edit]
Limit1 == Steps(1)
Limit2 == Steps(2)
Limit3 == Steps(3)

Chunk1 == {<<1>>}
Chunk2 == {<<1>>, <<2>>}

MCInit ==
  /\ Init
  /\ snap = [text |-> <<>>, recs |-> <<>>, ptr |-> Null]
  /\ undone = <<>> /\ unique = TRUE

(* An uundo or uredo starts: the text it starts from is the head of undone *)
(* or is put there.  A change by the user ends the run of undos.           *)
Undone ==
  CASE pc = "run" /\ pc' = "undoing"              -> <<text>> \o undone
    [] pc = "redoing" /\ pc' = "run"              -> IF undone = <<>> THEN <<>> ELSE Tail(undone)
    [] pc = "run" /\ pc' = "run" /\ text' # text  -> <<>>
    [] OTHER                                      -> undone

OneUnmodified ==
  pc = "run" /\ kind = "save" /\ steps = 0 =>
    \A i, j \in 1 .. Len(recs) : ~recs[i].changed /\ ~recs[j].changed => i = j

MCNext ==
  /\ Next
  /\ snap' = IF pc' = "idle" THEN [text |-> text', recs |-> recs', ptr |-> ptr']
                             ELSE snap
  /\ undone' = Undone
  /\ unique' = (unique /\ OneUnmodified)

MCSpec == MCInit /\ [][MCNext]_mcvars
MCFairSpec == MCSpec /\ WF_mcvars(Internal /\ MCNext)

(***************************************************************************)
(* The refinement: the texts that replaying the records one after the      *)
(* other would give.                                                       *)
(***************************************************************************)
Revert(t, rec) ==
  IF rec.del
  THEN SubSeq(t, 1, rec.where) \o rec.text \o SubSeq(t, rec.where + 1, Len(t))
  ELSE SubSeq(t, 1, rec.where) \o SubSeq(t, rec.where + rec.len + 1, Len(t))

Replayed(r, t, top) ==
  LET T[i \in 0 .. top] == IF i = top THEN t ELSE Revert(T[i + 1], r[i + 1]) IN T

(* Of the texts T that the records lead through, those before a unit that  *)
(* starts at one of the records from .. to, the oldest first.              *)
Onto(b, r, T, from, i) ==
  IF i >= from /\ StartsUnit(r, i) THEN Append(b, T[i - 1]) ELSE b
UnitTexts(r, T, from, to) ==
  LET B[i \in 0 .. to] == IF i = 0 THEN <<>> ELSE Onto(B[i - 1], r, T, from, i) IN B[to]

Live(s) == s.ptr \in 1 .. Len(s.recs)

PastOf(s) ==
  LET top == IF Live(s) THEN s.ptr - 1 ELSE Len(s.recs)
  IN UnitTexts(s.recs, Replayed(s.recs, s.text, top), 1, top)

(* Of the units from ptr on, the newer half are the inverses that redo     *)
(* plays back.                                                             *)
FutureOf(s) ==
  IF ~Live(s) THEN <<>>
  ELSE LET n == Len(s.recs)
           b == UnitTexts(s.recs, Replayed(s.recs, s.text, n), s.ptr, n)
       IN [j \in 1 .. (Len(b) + 1) \div 2 |-> b[Len(b) + 1 - j]]

CONSTANT Forgets
Texts == UNION {[1 .. n -> UNION {{c[i] : i \in DOMAIN c} : c \in Chunk}] : n \in 0 .. MaxText}

History == INSTANCE UndoHistory WITH
  Text <- Texts, Empty <- <<>>, text <- snap.text,
  past <- PastOf(snap), future <- FutureOf(snap),
  open <- snap.recs # <<>> /\ snap.recs[Len(snap.recs)].min

(* Every command does to the text and its history what UndoHistory says.   *)
ImplementsHistory == History!Spec

(* "If you undo too much, you can redo the changes back into existence"    *)
(* (joe.1.in:413): a redo happens only after an undo and gives back the    *)
(* text that the latest undo not yet redone was started from, and it fails *)
(* only when there is no such undo.                                        *)
RedoRestores ==
  [][/\ pc = "redoing" /\ pc' = "run" => undone # <<>> /\ text' = Head(undone)
     /\ kind = "redo" /\ pc = "run" /\ pc' = "failed" => undone = <<>>]_mcvars

(* A buffer that is not marked as changed has the text of its file, as     *)
(* long as no save has met two unmodified records (the case that the       *)
(* comment in saver, ufile.c:363, rules out) and redo has not gone astray  *)
(* behind merged inverses (undo.c:225), which takes three changes in one   *)
(* command.                                                                *)
UniqueMeansSaved == unique => UnmodifiedMeansSaved
=============================================================================
