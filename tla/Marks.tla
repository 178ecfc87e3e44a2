-------------------------------- MODULE Marks --------------------------------
(***************************************************************************)
(* What a buffer promises to the rest of the editor: a text and marks into *)
(* it.  An insertion leaves the marks up to its place and shifts those     *)
(* behind it; a deletion collapses the marks inside it to its start.       *)
(***************************************************************************)
EXTENDS Integers, Sequences

CONSTANT Marked

VARIABLES text, at

vars == <<text, at>>

Init == text = <<>> /\ at = [m \in Marked |-> 0]

Insert(i, s) ==
  /\ text' = SubSeq(text, 1, i) \o s \o SubSeq(text, i + 1, Len(text))
  /\ at' = [m \in Marked |-> IF at[m] > i THEN at[m] + Len(s) ELSE at[m]]

Delete(i, j) ==
  /\ text' = SubSeq(text, 1, i) \o SubSeq(text, j + 1, Len(text))
  /\ at' = [m \in Marked |-> IF at[m] <= i THEN at[m]
                             ELSE IF at[m] <= j THEN i ELSE at[m] - (j - i)]

(* The holder of a mark moves it; nobody else's moves.                     *)
Move(m, i) == at' = [at EXCEPT ![m] = i] /\ UNCHANGED text

(* An insertion's text is what there is at i afterwards.                   *)
Next ==
  LET more == Len(text') - Len(text)
  IN \/ \E m \in Marked, i \in 0 .. Len(text) : Move(m, i)
     \/ more > 0 /\ \E i \in 0 .. Len(text) : Insert(i, SubSeq(text', i + 1, i + more))
     \/ more < 0 /\ \E i \in 0 .. Len(text) + more : Delete(i, i - more)

Spec == Init /\ [][Next]_vars
============================================================================
