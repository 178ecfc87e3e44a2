----------------------------- MODULE UndoHistory -----------------------------
(***************************************************************************)
(* What undo and redo promise the user of one buffer: the text, the texts  *)
(* that undo would go back to and the texts that redo would return to.     *)
(* Nothing the user has had before is lost by going on to edit after       *)
(* undoing: the abandoned texts become part of the past.                   *)
(***************************************************************************)
EXTENDS Integers, Sequences, SequencesExt

CONSTANTS
  Text,       (* the texts a buffer can hold                               *)
  Empty,      (* the text it starts with                                   *)
  Forgets     (* may the oldest texts be forgotten?                        *)

VARIABLES
  text,       (* the text between two commands                             *)
  past,       (* the texts undo goes back to, the next one last            *)
  future,     (* the texts redo returns to, the next one first             *)
  open        (* has the user typed without doing anything else since?     *)

vars == <<text, past, future, open>>

Init == text = Empty /\ past = <<>> /\ future = <<>> /\ open = FALSE

(* The past becomes p, but for the oldest texts of it, n at most.          *)
Keeps(p, n) ==
  \E k \in 0 .. n : /\ k <= Len(p) /\ (k > 0 => Forgets)
                    /\ past' = SubSeq(p, k + 1, Len(p))

(* Going on to edit: the way back leads through all that was undone.  When *)
(* undo has come to its end, the oldest text is the one edited now, and may*)
(* have been forgotten by then.                                            *)
There == <<text>> \o future
AndBack == There \o Tail(Reverse(There))
Edit(t) ==
  /\ text' = t /\ future' = <<>> /\ open' \in BOOLEAN
  /\ Keeps(past \o AndBack, IF past = <<>> THEN 2 ELSE 1)

(* Typing on: the text typed in one go is undone in one go.                *)
Type(t) == open /\ future = <<>> /\ text' = t /\ UNCHANGED <<past, future, open>>

Close == open' = FALSE /\ UNCHANGED <<text, past, future>>

Undo ==
  /\ past # <<>>
  /\ text' = Last(past) /\ future' = There /\ open' = FALSE
  /\ Keeps(Front(past), 1)

Redo ==
  /\ future # <<>>
  /\ text' = Head(future) /\ past' = Append(past, text)
  /\ future' = Tail(future) /\ open' = FALSE

Next == (\E t \in Text : Edit(t) \/ Type(t)) \/ Close \/ Undo \/ Redo

Spec == Init /\ [][Next]_vars
=============================================================================
