---------------------------- MODULE ShellWindow ----------------------------
(***************************************************************************)
(* What a window that runs a program promises: the output of the program   *)
(* appears in it, in order and in full, and the window takes the program   *)
(* for ended only when all its output is there.                            *)
(***************************************************************************)
EXTENDS Naturals, Sequences

CONSTANTS Bufs, Items

VARIABLES
  sent,       (* sent[b]: what the programs run in b have written          *)
  shown,      (* shown[b]: what has been appended to b                     *)
  open        (* open[b]: does a program run in b?                         *)

vars == <<sent, shown, open>>

Init ==
  /\ sent = [b \in Bufs |-> <<>>] /\ shown = [b \in Bufs |-> <<>>]
  /\ open = [b \in Bufs |-> FALSE]

Start(b) == ~open[b] /\ open' = [open EXCEPT ![b] = TRUE] /\ UNCHANGED <<sent, shown>>

Write(b) ==
  /\ open[b]
  /\ \E i \in Items : sent' = [sent EXCEPT ![b] = Append(@, i)]
  /\ UNCHANGED <<shown, open>>

Show(b) ==
  /\ Len(shown[b]) < Len(sent[b])
  /\ shown' = [shown EXCEPT ![b] = Append(@, sent[b][Len(@) + 1])]
  /\ UNCHANGED <<sent, open>>

Stop(b) ==
  /\ open[b] /\ shown[b] = sent[b]
  /\ open' = [open EXCEPT ![b] = FALSE]
  /\ UNCHANGED <<sent, shown>>

Next == \E b \in Bufs : Start(b) \/ Write(b) \/ Show(b) \/ Stop(b)

Safe     == Init /\ [][Next]_vars
Fairness == \A b \in Bufs : WF_vars(Show(b))
Spec     == Safe /\ Fairness
=============================================================================
