----------------------------- MODULE MCGapBuffer -----------------------------
(***************************************************************************)
(* GapBuffer for TLC, and what it promises: Marks.                         *)
(***************************************************************************)
EXTENDS GapBuffer

CONSTANTS p1, p2, letter

Pointers == Permutations(Users)

Edits == {<<NL>>, <<letter, NL, letter>>}
Off   == {FALSE}

Buffer == INSTANCE Marks WITH
  Marked <- Users,
  text   <- Text(buf),
  at     <- [u \in Users |-> buf.pt[u].byte]

(* A buffer is a text with marks in it, whatever the segments do: a mark   *)
(* up to an insertion stays, one behind it moves along (b.c:1797), one in  *)
(* deleted text is where the text was (b.c:1629).                          *)
ImplementsMarks == Buffer!Spec
============================================================================
