------------------------------ MODULE MCPoints ------------------------------
(***************************************************************************)
(* Points for TLC.                                                         *)
(***************************************************************************)
EXTENDS Points

CONSTANTS p1, p2, letter

Pointers == Permutations(Users)

Edits   == {<<letter>>, <<NL>>, <<letter, NL, letter>>}
Letters == {<<NL>>, <<TAB, letter>>}
Words   == {<<TAB, letter>>, <<letter, letter, TAB>>}
Long    == {<<letter, letter, TAB, letter>>}
Off     == {FALSE}
Both    == {FALSE, TRUE}
============================================================================
