------------------------------- MODULE MCMpx -------------------------------
(***************************************************************************)
(* Mpx for TLC.                                                            *)
(***************************************************************************)
EXTENDS Mpx

Bells1 == {1}
=============================================================================
