------------------------------- MODULE MCTimer -------------------------------
(***************************************************************************)
(* Instances of Timer.                                                     *)
(***************************************************************************)
EXTENDS Timer
=============================================================================
