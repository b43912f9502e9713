---------------------------- MODULE MCJobManager ----------------------------
(* Small instances of JobManager for TLC: see the .cfg files.              *)
EXTENDS JobManager, TLC

(* Jobs and workers are never told apart: sound for the safety runs. *)
Symmetry == Permutations(Jobs) \cup Permutations(Workers)
=============================================================================
