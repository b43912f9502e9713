----------------------------- MODULE MCZeroconf -----------------------------
(* Small instances of Zeroconf for TLC: see the .cfg files.                *)
EXTENDS Zeroconf, TLC

(* Jobs, handles and descriptions are never told apart. *)
Symmetry == Permutations(Jobs) \cup Permutations(Refs) \cup Permutations(Infos)
=============================================================================
