----------------------------- MODULE MCJobQueue -----------------------------
(* Small instances of JobQueue for TLC: see the .cfg files.                *)
EXTENDS JobQueue, TLC
CONSTANTS j1, j2, j3, j4

(* Two jobs are equal to each other, the others to none. *)
KeyValues == j1 :> "a" @@ j2 :> "a" @@ j3 :> "b"
FourKeyValues == KeyValues @@ j4 :> "c"
=============================================================================
