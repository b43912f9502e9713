----------------------------- MODULE SerialQueue -----------------------------
(***************************************************************************)
(* What CJobQueue promises (airplay/utils/JobManager.h:41-49, 84-131): of  *)
(* the jobs submitted, no two alike, at most limit are handed out at a     *)
(* time, in the order of the queue, and one that is done makes room for    *)
(* the next at once.  No threads, ids, entries or locks.                   *)
(***************************************************************************)
EXTENDS Sequences, FiniteSets, SequencesExt

CONSTANTS Jobs, Key, NULL, limit, lifo

VARIABLES
  waiting,  \* the jobs not handed out yet, the next one last
  handed    \* the jobs handed out and not done

vars == <<waiting, handed>>

Alike(j, k) == Key[j] = Key[k] /\ Key[j] # NULL

Init == waiting = <<>> /\ handed = {}

Submit(j) ==
  /\ \A k \in Range(waiting) \cup handed : ~Alike(k, j)
  /\ \/ /\ Cardinality(handed) < limit
        /\ handed' = handed \cup {j}
        /\ UNCHANGED waiting
     \/ /\ Cardinality(handed) >= limit
        /\ waiting' = IF lifo THEN Append(waiting, j) ELSE <<j>> \o waiting
        /\ UNCHANGED handed

Complete(j) ==
  /\ j \in handed
  /\ \/ /\ waiting = <<>>
        /\ handed' = handed \ {j}
        /\ UNCHANGED waiting
     \/ /\ waiting # <<>>
        /\ handed' = (handed \ {j}) \cup {Last(waiting)}
        /\ waiting' = Front(waiting)

Next == \E j \in Jobs : Submit(j) \/ Complete(j)

Spec == Init /\ [][Next]_vars
=============================================================================
