----------------------------- MODULE JobService -----------------------------
(***************************************************************************)
(* What CJobManager promises its clients (the class comments of            *)
(* airplay/utils/JobManager.h and Job.h), without threads, queues or       *)
(* locks: a submitted job is run once or withdrawn before it starts, is    *)
(* destroyed only when it no longer runs, starts only when its priority    *)
(* may take one more thread and no runnable job of a higher priority       *)
(* waits, and nothing starts once the service is closed.                   *)
(***************************************************************************)
EXTENDS Integers, FiniteSets

CONSTANTS Jobs, max_workers

Priorities == 0..2
HighestPriority == 2

VARIABLES
  accepting,  \* the service is open
  paused,     \* [Priorities -> BOOLEAN]
  status,     \* [Jobs -> "absent" | "queued" | "running" | "finished"]
  prio        \* the priority a job was submitted at, 0 while absent

vars == <<accepting, paused, status, prio>>

Of(s) == {j \in Jobs : status[j] = s}

Limit(p) == max_workers - (HighestPriority - p)

Runnable(j) == /\ status[j] = "queued"
               /\ ~paused[prio[j]]
               /\ Cardinality(Of("running")) < Limit(prio[j])

Init == /\ accepting = TRUE
        /\ paused = [p \in Priorities |-> FALSE]
        /\ status = [j \in Jobs |-> "absent"]
        /\ prio = [j \in Jobs |-> 0]

Submit(j, p) == /\ accepting
                /\ status[j] = "absent"
                /\ status' = [status EXCEPT ![j] = "queued"]
                /\ prio' = [prio EXCEPT ![j] = p]
                /\ UNCHANGED <<accepting, paused>>

Withdraw(j) == /\ status[j] = "queued"
               /\ status' = [status EXCEPT ![j] = "absent"]
               /\ prio' = [prio EXCEPT ![j] = 0]
               /\ UNCHANGED <<accepting, paused>>

Start(j) == /\ Runnable(j)
            /\ \A k \in Jobs : Runnable(k) => prio[k] <= prio[j]
            /\ status' = [status EXCEPT ![j] = "running"]
            /\ UNCHANGED <<accepting, paused, prio>>

Finish(j) == /\ status[j] = "running"
             /\ status' = [status EXCEPT ![j] = "finished"]
             /\ UNCHANGED <<accepting, paused, prio>>

Destroy(j) == /\ status[j] = "finished"
              /\ status' = [status EXCEPT ![j] = "absent"]
              /\ prio' = [prio EXCEPT ![j] = 0]
              /\ UNCHANGED <<accepting, paused>>

SetPause(p, b) == /\ paused' = [paused EXCEPT ![p] = b]
                  /\ UNCHANGED <<accepting, status, prio>>

Close == /\ accepting
         /\ accepting' = FALSE
         /\ status' = [j \in Jobs |->
                         IF status[j] = "queued" THEN "absent" ELSE status[j]]
         /\ prio' = [j \in Jobs |-> IF status[j] = "queued" THEN 0 ELSE prio[j]]
         /\ UNCHANGED paused

Next == \/ \E j \in Jobs : Withdraw(j) \/ Start(j) \/ Finish(j) \/ Destroy(j)
        \/ \E j \in Jobs, p \in Priorities : Submit(j, p)
        \/ \E p \in Priorities, b \in BOOLEAN : SetPause(p, b)
        \/ Close

Spec == Init /\ [][Next]_vars
=============================================================================
