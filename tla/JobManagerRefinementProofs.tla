--------------------- MODULE JobManagerRefinementProofs ---------------------
(***************************************************************************)
(* Proof that JobManager implements JobService: every step of the manager, *)
(* its threads and its shutdown is a step of the service, or one that the  *)
(* service does not see.                                                   *)
(***************************************************************************)
EXTENDS JobManagerCapacityProofs

USE PoolAssumption, IdAssumption, ClientAssumption DEF Priorities, LOW, NORMAL, HIGH

-----------------------------------------------------------------------------
(* The refinement mapping.                                                 *)

statusMap == [j \in Jobs |-> Status(j)]
prioMap   == [j \in Jobs |-> work[j].prio]

(* A job has the status of the one place where it is. *)
LEMMA StatusIs ==
  ASSUME IInv, NEW j \in Jobs
  PROVE  /\ Status(j) = "queued" <=> \E p \in Priorities : j \in Queued(p)
         /\ Status(j) = "running" <=> j \in m_processing
         /\ Status(j) = "absent" <=> j \notin allocated
<1>1. j \in m_processing => \A p \in Priorities : j \notin Queued(p)
  BY DEF IInv, HeldNotQueued, OneWorkerPerJob
<1>2. (\E p \in Priorities : j \in Queued(p)) \/ j \in m_processing => j \in allocated
  BY DEF IInv, AllocatedTracked, Tracked
<1> QED
  BY <1>1, <1>2 DEF Status

(* Of one job, the status follows from three questions. *)
LEMMA StatusSame ==
  ASSUME NEW j \in Jobs,
         (\E p \in Priorities : j \in Queued(p)') <=> (\E p \in Priorities : j \in Queued(p)),
         j \in m_processing' <=> j \in m_processing,
         j \in allocated' <=> j \in allocated
  PROVE  Status(j)' = Status(j)
  BY DEF Status

LEMMA InitMaps == Init => Service!Init
<1> SUFFICES ASSUME Init PROVE Service!Init
  OBVIOUS
<1>1. \A j \in Jobs : Status(j) = "absent" /\ work[j].prio = 0
  BY DEF Init, Status, Queued, Range, NoItem
<1> QED
  BY <1>1 DEF Init, Service!Init, Service!Priorities

-----------------------------------------------------------------------------
(* The steps the service does not see.                                     *)

LEMMA Unseen ==
  ASSUME UNCHANGED <<m_running, m_jobPause, m_jobQueue, m_processing, allocated>>,
         \A j \in Jobs : work'[j].prio = work[j].prio
  PROVE  UNCHANGED Service!vars
<1>1. \A j \in Jobs : Status(j)' = Status(j)
  BY DEF Status, Queued
<1> QED
  BY <1>1 DEF Service!vars

LEMMA CancelProcessingUnseen ==
  ASSUME IInv, NEW id, CancelJob(id), CancelProcessing(id)
  PROVE  UNCHANGED Service!vars
<1>1. PICK j \in m_processing : work' = [work EXCEPT ![j].cb = NULL]
  BY DEF CancelProcessing
<1>2. \A x \in Jobs : work'[x].prio = work[x].prio
  BY <1>1 DEF IInv, TypeOK, CWorkItem
<1> QED
  BY <1>2, Unseen DEF CancelJob, CancelProcessing

-----------------------------------------------------------------------------
(* The steps of the service.                                               *)

LEMMA AddJobSubmits ==
  ASSUME IInv, NEW j \in Jobs, NEW cb \in Callbacks \cup {NULL},
         NEW p \in Priorities, AddJob(j, cb, p)
  PROVE  Service!Submit(j, p)
<1>1. /\ m_running /\ j \notin allocated /\ allocated' = allocated \cup {j}
      /\ work' = [work EXCEPT ![j] = [id |-> NextId, prio |-> p, cb |-> cb]]
      /\ UNCHANGED <<m_running, m_jobPause, m_processing>>
  BY DEF AddJob
<1>2. Status(j) = "absent"
  BY <1>1, StatusIs
<1>3. /\ \A q \in Priorities \ {p} : Queued(q)' = Queued(q)
      /\ Queued(p)' = Queued(p) \cup {j}
  BY AddJobQueued
<1>4. Status(j)' = "queued"
  BY <1>3 DEF Status
<1>5. \A x \in Jobs \ {j} : Status(x)' = Status(x)
  BY <1>1, <1>3, StatusSame
<1>6. statusMap' = [statusMap EXCEPT ![j] = "queued"]
  BY <1>4, <1>5 DEF statusMap
<1>7. prioMap' = [prioMap EXCEPT ![j] = p]
  BY <1>1 DEF prioMap, IInv, TypeOK
<1> QED
  BY <1>1, <1>2, <1>6, <1>7 DEF Service!Submit, statusMap, prioMap

LEMMA CancelQueuedWithdraws ==
  ASSUME IInv, NEW id, CancelJob(id), CancelQueued(id)
  PROVE  \E j \in Jobs : Service!Withdraw(j)
<1>1. PICK p \in Priorities : \E j \in Queued(p) :
        /\ Delete({j})
        /\ \A q \in Priorities \ {p} : Queued(q)' = Queued(q)
        /\ Queued(p)' = Queued(p) \ {j}
        /\ j \notin m_processing /\ \A q \in Priorities : j \notin Queued(q)'
  BY CancelQueuedQueued
<1>2. PICK j \in Queued(p) :
        /\ Delete({j})
        /\ \A q \in Priorities \ {p} : Queued(q)' = Queued(q)
        /\ Queued(p)' = Queued(p) \ {j}
        /\ j \notin m_processing /\ \A q \in Priorities : j \notin Queued(q)'
  BY <1>1
<1>3. j \in Jobs /\ Status(j) = "queued"
  BY QueuedAreJobs, StatusIs DEF IInv
<1>4. UNCHANGED <<m_running, m_jobPause, m_processing>>
  BY DEF CancelJob
<1>5. Status(j)' = "absent"
  BY <1>2, <1>4 DEF Status, Delete
<1>6. \A x \in Jobs \ {j} : Status(x)' = Status(x)
  BY <1>2, <1>4, StatusSame DEF Delete
<1>7. statusMap' = [statusMap EXCEPT ![j] = "absent"]
  BY <1>5, <1>6 DEF statusMap
<1>8. prioMap' = [prioMap EXCEPT ![j] = 0]
  BY <1>2 DEF Delete, NoItem, prioMap
<1> QED
  BY <1>3, <1>4, <1>7, <1>8 DEF Service!Withdraw, statusMap, prioMap

(* The instance's copy of the operator of FiniteSets.                      *)
LEMMA SameCardinality == \A S : Service!Cardinality(S) = Cardinality(S)
  BY DEF Service!Cardinality, Cardinality

(* PopJob takes a job of the highest priority that may run: Runnable of    *)
(* the service is CanPop of the queue the job is in.                       *)
LEMMA RunnableIsCanPop ==
  ASSUME IInv, QueuedPrio, NEW j \in Jobs
  PROVE  Service!Runnable(j) <=> \E p \in Priorities : j \in Queued(p) /\ CanPop(p)
<1>1. Service!Of("running") = m_processing
  BY StatusIs DEF Service!Of, IInv, TypeOK
<1>2. \A p \in Priorities : Service!Limit(p) = GetMaxWorkers(p)
  BY DEF Service!Limit, GetMaxWorkers, Service!HighestPriority
<1>3. Service!Runnable(j) <=> /\ Status(j) = "queued"
                              /\ ~m_jobPause[work[j].prio]
                              /\ Cardinality(m_processing) < Service!Limit(work[j].prio)
  BY <1>1, SameCardinality DEF Service!Runnable
<1>4. \A p \in Priorities : j \in Queued(p) =>
        work[j].prio = p /\ m_jobQueue[p] # <<>>
  BY DEF QueuedPrio, Queued, Range
<1> QED
  BY <1>2, <1>3, <1>4, StatusIs DEF CanPop

LEMMA PopJobStarts ==
  ASSUME IInv, QueuedPrio, NEW w \in Workers, GetNextJobPop(w)
  PROVE  \E j \in Jobs : Service!Start(j)
<1>1. PICK p \in Priorities : \E j \in Queued(p) :
        /\ CanPop(p) /\ \A q \in Priorities : q > p => ~CanPop(q)
        /\ m_processing' = m_processing \cup {j}
        /\ \A q \in Priorities \ {p} : Queued(q)' = Queued(q)
        /\ Queued(p)' = Queued(p) \ {j}
        /\ j \notin m_processing
        /\ UNCHANGED <<m_running, m_jobPause, work, allocated>>
  BY PopJobQueued
<1>2. PICK j \in Queued(p) :
        /\ m_processing' = m_processing \cup {j}
        /\ Queued(p)' = Queued(p) \ {j}
  BY <1>1
<1>3. j \in Jobs /\ work[j].prio = p
  BY QueuedAreJobs DEF IInv, QueuedPrio
<1>4. Service!Runnable(j)
  BY <1>1, <1>3, RunnableIsCanPop
<1>5. \A k \in Jobs : Service!Runnable(k) => work[k].prio <= p
  <2> SUFFICES ASSUME NEW k \in Jobs, Service!Runnable(k) PROVE work[k].prio <= p
    OBVIOUS
  <2>1. PICK q \in Priorities : k \in Queued(q) /\ CanPop(q)
    BY RunnableIsCanPop
  <2>2. q <= p /\ work[k].prio = q
    BY <1>1, <2>1 DEF QueuedPrio
  <2> QED
    BY <2>2
<1>6. Status(j)' = "running"
  BY <1>1, <1>2 DEF Status, IInv, QueuesApart
<1>7. \A x \in Jobs \ {j} : Status(x)' = Status(x)
  BY <1>1, <1>2, StatusSame
<1>8. statusMap' = [statusMap EXCEPT ![j] = "running"]
  BY <1>6, <1>7 DEF statusMap
<1>9. prioMap' = prioMap
  BY <1>1 DEF prioMap
<1> QED
  BY <1>1, <1>3, <1>4, <1>5, <1>8, <1>9 DEF Service!Start, statusMap, prioMap

LEMMA EraseItemFinishes ==
  ASSUME IInv, NEW w \in Workers, EraseItem(w)
  PROVE  \E j \in Jobs : Service!Finish(j)
<1>0. job[w] \in m_processing /\ job[w] \in Jobs
  BY DEF EraseItem, IInv, OneWorkerPerJob, Running, TypeOK
<1> PICK j \in Jobs : j = job[w]
  BY <1>0
<1>1. /\ m_processing' = m_processing \ {j}
      /\ UNCHANGED <<m_running, m_jobPause, m_jobQueue, work, allocated>>
  BY DEF EraseItem, managerVars
<1>2. j \in m_processing
  BY <1>0
<1>3. Status(j) = "running" /\ j \in allocated /\ \A p \in Priorities : j \notin Queued(p)
  BY <1>2, StatusIs DEF IInv, AllocatedTracked, Tracked, Status
<1>4. \A p \in Priorities : Queued(p)' = Queued(p)
  BY <1>1 DEF Queued
<1>5. Status(j)' = "finished"
  BY <1>1, <1>3, <1>4 DEF Status
<1>6. \A x \in Jobs \ {j} : Status(x)' = Status(x)
  BY <1>1, <1>4, StatusSame
<1>7. statusMap' = [statusMap EXCEPT ![j] = "finished"]
  BY <1>5, <1>6 DEF statusMap
<1>8. prioMap' = prioMap
  BY <1>1 DEF prioMap
<1> QED
  BY <1>1, <1>3, <1>7, <1>8 DEF Service!Finish, statusMap, prioMap

LEMMA FreeJobDestroys ==
  ASSUME IInv, NEW w \in Workers, FreeJob(w)
  PROVE  \E j \in Jobs : Service!Destroy(j)
<1>0. /\ pc[w] = "free" /\ job[w] \in Jobs /\ job[w] \notin m_processing
      /\ \A p \in Priorities : job[w] \notin Queued(p)
  BY NullAssumption DEF FreeJob, IInv, JobHeld, OneWorkerPerJob, HeldNotQueued,
                        Running, TypeOK
<1> PICK j \in Jobs : j = job[w]
  BY <1>0
<1>1. /\ Delete({j})
      /\ UNCHANGED <<m_running, m_jobPause, m_jobQueue, m_processing>>
  BY DEF FreeJob, managerVars
<1>2. j \notin m_processing /\ \A p \in Priorities : j \notin Queued(p)
  BY <1>0
<1>3. j \in allocated
  BY <1>0 DEF IInv, AllocatedTracked, Tracked
<1>4. Status(j) = "finished"
  BY <1>2, <1>3 DEF Status
<1>5. \A p \in Priorities : Queued(p)' = Queued(p)
  BY <1>1 DEF Queued
<1>6. Status(j)' = "absent"
  BY <1>1, <1>2, <1>5 DEF Status, Delete
<1>7. \A x \in Jobs \ {j} : Status(x)' = Status(x)
  BY <1>1, <1>5, StatusSame DEF Delete
<1>8. statusMap' = [statusMap EXCEPT ![j] = "absent"]
  BY <1>6, <1>7 DEF statusMap
<1>9. prioMap' = [prioMap EXCEPT ![j] = 0]
  BY <1>1 DEF Delete, NoItem, prioMap
<1> QED
  BY <1>1, <1>4, <1>8, <1>9 DEF Service!Destroy, statusMap, prioMap

LEMMA CancelJobsCloses ==
  ASSUME IInv, CancelJobs
  PROVE  Service!Close
<1> DEFINE pending == UNION {Queued(p) : p \in Priorities}
<1>1. /\ m_running' = FALSE /\ cancelPc = "idle"
      /\ m_jobQueue' = [p \in Priorities |-> <<>>]
      /\ allocated' = allocated \ pending
      /\ work' = [j \in Jobs |->
                    IF j \in pending THEN NoItem
                    ELSE IF j \in m_processing THEN [work[j] EXCEPT !.cb = NULL]
                    ELSE work[j]]
      /\ UNCHANGED <<m_jobPause, m_processing>>
  BY DEF CancelJobs
<1>2. m_running
  BY <1>1 DEF IInv, ShutdownOrder
<1>3. \A j \in Jobs : j \in pending <=> Status(j) = "queued"
  BY StatusIs
<1>4. \A j \in Jobs : j \in pending => j \notin m_processing
  BY DEF IInv, HeldNotQueued, OneWorkerPerJob
<1>5. \A p \in Priorities : Queued(p)' = {}
  BY <1>1 DEF Queued, Range
<1> HIDE DEF pending
<1>6. ASSUME NEW j \in Jobs
      PROVE  /\ Status(j)' = IF Status(j) = "queued" THEN "absent" ELSE Status(j)
             /\ work'[j].prio = IF Status(j) = "queued" THEN 0 ELSE work[j].prio
  <2>1. CASE j \in pending
    BY <1>1, <1>3, <1>4, <1>5, <2>1 DEF Status, NoItem
  <2>2. CASE j \notin pending
    <3>1. Status(j)' = Status(j)
      BY <1>1, <1>3, <1>5, <2>2 DEF Status
    <3>2. work'[j].prio = work[j].prio
      BY <1>1, <2>2 DEF IInv, TypeOK, CWorkItem
    <3> QED
      BY <1>3, <2>2, <3>1, <3>2
  <2> QED
    BY <2>1, <2>2
<1> QED
  BY <1>1, <1>2, <1>6 DEF Service!Close

-----------------------------------------------------------------------------

LEMMA StepMaps ==
  ASSUME IInv, QueuedPrio, [Next]_vars
  PROVE  [Service!Next]_Service!vars
<1>1. CASE Client
  <2>1. ASSUME NEW j \in Jobs, NEW cb \in Callbacks \cup {NULL}, NEW p \in AddedAt,
               AddJob(j, cb, p)
        PROVE  Service!Next
    <3>1. p \in Service!Priorities /\ Service!Submit(j, p)
      BY <2>1, AddJobSubmits DEF Service!Priorities
    <3> QED
      BY <3>1 DEF Service!Next
  <2>2. ASSUME NEW id \in 0..(IdRange - 1), CancelJob(id)
        PROVE  [Service!Next]_Service!vars
    <3>1. CASE CancelQueued(id)
      BY <2>2, <3>1, CancelQueuedWithdraws DEF Service!Next
    <3>2. CASE CancelProcessing(id)
      BY <2>2, <3>2, CancelProcessingUnseen
    <3> QED
      BY <2>2, <3>1, <3>2 DEF CancelJob
  <2>3. ASSUME NEW p \in PausedAt, Pause(p) \/ UnPause(p)
        PROVE  Service!Next
    <3>1. \E b \in BOOLEAN : m_jobPause' = [m_jobPause EXCEPT ![p] = b]
      BY <2>3 DEF Pause, UnPause
    <3>2. \A j \in Jobs : Status(j)' = Status(j) /\ work'[j].prio = work[j].prio
      BY <2>3 DEF Pause, UnPause, Status, Queued
    <3>3. m_running' = m_running
      BY <2>3 DEF Pause, UnPause
    <3>4. \E b \in BOOLEAN : Service!SetPause(p, b)
      BY <3>1, <3>2, <3>3 DEF Service!SetPause
    <3>5. p \in Service!Priorities
      BY DEF Service!Priorities
    <3> QED
      BY <3>4, <3>5 DEF Service!Next
  <2> QED
    BY <1>1, <2>1, <2>2, <2>3 DEF Client
<1>2. CASE Shutdown
  <2>1. CASE CancelJobs
    BY <2>1, CancelJobsCloses DEF Service!Next
  <2>2. CASE CancelJobsSet \/ CancelJobsCheck
    BY <2>2, Unseen DEF CancelJobsSet, CancelJobsCheck, managerVars
  <2> QED
    BY <1>2, <2>1, <2>2 DEF Shutdown
<1>3. ASSUME NEW w \in Workers, WorkerStep(w) \/ OnJobProgress(w)
      PROVE  [Service!Next]_Service!vars
  <2>1. CASE GetNextJobPop(w)
    BY <2>1, PopJobStarts DEF Service!Next
  <2>2. CASE EraseItem(w)
    BY <2>2, EraseItemFinishes DEF Service!Next
  <2>3. CASE FreeJob(w)
    BY <2>3, FreeJobDestroys DEF Service!Next
  <2>4. CASE \/ GetNextJobSleep(w) \/ GetNextJobLeave(w) \/ WaitBlock(w)
             \/ WaitSignaled(w) \/ WaitTimeout(w) \/ OnJobProgress(w)
             \/ OnJobProgressReturn(w) \/ OnJobComplete(w) \/ Notify(w)
             \/ CallbackReturn(w) \/ DeleteWorker(w)
    <3>1. UNCHANGED <<m_running, m_jobPause, m_jobQueue, m_processing, allocated, work>>
      BY <2>4 DEF GetNextJobSleep, GetNextJobLeave, WaitBlock, WaitSignaled,
        WaitTimeout, OnJobProgress, OnJobProgressReturn, OnJobComplete, Notify,
        CallbackReturn, DeleteWorker, managerVars
    <3> QED
      BY <3>1, Unseen
  <2> QED
    BY <1>3, <2>1, <2>2, <2>3, <2>4 DEF WorkerStep
<1>4. CASE UNCHANGED vars
  BY <1>4, Unseen DEF vars, managerVars
<1> QED
  BY <1>1, <1>2, <1>3, <1>4 DEF Next

(* CJobManager keeps what its comments promise (JobService): a job starts  *)
(* once, in order of priority and within the limits, is destroyed only     *)
(* when it no longer runs, and nothing starts after CancelJobs.            *)
THEOREM ManagerImplementsService == Spec => ImplementsService
<1>1. IInv /\ CapInv /\ [Next]_vars => [Service!Next]_Service!vars
  BY StepMaps DEF CapInv
<1> QED
  BY <1>1, InitMaps, CapacityInvariant, PTL DEF Spec, ImplementsService, Service!Spec
=============================================================================
