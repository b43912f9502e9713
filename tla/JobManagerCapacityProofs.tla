---------------------- MODULE JobManagerCapacityProofs ----------------------
(***************************************************************************)
(* Proofs that the pool of JobManager respects its two limits, on threads  *)
(* and on the running jobs of each priority, for every number of jobs,     *)
(* threads and pool places.                                                *)
(***************************************************************************)
EXTENDS JobManagerProofs

USE PoolAssumption, IdAssumption, ClientAssumption DEF Priorities, LOW, NORMAL, HIGH

-----------------------------------------------------------------------------
(* What makes the limits inductive: a queued job has its queue's priority, *)
(* so that PopJob counts it where PriorityReserve does.                    *)

QueuedPrio == \A p \in Priorities : \A x \in Queued(p) : work[x].prio = p

RunningUpTo(p) == {x \in m_processing : work[x].prio <= p}

ReserveKept ==
  \A p \in Priorities : Cardinality(RunningUpTo(p)) <= GetMaxWorkers(p)

FewWorkers ==
  m_workers = {} \/ \E p \in AddedAt : Cardinality(m_workers) <= GetMaxWorkers(p)

CapInv == QueuedPrio /\ ReserveKept /\ FewWorkers

(* No job starts, and those that run keep their priority. *)
NothingStarts ==
  /\ m_processing' \subseteq m_processing
  /\ \A x \in m_processing' : work'[x].prio = work[x].prio

LEMMA FinitePool ==
  ASSUME TypeOK
  PROVE  /\ IsFiniteSet(m_processing) /\ Cardinality(m_processing) \in Nat
         /\ IsFiniteSet(m_workers) /\ Cardinality(m_workers) \in Nat
         /\ \A p \in Priorities : /\ IsFiniteSet(RunningUpTo(p))
                                  /\ Cardinality(RunningUpTo(p)) \in Nat
                                  /\ Cardinality(RunningUpTo(p)) <= Cardinality(m_processing)
<1>1. m_processing \subseteq Jobs /\ m_workers \subseteq Workers
  BY DEF TypeOK
<1>2. /\ IsFiniteSet(m_processing) /\ Cardinality(m_processing) \in Nat
      /\ IsFiniteSet(m_workers) /\ Cardinality(m_workers) \in Nat
  BY <1>1, FiniteAssumption, FS_Subset, FS_CardinalityType
<1>3. \A p \in Priorities : RunningUpTo(p) \subseteq m_processing
  BY DEF RunningUpTo
<1> QED
  BY <1>2, <1>3, FS_Subset, FS_CardinalityType

-----------------------------------------------------------------------------
(* The number of threads.                                                  *)

LEMMA FewWorkersStep ==
  ASSUME TypeOK, TypeOK', FewWorkers, [Next]_vars
  PROVE  FewWorkers'
<1>1. CASE m_workers' \subseteq m_workers
  <2>1. Cardinality(m_workers') <= Cardinality(m_workers) /\ Cardinality(m_workers') \in Nat
    BY <1>1, FinitePool, FS_Subset, FS_CardinalityType
  <2>2. \A p \in AddedAt : GetMaxWorkers(p) \in Int
    BY DEF GetMaxWorkers
  <2> QED
    BY <1>1, <2>1, <2>2, FinitePool DEF FewWorkers, GetMaxWorkers
<1>2. ASSUME NEW p \in AddedAt, StartWorkers(p) PROVE FewWorkers'
  <2>1. CASE UNCHANGED m_workers
    BY <2>1, <1>1
  <2>2. CASE \E w \in Workers : m_workers' = m_workers \cup {w}
    <3>1. PICK w \in Workers : m_workers' = m_workers \cup {w}
      BY <2>2
    <3>2. CASE w \in m_workers
      BY <1>1, <3>1, <3>2
    <3>3. CASE w \notin m_workers
      <4>1. /\ Cardinality(m_processing) < GetMaxWorkers(p)
            /\ Cardinality(m_processing) >= Cardinality(m_workers)
        BY <1>2, <3>1, <3>3 DEF StartWorkers
      <4>2. GetMaxWorkers(p) \in Int
        BY DEF GetMaxWorkers
      <4>3. Cardinality(m_workers') = Cardinality(m_workers) + 1
        BY <3>1, <3>3, FinitePool, FS_AddElement
      <4> QED
        BY <4>1, <4>2, <4>3, FinitePool DEF FewWorkers, GetMaxWorkers
    <3> QED
      BY <3>2, <3>3
  <2> QED
    BY <1>2, <2>1, <2>2 DEF StartWorkers
<1>3. ASSUME NEW w \in Workers, WorkerStep(w) \/ OnJobProgress(w)
      PROVE  m_workers' \subseteq m_workers
  BY <1>3 DEF WorkerStep, GetNextJobPop, PopJob, GetNextJobSleep, GetNextJobLeave,
    WaitBlock, WaitSignaled, WaitTimeout, OnJobProgress, OnJobProgressReturn,
    OnJobComplete, Notify, CallbackReturn, EraseItem, FreeJob, DeleteWorker,
    RemoveWorker
<1>4. CASE Client
  <2>1. ASSUME NEW j \in Jobs, NEW cb \in Callbacks \cup {NULL}, NEW p \in AddedAt,
               AddJob(j, cb, p)
        PROVE  FewWorkers'
    BY <1>2, <2>1 DEF AddJob
  <2>2. ASSUME NEW id \in 0..(IdRange - 1), CancelJob(id) PROVE FewWorkers'
    BY <1>1, <2>2 DEF CancelJob
  <2>3. ASSUME NEW p \in PausedAt, Pause(p) \/ UnPause(p) PROVE FewWorkers'
    BY <1>1, <2>3 DEF Pause, UnPause
  <2> QED
    BY <1>4, <2>1, <2>2, <2>3 DEF Client
<1>5. CASE Shutdown
  BY <1>1, <1>5 DEF Shutdown, CancelJobs, CancelJobsSet, CancelJobsCheck
<1>6. CASE UNCHANGED vars
  BY <1>1, <1>6 DEF vars
<1> QED
  BY <1>1, <1>3, <1>4, <1>5, <1>6 DEF Next

-----------------------------------------------------------------------------
(* How the steps that change a queue change what is queued.                *)

LEMMA AddJobQueued ==
  ASSUME IInv, NEW j \in Jobs, NEW cb \in Callbacks \cup {NULL},
         NEW p \in Priorities, AddJob(j, cb, p)
  PROVE  /\ \A q \in Priorities : j \notin Queued(q)
         /\ \A q \in Priorities \ {p} : Queued(q)' = Queued(q)
         /\ Queued(p)' = Queued(p) \cup {j}
<1>1. \A q \in Priorities : j \notin Queued(q)
  BY DEF IInv, AddJob, AllocatedTracked, Tracked
<1>2. /\ \A q \in Priorities \ {p} : m_jobQueue'[q] = m_jobQueue[q]
      /\ m_jobQueue'[p] = Append(m_jobQueue[p], j)
      /\ m_jobQueue[p] \in Seq(Jobs)
  BY DEF AddJob, IInv, TypeOK
<1>3. Range(Append(m_jobQueue[p], j)) = Range(m_jobQueue[p]) \cup {j}
  BY <1>1, <1>2, PushBack DEF Queued, IInv, QueuesApart
<1> QED
  BY <1>1, <1>2, <1>3 DEF Queued

LEMMA CancelQueuedQueued ==
  ASSUME IInv, NEW id, CancelQueued(id)
  PROVE  \E p \in Priorities : \E j \in Queued(p) :
           /\ Delete({j})
           /\ \A q \in Priorities \ {p} : Queued(q)' = Queued(q)
           /\ Queued(p)' = Queued(p) \ {j}
           /\ j \notin m_processing /\ \A q \in Priorities : j \notin Queued(q)'
<1>1. PICK p \in Priorities : \E i \in WithId(p, id) :
        /\ m_jobQueue' = [m_jobQueue EXCEPT ![p] = RemoveAt(@, i)]
        /\ Delete({m_jobQueue[p][i]})
  BY DEF CancelQueued
<1>2. PICK i \in WithId(p, id) :
        /\ m_jobQueue' = [m_jobQueue EXCEPT ![p] = RemoveAt(@, i)]
        /\ Delete({m_jobQueue[p][i]})
  BY <1>1
<1>3. i \in 1..Len(m_jobQueue[p]) /\ m_jobQueue[p] \in Seq(Jobs)
  BY DEF WithId, IInv, TypeOK
<1> DEFINE j == m_jobQueue[p][i]
<1>4. /\ \A q \in Priorities \ {p} : Queued(q)' = Queued(q)
      /\ Queued(p)' = Queued(p) \ {j} /\ j \in Queued(p)
  BY <1>2, <1>3, EraseAt DEF Queued, IInv, QueuesApart, TypeOK
<1>5. Delete({j})
  BY <1>2
<1> HIDE DEF j
<1>6. j \notin m_processing /\ \A q \in Priorities : j \notin Queued(q)'
  BY <1>4 DEF IInv, HeldNotQueued, OneWorkerPerJob, QueuesApart
<1> QED
  BY <1>4, <1>5, <1>6

LEMMA PopJobQueued ==
  ASSUME IInv, NEW w \in Workers, GetNextJobPop(w)
  PROVE  \E p \in Priorities : \E j \in Queued(p) :
           /\ CanPop(p) /\ \A q \in Priorities : q > p => ~CanPop(q)
           /\ m_processing' = m_processing \cup {j}
           /\ \A q \in Priorities \ {p} : Queued(q)' = Queued(q)
           /\ Queued(p)' = Queued(p) \ {j}
           /\ j \notin m_processing
           /\ UNCHANGED <<m_running, m_jobPause, work, allocated>>
<1>1. PICK p \in Priorities :
        /\ CanPop(p) /\ \A q \in Priorities : q > p => ~CanPop(q)
        /\ m_jobQueue' = [m_jobQueue EXCEPT ![p] = Tail(@)]
        /\ m_processing' = m_processing \cup {Head(m_jobQueue[p])}
  BY DEF GetNextJobPop, PopJob
<1> DEFINE j == Head(m_jobQueue[p])
<1>2. /\ \A q \in Priorities \ {p} : Queued(q)' = Queued(q)
      /\ Queued(p)' = Queued(p) \ {j} /\ j \in Queued(p)
  BY <1>1, PopFront DEF CanPop, Queued, IInv, QueuesApart, TypeOK
<1>3. m_processing' = m_processing \cup {j}
  BY <1>1
<1>4. UNCHANGED <<m_running, m_jobPause, work, allocated>>
  BY DEF GetNextJobPop, PopJob
<1> HIDE DEF j
<1>5. j \notin m_processing
  BY <1>2 DEF IInv, HeldNotQueued, OneWorkerPerJob
<1> QED
  BY <1>1, <1>2, <1>3, <1>4, <1>5

-----------------------------------------------------------------------------
(* The number of running jobs of each priority.                            *)

LEMMA ReserveWithoutStart ==
  ASSUME TypeOK, ReserveKept, NothingStarts
  PROVE  ReserveKept'
<1> SUFFICES ASSUME NEW p \in Priorities
             PROVE  Cardinality(RunningUpTo(p)') <= GetMaxWorkers(p)
  BY DEF ReserveKept, GetMaxWorkers
<1>1. RunningUpTo(p)' \subseteq RunningUpTo(p)
  BY DEF NothingStarts, RunningUpTo
<1>2. /\ Cardinality(RunningUpTo(p)') \in Nat
      /\ Cardinality(RunningUpTo(p)') <= Cardinality(RunningUpTo(p))
  BY <1>1, FinitePool, FS_Subset, FS_CardinalityType
<1>3. Cardinality(RunningUpTo(p)) <= GetMaxWorkers(p) /\ GetMaxWorkers(p) \in Int
  BY DEF ReserveKept, GetMaxWorkers
<1> QED
  BY <1>2, <1>3, FinitePool

(* PopJob at priority q tests the whole m_processing against q's share. *)
LEMMA ReservePop ==
  ASSUME IInv, QueuedPrio, ReserveKept, NEW w \in Workers, GetNextJobPop(w)
  PROVE  ReserveKept' /\ QueuedPrio'
<1>1. PICK q \in Priorities : \E j \in Queued(q) :
        /\ CanPop(q)
        /\ m_processing' = m_processing \cup {j}
        /\ \A p \in Priorities \ {q} : Queued(p)' = Queued(p)
        /\ Queued(q)' = Queued(q) \ {j}
        /\ work' = work
  BY PopJobQueued
<1>2. PICK j \in Queued(q) :
        /\ m_processing' = m_processing \cup {j}
        /\ Queued(q)' = Queued(q) \ {j}
        /\ work' = work
  BY <1>1
<1>3. \A p \in Priorities : Queued(p)' \subseteq Queued(p)
  BY <1>1, <1>2
<1>4. m_processing' = m_processing \cup {j}
  BY <1>2
<1>5. Cardinality(m_processing) < GetMaxWorkers(q)
  BY <1>1 DEF CanPop
<1>6. QueuedPrio'
  BY <1>2, <1>3 DEF QueuedPrio
<1>7. work[j].prio = q
  BY <1>3 DEF QueuedPrio
<1>8. TypeOK
  BY DEF IInv
<1>9. ASSUME NEW p \in Priorities
      PROVE  Cardinality(RunningUpTo(p)') <= GetMaxWorkers(p)
  <2>1. CASE p < q
    <3>1. RunningUpTo(p)' = RunningUpTo(p)
      BY <1>2, <1>4, <1>7, <2>1 DEF RunningUpTo
    <3> QED
      BY <3>1 DEF ReserveKept
  <2>2. CASE p >= q
    <3>1. RunningUpTo(p)' = RunningUpTo(p) \cup {j}
      BY <1>2, <1>4, <1>7, <2>2 DEF RunningUpTo
    <3>2. /\ IsFiniteSet(RunningUpTo(p)) /\ Cardinality(RunningUpTo(p)) \in Nat
          /\ Cardinality(RunningUpTo(p)) <= Cardinality(m_processing)
      BY <1>8, FinitePool
    <3>3. GetMaxWorkers(q) <= GetMaxWorkers(p) /\ GetMaxWorkers(p) \in Int
          /\ GetMaxWorkers(q) \in Int
      BY <2>2 DEF GetMaxWorkers
    <3>4. Cardinality(RunningUpTo(p) \cup {j}) =
            IF j \in RunningUpTo(p) THEN Cardinality(RunningUpTo(p))
            ELSE Cardinality(RunningUpTo(p)) + 1
      BY <3>2, FS_AddElement
    <3>5. Cardinality(m_processing) \in Nat
      BY <1>8, FinitePool
    <3> QED
      BY <1>5, <3>1, <3>2, <3>3, <3>4, <3>5
  <2> QED
    BY <2>1, <2>2
<1>10. ReserveKept'
  BY <1>9 DEF ReserveKept, GetMaxWorkers
<1> QED
  BY <1>6, <1>10

LEMMA PrioAddJob ==
  ASSUME IInv, QueuedPrio, NEW j \in Jobs, NEW cb \in Callbacks \cup {NULL},
         NEW p \in Priorities, AddJob(j, cb, p)
  PROVE  NothingStarts /\ QueuedPrio'
<1>1. j \notin m_processing
  BY DEF IInv, AddJob, AllocatedTracked, Tracked
<1>2. work' = [work EXCEPT ![j] = [id |-> NextId, prio |-> p, cb |-> cb]]
  BY DEF AddJob
<1>3. \A x \in Jobs : work'[x].prio = IF x = j THEN p ELSE work[x].prio
  BY <1>2 DEF IInv, TypeOK
<1>4. NothingStarts
  BY <1>1, <1>3 DEF AddJob, NothingStarts, IInv, TypeOK
<1>5. /\ \A q \in Priorities : j \notin Queued(q)
      /\ \A q \in Priorities \ {p} : Queued(q)' = Queued(q)
      /\ Queued(p)' = Queued(p) \cup {j}
  BY AddJobQueued
<1>6. \A q \in Priorities : Queued(q) \subseteq Jobs
  BY QueuedAreJobs DEF IInv
<1>7. QueuedPrio'
  BY <1>3, <1>5, <1>6 DEF QueuedPrio
<1> QED
  BY <1>4, <1>7

LEMMA PrioCancelQueued ==
  ASSUME IInv, QueuedPrio, NEW id, CancelJob(id), CancelQueued(id)
  PROVE  NothingStarts /\ QueuedPrio'
<1>1. PICK p \in Priorities : \E j \in Queued(p) :
        /\ Delete({j})
        /\ \A q \in Priorities \ {p} : Queued(q)' = Queued(q)
        /\ Queued(p)' = Queued(p) \ {j}
        /\ j \notin m_processing /\ \A q \in Priorities : j \notin Queued(q)'
  BY CancelQueuedQueued
<1>2. PICK j \in Queued(p) :
        /\ Delete({j})
        /\ \A q \in Priorities \ {p} : Queued(q)' = Queued(q)
        /\ Queued(p)' = Queued(p) \ {j}
        /\ j \notin m_processing /\ \A q \in Priorities : j \notin Queued(q)'
  BY <1>1
<1>3. \A x \in Jobs \ {j} : work'[x] = work[x]
  BY <1>2 DEF Delete
<1>4. NothingStarts
  BY <1>2, <1>3 DEF CancelJob, NothingStarts, IInv, TypeOK
<1>5. \A q \in Priorities : Queued(q)' \subseteq Queued(q) /\ Queued(q) \subseteq Jobs
  BY <1>2, QueuedAreJobs DEF IInv
<1>6. QueuedPrio'
  BY <1>2, <1>3, <1>5 DEF QueuedPrio
<1> QED
  BY <1>4, <1>6

LEMMA PrioCancelProcessing ==
  ASSUME IInv, QueuedPrio, NEW id, CancelJob(id), CancelProcessing(id)
  PROVE  NothingStarts /\ QueuedPrio'
<1>1. PICK j \in m_processing : work' = [work EXCEPT ![j].cb = NULL]
  BY DEF CancelProcessing
<1>2. \A x \in Jobs : work'[x].prio = work[x].prio
  BY <1>1 DEF IInv, TypeOK, CWorkItem
<1>3. \A q \in Priorities : Queued(q)' = Queued(q) /\ Queued(q) \subseteq Jobs
  BY QueuedAreJobs DEF CancelProcessing, Queued, IInv
<1>4. m_processing' = m_processing /\ m_processing \subseteq Jobs
  BY DEF CancelJob, IInv, TypeOK
<1>5. NothingStarts
  BY <1>2, <1>4 DEF NothingStarts
<1>6. QueuedPrio'
  BY <1>2, <1>3 DEF QueuedPrio
<1> QED
  BY <1>5, <1>6

LEMMA PrioCancelJobs ==
  ASSUME IInv, QueuedPrio, CancelJobs
  PROVE  NothingStarts /\ QueuedPrio'
<1>1. \A q \in Priorities : Queued(q)' = {}
  BY DEF CancelJobs, Queued, Range
<1> DEFINE pending == UNION {Queued(p) : p \in Priorities}
<1>2. \A x \in m_processing : x \notin pending
  BY DEF IInv, HeldNotQueued, OneWorkerPerJob
<1>3. work' = [j \in Jobs |->
                 IF j \in pending THEN NoItem
                 ELSE IF j \in m_processing THEN [work[j] EXCEPT !.cb = NULL]
                 ELSE work[j]]
  BY DEF CancelJobs
<1> HIDE DEF pending
<1>4. \A x \in m_processing : work'[x].prio = work[x].prio
  BY <1>2, <1>3 DEF IInv, TypeOK, CWorkItem
<1> QED
  BY <1>1, <1>4 DEF CancelJobs, NothingStarts, QueuedPrio

LEMMA PrioFreeJob ==
  ASSUME IInv, QueuedPrio, NEW w \in Workers, FreeJob(w)
  PROVE  NothingStarts /\ QueuedPrio'
<1>1. /\ pc[w] = "free" /\ UNCHANGED <<m_processing, m_jobQueue>>
      /\ work' = [x \in Jobs |-> IF x \in {job[w]} THEN NoItem ELSE work[x]]
  BY DEF FreeJob, Delete, managerVars
<1>2. job[w] \notin m_processing
  BY <1>1, NullAssumption DEF IInv, JobHeld, OneWorkerPerJob, Running, TypeOK
<1>3. \A q \in Priorities : Queued(q)' = Queued(q) /\ Queued(q) \subseteq Jobs
                            /\ job[w] \notin Queued(q)
  BY <1>1, QueuedAreJobs DEF Queued, IInv, HeldNotQueued
<1>4. \A x \in Jobs \ {job[w]} : work'[x] = work[x]
  BY <1>1
<1>5. NothingStarts
  BY <1>1, <1>2, <1>4 DEF NothingStarts, IInv, TypeOK
<1>6. QueuedPrio'
  BY <1>3, <1>4 DEF QueuedPrio
<1> QED
  BY <1>5, <1>6

(* Every other step leaves the queues and the work items alone. *)
LEMMA PrioQuiet ==
  ASSUME QueuedPrio, m_processing' \subseteq m_processing,
         UNCHANGED <<m_jobQueue, work>>
  PROVE  NothingStarts /\ QueuedPrio'
<1>1. \A q \in Priorities : Queued(q)' = Queued(q)
  BY DEF Queued
<1> QED
  BY <1>1 DEF NothingStarts, QueuedPrio

LEMMA PrioStep ==
  ASSUME IInv, QueuedPrio, ReserveKept, [Next]_vars
  PROVE  ReserveKept' /\ QueuedPrio'
<1>1. NothingStarts /\ QueuedPrio' => ReserveKept' /\ QueuedPrio'
  BY ReserveWithoutStart DEF IInv
<1>2. CASE Client
  <2>1. ASSUME NEW j \in Jobs, NEW cb \in Callbacks \cup {NULL}, NEW p \in AddedAt,
               AddJob(j, cb, p)
        PROVE  NothingStarts /\ QueuedPrio'
    BY <2>1, PrioAddJob
  <2>2. ASSUME NEW id \in 0..(IdRange - 1), CancelJob(id)
        PROVE  NothingStarts /\ QueuedPrio'
    BY <2>2, PrioCancelQueued, PrioCancelProcessing DEF CancelJob
  <2>3. ASSUME NEW p \in PausedAt, Pause(p) \/ UnPause(p)
        PROVE  NothingStarts /\ QueuedPrio'
    BY <2>3, PrioQuiet DEF Pause, UnPause
  <2> QED
    BY <1>1, <1>2, <2>1, <2>2, <2>3 DEF Client
<1>3. CASE Shutdown
  <2>1. CASE CancelJobs
    BY <1>1, <2>1, PrioCancelJobs
  <2>2. CASE CancelJobsSet \/ CancelJobsCheck
    BY <1>1, <2>2, PrioQuiet DEF CancelJobsSet, CancelJobsCheck, managerVars
  <2> QED
    BY <1>3, <2>1, <2>2 DEF Shutdown
<1>4. ASSUME NEW w \in Workers, WorkerStep(w) \/ OnJobProgress(w)
      PROVE  ReserveKept' /\ QueuedPrio'
  <2>1. CASE GetNextJobPop(w)
    BY <2>1, ReservePop
  <2>2. CASE FreeJob(w)
    BY <1>1, <2>2, PrioFreeJob
  <2>3. CASE EraseItem(w)
    BY <1>1, <2>3, PrioQuiet DEF EraseItem, managerVars
  <2>4. CASE \/ GetNextJobSleep(w) \/ GetNextJobLeave(w) \/ WaitBlock(w)
             \/ WaitSignaled(w) \/ WaitTimeout(w) \/ OnJobProgress(w)
             \/ OnJobProgressReturn(w) \/ OnJobComplete(w) \/ Notify(w)
             \/ CallbackReturn(w) \/ DeleteWorker(w)
    <3>1. UNCHANGED <<m_jobQueue, m_processing, work>>
      BY <2>4 DEF GetNextJobSleep, GetNextJobLeave, WaitBlock, WaitSignaled,
        WaitTimeout, OnJobProgress, OnJobProgressReturn, OnJobComplete, Notify,
        CallbackReturn, DeleteWorker, managerVars
    <3> QED
      BY <1>1, <3>1, PrioQuiet
  <2> QED
    BY <1>4, <2>1, <2>2, <2>3, <2>4 DEF WorkerStep
<1>5. CASE UNCHANGED vars
  BY <1>1, <1>5, PrioQuiet DEF vars, managerVars
<1> QED
  BY <1>2, <1>3, <1>4, <1>5 DEF Next

-----------------------------------------------------------------------------

LEMMA CapInit == Init => CapInv
<1> SUFFICES ASSUME Init PROVE CapInv
  OBVIOUS
<1>1. m_workers = {} /\ \A p \in Priorities : RunningUpTo(p) = {} /\ Queued(p) = {}
  BY DEF Init, RunningUpTo, Queued, Range
<1>2. Cardinality({}) = 0
  BY FS_EmptySet
<1>3. FewWorkers
  BY <1>1 DEF FewWorkers
<1>4. QueuedPrio
  BY <1>1 DEF QueuedPrio
<1>5. \A p \in Priorities : GetMaxWorkers(p) \in Nat
  BY PoolAssumption DEF GetMaxWorkers
<1>6. ReserveKept
  BY <1>1, <1>2, <1>5 DEF ReserveKept
<1> QED
  BY <1>3, <1>4, <1>6 DEF CapInv

LEMMA CapacityInvariant == Spec => [](IInv /\ CapInv)
<1>1. IInv /\ IInv' /\ CapInv /\ [Next]_vars => CapInv'
  BY PrioStep, FewWorkersStep DEF CapInv, IInv
<1> QED
  BY <1>1, CapInit, InitInv, StepInv, PTL DEF Spec

(* At most GetMaxWorkers(p) jobs of priority p or lower run at a time:     *)
(* PopJob's share keeps threads spare for the higher priorities.           *)
THEOREM SparesKept == Spec => []PriorityReserve
<1>1. CapInv => PriorityReserve
  BY DEF CapInv, ReserveKept, RunningUpTo, PriorityReserve
<1> QED
  BY <1>1, CapacityInvariant, PTL

(* StartWorkers never creates a thread beyond those the highest priority   *)
(* added may use, at most max_workers, and every busy                      *)
(* thread is one that CancelJobs waits for.                                *)
THEOREM PoolStaysBounded == Spec => []PoolBounded
<1>1. IInv /\ CapInv => PoolBounded
  BY DEF IInv, CapInv, FewWorkers, WorkersListed, PoolBounded
<1> QED
  BY <1>1, CapacityInvariant, PTL

-----------------------------------------------------------------------------
(* No job is stranded: idle threads leave, the last of them only when      *)
(* nothing is queued but what somebody pauses.                             *)

JobsHaveThreads ==
  \A p \in Priorities \ PausedAt : m_jobQueue[p] # <<>> => m_workers # {}

Unpaused == \A p \in Priorities \ PausedAt : m_jobPause[p] = FALSE

(* A running job is on a thread that the pool lists.                       *)
LEMMA BusyThread ==
  ASSUME IInv, NEW p \in Priorities, Cardinality(m_processing) >= GetMaxWorkers(p)
  PROVE  \E w \in m_workers : pc[w] \in Running
<1>1. m_processing # {}
  <2>1. GetMaxWorkers(p) \in Int /\ GetMaxWorkers(p) > 0
    BY DEF GetMaxWorkers
  <2> QED
    BY <2>1, FS_EmptySet
<1>2. PICK w \in Workers : pc[w] \in Running
  BY <1>1 DEF IInv, OneWorkerPerJob
<1>3. w \in m_workers
  BY <1>2 DEF IInv, WorkersListed, Running
<1> QED
  BY <1>2, <1>3

LEMMA AddJobHasThread ==
  ASSUME IInv, NEW j, NEW cb, NEW p \in Priorities, AddJob(j, cb, p)
  PROVE  m_workers' # {} /\ m_jobPause' = m_jobPause
<1>1. StartWorkers(p) /\ m_jobPause' = m_jobPause
  BY DEF AddJob
<1>2. CASE Cardinality(m_processing) >= GetMaxWorkers(p) /\ UNCHANGED m_workers
  BY <1>1, <1>2, BusyThread
<1>3. CASE Cardinality(m_processing) < Cardinality(m_workers) /\ UNCHANGED m_workers
  <2>1. Cardinality(m_processing) \in Nat /\ Cardinality({}) = 0
    BY FinitePool, FS_EmptySet DEF IInv
  <2> QED
    BY <1>1, <1>3, <2>1
<1>4. CASE \E w \in Workers : m_workers' = m_workers \cup {w}
  BY <1>1, <1>4
<1> QED
  BY <1>1, <1>2, <1>3, <1>4 DEF StartWorkers

LEMMA LastThreadStays ==
  ASSUME IInv, Unpaused, NEW w \in Workers, GetNextJobLeave(w),
         NEW p \in Priorities \ PausedAt, m_jobQueue[p] # <<>>
  PROVE  m_workers' # {}
<1>1. pc[w] \in {"get", "timedout"} /\ m_workers' = m_workers \ {w} /\ ~CanPop(p)
  BY DEF GetNextJobLeave, RemoveWorker, NoJob
<1>2. Cardinality(m_processing) >= GetMaxWorkers(p)
  <2>1. Cardinality(m_processing) \in Nat /\ GetMaxWorkers(p) \in Int
    BY FinitePool DEF IInv, GetMaxWorkers
  <2> QED
    BY <1>1, <2>1 DEF CanPop, Unpaused
<1>3. PICK v \in m_workers : pc[v] \in Running
  BY <1>2, BusyThread
<1> QED
  BY <1>1, <1>3 DEF Running

LEMMA ThreadsStep ==
  ASSUME IInv, Unpaused, JobsHaveThreads, [Next]_vars
  PROVE  Unpaused' /\ JobsHaveThreads'
<1>1. ASSUME m_workers' = m_workers, m_jobPause' = m_jobPause,
             \A p \in Priorities : m_jobQueue'[p] # <<>> => m_jobQueue[p] # <<>>
      PROVE  Unpaused' /\ JobsHaveThreads'
  BY <1>1 DEF Unpaused, JobsHaveThreads
<1>2. ASSUME NEW j \in Jobs, NEW cb \in Callbacks \cup {NULL}, NEW p \in AddedAt,
             AddJob(j, cb, p)
      PROVE  Unpaused' /\ JobsHaveThreads'
  BY <1>2, AddJobHasThread DEF Unpaused, JobsHaveThreads
<1>3. ASSUME NEW id \in 0..(IdRange - 1), CancelJob(id)
      PROVE  Unpaused' /\ JobsHaveThreads'
  <2>1. m_workers' = m_workers /\ m_jobPause' = m_jobPause
    BY <1>3 DEF CancelJob
  <2>2. ASSUME CancelQueued(id)
        PROVE  \A p \in Priorities : m_jobQueue'[p] # <<>> => m_jobQueue[p] # <<>>
    <3>1. PICK p \in Priorities : \E i \in WithId(p, id) :
            m_jobQueue' = [m_jobQueue EXCEPT ![p] = RemoveAt(@, i)]
      BY <2>2 DEF CancelQueued
    <3>2. m_jobQueue[p] # <<>> /\ m_jobQueue \in [Priorities -> Seq(Jobs)]
      BY <3>1 DEF WithId, IInv, TypeOK
    <3> QED
      BY <3>1, <3>2
  <2>3. ASSUME CancelProcessing(id) PROVE m_jobQueue' = m_jobQueue
    BY <2>3 DEF CancelProcessing
  <2> QED
    BY <1>1, <1>3, <2>1, <2>2, <2>3 DEF CancelJob
<1>4. CASE Shutdown
  <2>1. CASE CancelJobs
    BY <1>1, <2>1 DEF CancelJobs
  <2>2. CASE CancelJobsSet \/ CancelJobsCheck
    BY <1>1, <2>2 DEF CancelJobsSet, CancelJobsCheck, managerVars
  <2> QED
    BY <1>4, <2>1, <2>2 DEF Shutdown
<1>5. ASSUME NEW w \in Workers, WorkerStep(w) \/ OnJobProgress(w)
      PROVE  Unpaused' /\ JobsHaveThreads'
  <2>1. CASE GetNextJobPop(w)
    <3>1. PICK p \in Priorities :
            CanPop(p) /\ m_jobQueue' = [m_jobQueue EXCEPT ![p] = Tail(@)]
      BY <2>1 DEF GetNextJobPop, PopJob
    <3>2. m_workers' = m_workers /\ m_jobPause' = m_jobPause
      BY <2>1 DEF GetNextJobPop, PopJob
    <3>3. m_jobQueue[p] # <<>> /\ m_jobQueue \in [Priorities -> Seq(Jobs)]
      BY <3>1 DEF CanPop, IInv, TypeOK
    <3> QED
      BY <1>1, <3>1, <3>2, <3>3
  <2>2. CASE GetNextJobLeave(w)
    <3>1. m_jobPause' = m_jobPause /\ m_jobQueue' = m_jobQueue
      BY <2>2 DEF GetNextJobLeave, managerVars
    <3> QED
      BY <2>2, <3>1, LastThreadStays DEF Unpaused, JobsHaveThreads
  <2>3. CASE DeleteWorker(w)
    <3>1. w \notin m_workers
      BY <2>3 DEF DeleteWorker, IInv, WorkersListed
    <3>2. UNCHANGED managerVars /\ m_workers' = m_workers \ {w}
      BY <2>3 DEF DeleteWorker, RemoveWorker
    <3> QED
      BY <1>1, <3>1, <3>2 DEF managerVars
  <2>4. CASE \/ GetNextJobSleep(w) \/ WaitBlock(w) \/ WaitSignaled(w) \/ WaitTimeout(w)
             \/ OnJobProgress(w) \/ OnJobProgressReturn(w) \/ OnJobComplete(w)
             \/ Notify(w) \/ CallbackReturn(w) \/ EraseItem(w) \/ FreeJob(w)
    BY <1>1, <2>4 DEF GetNextJobSleep, WaitBlock, WaitSignaled, WaitTimeout,
      OnJobProgress, OnJobProgressReturn, OnJobComplete, Notify, CallbackReturn,
      EraseItem, FreeJob, managerVars
  <2> QED
    BY <1>5, <2>1, <2>2, <2>3, <2>4 DEF WorkerStep
<1>6. ASSUME NEW p \in PausedAt, Pause(p) \/ UnPause(p)
      PROVE  Unpaused' /\ JobsHaveThreads'
  <2>1. m_workers' = m_workers /\ m_jobQueue' = m_jobQueue
    BY <1>6 DEF Pause, UnPause
  <2>2. \A q \in Priorities \ PausedAt : m_jobPause'[q] = m_jobPause[q]
    BY <1>6 DEF Pause, UnPause, IInv, TypeOK
  <2> QED
    BY <2>1, <2>2 DEF Unpaused, JobsHaveThreads
<1>7. CASE UNCHANGED vars
  BY <1>1, <1>7 DEF vars, managerVars
<1> QED
  BY <1>2, <1>3, <1>4, <1>5, <1>6, <1>7 DEF Next, Client

(* While a job waits there is a thread that will look for it, whatever is  *)
(* paused at other priorities: an idle thread re-checks the queues between *)
(* its timeout and RemoveWorker (JobManager.cpp:365), and AddJob makes a   *)
(* thread unless there is one.  This is what JobServed rests on, whatever  *)
(* becomes of the signals.  A job of a priority that is paused may be left *)
(* without a thread, which UnPause (JobManager.cpp:316) does not replace.  *)
THEOREM NoJobStranded == Spec => []JobsHaveThreads
<1>1. Init => Unpaused /\ JobsHaveThreads
  BY DEF Init, Unpaused, JobsHaveThreads
<1>2. IInv /\ Unpaused /\ JobsHaveThreads /\ [Next]_vars => Unpaused' /\ JobsHaveThreads'
  BY ThreadsStep
<1> QED
  BY <1>1, <1>2, Invariance, PTL DEF Spec
=============================================================================
