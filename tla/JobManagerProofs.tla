-------------------------- MODULE JobManagerProofs --------------------------
(***************************************************************************)
(* Proofs about JobManager for every value of its constants: any number of *)
(* jobs and threads, any pool size, any width of the job counter.          *)
(***************************************************************************)
EXTENDS JobManager, SequenceTheorems, FiniteSetTheorems, TLAPS

-----------------------------------------------------------------------------
(* Lemmas about the sequence operators the queues are built from.          *)

(* r is s without its i-th element, the others in their order.             *)
Without(s, i, r) ==
  /\ Len(r) = Len(s) - 1
  /\ \A k \in 1..(Len(s) - 1) : r[k] = IF k < i THEN s[k] ELSE s[k + 1]

(* deque::erase. *)
LEMMA RemoveAtProperties ==
  ASSUME NEW S, NEW s \in Seq(S), NEW i \in 1..Len(s)
  PROVE  RemoveAt(s, i) \in Seq(S) /\ Without(s, i, RemoveAt(s, i))
<1> DEFINE a == SubSeq(s, 1, i - 1)
           b == SubSeq(s, i + 1, Len(s))
<1>1. /\ a \in Seq(S) /\ Len(a) = i - 1
      /\ \A k \in 1..(i - 1) : a[k] = s[k]
  <2>1. \A k \in 1..(i - 1) : s[k] \in S
    OBVIOUS
  <2> QED
    BY <2>1, SubSeqProperties, Z3
<1>2. /\ b \in Seq(S) /\ Len(b) = Len(s) - i
      /\ \A k \in 1..(Len(s) - i) : b[k] = s[k + i]
  <2>1. \A k \in (i + 1)..Len(s) : s[k] \in S
    OBVIOUS
  <2>2. /\ SubSeq(s, i + 1, Len(s)) \in Seq(S)
        /\ Len(SubSeq(s, i + 1, Len(s))) =
             IF i + 1 <= Len(s) THEN Len(s) - (i + 1) + 1 ELSE 0
        /\ \A k \in 1..(Len(s) - (i + 1) + 1) :
             SubSeq(s, i + 1, Len(s))[k] = s[(i + 1) + k - 1]
    BY <2>1, SubSeqProperties, i + 1 \in Int, Len(s) \in Int
  <2> QED
    BY <2>2
<1>3. RemoveAt(s, i) = a \o b
  BY DEF RemoveAt
<1> HIDE DEF a, b
<1>4. /\ a \o b \in Seq(S)
      /\ Len(a \o b) = Len(a) + Len(b)
      /\ \A k \in 1..(Len(a) + Len(b)) :
           (a \o b)[k] = IF k <= Len(a) THEN a[k] ELSE b[k - Len(a)]
  BY <1>1, <1>2, ConcatProperties
<1>5. /\ a \o b \in Seq(S) /\ Len(a \o b) = Len(s) - 1
      /\ \A k \in 1..(Len(s) - 1) : (a \o b)[k] = IF k < i THEN s[k] ELSE s[k + 1]
  <2>1. Len(a) = i - 1 /\ Len(b) = Len(s) - i /\ Len(s) \in Nat /\ i \in 1..Len(s)
    BY <1>1, <1>2
  <2>2. Len(a \o b) = Len(s) - 1 /\ a \o b \in Seq(S)
    BY ONLY <2>1, <1>4
  <2>3. ASSUME NEW k \in 1..(Len(s) - 1), k < i
        PROVE  (a \o b)[k] = s[k]
    <3>1. (a \o b)[k] = a[k] /\ k \in 1..(i - 1)
      BY ONLY <1>4, <2>1, <2>3
    <3> QED
      BY ONLY <1>1, <3>1
  <2>4. ASSUME NEW k \in 1..(Len(s) - 1), ~(k < i)
        PROVE  (a \o b)[k] = s[k + 1]
    <3>1. (a \o b)[k] = b[k - (i - 1)] /\ k - (i - 1) \in 1..(Len(s) - i)
      BY ONLY <1>4, <2>1, <2>4
    <3>2. b[k - (i - 1)] = s[(k - (i - 1)) + i]
      BY ONLY <1>2, <3>1
    <3>3. (k - (i - 1)) + i = k + 1
      BY ONLY <2>1, <2>4
    <3> QED
      BY ONLY <3>1, <3>2, <3>3
  <2> QED
    BY ONLY <2>2, <2>3, <2>4
<1> QED
  BY ONLY <1>3, <1>5 DEF Without
-----------------------------------------------------------------------------
(* Type correctness.                                                       *)

USE PoolAssumption, IdAssumption, ClientAssumption DEF Priorities, LOW, NORMAL, HIGH

LEMMA NextIdType == TypeOK => NextId \in 1..(IdRange - 1)
  BY DEF TypeOK, NextId

LEMMA DeleteType ==
  ASSUME TypeOK, NEW js, Delete(js)
  PROVE  allocated' \subseteq Jobs /\ work' \in [Jobs -> CWorkItem]
  BY DEF TypeOK, Delete, CWorkItem, NoItem

LEMMA InitType == Init => TypeOK
<1> SUFFICES ASSUME Init PROVE TypeOK
  OBVIOUS
<1>1. m_jobQueue \in [Priorities -> Seq(Jobs)]
  BY DEF Init
<1>2. work \in [Jobs -> CWorkItem]
  BY DEF Init, CWorkItem, NoItem
<1>3. m_jobPause \in [Priorities -> BOOLEAN]
  BY Zenon DEF Init
<1>4. pc \in [Workers -> WorkerPcs]
  BY DEF Init, WorkerPcs
<1>5. /\ job \in [Workers -> Jobs \cup {NULL}]
      /\ item \in [Workers -> Callbacks \cup {NULL}]
  BY DEF Init
<1>6. m_running \in BOOLEAN /\ signaled \in BOOLEAN
  BY Zenon DEF Init
<1>7. /\ m_jobCounter \in 0..(IdRange - 1) /\ m_processing \subseteq Jobs
      /\ m_workers \subseteq Workers /\ allocated \subseteq Jobs
      /\ cancelPc \in {"idle", "set", "check", "done"}
  BY DEF Init
<1> QED
  BY ONLY <1>1, <1>2, <1>3, <1>4, <1>5, <1>6, <1>7 DEF TypeOK

LEMMA StartWorkersType ==
  ASSUME TypeOK, NEW p \in Priorities, StartWorkers(p)
  PROVE  /\ m_workers' \subseteq Workers
         /\ signaled' \in BOOLEAN
         /\ pc' \in [Workers -> WorkerPcs]
  BY DEF TypeOK, StartWorkers, Goto, WorkerPcs

LEMMA AddJobType ==
  ASSUME TypeOK, NEW j \in Jobs, NEW cb \in Callbacks \cup {NULL},
         NEW p \in Priorities, AddJob(j, cb, p)
  PROVE  TypeOK'
<1>1. m_jobQueue' \in [Priorities -> Seq(Jobs)]
  BY DEF AddJob, TypeOK
<1>2. work' \in [Jobs -> CWorkItem]
  BY NextIdType DEF AddJob, TypeOK, CWorkItem
<1> QED
  BY <1>1, <1>2, NextIdType, StartWorkersType DEF AddJob, TypeOK

LEMMA StepType == TypeOK /\ [Next]_vars => TypeOK'
<1> SUFFICES ASSUME TypeOK, [Next]_vars PROVE TypeOK'
  OBVIOUS
<1>1. ASSUME NEW j \in Jobs, NEW cb \in Callbacks \cup {NULL},
             NEW p \in AddedAt, AddJob(j, cb, p)
      PROVE  TypeOK'
  BY <1>1, AddJobType
<1>2. ASSUME NEW id \in 0..(IdRange - 1), CancelJob(id) PROVE TypeOK'
  <2>1. CASE CancelQueued(id)
    <3>1. PICK p \in Priorities : \E i \in WithId(p, id) :
                 /\ m_jobQueue' = [m_jobQueue EXCEPT ![p] = RemoveAt(@, i)]
                 /\ Delete({m_jobQueue[p][i]})
      BY <2>1 DEF CancelQueued
    <3>2. PICK i \in WithId(p, id) :
                 /\ m_jobQueue' = [m_jobQueue EXCEPT ![p] = RemoveAt(@, i)]
                 /\ Delete({m_jobQueue[p][i]})
      BY <3>1
    <3>3. i \in 1..Len(m_jobQueue[p]) /\ m_jobQueue[p] \in Seq(Jobs)
      BY DEF WithId, TypeOK
    <3>4. m_jobQueue' \in [Priorities -> Seq(Jobs)]
      BY <3>2, <3>3, RemoveAtProperties DEF TypeOK
    <3>5. allocated' \subseteq Jobs /\ work' \in [Jobs -> CWorkItem]
      BY <3>2, DeleteType
    <3> QED
      BY <1>2, <3>4, <3>5 DEF CancelJob, TypeOK
  <2>2. CASE CancelProcessing(id)
    <3>1. /\ work' \in [Jobs -> CWorkItem]
          /\ UNCHANGED <<m_jobQueue, allocated>>
      <4>1. PICK j \in m_processing : work' = [work EXCEPT ![j].cb = NULL]
        BY <2>2 DEF CancelProcessing
      <4>2. j \in Jobs /\ work \in [Jobs -> CWorkItem]
        BY DEF TypeOK
      <4>3. [work[j] EXCEPT !.cb = NULL] \in CWorkItem
        BY <4>2 DEF CWorkItem
      <4> QED
        BY <2>2, <4>1, <4>2, <4>3 DEF CancelProcessing
    <3> QED
      BY <1>2, <3>1 DEF CancelJob, TypeOK
  <2> QED
    BY <1>2, <2>1, <2>2 DEF CancelJob
<1>3. ASSUME NEW p \in PausedAt, Pause(p) \/ UnPause(p) PROVE TypeOK'
  <2>1. m_jobPause' \in [Priorities -> BOOLEAN]
    BY <1>3, Zenon DEF Pause, UnPause, TypeOK
  <2> QED
    BY <1>3, <2>1 DEF Pause, UnPause, TypeOK
<1>4. CASE Shutdown
  <2>1. CASE CancelJobs
    <3>1. m_jobQueue' \in [Priorities -> Seq(Jobs)]
      BY <2>1 DEF CancelJobs
    <3>2. work' \in [Jobs -> CWorkItem]
      <4>1. \A r \in CWorkItem : [r EXCEPT !.cb = NULL] \in CWorkItem
        BY DEF CWorkItem
      <4>2. NoItem \in CWorkItem /\ \A j \in Jobs : work[j] \in CWorkItem
        BY DEF TypeOK, NoItem, CWorkItem
      <4> QED
        BY <2>1, <4>1, <4>2 DEF CancelJobs
    <3> QED
      BY <2>1, <3>1, <3>2 DEF CancelJobs, TypeOK
  <2>2. CASE CancelJobsSet
    BY <2>2 DEF CancelJobsSet, TypeOK, managerVars
  <2>3. CASE CancelJobsCheck
    BY <2>3 DEF CancelJobsCheck, TypeOK, managerVars
  <2> QED
    BY <1>4, <2>1, <2>2, <2>3 DEF Shutdown
<1>5. ASSUME NEW w \in Workers, WorkerStep(w) \/ OnJobProgress(w) PROVE TypeOK'
  <2>1. CASE GetNextJobPop(w)
    <3>1. PICK p \in Priorities :
            /\ m_jobQueue[p] # <<>>
            /\ m_jobQueue' = [m_jobQueue EXCEPT ![p] = Tail(@)]
            /\ m_processing' = m_processing \cup {Head(m_jobQueue[p])}
            /\ job' = [job EXCEPT ![w] = Head(m_jobQueue[p])]
      BY <2>1 DEF GetNextJobPop, PopJob, CanPop
    <3>2. Head(m_jobQueue[p]) \in Jobs /\ Tail(m_jobQueue[p]) \in Seq(Jobs)
      BY <3>1, HeadTailProperties DEF TypeOK
    <3> QED
      BY <2>1, <3>1, <3>2 DEF GetNextJobPop, PopJob, Goto, TypeOK, WorkerPcs
  <2>2. CASE GetNextJobSleep(w) \/ GetNextJobLeave(w) \/ DeleteWorker(w)
    BY <2>2 DEF GetNextJobSleep, GetNextJobLeave, DeleteWorker, RemoveWorker,
                Goto, TypeOK, managerVars, WorkerPcs
  <2>3. CASE WaitBlock(w) \/ WaitSignaled(w) \/ WaitTimeout(w)
    BY <2>3 DEF WaitBlock, WaitSignaled, WaitTimeout, OtherWaits,
                Goto, TypeOK, managerVars, WorkerPcs
  <2>4. CASE OnJobProgress(w) \/ OnJobComplete(w)
    <3>1. job[w] \in m_processing => work[job[w]].cb \in Callbacks \cup {NULL}
      BY DEF TypeOK, CWorkItem
    <3> QED
      BY <2>4, <3>1 DEF OnJobProgress, OnJobComplete, Goto, TypeOK, managerVars,
                        WorkerPcs
  <2>5. CASE OnJobProgressReturn(w) \/ Notify(w) \/ CallbackReturn(w) \/ EraseItem(w)
    BY <2>5 DEF OnJobProgressReturn, Notify, CallbackReturn, EraseItem,
                Goto, TypeOK, managerVars, WorkerPcs
  <2>6. CASE FreeJob(w)
    BY <2>6, DeleteType DEF FreeJob, Goto, TypeOK, managerVars, WorkerPcs
  <2> QED
    BY <1>5, <2>1, <2>2, <2>3, <2>4, <2>5, <2>6 DEF WorkerStep
<1>6. CASE UNCHANGED vars
  BY <1>6 DEF vars, managerVars, TypeOK
<1> QED
  BY <1>1, <1>2, <1>3, <1>4, <1>5, <1>6 DEF Next, Client

(* CJobManager's state always has the type its declarations give it: ids   *)
(* stay within m_jobCounter's width, queues hold job pointers only.        *)
THEOREM TypeCorrect == Spec => []TypeOK
<1> QED
  BY InitType, StepType, PTL DEF Spec

-----------------------------------------------------------------------------
(* What the three queue operations do to a queue without repetitions.      *)

Distinct(s) == \A a, b \in DOMAIN s : s[a] = s[b] => a = b

LEMMA InRange ==
  ASSUME NEW s \in Seq(Jobs), NEW k \in 1..Len(s)
  PROVE  s[k] \in Range(s)
  BY DEF Range

(* deque::push_back of a job that is not queued. *)
LEMMA PushBack ==
  ASSUME NEW s \in Seq(Jobs), NEW j \in Jobs, Distinct(s), j \notin Range(s)
  PROVE  Distinct(Append(s, j)) /\ Range(Append(s, j)) = Range(s) \cup {j}
<1>1. /\ Append(s, j) \in Seq(Jobs) /\ Len(Append(s, j)) = Len(s) + 1
      /\ \A k \in 1..Len(s) : Append(s, j)[k] = s[k]
      /\ Append(s, j)[Len(s) + 1] = j
  OBVIOUS
<1>2. \A k \in 1..Len(s) : s[k] # j
  BY DEF Range
<1>3. Distinct(Append(s, j))
  BY <1>1, <1>2 DEF Distinct
<1>4. Range(Append(s, j)) \subseteq Range(s) \cup {j}
  BY <1>1 DEF Range
<1>5. Range(s) \cup {j} \subseteq Range(Append(s, j))
  BY <1>1 DEF Range
<1> QED
  BY <1>3, <1>4, <1>5

(* deque::pop_front. *)
LEMMA PopFront ==
  ASSUME NEW s \in Seq(Jobs), s # <<>>, Distinct(s)
  PROVE  /\ Distinct(Tail(s)) /\ Range(Tail(s)) = Range(s) \ {Head(s)}
         /\ Head(s) \in Range(s)
<1>1. /\ Tail(s) \in Seq(Jobs) /\ Len(Tail(s)) = Len(s) - 1 /\ Len(s) > 0
      /\ \A k \in 1..(Len(s) - 1) : Tail(s)[k] = s[k + 1]
      /\ Head(s) = s[1]
  BY HeadTailProperties
<1>2. Distinct(Tail(s))
  BY <1>1 DEF Distinct
<1>3. \A k \in 1..(Len(s) - 1) : s[k + 1] # s[1]
  BY <1>1 DEF Distinct
<1>4. Range(Tail(s)) \subseteq Range(s) \ {Head(s)}
  BY <1>1, <1>3 DEF Range
<1>5. ASSUME NEW x \in Range(s) \ {Head(s)} PROVE x \in Range(Tail(s))
  <2>1. PICK k \in 1..Len(s) : s[k] = x
    BY DEF Range
  <2>2. k - 1 \in 1..(Len(s) - 1) /\ Tail(s)[k - 1] = x
    BY <1>1, <2>1, <1>5
  <2> DEFINE t == Tail(s)
  <2>3. t \in Seq(Jobs) /\ k - 1 \in 1..Len(t) /\ t[k - 1] = x
    BY <1>1, <2>2
  <2> HIDE DEF t
  <2>4. x \in Range(t)
    BY <2>3, InRange
  <2> QED
    BY <2>4 DEF t
<1>6. Head(s) \in Range(s)
  BY <1>1 DEF Range
<1> QED
  BY <1>2, <1>4, <1>5, <1>6

(* deque::erase at an iterator. *)
LEMMA EraseAt ==
  ASSUME NEW s \in Seq(Jobs), NEW i \in 1..Len(s), Distinct(s)
  PROVE  /\ Distinct(RemoveAt(s, i)) /\ Range(RemoveAt(s, i)) = Range(s) \ {s[i]}
         /\ s[i] \in Range(s)
<1> DEFINE r == RemoveAt(s, i)
<1>1. /\ r \in Seq(Jobs) /\ Len(r) = Len(s) - 1
      /\ \A k \in 1..(Len(s) - 1) : r[k] = IF k < i THEN s[k] ELSE s[k + 1]
  <2>1. r \in Seq(Jobs) /\ Without(s, i, r)
    BY RemoveAtProperties
  <2> HIDE DEF r
  <2> QED
    BY ONLY <2>1 DEF Without
<1> HIDE DEF r
<1>2. Distinct(r)
  <2> SUFFICES ASSUME NEW a \in 1..(Len(s) - 1), NEW b \in 1..(Len(s) - 1), r[a] = r[b]
               PROVE  a = b
    BY <1>1 DEF Distinct
  <2> DEFINE f(k) == IF k < i THEN k ELSE k + 1
  <2>1. f(a) \in 1..Len(s) /\ f(b) \in 1..Len(s) /\ s[f(a)] = s[f(b)]
    BY <1>1
  <2>2. f(a) = f(b)
    BY <2>1 DEF Distinct
  <2> QED
    BY <2>2
<1>3. \A k \in 1..(Len(s) - 1) : r[k] # s[i] /\ r[k] \in Range(s)
  BY <1>1 DEF Distinct, Range
<1>4. Range(r) \subseteq Range(s) \ {s[i]}
  BY <1>1, <1>3 DEF Range
<1>5. ASSUME NEW x \in Range(s) \ {s[i]} PROVE x \in Range(r)
  <2>1. PICK k \in 1..Len(s) : s[k] = x
    BY DEF Range
  <2>2. CASE k < i
    BY <1>1, <2>1, <2>2 DEF Range
  <2>3. CASE k > i
    <3>1. k - 1 \in 1..(Len(s) - 1) /\ r[k - 1] = x
      BY <1>1, <2>1, <2>3
    <3> QED
      BY <1>1, <3>1 DEF Range
  <2> QED
    BY <2>1, <2>2, <2>3, <1>5
<1>6. s[i] \in Range(s)
  BY DEF Range
<1> QED
  BY <1>2, <1>4, <1>5, <1>6 DEF r

-----------------------------------------------------------------------------
(* The inductive invariant.  The properties of JobManager speak of whole   *)
(* sets; what makes them inductive is which threads hold a job (JobHeld),  *)
(* that a held job is in no queue (HeldNotQueued), and how shutdown closes *)
(* the queues before it waits for the workers (ShutdownOrder).             *)

JobHeld == \A w \in Workers : job[w] # NULL <=> pc[w] \in Running \cup {"free"}

QueuesApart ==
  /\ \A p \in Priorities : Distinct(m_jobQueue[p])
  /\ \A p, q \in Priorities : p # q => Queued(p) \cap Queued(q) = {}

HeldNotQueued == \A p \in Priorities, w \in Workers : job[w] \notin Queued(p)

WorkersListed == m_workers = {w \in Workers : pc[w] \notin {"none", "exit"}}

ShutdownOrder ==
  /\ m_running <=> cancelPc = "idle"
  /\ ~m_running => \A p \in Priorities : m_jobQueue[p] = <<>>
  /\ cancelPc = "done" => m_workers = {}

Tracked(j) == \/ \E p \in Priorities : j \in Queued(p)
              \/ j \in m_processing
              \/ \E w \in Workers : pc[w] = "free" /\ job[w] = j

(* NoDanglingNoLeak, job by job. *)
AllocatedTracked == \A j \in Jobs : j \in allocated <=> Tracked(j)

IInv == /\ TypeOK /\ JobHeld /\ QueuesApart /\ HeldNotQueued
        /\ OneWorkerPerJob /\ AllocatedTracked /\ WorkersListed /\ ShutdownOrder

LEMMA QueuedAreJobs ==
  ASSUME TypeOK, NEW p \in Priorities
  PROVE  m_jobQueue[p] \in Seq(Jobs) /\ Queued(p) \subseteq Jobs
<1>1. m_jobQueue[p] \in Seq(Jobs)
  BY DEF TypeOK
<1> QED
  BY <1>1 DEF Queued, Range

LEMMA NoDanglingNoLeakHolds ==
  ASSUME TypeOK, JobHeld, AllocatedTracked
  PROVE  NoDanglingNoLeak
<1> DEFINE freeing == {job[w] : w \in {v \in Workers : pc[v] = "free"}}
           pending == UNION {Queued(p) : p \in Priorities}
<1>1. \A x : x \in pending <=> \E p \in Priorities : x \in Queued(p)
  BY Zenon
<1>2. \A x : x \in freeing <=> \E w \in Workers : pc[w] = "free" /\ job[w] = x
  OBVIOUS
<1>3. freeing \subseteq Jobs
  BY DEF TypeOK, JobHeld
<1>4. pending \subseteq Jobs
  BY <1>1, QueuedAreJobs
<1> HIDE DEF freeing, pending
<1>5. \A x \in Jobs : x \in allocated <=> x \in pending \cup m_processing \cup freeing
  <2> SUFFICES ASSUME NEW x \in Jobs
               PROVE  x \in allocated <=> x \in pending \/ x \in m_processing \/ x \in freeing
    OBVIOUS
  <2>1. x \in pending <=> \E p \in Priorities : x \in Queued(p)
    BY <1>1
  <2>2. x \in freeing <=> \E w \in Workers : pc[w] = "free" /\ job[w] = x
    BY <1>2
  <2>3. x \in allocated <=> Tracked(x)
    BY DEF AllocatedTracked
  <2> QED
    BY <2>1, <2>2, <2>3 DEF Tracked
<1>6. allocated = pending \cup m_processing \cup freeing
  <2>1. allocated \subseteq Jobs /\ m_processing \subseteq Jobs
    BY DEF TypeOK
  <2> QED
    BY <1>3, <1>4, <1>5, <2>1
<1> QED
  BY <1>6 DEF NoDanglingNoLeak, freeing, pending

LEMMA InitInv == Init => IInv
<1> SUFFICES ASSUME Init PROVE IInv
  OBVIOUS
<1>1. TypeOK
  BY InitType
<1>2. \A p \in Priorities : Queued(p) = {} /\ m_jobQueue[p] = <<>>
  BY DEF Init, Queued, Range
<1>3. QueuesApart /\ HeldNotQueued
  BY <1>2 DEF QueuesApart, HeldNotQueued, Distinct
<1>4. JobHeld /\ OneWorkerPerJob /\ AllocatedTracked /\ WorkersListed
  BY <1>2 DEF Init, JobHeld, OneWorkerPerJob, AllocatedTracked, Tracked,
              WorkersListed, Running
<1>5. ShutdownOrder
  BY DEF Init, ShutdownOrder
<1> QED
  BY <1>1, <1>3, <1>4, <1>5 DEF IInv

(* A step that only moves one thread, between places that are alike for    *)
(* the invariant.                                                          *)
LEMMA MoveInv ==
  ASSUME IInv, TypeOK', NEW w \in Workers, NEW label, Goto(w, label),
         label \in Running <=> pc[w] \in Running,
         label = "free" <=> pc[w] = "free",
         label \in {"none", "exit"} <=> pc[w] \in {"none", "exit"},
         UNCHANGED <<m_running, m_jobQueue, m_processing, m_workers, allocated,
                     job, cancelPc>>
  PROVE  IInv'
<1>1. \A v \in Workers : /\ pc'[v] \in Running <=> pc[v] \in Running
                         /\ pc'[v] = "free" <=> pc[v] = "free"
                         /\ pc'[v] \in {"none", "exit"} <=> pc[v] \in {"none", "exit"}
  BY DEF Goto, IInv, TypeOK
<1>2. \A p \in Priorities : Queued(p)' = Queued(p)
  BY DEF Queued
<1>3. JobHeld' /\ HeldNotQueued' /\ WorkersListed'
  BY <1>1, <1>2 DEF IInv, JobHeld, HeldNotQueued, WorkersListed
<1>4. QueuesApart' /\ ShutdownOrder'
  BY <1>2 DEF IInv, QueuesApart, ShutdownOrder
<1>5. OneWorkerPerJob'
  BY <1>1 DEF IInv, OneWorkerPerJob
<1>6. AllocatedTracked'
  BY <1>1, <1>2 DEF IInv, AllocatedTracked, Tracked
<1> QED
  BY <1>3, <1>4, <1>5, <1>6 DEF IInv

(* AddJob puts a job that is nowhere into one queue; the worker it may     *)
(* start holds no job yet.                                                 *)
LEMMA AddJobInv ==
  ASSUME IInv, TypeOK', NEW j \in Jobs, NEW cb \in Callbacks \cup {NULL},
         NEW p \in Priorities, AddJob(j, cb, p)
  PROVE  IInv'
<1>1. /\ \A q \in Priorities : j \notin Queued(q)
      /\ j \notin m_processing
      /\ \A v \in Workers : pc[v] = "free" => job[v] # j
  BY DEF IInv, AddJob, AllocatedTracked, Tracked
<1>2. \A v \in Workers : job[v] # j
  BY <1>1, NullAssumption DEF IInv, JobHeld, OneWorkerPerJob
<1>3. /\ \A q \in Priorities \ {p} : m_jobQueue'[q] = m_jobQueue[q]
      /\ m_jobQueue'[p] = Append(m_jobQueue[p], j)
      /\ m_jobQueue[p] \in Seq(Jobs)
  BY DEF AddJob, IInv, TypeOK
<1>4. /\ \A q \in Priorities \ {p} : Queued(q)' = Queued(q)
      /\ Queued(p)' = Queued(p) \cup {j}
      /\ \A q \in Priorities : Distinct(m_jobQueue'[q])
  <2>1. Distinct(m_jobQueue[p]) /\ j \notin Range(m_jobQueue[p])
    BY <1>1 DEF Queued, IInv, QueuesApart
  <2>2. /\ Distinct(Append(m_jobQueue[p], j))
        /\ Range(Append(m_jobQueue[p], j)) = Range(m_jobQueue[p]) \cup {j}
    BY <1>3, <2>1, PushBack
  <2> QED
    BY <1>3, <2>2 DEF Queued, IInv, QueuesApart
<1>5. QueuesApart' /\ HeldNotQueued'
  BY <1>1, <1>2, <1>4 DEF QueuesApart, HeldNotQueued, IInv, AddJob
<1>6. /\ \A v \in Workers : pc'[v] # pc[v] => pc[v] = "none" /\ pc'[v] = "get"
      /\ m_workers' = m_workers \cup {v \in Workers : pc'[v] # pc[v]}
  <2>1. StartWorkers(p)
    BY DEF AddJob
  <2>2. CASE UNCHANGED <<m_workers, pc>>
    BY <2>2
  <2>3. CASE \E v \in Workers : /\ pc[v] = "none"
                                /\ m_workers' = m_workers \cup {v}
                                /\ Goto(v, "get")
    BY <2>3 DEF Goto, IInv, TypeOK
  <2> QED
    BY <2>1, <2>2, <2>3 DEF StartWorkers
<1>7. /\ \A v \in Workers : pc'[v] \in Running <=> pc[v] \in Running
      /\ \A v \in Workers : pc'[v] = "free" <=> pc[v] = "free"
  BY <1>6 DEF Running
<1>8. JobHeld' /\ OneWorkerPerJob'
  BY <1>7 DEF AddJob, IInv, JobHeld, OneWorkerPerJob
<1>9. AllocatedTracked'
  BY <1>4, <1>7 DEF AddJob, IInv, AllocatedTracked, Tracked
<1>10. WorkersListed'
  BY <1>6 DEF IInv, WorkersListed
<1>11. ShutdownOrder'
  BY DEF AddJob, IInv, ShutdownOrder
<1> QED
  BY <1>5, <1>8, <1>9, <1>10, <1>11 DEF IInv

(* CancelJob on a queued job takes it out of its queue and deletes it.     *)
LEMMA CancelQueuedInv ==
  ASSUME IInv, TypeOK', NEW id, CancelJob(id), CancelQueued(id)
  PROVE  IInv'
<1>1. PICK p \in Priorities : \E i \in WithId(p, id) :
        /\ m_jobQueue' = [m_jobQueue EXCEPT ![p] = RemoveAt(@, i)]
        /\ Delete({m_jobQueue[p][i]})
  BY DEF CancelQueued
<1>2. PICK i \in WithId(p, id) :
        /\ m_jobQueue' = [m_jobQueue EXCEPT ![p] = RemoveAt(@, i)]
        /\ Delete({m_jobQueue[p][i]})
  BY <1>1
<1>3. i \in 1..Len(m_jobQueue[p]) /\ m_jobQueue[p] \in Seq(Jobs)
  BY DEF WithId, IInv, TypeOK
<1> DEFINE j == m_jobQueue[p][i]
<1>4. /\ \A q \in Priorities \ {p} : Queued(q)' = Queued(q)
      /\ Queued(p)' = Queued(p) \ {j} /\ j \in Queued(p)
      /\ \A q \in Priorities : Distinct(m_jobQueue'[q])
  BY <1>2, <1>3, EraseAt DEF Queued, IInv, QueuesApart, TypeOK
<1>5. allocated' = allocated \ {j}
  BY <1>2 DEF Delete
<1> HIDE DEF j
<1>6. QueuesApart' /\ HeldNotQueued'
  BY <1>4 DEF QueuesApart, HeldNotQueued, IInv, CancelJob
<1>7. JobHeld' /\ OneWorkerPerJob' /\ WorkersListed'
  BY DEF CancelJob, IInv, JobHeld, OneWorkerPerJob, WorkersListed
<1>8. AllocatedTracked'
  <2>1. j \notin m_processing /\ \A v \in Workers : job[v] # j
    BY <1>4 DEF IInv, HeldNotQueued, OneWorkerPerJob
  <2>2. \A q \in Priorities : Queued(q)' = Queued(q) \ {j}
    BY <1>4 DEF IInv, QueuesApart
  <2> QED
    BY <2>1, <2>2, <1>5 DEF CancelJob, IInv, AllocatedTracked, Tracked
<1>9. ShutdownOrder'
  <2>1. m_running
    BY <1>4 DEF IInv, ShutdownOrder, Queued, Range
  <2> QED
    BY <2>1 DEF CancelJob, IInv, ShutdownOrder
<1> QED
  BY <1>6, <1>7, <1>8, <1>9 DEF IInv

(* PopJob moves the head of a queue to m_processing and to one worker.     *)
LEMMA PopJobInv ==
  ASSUME IInv, TypeOK', NEW w \in Workers, GetNextJobPop(w)
  PROVE  IInv'
<1>1. PICK p \in Priorities :
        /\ m_jobQueue[p] # <<>>
        /\ m_jobQueue' = [m_jobQueue EXCEPT ![p] = Tail(@)]
        /\ m_processing' = m_processing \cup {Head(m_jobQueue[p])}
        /\ job' = [job EXCEPT ![w] = Head(m_jobQueue[p])]
  BY DEF GetNextJobPop, PopJob, CanPop
<1>2. /\ Goto(w, "work") /\ pc[w] \in {"get", "timedout"}
      /\ UNCHANGED <<m_running, m_workers, allocated, cancelPc>>
  BY DEF GetNextJobPop, PopJob
<1> DEFINE j == Head(m_jobQueue[p])
<1>3. /\ \A q \in Priorities \ {p} : Queued(q)' = Queued(q)
      /\ Queued(p)' = Queued(p) \ {j} /\ j \in Queued(p)
      /\ \A q \in Priorities : Distinct(m_jobQueue'[q])
  BY <1>1, PopFront DEF Queued, IInv, QueuesApart, TypeOK
<1>4. j \in Jobs
  BY <1>1, HeadTailProperties DEF IInv, TypeOK
<1>5. job' = [job EXCEPT ![w] = j] /\ m_processing' = m_processing \cup {j}
  BY <1>1
<1> HIDE DEF j
<1>6. /\ \A v \in Workers \ {w} : pc'[v] = pc[v] /\ job'[v] = job[v]
      /\ pc'[w] = "work" /\ job'[w] = j /\ pc[w] \notin Running /\ job[w] = NULL
  BY <1>2, <1>5 DEF Goto, IInv, TypeOK, JobHeld, Running
<1>7. j # NULL /\ j \notin m_processing /\ \A v \in Workers : job[v] # j
  BY <1>3, <1>4, NullAssumption DEF IInv, HeldNotQueued, OneWorkerPerJob
<1>8. QueuesApart'
  BY <1>3 DEF QueuesApart, IInv
<1>9. HeldNotQueued'
  BY <1>3, <1>6 DEF IInv, HeldNotQueued, QueuesApart
<1>10. JobHeld' /\ WorkersListed'
  BY <1>2, <1>6, <1>7 DEF IInv, JobHeld, WorkersListed, Running
<1>11. OneWorkerPerJob'
  <2>1. {v \in Workers : pc'[v] \in Running} = {v \in Workers : pc[v] \in Running} \cup {w}
    BY <1>6 DEF Running
  <2>2. {job'[v] : v \in {u \in Workers : pc'[u] \in Running}} =
          {job[v] : v \in {u \in Workers : pc[u] \in Running}} \cup {j}
    BY <2>1, <1>6
  <2> QED
    BY <2>2, <1>5, <1>6, <1>7 DEF IInv, OneWorkerPerJob
<1>12. AllocatedTracked'
  <2>1. \A q \in Priorities : Queued(q)' = Queued(q) \ {j}
    BY <1>3 DEF IInv, QueuesApart
  <2>2. \A v \in Workers : pc'[v] = "free" <=> pc[v] = "free" /\ v # w
    BY <1>2, <1>6
  <2> QED
    BY <2>1, <2>2, <1>2, <1>3, <1>5, <1>6 DEF IInv, AllocatedTracked, Tracked
<1>13. ShutdownOrder'
  <2>1. m_running
    BY <1>1 DEF IInv, ShutdownOrder
  <2> QED
    BY <2>1, <1>2 DEF IInv, ShutdownOrder
<1> QED
  BY <1>8, <1>9, <1>10, <1>11, <1>12, <1>13 DEF IInv

(* EraseItem takes the job out of m_processing, FreeJob deletes it.        *)
LEMMA EraseItemInv ==
  ASSUME IInv, TypeOK', NEW w \in Workers, EraseItem(w)
  PROVE  IInv'
<1>1. /\ pc[w] = "erase" /\ Goto(w, "free") /\ m_processing' = m_processing \ {job[w]}
      /\ UNCHANGED <<m_running, m_jobQueue, m_workers, allocated, job, cancelPc>>
  BY DEF EraseItem, managerVars
<1>2. /\ \A v \in Workers \ {w} : pc'[v] = pc[v]
      /\ pc'[w] = "free" /\ job[w] # NULL /\ job[w] \in Jobs
  BY <1>1 DEF Goto, IInv, TypeOK, JobHeld, Running
<1>3. \A p \in Priorities : Queued(p)' = Queued(p)
  BY <1>1 DEF Queued
<1>4. JobHeld' /\ HeldNotQueued' /\ WorkersListed' /\ QueuesApart' /\ ShutdownOrder'
  BY <1>1, <1>2, <1>3
     DEF IInv, JobHeld, HeldNotQueued, WorkersListed, QueuesApart, ShutdownOrder, Running
<1>5. {v \in Workers : pc'[v] \in Running} = {v \in Workers : pc[v] \in Running} \ {w}
  BY <1>1, <1>2 DEF Running
<1>6. OneWorkerPerJob'
  BY <1>1, <1>2, <1>5 DEF IInv, OneWorkerPerJob
<1>7. AllocatedTracked'
  <2>1. job[w] \in m_processing
    BY <1>1 DEF IInv, OneWorkerPerJob, Running
  <2> QED
    BY <2>1, <1>1, <1>2, <1>3 DEF IInv, AllocatedTracked, Tracked
<1> QED
  BY <1>4, <1>6, <1>7 DEF IInv

LEMMA FreeJobInv ==
  ASSUME IInv, TypeOK', NEW w \in Workers, FreeJob(w)
  PROVE  IInv'
<1>1. /\ pc[w] = "free" /\ Goto(w, "get") /\ job' = [job EXCEPT ![w] = NULL]
      /\ allocated' = allocated \ {job[w]}
      /\ UNCHANGED <<m_running, m_jobQueue, m_processing, m_workers, cancelPc>>
  BY DEF FreeJob, Delete, managerVars
<1>2. /\ \A v \in Workers \ {w} : pc'[v] = pc[v] /\ job'[v] = job[v]
      /\ pc'[w] = "get" /\ job'[w] = NULL /\ job[w] # NULL /\ job[w] \in Jobs
  BY <1>1 DEF Goto, IInv, TypeOK, JobHeld
<1>3. \A p \in Priorities : Queued(p)' = Queued(p)
  BY <1>1 DEF Queued
<1>4. \A p \in Priorities : NULL \notin Queued(p)
  BY QueuedAreJobs, NullAssumption DEF IInv
<1>5. JobHeld' /\ HeldNotQueued' /\ WorkersListed' /\ QueuesApart' /\ ShutdownOrder'
  BY <1>1, <1>2, <1>3, <1>4
     DEF IInv, JobHeld, HeldNotQueued, WorkersListed, QueuesApart, ShutdownOrder, Running
<1>6. {v \in Workers : pc'[v] \in Running} = {v \in Workers : pc[v] \in Running}
  BY <1>1, <1>2 DEF Running
<1>7. OneWorkerPerJob'
  <2>1. {job'[v] : v \in {u \in Workers : pc[u] \in Running}} =
          {job[v] : v \in {u \in Workers : pc[u] \in Running}}
    BY <1>1, <1>2 DEF Running
  <2> QED
    BY <1>1, <1>2, <1>6, <2>1 DEF IInv, OneWorkerPerJob
<1>8. AllocatedTracked'
  <2>1. job[w] \notin m_processing
    BY <1>1, <1>2 DEF IInv, OneWorkerPerJob, Running
  <2>2. \A v \in Workers \ {w} : job[v] # job[w]
    BY <1>2 DEF IInv, OneWorkerPerJob
  <2>3. \A p \in Priorities : job[w] \notin Queued(p)
    BY DEF IInv, HeldNotQueued
  <2> QED
    BY <2>1, <2>2, <2>3, <1>1, <1>2, <1>3 DEF IInv, AllocatedTracked, Tracked
<1> QED
  BY <1>5, <1>7, <1>8 DEF IInv

(* A worker leaves m_workers holding nothing.                              *)
LEMMA LeaveInv ==
  ASSUME IInv, TypeOK', NEW w \in Workers, GetNextJobLeave(w) \/ DeleteWorker(w)
  PROVE  IInv'
<1>1. /\ pc[w] \in {"get", "timedout", "exit"} /\ m_workers' = m_workers \ {w}
      /\ Goto(w, "exit") \/ Goto(w, "none")
      /\ UNCHANGED <<m_running, m_jobQueue, m_processing, allocated, job, cancelPc>>
  BY DEF GetNextJobLeave, DeleteWorker, RemoveWorker, managerVars
<1>2. \A v \in Workers \ {w} : pc'[v] = pc[v]
  BY <1>1 DEF Goto, IInv, TypeOK
<1>3. pc'[w] \in {"exit", "none"}
  BY <1>1 DEF Goto, IInv, TypeOK
<1>4. \A p \in Priorities : Queued(p)' = Queued(p)
  BY <1>1 DEF Queued
<1>5. \A v \in Workers : /\ pc'[v] \in Running <=> pc[v] \in Running
                         /\ pc'[v] = "free" <=> pc[v] = "free"
  BY <1>1, <1>2, <1>3 DEF Running
<1>6. JobHeld' /\ HeldNotQueued' /\ QueuesApart' /\ ShutdownOrder'
  BY <1>1, <1>4, <1>5 DEF IInv, JobHeld, HeldNotQueued, QueuesApart, ShutdownOrder
<1>7. WorkersListed'
  BY <1>1, <1>2, <1>3 DEF IInv, WorkersListed
<1>8. OneWorkerPerJob'
  BY <1>1, <1>5 DEF IInv, OneWorkerPerJob
<1>9. AllocatedTracked'
  BY <1>1, <1>4, <1>5 DEF IInv, AllocatedTracked, Tracked
<1> QED
  BY <1>6, <1>7, <1>8, <1>9 DEF IInv

(* CancelJobs deletes exactly the queued jobs.                             *)
LEMMA CancelJobsInv ==
  ASSUME IInv, TypeOK', CancelJobs
  PROVE  IInv'
<1>1. /\ ~m_running' /\ m_jobQueue' = [p \in Priorities |-> <<>>]
      /\ allocated' = allocated \ UNION {Queued(p) : p \in Priorities}
      /\ cancelPc' = IF m_workers = {} THEN "done" ELSE "set"
      /\ UNCHANGED <<m_processing, m_workers, pc, job>>
  BY DEF CancelJobs
<1>2. \A p \in Priorities : Queued(p)' = {} /\ m_jobQueue'[p] = <<>>
  BY <1>1 DEF Queued, Range
<1>3. \A x : x \in allocated' <=> x \in allocated /\ \A p \in Priorities : x \notin Queued(p)
  BY <1>1, Zenon
<1>4. JobHeld' /\ OneWorkerPerJob' /\ WorkersListed'
  BY <1>1 DEF IInv, JobHeld, OneWorkerPerJob, WorkersListed
<1>5. QueuesApart' /\ HeldNotQueued'
  BY <1>2 DEF QueuesApart, HeldNotQueued, Distinct
<1>6. ShutdownOrder'
  BY <1>1, <1>2 DEF ShutdownOrder
<1>7. AllocatedTracked'
  BY <1>1, <1>2, <1>3 DEF IInv, AllocatedTracked, Tracked, HeldNotQueued, OneWorkerPerJob
<1> QED
  BY <1>4, <1>5, <1>6, <1>7 DEF IInv

-----------------------------------------------------------------------------
(* Every step preserves the invariant.                                     *)

LEMMA WorkerInv ==
  ASSUME IInv, TypeOK', NEW w \in Workers, WorkerStep(w) \/ OnJobProgress(w)
  PROVE  IInv'
<1>1. CASE GetNextJobPop(w)
  BY <1>1, PopJobInv
<1>2. CASE GetNextJobSleep(w)
  BY <1>2, MoveInv DEF GetNextJobSleep, managerVars, Running
<1>3. CASE GetNextJobLeave(w) \/ DeleteWorker(w)
  BY <1>3, LeaveInv
<1>4. CASE WaitBlock(w)
  BY <1>4, MoveInv DEF WaitBlock, managerVars, Running
<1>5. CASE WaitSignaled(w)
  BY <1>5, MoveInv DEF WaitSignaled, managerVars, Running
<1>6. CASE WaitTimeout(w)
  BY <1>6, MoveInv DEF WaitTimeout, managerVars, Running
<1>7. CASE OnJobProgress(w)
  BY <1>7, MoveInv DEF OnJobProgress, managerVars, Running
<1>8. CASE OnJobProgressReturn(w)
  BY <1>8, MoveInv DEF OnJobProgressReturn, managerVars, Running
<1>9. CASE OnJobComplete(w)
  <2>1. job[w] \in m_processing
    BY <1>9 DEF OnJobComplete, IInv, OneWorkerPerJob, Running
  <2> QED
    BY <1>9, <2>1, MoveInv DEF OnJobComplete, managerVars, Running
<1>10. CASE Notify(w)
  <2>1. pc[w] = "notify" /\ (Goto(w, "callback") \/ Goto(w, "erase"))
    BY <1>10 DEF Notify
  <2>2. UNCHANGED <<m_running, m_jobQueue, m_processing, m_workers, allocated,
                    job, cancelPc>>
    BY <1>10 DEF Notify, managerVars
  <2>3. CASE Goto(w, "callback")
    BY <2>1, <2>2, <2>3, MoveInv DEF Running
  <2>4. CASE Goto(w, "erase")
    BY <2>1, <2>2, <2>4, MoveInv DEF Running
  <2> QED
    BY <2>1, <2>3, <2>4
<1>11. CASE CallbackReturn(w)
  BY <1>11, MoveInv DEF CallbackReturn, managerVars, Running
<1>12. CASE EraseItem(w)
  BY <1>12, EraseItemInv
<1>13. CASE FreeJob(w)
  BY <1>13, FreeJobInv
<1> QED
  BY <1>1, <1>2, <1>3, <1>4, <1>5, <1>6, <1>7, <1>8, <1>9, <1>10, <1>11, <1>12,
     <1>13 DEF WorkerStep

(* Steps that change nothing the invariant reads besides TypeOK.           *)
LEMMA QuietInv ==
  ASSUME IInv, TypeOK',
         UNCHANGED <<m_running, m_jobQueue, m_processing, m_workers, allocated,
                     pc, job, cancelPc>>
  PROVE  IInv'
<1>1. \A p \in Priorities : Queued(p)' = Queued(p)
  BY DEF Queued
<1> QED
  BY <1>1 DEF IInv, JobHeld, QueuesApart, HeldNotQueued, OneWorkerPerJob,
              AllocatedTracked, Tracked, WorkersListed, ShutdownOrder

LEMMA StepInv == IInv /\ [Next]_vars => IInv'
<1> SUFFICES ASSUME IInv, [Next]_vars PROVE IInv'
  OBVIOUS
<1>1. TypeOK'
  BY StepType DEF IInv
<1>2. ASSUME NEW j \in Jobs, NEW cb \in Callbacks \cup {NULL},
             NEW p \in AddedAt, AddJob(j, cb, p)
      PROVE  IInv'
  BY <1>1, <1>2, AddJobInv
<1>3. ASSUME NEW id \in 0..(IdRange - 1), CancelJob(id) PROVE IInv'
  <2>1. CASE CancelQueued(id)
    BY <1>1, <1>3, <2>1, CancelQueuedInv
  <2>2. CASE CancelProcessing(id)
    BY <1>1, <1>3, <2>2, QuietInv DEF CancelProcessing, CancelJob
  <2> QED
    BY <1>3, <2>1, <2>2 DEF CancelJob
<1>4. ASSUME NEW p \in PausedAt, Pause(p) \/ UnPause(p) PROVE IInv'
  BY <1>1, <1>4, QuietInv DEF Pause, UnPause
<1>5. CASE Shutdown
  <2>1. CASE CancelJobs
    BY <1>1, <2>1, CancelJobsInv
  <2>2. CASE CancelJobsSet \/ CancelJobsCheck
    <3>1. /\ UNCHANGED <<m_running, m_jobQueue, m_processing, m_workers, allocated,
                         pc, job>>
          /\ cancelPc # "idle" /\ cancelPc' # "idle"
          /\ cancelPc' = "done" => m_workers = {}
      BY <2>2 DEF CancelJobsSet, CancelJobsCheck, managerVars
    <3>2. \A p \in Priorities : Queued(p)' = Queued(p)
      BY <3>1 DEF Queued
    <3> QED
      BY <1>1, <3>1, <3>2 DEF IInv, JobHeld, QueuesApart, HeldNotQueued,
           OneWorkerPerJob, AllocatedTracked, Tracked, WorkersListed, ShutdownOrder
  <2> QED
    BY <1>5, <2>1, <2>2 DEF Shutdown
<1>6. ASSUME NEW w \in Workers, WorkerStep(w) \/ OnJobProgress(w) PROVE IInv'
  BY <1>1, <1>6, WorkerInv
<1>7. CASE UNCHANGED vars
  BY <1>1, <1>7, QuietInv DEF vars, managerVars
<1> QED
  BY <1>2, <1>3, <1>4, <1>5, <1>6, <1>7 DEF Next, Client

THEOREM Invariance == Spec => []IInv
<1> QED
  BY InitInv, StepInv, PTL DEF Spec

(* No job is queued twice, or queued while a thread has it.                *)
THEOREM JobsInOnePlace == Spec => []QueuesDisjoint
<1>1. IInv => QueuesDisjoint
  <2> SUFFICES ASSUME IInv PROVE QueuesDisjoint
    OBVIOUS
  <2>1. ASSUME NEW p \in Priorities, NEW q \in Priorities,
               NEW a \in DOMAIN m_jobQueue[p], NEW b \in DOMAIN m_jobQueue[q],
               m_jobQueue[p][a] = m_jobQueue[q][b]
        PROVE  p = q /\ a = b
    <3>1. m_jobQueue[p][a] \in Queued(p) /\ m_jobQueue[q][b] \in Queued(q)
      BY DEF Queued, Range
    <3>2. p = q
      BY <2>1, <3>1 DEF IInv, QueuesApart
    <3> QED
      BY <2>1, <3>2 DEF IInv, QueuesApart, Distinct
  <2>2. \A p \in Priorities : Queued(p) \cap m_processing = {}
    BY DEF IInv, HeldNotQueued, OneWorkerPerJob
  <2> QED
    BY <2>1, <2>2 DEF QueuesDisjoint
<1> QED
  BY <1>1, Invariance, PTL

(* Each running job has exactly one thread, and OnJobComplete finds it.    *)
THEOREM JobsRunByOneWorker == Spec => []OneWorkerPerJob
<1>1. IInv => OneWorkerPerJob
  BY DEF IInv
<1> QED
  BY <1>1, Invariance, PTL

(* Cancelling, completing and shutting down delete every job exactly once. *)
THEOREM JobsFreedOnce == Spec => []NoDanglingNoLeak
<1>1. IInv => NoDanglingNoLeak
  BY NoDanglingNoLeakHolds DEF IInv
<1> QED
  BY <1>1, Invariance, PTL

(* When CancelJobs returns, all threads are gone and nothing is left.      *)
THEOREM ShutdownComplete == Spec => []QuiescentAfterCancelJobs
<1>1. IInv => QuiescentAfterCancelJobs
  <2> SUFFICES ASSUME IInv, cancelPc = "done"
               PROVE  /\ \A w \in Workers : pc[w] \in {"none", "exit"}
                      /\ allocated = {} /\ m_processing = {}
    BY DEF QuiescentAfterCancelJobs
  <2>1. \A w \in Workers : pc[w] \in {"none", "exit"}
    BY DEF IInv, ShutdownOrder, WorkersListed
  <2>2. m_processing = {}
    BY <2>1 DEF IInv, OneWorkerPerJob, Running
  <2>3. \A p \in Priorities : Queued(p) = {}
    BY DEF IInv, ShutdownOrder, Queued, Range
  <2>4. allocated = {}
    BY <2>1, <2>2, <2>3 DEF IInv, AllocatedTracked, Tracked, TypeOK
  <2> QED
    BY <2>1, <2>2, <2>4
<1> QED
  BY <1>1, Invariance, PTL

-----------------------------------------------------------------------------
(* Ids of jobs, before m_jobCounter comes round.                           *)

(* The jobs the manager has carry ids it has given, each its own.          *)
IdsUnique ==
  /\ \A j \in allocated : work[j].id \in 1..m_jobCounter
  /\ \A j, k \in allocated : work[j].id = work[k].id => j = k

LEMMA IdsStep ==
  ASSUME IInv, IdsUnique, m_jobCounter < IdRange - 1, [Next]_vars
  PROVE  IdsUnique'
<1> USE DEF IInv, TypeOK
<1>1. ASSUME allocated' \subseteq allocated, m_jobCounter' = m_jobCounter,
             \A j \in allocated' : work'[j].id = work[j].id
      PROVE  IdsUnique'
  BY <1>1 DEF IdsUnique
<1>2. ASSUME NEW js, Delete(js), m_jobCounter' = m_jobCounter
      PROVE  IdsUnique'
  BY <1>1, <1>2 DEF Delete
<1>3. ASSUME NEW j \in Jobs, NEW cb, NEW p, AddJob(j, cb, p)
      PROVE  IdsUnique'
  <2>1. /\ m_jobCounter \in Nat /\ NextId = m_jobCounter + 1
        /\ m_jobCounter' = m_jobCounter + 1
    BY <1>3, IdAssumption DEF AddJob, NextId
  <2>2. /\ allocated' = allocated \cup {j} /\ j \notin allocated
        /\ work' = [work EXCEPT ![j] = [id |-> NextId, prio |-> p, cb |-> cb]]
    BY <1>3 DEF AddJob
  <2>3. /\ work'[j].id = NextId
        /\ \A k \in allocated : work'[k].id = work[k].id
    BY <2>2
  <2>4. \A k \in allocated' : \/ k = j /\ work'[k].id = m_jobCounter + 1
                              \/ /\ k \in allocated /\ work'[k].id = work[k].id
                                 /\ work[k].id \in 1..m_jobCounter
    BY <2>1, <2>2, <2>3 DEF IdsUnique
  <2>5. \A k \in allocated' : work'[k].id \in 1..(m_jobCounter + 1)
    BY <2>1, <2>4
  <2>6. \A k, l \in allocated' : work'[k].id = work'[l].id => k = l
    BY <2>1, <2>4 DEF IdsUnique
  <2> QED
    BY <2>1, <2>5, <2>6 DEF IdsUnique
<1>4. ASSUME NEW id \in 0..(IdRange - 1), CancelJob(id) PROVE IdsUnique'
  <2>1. CASE CancelQueued(id)
    BY <1>2, <1>4, <2>1 DEF CancelQueued, CancelJob
  <2>2. CASE CancelProcessing(id)
    BY <1>1, <1>4, <2>2 DEF CancelProcessing, CancelJob
  <2> QED
    BY <1>4, <2>1, <2>2 DEF CancelJob
<1>5. ASSUME NEW p \in PausedAt, Pause(p) \/ UnPause(p) PROVE IdsUnique'
  BY <1>1, <1>5 DEF Pause, UnPause
<1>6. CASE Shutdown
  <2>1. CASE CancelJobs
    <3>1. /\ m_jobCounter' = m_jobCounter
          /\ allocated' = allocated \ UNION {Queued(p) : p \in Priorities}
          /\ \A j \in Jobs : (\A p \in Priorities : j \notin Queued(p))
                              => work'[j].id = work[j].id
      BY <2>1 DEF CancelJobs
    <3> QED
      BY <1>1, <3>1
  <2>2. CASE CancelJobsSet \/ CancelJobsCheck
    BY <1>1, <2>2 DEF CancelJobsSet, CancelJobsCheck, managerVars
  <2> QED
    BY <1>6, <2>1, <2>2 DEF Shutdown
<1>7. ASSUME NEW w \in Workers, WorkerStep(w) \/ OnJobProgress(w) PROVE IdsUnique'
  <2>1. CASE FreeJob(w)
    BY <1>2, <2>1 DEF FreeJob, managerVars
  <2>2. CASE GetNextJobPop(w)
    BY <1>1, <2>2 DEF GetNextJobPop, PopJob
  <2>3. CASE \/ GetNextJobSleep(w) \/ GetNextJobLeave(w) \/ DeleteWorker(w)
             \/ WaitBlock(w) \/ WaitSignaled(w) \/ WaitTimeout(w)
             \/ OnJobProgress(w) \/ OnJobProgressReturn(w) \/ OnJobComplete(w)
             \/ Notify(w) \/ CallbackReturn(w) \/ EraseItem(w)
    BY <1>1, <2>3 DEF GetNextJobSleep, GetNextJobLeave, DeleteWorker, WaitBlock,
      WaitSignaled, WaitTimeout, OnJobProgress, OnJobProgressReturn, OnJobComplete,
      Notify, CallbackReturn, EraseItem, managerVars
  <2> QED
    BY <1>7, <2>1, <2>2, <2>3 DEF WorkerStep
<1>8. CASE UNCHANGED vars
  BY <1>1, <1>8 DEF vars, managerVars
<1> QED
  BY <1>3, <1>4, <1>5, <1>6, <1>7, <1>8 DEF Next, Client

(* Until m_jobCounter (JobManager.cpp:232) has given all but one of its    *)
(* ids, no two jobs that are not deleted have the same one: CancelJob      *)
(* (JobManager.cpp:251, :260) finds the job AddJob returned the id for,    *)
(* or none.                                                                *)
THEOREM EarlyIdsUnique == Spec /\ [](m_jobCounter < IdRange - 1) => []IdsUnique
<1>1. Init => IdsUnique
  BY DEF Init, IdsUnique
<1>2. IInv /\ IdsUnique /\ m_jobCounter < IdRange - 1 /\ [Next]_vars => IdsUnique'
  BY IdsStep
<1> QED
  BY <1>1, <1>2, Invariance, PTL DEF Spec
=============================================================================
