---------------------------- MODULE JobQueueProofs ----------------------------
(***************************************************************************)
(* Proofs about a CJobQueue, for any number of jobs, threads and jobs at   *)
(* once, first-in-first-out or last-in-first-out.  They rest on IInv of    *)
(* the manager below: a worker that calls back has its job to itself.      *)
(* What holds while jobs are cancelled and the queue or the manager goes   *)
(* away is proved of QueueSpec, the rest of a queue in use (WorkingSpec).  *)
(***************************************************************************)
EXTENDS JobQueue, JobManagerProofs

USE QueueAssumption, ClientAssumption

QueueEntry == [job : Jobs, id : 0..(IdRange - 1)]

-----------------------------------------------------------------------------
(* The two lists as values.                                                *)

(* No two jobs of the queue, waiting or handed out, are equal.             *)
Unlike(jq, pr) ==
  /\ \A a, b \in 1..Len(jq) : Same(jq[a], jq[b]) => a = b
  /\ \A a, b \in 1..Len(pr) : Same(pr[a].job, pr[b].job) => a = b
  /\ \A a \in 1..Len(jq), b \in 1..Len(pr) : ~Same(jq[a], pr[b].job)

Lists(jq, pr) == jq \in Seq(Jobs) /\ pr \in Seq(QueueEntry) /\ Unlike(jq, pr)

LEMMA SameSymmetric == \A j, k : Same(j, k) => Same(k, j)
BY DEF Same

(* QueueNextJob hands the last waiting job out. *)
LEMMA HandOut ==
  ASSUME NEW jq, NEW pr, Lists(jq, pr), jq # <<>>, NEW id \in 0..(IdRange - 1)
  PROVE  LET e == [job |-> Last(jq), id |-> id]
         IN  /\ Last(jq) \in Jobs
             /\ Lists(Front(jq), Append(pr, e))
             /\ Len(Front(jq)) = Len(jq) - 1
             /\ Len(Append(pr, e)) = Len(pr) + 1
             /\ \A i \in 1..Len(pr) : Append(pr, e)[i] = pr[i]
             /\ Append(pr, e)[Len(pr) + 1] = e
<1> DEFINE n == Len(jq)
           f == Front(jq)
           e == [job |-> Last(jq), id |-> id]
           q == Append(pr, e)
<1>1. jq \in Seq(Jobs) /\ n \in Nat \ {0} /\ pr \in Seq(QueueEntry)
  BY EmptySeq DEF Lists
<1>2. Last(jq) = jq[n] /\ Last(jq) \in Jobs
  BY <1>1 DEF Last
<1>3. f \in Seq(Jobs) /\ Len(f) = n - 1 /\ \A k \in 1..(n - 1) : f[k] = jq[k]
  <2>1. \A k \in 1..(n - 1) : jq[k] \in Jobs
    BY <1>1
  <2>2. f = SubSeq(jq, 1, n - 1)
    BY DEF Front
  <2> HIDE DEF f
  <2>3. /\ f \in Seq(Jobs)
        /\ Len(f) = IF 1 <= n - 1 THEN n - 1 - 1 + 1 ELSE 0
        /\ \A k \in 1..(n - 1 - 1 + 1) : f[k] = jq[1 + k - 1]
    <3>1. 1 \in Int /\ n - 1 \in Int /\ \A k \in 1..(n - 1) : jq[k] \in Jobs
      BY <1>1, <2>1
    <3> QED
      BY <2>2, <3>1, SubSeqProperties, Z3
  <2>0. n \in Int /\ n >= 1
    BY <1>1
  <2>4. Len(f) = n - 1
    <3> HIDE DEF n
    <3> QED
    BY <2>0, <2>3
  <2>5. \A k \in 1..(n - 1) : k \in 1..(n - 1 - 1 + 1) /\ 1 + k - 1 = k
    BY <1>1
  <2> QED
    BY <2>3, <2>4, <2>5
<1>4. e \in QueueEntry /\ e.job = jq[n]
  BY <1>2 DEF QueueEntry
<1> HIDE DEF f, e
<1>5. /\ q \in Seq(QueueEntry) /\ Len(q) = Len(pr) + 1
      /\ \A k \in 1..Len(pr) : q[k] = pr[k]
      /\ q[Len(pr) + 1] = e
  BY <1>1, <1>4, AppendProperties
<1> HIDE DEF q
<1>6. Unlike(f, q)
  <2>1. \A a, b \in 1..Len(f) : Same(f[a], f[b]) => a = b
    BY <1>1, <1>3 DEF Lists, Unlike
  <2>2. \A b \in 1..Len(pr) : ~Same(jq[n], pr[b].job) /\ ~Same(pr[b].job, jq[n])
    BY <1>1, SameSymmetric DEF Lists, Unlike
  <2>3. \A b \in 1..Len(q) : \/ b \in 1..Len(pr) /\ q[b].job = pr[b].job
                             \/ b = Len(pr) + 1 /\ q[b].job = jq[n]
    BY <1>1, <1>4, <1>5
  <2>4. \A a, b \in 1..Len(q) : Same(q[a].job, q[b].job) => a = b
    BY <2>2, <2>3 DEF Lists, Unlike
  <2>5. \A a \in 1..Len(f) : a \in 1..n /\ a # n /\ f[a] = jq[a]
    BY <1>1, <1>3
  <2>6. \A a \in 1..Len(f), b \in 1..Len(q) : ~Same(f[a], q[b].job)
    BY <1>1, <2>3, <2>5 DEF Lists, Unlike
  <2> QED
    BY <2>1, <2>4, <2>6 DEF Unlike
<1> QED
  BY <1>2, <1>3, <1>5, <1>6 DEF Lists, q, e, f

(* A job unlike the others joins the queue at either end. *)
LEMMA Enlist ==
  ASSUME NEW jq, NEW pr, Lists(jq, pr), NEW j \in Jobs,
         \A a \in 1..Len(jq) : ~Same(jq[a], j),
         \A a \in 1..Len(pr) : ~Same(pr[a].job, j)
  PROVE  /\ Lists(Append(jq, j), pr) /\ Len(Append(jq, j)) = Len(jq) + 1
         /\ Lists(<<j>> \o jq, pr) /\ Len(<<j>> \o jq) = Len(jq) + 1
<1> DEFINE x == Append(jq, j)
           y == <<j>> \o jq
<1>1. jq \in Seq(Jobs) /\ Len(jq) \in Nat /\ pr \in Seq(QueueEntry)
  BY DEF Lists
<1>2. /\ x \in Seq(Jobs) /\ Len(x) = Len(jq) + 1
      /\ \A k \in 1..Len(jq) : x[k] = jq[k]
      /\ x[Len(jq) + 1] = j
  BY <1>1, AppendProperties
<1>3. /\ y \in Seq(Jobs) /\ Len(y) = Len(jq) + 1
      /\ \A k \in 2..(Len(jq) + 1) : y[k] = jq[k - 1]
      /\ y[1] = j
  BY <1>1, ConcatProperties
<1> HIDE DEF x, y
<1>4. \A a \in 1..Len(x) : \/ a \in 1..Len(jq) /\ x[a] = jq[a]
                           \/ a = Len(jq) + 1 /\ x[a] = j
  BY <1>1, <1>2
<1>5. \A a \in 1..Len(y) : \/ a - 1 \in 1..Len(jq) /\ y[a] = jq[a - 1]
                           \/ a = 1 /\ y[a] = j
  BY <1>1, <1>3
<1>6. \A a \in 1..Len(jq) : ~Same(jq[a], j) /\ ~Same(j, jq[a])
  BY SameSymmetric
<1>7. \A b \in 1..Len(pr) : ~Same(j, pr[b].job)
  BY SameSymmetric
<1>8. Unlike(x, pr)
  BY <1>4, <1>6, <1>7 DEF Lists, Unlike
<1>9. Unlike(y, pr)
  <2>1. \A a, b \in 1..Len(y) : Same(y[a], y[b]) => a = b
    <3> SUFFICES ASSUME NEW a \in 1..Len(y), NEW b \in 1..Len(y), Same(y[a], y[b])
                 PROVE  a = b
      OBVIOUS
    <3>1. ASSUME a - 1 \in 1..Len(jq), b - 1 \in 1..Len(jq) PROVE a - 1 = b - 1
      <4>1. y[a] = jq[a - 1] /\ y[b] = jq[b - 1]
        BY <1>1, <1>3, <3>1
      <4> QED
        BY <3>1, <4>1 DEF Lists, Unlike
    <3> QED
      BY <1>1, <1>3, <1>5, <1>6, <3>1
  <2>2. \A a \in 1..Len(y), b \in 1..Len(pr) : ~Same(y[a], pr[b].job)
    BY <1>5, <1>7 DEF Lists, Unlike
  <2> QED
    BY <2>1, <2>2 DEF Lists, Unlike
<1> QED
  BY <1>1, <1>2, <1>3, <1>8, <1>9 DEF Lists, x, y

(* Every entry of r is one of pr, and the i-th of pr alone is gone.        *)
Struck(pr, i, r) ==
  /\ Len(r) = Len(pr) - 1
  /\ \A k \in 1..Len(pr) : k # i => \E l \in 1..Len(r) : r[l] = pr[k]
  /\ \A l \in 1..Len(r) : \E k \in 1..Len(pr) : k # i /\ r[l] = pr[k]

(* deque::erase of the entry of a job: the other entries stay. *)
LEMMA Strike ==
  ASSUME NEW jq, NEW pr, Lists(jq, pr), NEW i \in 1..Len(pr)
  PROVE  Lists(jq, RemoveAt(pr, i)) /\ Struck(pr, i, RemoveAt(pr, i))
<1> DEFINE r == RemoveAt(pr, i)
           f(k) == IF k < i THEN k ELSE k + 1
<1>1. pr \in Seq(QueueEntry) /\ Len(pr) \in Nat
  BY DEF Lists
<1>2. /\ r \in Seq(QueueEntry) /\ Len(r) = Len(pr) - 1
      /\ \A k \in 1..(Len(pr) - 1) : r[k] = IF k < i THEN pr[k] ELSE pr[k + 1]
  BY <1>1, RemoveAtProperties DEF Without
<1> HIDE DEF r
<1>3. \A k \in 1..Len(r) : f(k) \in 1..Len(pr) /\ f(k) # i /\ r[k] = pr[f(k)]
  BY <1>1, <1>2
<1>4. \A a, b \in 1..Len(r) : Same(r[a].job, r[b].job) => a = b
  <2> SUFFICES ASSUME NEW a \in 1..Len(r), NEW b \in 1..Len(r),
                      Same(r[a].job, r[b].job)
               PROVE  a = b
    OBVIOUS
  <2>1. f(a) = f(b)
    BY <1>3 DEF Lists, Unlike
  <2> QED
    BY <1>1, <1>2, <2>1
<1>5. \A a \in 1..Len(jq), b \in 1..Len(r) : ~Same(jq[a], r[b].job)
  BY <1>3 DEF Lists, Unlike
<1>6. ASSUME NEW k \in 1..Len(pr), k # i
      PROVE  \E l \in 1..(Len(pr) - 1) : r[l] = pr[k]
  <2>1. CASE k < i
    BY <1>1, <1>2, <2>1
  <2>2. CASE k > i
    <3>1. k - 1 \in 1..(Len(pr) - 1) /\ r[k - 1] = pr[k]
      BY <1>1, <1>2, <2>2
    <3> QED
      BY <3>1
  <2> QED
    BY <1>1, <1>6, <2>1, <2>2
<1>7. \A l \in 1..(Len(pr) - 1) : \E k \in 1..Len(pr) : k # i /\ r[l] = pr[k]
  <2> HIDE DEF f
  <2> QED
    BY <1>2, <1>3
<1>8. Struck(pr, i, r)
  BY <1>2, <1>6, <1>7 DEF Struck
<1> QED
  BY <1>2, <1>4, <1>5, <1>8 DEF Lists, Unlike, r

-----------------------------------------------------------------------------
(* The inductive invariant.  The properties speak of the jobs the manager  *)
(* has; what is inductive is that each of them has an entry (Covered), and *)
(* that the lists hold no two equal jobs (Lists): so the entry that        *)
(* OnJobComplete finds by equality is the one of the job that completed.   *)

(* Only the queue gives jobs to this manager. *)
QueueAlone ==
  /\ \A j \in Jobs : work[j].cb \in {queue, NULL}
  /\ \A w \in Workers : /\ item[w] \in {queue, NULL}
                        /\ pc[w] = "callback" => item[w] = queue

Awaited(j) == work[j].cb = queue /\ \E p \in Priorities : j \in Queued(p)

Tends(w, j) == WillCallBack(w) /\ job[w] = j

Pending(j) == Awaited(j) \/ \E w \in Workers : Tends(w, j)

HasEntry(j, pr) == \E i \in 1..Len(pr) : pr[i].job = j

Covered == \A j \in Jobs : Pending(j) => HasEntry(j, q_processing)

Full(jq, pr) == jq # <<>> => Len(pr) = m_jobsAtOnce

(* What holds of every queue, and what holds of one whose jobs are not     *)
(* cancelled.                                                              *)
Core ==
  /\ IInv
  /\ notified \subseteq {w \in Workers : pc[w] = "callback"}
  /\ Lists(q_jobQueue, q_processing)
  /\ Len(q_processing) <= m_jobsAtOnce
  /\ q_state \in {"open", "cancelling", "destroying", "destroyed"}
  /\ lost \subseteq Jobs
  /\ QueueAlone

QInv ==
  /\ Core
  /\ m_running = TRUE /\ q_state = "open" /\ lost = {}
  /\ Full(q_jobQueue, q_processing)
  /\ Covered

LEMMA PendingJobs ==
  ASSUME Core, NEW j, Pending(j)
  PROVE  j \in Jobs
<1>1. CASE Awaited(j)
  BY <1>1, QueuedAreJobs DEF Core, IInv, Awaited
<1>2. CASE \E w \in Workers : Tends(w, j)
  BY <1>2, NullAssumption DEF Core, IInv, TypeOK, JobHeld, Running, Tends, WillCallBack
<1> QED
  BY <1>1, <1>2 DEF Pending

LEMMA InFlightPending == \A j : j \in InFlight <=> Pending(j)
BY DEF InFlight, Pending, Awaited, Tends

(* A worker that tends a job has it to itself. *)
LEMMA TendedAlone ==
  ASSUME Core, NEW w \in Workers, WillCallBack(w)
  PROVE  /\ job[w] \in Jobs
         /\ ~Awaited(job[w])
         /\ \A v \in Workers : Tends(v, job[w]) => v = w
<1>1. job[w] \in Jobs
  BY NullAssumption DEF Core, IInv, TypeOK, JobHeld, Running, WillCallBack
<1>2. ~Awaited(job[w])
  BY DEF Core, IInv, HeldNotQueued, Awaited
<1> QED
  BY <1>1, <1>2, NullAssumption DEF Core, IInv, OneWorkerPerJob, Tends

LEMMA InitQueue == QueueInit => QInv
<1> SUFFICES ASSUME QueueInit PROVE QInv
  OBVIOUS
<1>1. IInv
  BY InitInv DEF QueueInit
<1>2. Lists(q_jobQueue, q_processing) /\ Len(q_processing) = 0
  BY DEF QueueInit, Lists, Unlike
<1>3. QueueAlone
  BY DEF QueueInit, Init, QueueAlone, NoItem
<1>4. Covered
  BY NullAssumption DEF QueueInit, Init, Covered, Pending, Awaited, Tends, WillCallBack, NoItem
<1> QED
  BY <1>1, <1>2, <1>3, <1>4 DEF QueueInit, Init, QInv, Core, Full

-----------------------------------------------------------------------------
(* What AddJob and the steps of the workers do to the jobs that wait for   *)
(* their callback.                                                         *)

LEMMA AddedPending ==
  ASSUME Core, NEW j \in Jobs, AddJob(j, queue, m_priority),
         notified \subseteq notified'
  PROVE  \A k \in Jobs : Pending(k)' => Pending(k) \/ k = j
<1> SUFFICES ASSUME NEW k \in Jobs, Pending(k)', k # j
             PROVE  Pending(k)
  OBVIOUS
<1>1. work'[k] = work[k]
  BY DEF Core, IInv, TypeOK, AddJob
<1>2. CASE Awaited(k)'
  <2>1. PICK p \in Priorities : k \in Queued(p)'
    BY <1>2 DEF Awaited
  <2>2. m_jobQueue[p] \in Seq(Jobs)
    BY DEF Core, IInv, TypeOK
  <2>3. m_jobQueue'[p] = m_jobQueue[p] \/ m_jobQueue'[p] = Append(m_jobQueue[p], j)
    BY DEF Core, IInv, TypeOK, AddJob
  <2>4. k \in Queued(p)
    <3>1. CASE m_jobQueue'[p] = m_jobQueue[p]
      BY <2>1, <3>1 DEF Queued
    <3>2. CASE m_jobQueue'[p] = Append(m_jobQueue[p], j)
      <4>1. PICK i \in 1..(Len(m_jobQueue[p]) + 1) : Append(m_jobQueue[p], j)[i] = k
        BY <2>1, <2>2, <3>2, AppendProperties DEF Queued, Range
      <4>2. i \in 1..Len(m_jobQueue[p]) /\ m_jobQueue[p][i] = k
        BY <2>2, <4>1, AppendProperties
      <4> QED
        BY <2>2, <4>2, InRange DEF Queued
    <3> QED
      BY <2>3, <3>1, <3>2
  <2> QED
    BY <1>1, <1>2, <2>4 DEF Pending, Awaited
<1>3. CASE \E w \in Workers : Tends(w, k)'
  <2>1. PICK w \in Workers : Tends(w, k)'
    BY <1>3
  <2>2. job' = job /\ item' = item
    BY DEF AddJob
  <2>3. pc'[w] = pc[w] \/ pc'[w] = "get"
    BY DEF Core, IInv, TypeOK, AddJob, StartWorkers, Goto
  <2>4. WillCallBack(w)
    BY <1>1, <2>1, <2>2, <2>3 DEF Tends, WillCallBack
  <2> QED
    BY <2>1, <2>2, <2>4 DEF Pending, Tends
<1> QED
  BY <1>2, <1>3 DEF Pending

LEMMA AddedAlone ==
  ASSUME Core, NEW j \in Jobs, AddJob(j, queue, m_priority)
  PROVE  QueueAlone'
<1>1. \A k \in Jobs : work'[k].cb \in {queue, NULL}
  BY DEF Core, IInv, TypeOK, AddJob, QueueAlone
<1>2. \A w \in Workers : item'[w] \in {queue, NULL}
                         /\ (pc'[w] = "callback" => item'[w] = queue)
  <2> SUFFICES ASSUME NEW w \in Workers
               PROVE  item'[w] \in {queue, NULL} /\ (pc'[w] = "callback" => item'[w] = queue)
    OBVIOUS
  <2>1. pc'[w] = pc[w] \/ pc'[w] = "get"
    BY DEF Core, IInv, TypeOK, AddJob, StartWorkers, Goto
  <2> QED
    BY <2>1 DEF AddJob, Core, QueueAlone
<1> QED
  BY <1>1, <1>2 DEF QueueAlone

(* A step of a worker makes nobody wait that did not wait before.          *)
LEMMA WorkerPending ==
  ASSUME Core, NEW w \in Workers, QueueWorkerStep(w)
  PROVE  QueueAlone' /\ \A k \in Jobs : Pending(k)' => Pending(k)
<1> USE DEF Core, IInv, TypeOK
<1>1. /\ WorkerStep(w) /\ notified' = notified \ {w}
      /\ pc[w] = "callback" => w \in notified
  BY DEF QueueWorkerStep
<1>2. ASSUME \A v \in Workers \ {w} : pc'[v] = pc[v] /\ job'[v] = job[v] /\ item'[v] = item[v],
             \A k \in Jobs : work'[k] = work[k] \/ work'[k].cb = NULL,
             \A k \in Jobs : Awaited(k)' => Awaited(k),
             item'[w] \in {queue, NULL},
             pc'[w] = "callback" => item'[w] = queue,
             WillCallBack(w)' => Pending(job'[w])
      PROVE  QueueAlone' /\ \A k \in Jobs : Pending(k)' => Pending(k)
  <2>1. QueueAlone'
    BY <1>2 DEF QueueAlone
  <2>2. ASSUME NEW k \in Jobs, NEW v \in Workers \ {w}, Tends(v, k)' PROVE Tends(v, k)
    BY <1>1, <1>2, <2>2, NullAssumption DEF Tends, WillCallBack
  <2> QED
    BY <1>2, <2>1, <2>2 DEF Pending, Tends
<1>3. ASSUME UNCHANGED <<m_jobQueue, work>>
      PROVE  /\ \A k \in Jobs : work'[k] = work[k] \/ work'[k].cb = NULL
             /\ \A k \in Jobs : Awaited(k)' => Awaited(k)
  BY <1>3 DEF Awaited, Queued
<1>4. CASE GetNextJobPop(w)
  <2>1. PICK p \in Priorities :
          /\ m_jobQueue[p] # <<>>
          /\ m_jobQueue' = [m_jobQueue EXCEPT ![p] = Tail(@)]
          /\ job' = [job EXCEPT ![w] = Head(m_jobQueue[p])]
    BY <1>4 DEF GetNextJobPop, PopJob, CanPop
  <2>2. /\ Range(Tail(m_jobQueue[p])) \subseteq Range(m_jobQueue[p])
        /\ Head(m_jobQueue[p]) \in Range(m_jobQueue[p])
    BY <2>1, PopFront DEF QueuesApart
  <2>3. UNCHANGED <<work, item>> /\ pc' = [pc EXCEPT ![w] = "work"]
    BY <1>4 DEF GetNextJobPop, PopJob, Goto
  <2>4. \A k \in Jobs : Awaited(k)' => Awaited(k)
    BY <2>1, <2>2, <2>3 DEF Awaited, Queued
  <2>5. WillCallBack(w)' => Pending(job'[w])
    BY <2>1, <2>2, <2>3 DEF WillCallBack, Pending, Awaited, Queued
  <2> QED
    BY <1>2, <2>1, <2>3, <2>4, <2>5 DEF QueueAlone
<1>5. CASE \/ GetNextJobSleep(w) \/ GetNextJobLeave(w) \/ DeleteWorker(w)
           \/ WaitBlock(w) \/ WaitSignaled(w) \/ WaitTimeout(w)
  <2>1. UNCHANGED <<m_jobQueue, work, job, item>>
    BY <1>5 DEF GetNextJobSleep, GetNextJobLeave, DeleteWorker, WaitBlock,
                WaitSignaled, WaitTimeout, managerVars
  <2>2. \E to \in {"wait", "exit", "none", "waiting", "get", "timedout"} :
          pc' = [pc EXCEPT ![w] = to]
    BY <1>5 DEF GetNextJobSleep, GetNextJobLeave, DeleteWorker, WaitBlock,
                WaitSignaled, WaitTimeout, Goto
  <2> QED
    BY <1>2, <1>3, <2>1, <2>2 DEF QueueAlone, WillCallBack
<1>6. CASE OnJobProgressReturn(w)
  <2>1. UNCHANGED <<m_jobQueue, work, job>> /\ pc[w] = "progress"
        /\ pc' = [pc EXCEPT ![w] = "work"] /\ item' = [item EXCEPT ![w] = NULL]
    BY <1>6 DEF OnJobProgressReturn, Goto, managerVars
  <2>2. WillCallBack(w)' => Pending(job'[w])
    BY <2>1 DEF WillCallBack, Pending, Tends
  <2> QED
    BY <1>2, <1>3, <2>1, <2>2 DEF QueueAlone
<1>7. CASE OnJobComplete(w)
  <2>1. UNCHANGED <<m_jobQueue, work>> /\ pc[w] = "work"
    BY <1>7 DEF OnJobComplete, managerVars
  <2>2. CASE job[w] \in m_processing
    <3>1. /\ item' = [item EXCEPT ![w] = work[job[w]].cb] /\ job' = job
          /\ pc' = [pc EXCEPT ![w] = "notify"]
      BY <1>7, <2>2 DEF OnJobComplete, Goto
    <3>2. WillCallBack(w)' => Pending(job'[w])
      BY <2>1, <3>1 DEF WillCallBack, Pending, Tends
    <3> QED
      BY <1>2, <1>3, <2>1, <2>2, <3>1, <3>2 DEF QueueAlone
  <2>3. CASE job[w] \notin m_processing
    <3>1. item' = item /\ job' = [job EXCEPT ![w] = NULL]
          /\ pc' = [pc EXCEPT ![w] = "get"]
      BY <1>7, <2>3 DEF OnJobComplete, Goto
    <3> QED
      BY <1>2, <1>3, <2>1, <3>1 DEF QueueAlone, WillCallBack
  <2> QED
    BY <2>2, <2>3
<1>8. CASE Notify(w)
  <2>1. UNCHANGED <<m_jobQueue, work, job, item>> /\ pc[w] = "notify"
        /\ pc' = [pc EXCEPT ![w] = IF item[w] # NULL THEN "callback" ELSE "erase"]
    BY <1>8 DEF Notify, Goto, managerVars
  <2>2. WillCallBack(w)' => Pending(job'[w])
    BY <2>1 DEF WillCallBack, Pending, Tends
  <2> QED
    BY <1>2, <1>3, <2>1, <2>2 DEF QueueAlone
<1>9. CASE CallbackReturn(w) \/ EraseItem(w)
  <2>1. UNCHANGED <<m_jobQueue, work, job>>
        /\ (item' = item \/ item' = [item EXCEPT ![w] = NULL])
    BY <1>9 DEF CallbackReturn, EraseItem, managerVars
  <2>2. \E to \in {"erase", "free"} : pc' = [pc EXCEPT ![w] = to]
    BY <1>9 DEF CallbackReturn, EraseItem, Goto
  <2> QED
    BY <1>2, <1>3, <2>1, <2>2 DEF QueueAlone, WillCallBack
<1>10. CASE FreeJob(w)
  <2>1. UNCHANGED <<m_jobQueue, item>> /\ pc' = [pc EXCEPT ![w] = "get"]
        /\ job' = [job EXCEPT ![w] = NULL]
        /\ work' = [j \in Jobs |-> IF j \in {job[w]} THEN NoItem ELSE work[j]]
    BY <1>10 DEF FreeJob, Delete, Goto, managerVars
  <2>2. \A k \in Jobs : work'[k] = work[k] \/ work'[k].cb = NULL
    BY <2>1 DEF NoItem
  <2>3. \A k \in Jobs : Awaited(k)' => Awaited(k)
    BY <2>1, <2>2, NullAssumption DEF Awaited, Queued
  <2> QED
    BY <1>2, <2>1, <2>2, <2>3 DEF QueueAlone, WillCallBack
<1> QED
  BY <1>1, <1>4, <1>5, <1>6, <1>7, <1>8, <1>9, <1>10 DEF WorkerStep

-----------------------------------------------------------------------------
(* QueueNextJob.                                                           *)

LEMMA NextJobType ==
  ASSUME TypeOK, NEW jq, NEW pr, Lists(jq, pr), QueueNextJob(jq, pr)
  PROVE  TypeOK'
<1>1. CASE UNCHANGED vars
  BY <1>1, StepType
<1>2. CASE jq # <<>> /\ AddJob(Last(jq), queue, m_priority)
  <2>1. jq \in Seq(Jobs) /\ Len(jq) \in 1..Len(jq)
    BY <1>2, EmptySeq DEF Lists
  <2>2. Last(jq) \in Jobs
    BY <2>1 DEF Last
  <2>3. queue \in Callbacks \cup {NULL} /\ m_priority \in Priorities
    OBVIOUS
  <2> QED
    BY <1>2, <2>2, <2>3, AddJobType
<1> QED
  BY <1>1, <1>2 DEF QueueNextJob

LEMMA NextJobCore ==
  ASSUME Core, NEW jq, NEW pr, QueueNextJob(jq, pr),
         Lists(jq, pr), Len(pr) <= m_jobsAtOnce, UNCHANGED q_state,
         notified' \subseteq {w \in Workers : pc[w] = "callback"}
  PROVE  Core' /\ m_running' = m_running
<1> USE DEF Core
<1>0. jq \in Seq(Jobs) /\ pr \in Seq(QueueEntry) /\ Len(pr) \in Nat /\ m_jobsAtOnce \in Nat
  BY DEF Lists
<1>1. TypeOK'
  BY NextJobType DEF IInv
<1>2. CASE UNCHANGED <<vars, lost>> /\ q_jobQueue' = jq /\ q_processing' = pr
  <2>1. IInv' /\ QueueAlone'
    BY <1>1, <1>2, QuietInv DEF vars, managerVars, QueueAlone
  <2> QED
    BY <1>2, <2>1 DEF vars, managerVars
<1>3. CASE /\ jq # <<>> /\ Len(pr) < m_jobsAtOnce
           /\ AddJob(Last(jq), queue, m_priority)
           /\ q_jobQueue' = Front(jq)
           /\ q_processing' = Append(pr, [job |-> Last(jq), id |-> NextId])
           /\ UNCHANGED lost
  <2>1. /\ Last(jq) \in Jobs
        /\ Lists(q_jobQueue', q_processing')
        /\ Len(q_processing') = Len(pr) + 1
    BY <1>3, HandOut, NextIdType DEF IInv
  <2>2. IInv' /\ QueueAlone'
    BY <1>1, <1>3, <2>1, AddJobInv, AddedAlone
  <2>3. \A w \in Workers : pc[w] = "callback" => pc'[w] = "callback"
    BY <1>3 DEF IInv, TypeOK, AddJob, StartWorkers, Goto
  <2>4. m_running' = m_running
    BY <1>3 DEF AddJob
  <2> QED
    BY <1>0, <1>3, <2>1, <2>2, <2>3, <2>4
<1>4. CASE /\ jq # <<>> /\ Len(pr) < m_jobsAtOnce
           /\ q_jobQueue' = Front(jq)
           /\ q_processing' = Append(pr, [job |-> Last(jq), id |-> 0])
           /\ lost' = lost \cup {Last(jq)}
           /\ UNCHANGED vars
  <2>1. 0 \in 0..(IdRange - 1)
    BY ONLY IdAssumption
  <2>2. /\ Last(jq) \in Jobs
        /\ Lists(q_jobQueue', q_processing')
        /\ Len(q_processing') = Len(pr) + 1
    BY <1>4, <2>1, HandOut
  <2>3. IInv' /\ QueueAlone'
    BY <1>1, <1>4, QuietInv DEF vars, managerVars, QueueAlone
  <2> QED
    BY <1>0, <1>4, <2>2, <2>3 DEF vars, managerVars
<1> QED
  BY <1>2, <1>3, <1>4 DEF QueueNextJob

(* The lists its caller made keep the invariant of a queue in use if       *)
(* whoever waits has an entry, and if no more than one place was free.     *)
LEMMA NextJobKeeps ==
  ASSUME QInv, NEW jq, NEW pr, QueueNextJob(jq, pr),
         Lists(jq, pr), Len(pr) <= m_jobsAtOnce,
         Len(jq) > 1 => Len(pr) >= m_jobsAtOnce - 1,
         UNCHANGED q_state,
         notified \subseteq notified',
         notified' \subseteq {w \in Workers : pc[w] = "callback"},
         \A k \in Jobs : Pending(k) =>
           \/ HasEntry(k, pr)
           \/ \E w \in notified' : job[w] = k
  PROVE  QInv'
<1> USE DEF QInv, Core
<1>0. jq \in Seq(Jobs) /\ pr \in Seq(QueueEntry) /\ m_jobsAtOnce \in Nat \ {0}
  BY DEF Lists
<1>1. Core' /\ m_running' = TRUE
  BY NextJobCore
<1>2. ASSUME NEW w \in Workers, pc'[w] = pc[w], job'[w] = job[w], item'[w] = item[w],
             w \in notified', NEW k, Tends(w, k)'
      PROVE  FALSE
  BY <1>2 DEF Tends, WillCallBack
<1>3. CASE UNCHANGED <<vars, lost>> /\ q_jobQueue' = jq /\ q_processing' = pr
           /\ (jq = <<>> \/ Len(pr) >= m_jobsAtOnce)
  <2>1. \A k \in Jobs : Pending(k)' => Pending(k) /\ ~\E w \in notified' : job[w] = k
    <3> SUFFICES ASSUME NEW k \in Jobs, Pending(k)'
                 PROVE  Pending(k) /\ ~\E w \in notified' : job[w] = k
      OBVIOUS
    <3>1. Awaited(k)' => Awaited(k)
      BY <1>3 DEF vars, managerVars, Awaited, Queued
    <3>2. \A w \in Workers : Tends(w, k)' => Tends(w, k) /\ w \notin notified'
      BY <1>3 DEF vars, managerVars, Tends, WillCallBack
    <3>3. Pending(k)
      BY <3>1, <3>2 DEF Pending
    <3>4. ASSUME NEW w \in notified', job[w] = k PROVE FALSE
      <4>1. w \in Workers /\ pc[w] = "callback" /\ job[w] = k
        BY <3>4
      <4>2. ~Awaited(k)
        BY <4>1 DEF IInv, HeldNotQueued, Awaited
      <4>3. PICK v \in Workers : Tends(v, k) /\ v \notin notified'
        BY <3>1, <3>2, <4>2 DEF Pending
      <4>4. v = w
        BY <4>1, <4>3, NullAssumption DEF IInv, OneWorkerPerJob, Tends
      <4> QED
        BY <3>4, <4>3, <4>4
    <3> QED
      BY <3>3, <3>4
  <2>2. Covered'
    BY <1>3, <2>1 DEF Covered
  <2>3. Full(jq, pr)
    BY <1>0, <1>3 DEF Full
  <2> QED
    BY <1>3, <1>1, <2>2, <2>3
<1>4. CASE /\ jq # <<>> /\ Len(pr) < m_jobsAtOnce
           /\ AddJob(Last(jq), queue, m_priority)
           /\ q_jobQueue' = Front(jq)
           /\ q_processing' = Append(pr, [job |-> Last(jq), id |-> NextId])
           /\ UNCHANGED lost
  <2> DEFINE e == [job |-> Last(jq), id |-> NextId]
  <2>1. /\ Last(jq) \in Jobs
        /\ Lists(q_jobQueue', q_processing')
        /\ Len(q_jobQueue') = Len(jq) - 1
        /\ Len(q_processing') = Len(pr) + 1
        /\ \A i \in 1..Len(pr) : q_processing'[i] = pr[i]
        /\ q_processing'[Len(pr) + 1].job = Last(jq)
    BY <1>4, HandOut, NextIdType DEF IInv
  <2>2. IInv' /\ pc' \in [Workers -> WorkerPcs] /\ job' = job /\ item' = item
    BY <1>4, <1>1 DEF AddJob, IInv, TypeOK
  <2>3. \A w \in Workers : pc'[w] = pc[w] \/ (pc[w] = "none" /\ pc'[w] = "get")
    BY <1>4 DEF IInv, TypeOK, AddJob, StartWorkers, Goto
  <2>4. Covered'
    <3> SUFFICES ASSUME NEW k \in Jobs, Pending(k)' PROVE HasEntry(k, q_processing')
      BY DEF Covered
    <3>1. CASE k = Last(jq)
      BY <1>0, <2>1, <3>1 DEF HasEntry
    <3>2. CASE k # Last(jq)
      <4>1. Pending(k)
        BY <1>4, <2>1, <3>2, AddedPending
      <4>2. ASSUME NEW w \in notified', job[w] = k PROVE FALSE
        <5>1. w \in Workers /\ pc[w] = "callback" /\ job[w] = k
          BY <4>2
        <5>2. ~Awaited(k)'
          BY <2>2, <5>1 DEF IInv, HeldNotQueued, Awaited
        <5>3. PICK v \in Workers : Tends(v, k)'
          BY <5>2 DEF Pending
        <5>4. v = w
          BY <2>2, <5>1, <5>3, NullAssumption DEF IInv, OneWorkerPerJob, Tends
        <5>5. pc'[w] = pc[w]
          BY <2>3, <5>1
        <5> QED
          BY <1>2, <2>2, <4>2, <5>1, <5>3, <5>4, <5>5
      <4>3. HasEntry(k, pr)
        BY <4>1, <4>2
      <4> QED
        BY <1>0, <2>1, <4>3 DEF HasEntry
    <3> QED
      BY <3>1, <3>2
  <2>5. Len(q_processing') <= m_jobsAtOnce /\ Full(q_jobQueue', q_processing')
    <3>1. Len(jq) \in Nat /\ Len(pr) \in Nat /\ q_jobQueue' \in Seq(Jobs)
      BY <1>0, <2>1 DEF Lists
    <3>2. q_jobQueue' # <<>> => Len(jq) > 1
      BY <2>1, <3>1
    <3> QED
      BY <1>0, <1>4, <2>1, <3>1, <3>2 DEF Full
  <2> QED
    BY <1>4, <1>1, <2>4, <2>5
<1> QED
  BY <1>3, <1>4 DEF QueueNextJob

LEMMA AddKeeps ==
  ASSUME QInv, NEW j \in Jobs, QueueAddJob(j)
  PROVE  QInv'
<1> DEFINE jq == IF m_lifo THEN Append(q_jobQueue, j) ELSE <<j>> \o q_jobQueue
<1>1. /\ QueueNextJob(jq, q_processing) /\ UNCHANGED <<q_state, notified>>
      /\ \A k \in Range(q_jobQueue) \cup {e.job : e \in Entries} : ~Same(k, j)
  BY DEF QueueAddJob
<1>2. \A a \in 1..Len(q_jobQueue) : ~Same(q_jobQueue[a], j)
  BY <1>1, InRange DEF QInv, Core, Lists
<1>3. \A a \in 1..Len(q_processing) : ~Same(q_processing[a].job, j)
  BY <1>1 DEF QInv, Core, Lists, Entries
<1>4. Lists(jq, q_processing) /\ Len(jq) = Len(q_jobQueue) + 1
  BY <1>2, <1>3, Enlist DEF QInv, Core
<1>5. Len(jq) > 1 => Len(q_processing) >= m_jobsAtOnce - 1
  BY <1>4 DEF QInv, Core, Lists, Full
<1> HIDE DEF jq
<1> QED
  BY <1>1, <1>4, <1>5, NextJobKeeps DEF QInv, Core, Covered

LEMMA CompleteKeeps ==
  ASSUME QInv, NEW w \in Workers, QueueOnJobComplete(w)
  PROVE  QInv'
<1>1. /\ pc[w] = "callback" /\ w \notin notified
      /\ notified' = notified \cup {w} /\ UNCHANGED q_state
  BY DEF QueueOnJobComplete
<1>2. WillCallBack(w) /\ job[w] \in Jobs
  BY <1>1, TendedAlone DEF WillCallBack, QInv, Core, QueueAlone
<1>3. notified' \subseteq {v \in Workers : pc[v] = "callback"}
  BY <1>1 DEF QInv, Core
<1>4. CASE QueueNextJob(q_jobQueue, q_processing)
  <2>1. Len(q_jobQueue) > 1 => Len(q_processing) >= m_jobsAtOnce - 1
    BY DEF QInv, Core, Lists, Full
  <2> QED
    BY <1>1, <1>3, <1>4, <2>1, NextJobKeeps DEF QInv, Core, Covered
<1>5. ASSUME NEW i \in FindProcessing(job[w]),
             QueueNextJob(q_jobQueue, RemoveAt(q_processing, i))
      PROVE  QInv'
  <2> DEFINE pr == RemoveAt(q_processing, i)
  <2>1. i \in 1..Len(q_processing) /\ Same(q_processing[i].job, job[w])
    BY DEF FindProcessing, QInv, Core, Lists
  <2>2. /\ Lists(q_jobQueue, pr) /\ Len(pr) = Len(q_processing) - 1
        /\ \A k \in 1..Len(q_processing) :
             k # i => \E l \in 1..Len(pr) : pr[l] = q_processing[k]
    <3>1. Lists(q_jobQueue, pr) /\ Struck(q_processing, i, pr)
      BY <2>1, Strike DEF QInv, Core
    <3> QED
      BY ONLY <3>1 DEF Struck
  <2> HIDE DEF pr
  <2>3. PICK n \in 1..Len(q_processing) : q_processing[n].job = job[w]
    BY <1>2 DEF QInv, Core, Covered, Pending, Tends, HasEntry
  <2>4. n = i
    <3>1. Same(q_processing[i].job, q_processing[n].job)
      BY <2>1, <2>3
    <3> QED
      BY <2>1, <2>3, <3>1 DEF QInv, Core, Lists, Unlike
  <2>5. \A k \in Jobs : Pending(k) => HasEntry(k, pr) \/ job[w] = k
    <3> SUFFICES ASSUME NEW k \in Jobs, Pending(k), job[w] # k PROVE HasEntry(k, pr)
      OBVIOUS
    <3>1. PICK m \in 1..Len(q_processing) : q_processing[m].job = k
      BY DEF QInv, Core, Covered, HasEntry
    <3>2. m # i
      BY <2>3, <2>4, <3>1
    <3> QED
      BY <2>2, <3>1, <3>2 DEF HasEntry
  <2>6. Len(pr) <= m_jobsAtOnce /\ (Len(q_jobQueue) > 1 => Len(pr) >= m_jobsAtOnce - 1)
    BY <2>2 DEF QInv, Core, Lists, Full
  <2>7. QueueNextJob(q_jobQueue, pr)
    BY <1>5 DEF pr
  <2> QED
    BY <1>1, <1>3, <2>2, <2>5, <2>6, <2>7, NextJobKeeps
<1> QED
  BY <1>4, <1>5 DEF QueueOnJobComplete

LEMMA WorkerCore ==
  ASSUME Core, NEW w \in Workers, QueueWorkerStep(w)
  PROVE  Core' /\ m_running' = m_running
<1>1. /\ WorkerStep(w) /\ notified' = notified \ {w}
      /\ UNCHANGED <<q_jobQueue, q_processing, q_state, lost>>
  BY DEF QueueWorkerStep
<1>2. IInv' /\ QueueAlone'
  BY <1>1, StepInv, WorkerPending DEF Core, Next
<1>3. m_running' = m_running
  BY <1>1 DEF WorkerStep, GetNextJobPop, PopJob, GetNextJobSleep, GetNextJobLeave,
    WaitBlock, WaitSignaled, WaitTimeout, OnJobProgressReturn, OnJobComplete, Notify,
    CallbackReturn, EraseItem, FreeJob, DeleteWorker, managerVars
<1>4. \A v \in Workers \ {w} : pc'[v] = pc[v]
  BY <1>1 DEF Core, IInv, TypeOK, WorkerStep, GetNextJobPop, PopJob, GetNextJobSleep,
    GetNextJobLeave, WaitBlock, WaitSignaled, WaitTimeout, OnJobProgressReturn,
    OnJobComplete, Notify, CallbackReturn, EraseItem, FreeJob, DeleteWorker, Goto
<1> QED
  BY <1>1, <1>2, <1>3, <1>4 DEF Core

LEMMA WorkerKeeps ==
  ASSUME QInv, NEW w \in Workers, QueueWorkerStep(w)
  PROVE  QInv'
<1>1. UNCHANGED <<q_jobQueue, q_processing, q_state, lost>>
  BY DEF QueueWorkerStep
<1>2. Core' /\ Covered' /\ m_running' = m_running
  BY <1>1, WorkerCore, WorkerPending DEF QInv, Covered
<1> QED
  BY <1>1, <1>2 DEF QInv

LEMMA QueueStep == QInv /\ [Working]_allVars => QInv'
<1> SUFFICES ASSUME QInv, [Working]_allVars PROVE QInv'
  OBVIOUS
<1>1. TypeOK
  BY DEF QInv, Core, IInv
<1>3. ASSUME NEW j \in Jobs, QueueAddJob(j) PROVE QInv'
  BY <1>3, AddKeeps
<1>4. ASSUME NEW w \in Workers, QueueOnJobComplete(w) PROVE QInv'
  BY <1>4, CompleteKeeps
<1>5. ASSUME NEW w \in Workers, QueueWorkerStep(w) PROVE QInv'
  BY <1>5, WorkerKeeps
<1>6. CASE UNCHANGED allVars
  <2>1. IInv'
    BY <1>1, <1>6, StepType, QuietInv DEF allVars, vars, managerVars, QInv, Core
  <2>2. QueueAlone' /\ Covered'
    BY <1>6 DEF QInv, Core, allVars, queueVars, vars, managerVars, QueueAlone, Covered,
      Pending, Awaited, Queued, Tends, WillCallBack
  <2> QED
    BY <1>6, <2>1, <2>2 DEF QInv, Core, allVars, queueVars, vars, managerVars
<1> QED
  BY <1>3, <1>4, <1>5, <1>6 DEF Working

-----------------------------------------------------------------------------

(* The invariant of a queue in use: QInv, of its entries and the manager.  *)
LEMMA QueueInvariance == WorkingSpec => []QInv
<1> QED
  BY InitQueue, QueueStep, PTL DEF WorkingSpec

(* Two jobs of the queue that wait, are with the manager or run are never  *)
(* equal, whatever completes when: AddJob's two find() see all of them.    *)
THEOREM JobsStayUnique == WorkingSpec => []UniqueJobs
<1>1. QInv => UniqueJobs
  <2> SUFFICES ASSUME QInv,
                      NEW j \in Range(q_jobQueue) \cup Uncancelled,
                      NEW k \in Range(q_jobQueue) \cup Uncancelled, Same(j, k)
               PROVE  j = k
    BY DEF UniqueJobs
  <2>1. q_jobQueue \in Seq(Jobs) /\ Unlike(q_jobQueue, q_processing)
    BY DEF QInv, Core, Lists
  <2>2. \A x \in Range(q_jobQueue) : \E a \in 1..Len(q_jobQueue) : q_jobQueue[a] = x
    BY <2>1 DEF Range
  <2>3. \A x \in Uncancelled : \E a \in 1..Len(q_processing) : q_processing[a].job = x
    BY InFlightPending, PendingJobs DEF Uncancelled, QInv, Core, Covered, HasEntry
  <2> QED
    BY <2>1, <2>2, <2>3, SameSymmetric DEF Unlike
<1> QED
  BY <1>1, QueueInvariance, PTL

(* Jobs that all have entries are not more than the entries.               *)
LEMMA NoMoreThanEntries ==
  ASSUME NEW S, q_processing \in Seq(QueueEntry), Len(q_processing) <= m_jobsAtOnce,
         \A j \in S : HasEntry(j, q_processing)
  PROVE  Cardinality(S) <= m_jobsAtOnce
<1> DEFINE n == Len(q_processing)
           J == {q_processing[i].job : i \in 1..n}
<1>1. n \in Nat /\ n <= m_jobsAtOnce
  OBVIOUS
<1>2. S \subseteq J
  BY DEF HasEntry
<1>3. IsFiniteSet(1..n) /\ Cardinality(1..n) = n
  <2>1. n \in Int /\ n >= 0 /\ 1 \in Int
    BY <1>1
  <2> HIDE DEF n
  <2>2. IsFiniteSet(1..n) /\ Cardinality(1..n) = IF 1 > n THEN 0 ELSE n - 1 + 1
    BY <2>1, FS_Interval
  <2> QED
    BY <2>1, <2>2
<1>4. IsFiniteSet(J) /\ Cardinality(J) <= n
  <2> DEFINE f == [i \in 1..n |-> q_processing[i].job]
  <2>1. f \in Surjection(1..n, J)
    BY DEF Surjection
  <2> HIDE DEF f
  <2> QED
    BY <1>3, <2>1, FS_Surjection
<1>5. Cardinality(S) <= Cardinality(J) /\ Cardinality(S) \in Nat
  BY <1>2, <1>4, FS_Subset, FS_CardinalityType
<1>6. Cardinality(J) \in Nat
  BY <1>4, FS_CardinalityType
<1> QED
  BY <1>1, <1>4, <1>5, <1>6

-----------------------------------------------------------------------------
(* A queue whose jobs are cancelled, that is destroyed, and whose manager  *)
(* is shut down (QueueSpec).  Core is inductive as it stands.              *)

LEMMA Shorter ==
  ASSUME NEW jq, NEW pr, Lists(jq, pr)
  PROVE  /\ \A i \in 1..Len(jq) : Lists(RemoveAt(jq, i), pr)
         /\ Lists(<<>>, pr)
         /\ pr # <<>> =>
              /\ Lists(jq, Tail(pr)) /\ Len(Tail(pr)) = Len(pr) - 1
              /\ \A l \in 1..(Len(pr) - 1) : Tail(pr)[l] = pr[l + 1]
<1>1. jq \in Seq(Jobs) /\ Len(jq) \in Nat /\ pr \in Seq(QueueEntry) /\ Len(pr) \in Nat
  BY DEF Lists
<1>2. ASSUME NEW i \in 1..Len(jq) PROVE Lists(RemoveAt(jq, i), pr)
  <2> DEFINE r == RemoveAt(jq, i)
             f(k) == IF k < i THEN k ELSE k + 1
  <2>1. /\ r \in Seq(Jobs) /\ Len(r) = Len(jq) - 1
        /\ \A k \in 1..(Len(jq) - 1) : r[k] = IF k < i THEN jq[k] ELSE jq[k + 1]
    BY <1>1, RemoveAtProperties DEF Without
  <2> HIDE DEF r
  <2>2. \A k \in 1..Len(r) : f(k) \in 1..Len(jq) /\ r[k] = jq[f(k)]
    BY <1>1, <2>1
  <2>3. \A a, b \in 1..Len(r) : f(a) = f(b) => a = b
    BY <1>1, <2>1
  <2> HIDE DEF f
  <2>4. Unlike(r, pr)
    BY <2>2, <2>3 DEF Lists, Unlike
  <2> QED
    BY <1>1, <2>1, <2>4 DEF Lists, r
<1>3. Lists(<<>>, pr)
  BY <1>1 DEF Lists, Unlike
<1>4. ASSUME pr # <<>>
      PROVE  /\ Lists(jq, Tail(pr)) /\ Len(Tail(pr)) = Len(pr) - 1
             /\ \A l \in 1..(Len(pr) - 1) : Tail(pr)[l] = pr[l + 1]
  <2> DEFINE r == Tail(pr)
  <2>1. /\ r \in Seq(QueueEntry) /\ Len(r) = Len(pr) - 1
        /\ \A l \in 1..(Len(pr) - 1) : r[l] = pr[l + 1]
    BY <1>1, <1>4, HeadTailProperties
  <2> HIDE DEF r
  <2>2. \A l \in 1..Len(r) : l + 1 \in 1..Len(pr) /\ r[l] = pr[l + 1]
    BY <1>1, <2>1
  <2>3. Unlike(jq, r)
    <3>1. \A a, b \in 1..Len(r) : Same(r[a].job, r[b].job) => a + 1 = b + 1
      BY <2>2 DEF Lists, Unlike
    <3>2. \A a, b \in 1..Len(r) : a + 1 = b + 1 => a = b
      BY <1>1, <2>1
    <3>3. \A a \in 1..Len(jq), b \in 1..Len(r) : ~Same(jq[a], r[b].job)
      BY <2>2 DEF Lists, Unlike
    <3> QED
      BY <3>1, <3>2, <3>3 DEF Lists, Unlike
  <2> QED
    BY <1>1, <2>1, <2>3 DEF Lists, r
<1> QED
  BY <1>2, <1>3, <1>4

(* The id of an entry is one CancelJob may be called with.                 *)
LEMMA EntryId ==
  ASSUME Core, NEW i \in 1..Len(q_processing)
  PROVE  q_processing[i].job \in Jobs /\ q_processing[i].id \in 0..(IdRange - 1)
<1>1. q_processing[i] \in QueueEntry
  BY DEF Core, Lists
<1> QED
  BY <1>1 DEF QueueEntry

LEMMA CancelCore ==
  ASSUME Core, NEW id \in 0..(IdRange - 1), CancelId(id)
  PROVE  /\ IInv' /\ QueueAlone'
         /\ UNCHANGED <<m_running, pc, job, item>>
<1>1. CASE CancelJob(id)
  <2>1. IInv'
    BY <1>1, StepInv DEF Core, Next, Client
  <2>2. UNCHANGED <<m_running, pc, job, item>>
    BY <1>1 DEF CancelJob
  <2>3. \A k \in Jobs : work'[k].cb \in {work[k].cb, NULL}
    <3>1. CASE CancelQueued(id)
      BY <3>1 DEF CancelQueued, Delete, NoItem
    <3>2. CASE CancelProcessing(id)
      BY <3>2 DEF CancelProcessing, Core, IInv, TypeOK, CWorkItem
    <3> QED
      BY <1>1, <3>1, <3>2 DEF CancelJob
  <2>4. QueueAlone'
    BY <2>2, <2>3 DEF Core, QueueAlone
  <2> QED
    BY <2>1, <2>2, <2>4
<1>2. CASE UNCHANGED vars
  BY <1>2, StepInv DEF Core, QueueAlone, vars, managerVars
<1> QED
  BY <1>1, <1>2 DEF CancelId

LEMMA ShutdownCore ==
  ASSUME Core, Shutdown
  PROVE  /\ IInv' /\ QueueAlone' /\ ~m_running'
         /\ UNCHANGED <<pc, job, item>>
<1>1. IInv'
  BY StepInv DEF Core, Next
<1>2. UNCHANGED <<pc, job, item>>
  BY DEF Shutdown, CancelJobs, CancelJobsSet, CancelJobsCheck
<1>3. \A k \in Jobs : work'[k].cb \in {work[k].cb, NULL}
  BY DEF Shutdown, CancelJobs, CancelJobsSet, CancelJobsCheck, NoItem, Core, IInv, TypeOK,
    CWorkItem
<1>4. ~m_running'
  BY DEF Shutdown, CancelJobs, CancelJobsSet, CancelJobsCheck, managerVars, Core, IInv,
    ShutdownOrder
<1> QED
  BY <1>1, <1>2, <1>3, <1>4 DEF Core, QueueAlone

(* Handing out a job that OnJobComplete or AddJob made room for.           *)
LEMMA UseCore ==
  ASSUME Core,
         \/ \E j \in Jobs : QueueAddJob(j)
         \/ \E w \in Workers : QueueOnJobComplete(w)
  PROVE  Core'
<1>1. ASSUME NEW j \in Jobs, QueueAddJob(j) PROVE Core'
  <2> DEFINE jq == IF m_lifo THEN Append(q_jobQueue, j) ELSE <<j>> \o q_jobQueue
  <2>1. /\ QueueNextJob(jq, q_processing) /\ UNCHANGED <<q_state, notified>>
        /\ \A k \in Range(q_jobQueue) \cup {e.job : e \in Entries} : ~Same(k, j)
    BY <1>1 DEF QueueAddJob
  <2>2. /\ \A a \in 1..Len(q_jobQueue) : ~Same(q_jobQueue[a], j)
        /\ \A a \in 1..Len(q_processing) : ~Same(q_processing[a].job, j)
    BY <2>1, InRange DEF Core, Lists, Entries
  <2>3. Lists(jq, q_processing)
    BY <2>2, Enlist DEF Core
  <2> HIDE DEF jq
  <2> QED
    BY <2>1, <2>3, NextJobCore DEF Core
<1>2. ASSUME NEW w \in Workers, QueueOnJobComplete(w) PROVE Core'
  <2>1. notified' \subseteq {v \in Workers : pc[v] = "callback"} /\ UNCHANGED q_state
    BY <1>2 DEF QueueOnJobComplete, Core
  <2>2. CASE QueueNextJob(q_jobQueue, q_processing)
    BY <2>1, <2>2, NextJobCore DEF Core
  <2>3. ASSUME NEW i \in FindProcessing(job[w]),
               QueueNextJob(q_jobQueue, RemoveAt(q_processing, i))
        PROVE  Core'
    <3>1. i \in 1..Len(q_processing) /\ Len(q_processing) \in Nat /\ m_jobsAtOnce \in Nat
      BY DEF FindProcessing, Core, Lists
    <3>2. /\ Lists(q_jobQueue, RemoveAt(q_processing, i))
          /\ Len(RemoveAt(q_processing, i)) = Len(q_processing) - 1
      BY <3>1, Strike DEF Core, Struck
    <3>3. Len(RemoveAt(q_processing, i)) <= m_jobsAtOnce
      BY <3>1, <3>2 DEF Core
    <3> QED
      BY <2>1, <2>3, <3>2, <3>3, NextJobCore
  <2> QED
    BY <1>2, <2>2, <2>3 DEF QueueOnJobComplete
<1> QED
  BY <1>1, <1>2

LEMMA CancellingCore ==
  ASSUME Core, Cancelling
  PROVE  Core'
<1>0. /\ q_processing \in Seq(QueueEntry) /\ Len(q_processing) \in Nat
      /\ q_jobQueue \in Seq(Jobs) /\ m_jobsAtOnce \in Nat /\ Lists(q_jobQueue, q_processing)
  BY DEF Core, Lists
<1>1. ASSUME NEW j \in Jobs, QueueCancelJob(j) PROVE Core'
  <2>1. UNCHANGED <<q_state, notified, lost>>
    BY <1>1 DEF QueueCancelJob
  <2>2. ASSUME NEW i \in FindProcessing(j), CancelId(q_processing[i].id),
               q_processing' = RemoveAt(q_processing, i), UNCHANGED q_jobQueue
        PROVE  Core'
    <3>1. i \in 1..Len(q_processing)
      BY <1>0 DEF FindProcessing
    <3>2. IInv' /\ QueueAlone' /\ UNCHANGED pc
      BY <2>2, <3>1, EntryId, CancelCore
    <3>3. Lists(q_jobQueue', q_processing') /\ Len(q_processing') <= m_jobsAtOnce
      BY <1>0, <2>2, <3>1, Strike DEF Core, Struck
    <3> QED
      BY <2>1, <3>2, <3>3 DEF Core
  <2>3. ASSUME NEW i \in FindQueued(j), q_jobQueue' = RemoveAt(q_jobQueue, i),
               UNCHANGED <<vars, q_processing>>
        PROVE  Core'
    <3>1. i \in 1..Len(q_jobQueue)
      BY <1>0 DEF FindQueued
    <3>2. Lists(q_jobQueue', q_processing')
      BY <1>0, <2>3, <3>1, Shorter
    <3>3. IInv' /\ QueueAlone'
      BY <2>3, StepInv DEF Core, QueueAlone, vars, managerVars
    <3> QED
      BY <2>1, <2>3, <3>2, <3>3 DEF Core, vars, managerVars
  <2> QED
    BY <1>1, <2>2, <2>3 DEF QueueCancelJob
<1>2. CASE \E how \in {"cancelling", "destroying"} : QueueCancelJobs(how)
  <2>1. /\ q_state' \in {"cancelling", "destroying"}
        /\ UNCHANGED <<vars, q_jobQueue, q_processing, notified, lost>>
    BY <1>2 DEF QueueCancelJobs
  <2>2. IInv' /\ QueueAlone'
    BY <2>1, StepInv DEF Core, QueueAlone, vars, managerVars
  <2> QED
    BY <2>1, <2>2 DEF Core, vars, managerVars
<1>3. CASE QueueCancelJobsNext
  <2>1. /\ q_processing # <<>> /\ CancelId(q_processing[1].id)
        /\ q_processing' = Tail(q_processing)
        /\ UNCHANGED <<q_jobQueue, q_state, notified, lost>>
    BY <1>0, <1>3, HeadTailProperties DEF QueueCancelJobsNext
  <2>2. 1 \in 1..Len(q_processing)
    BY <1>0, <2>1, EmptySeq
  <2>3. IInv' /\ QueueAlone' /\ UNCHANGED pc
    BY <2>1, <2>2, EntryId, CancelCore
  <2>4. Lists(q_jobQueue', q_processing') /\ Len(q_processing') <= m_jobsAtOnce
    BY <1>0, <2>1, Shorter DEF Core
  <2> QED
    BY <2>1, <2>3, <2>4 DEF Core
<1>4. CASE QueueCancelJobsEnd
  <2>1. /\ q_jobQueue' = <<>> /\ q_state' \in {"destroyed", "open"}
        /\ UNCHANGED <<vars, q_processing, notified, lost>>
    BY <1>4 DEF QueueCancelJobsEnd
  <2>2. Lists(q_jobQueue', q_processing')
    BY <1>0, <2>1, Shorter
  <2>3. IInv' /\ QueueAlone'
    BY <2>1, StepInv DEF Core, QueueAlone, vars, managerVars
  <2> QED
    BY <2>1, <2>2, <2>3 DEF Core, vars, managerVars
<1> QED
  BY <1>1, <1>2, <1>3, <1>4 DEF Cancelling

LEMMA CoreStep ==
  Core /\ [Working \/ Cancelling \/ ManagerShutdown]_allVars => Core'
<1> SUFFICES ASSUME Core, [Working \/ Cancelling \/ ManagerShutdown]_allVars PROVE Core'
  OBVIOUS
<1>1. CASE Working
  BY <1>1, UseCore, WorkerCore DEF Working
<1>2. CASE Cancelling
  BY <1>2, CancellingCore
<1>3. CASE ManagerShutdown
  <2>1. Shutdown /\ UNCHANGED queueVars
    BY <1>3 DEF ManagerShutdown
  <2> QED
    BY <2>1, ShutdownCore DEF Core, queueVars
<1>4. CASE UNCHANGED allVars
  <2>1. IInv' /\ QueueAlone'
    BY <1>4, StepInv DEF Core, QueueAlone, allVars, vars, managerVars
  <2> QED
    BY <1>4, <2>1 DEF Core, allVars, queueVars, vars, managerVars
<1> QED
  BY <1>1, <1>2, <1>3, <1>4

LEMMA CoreHolds == QueueSpec => []Core
<1>1. QueueInit => Core
  BY InitQueue DEF QInv
<1> QED
  BY <1>1, CoreStep, PTL DEF QueueSpec

(* The queue never has more entries than m_jobsAtOnce, and its entries are *)
(* jobs under ids the manager can have given (JobManager.h:150-156), also  *)
(* when jobs are cancelled, the queue is destroyed or the manager is shut  *)
(* down.                                                                   *)
THEOREM QueueTypeCorrect == QueueSpec => []QueueTypeOK
<1>1. Core => QueueTypeOK
  BY DEF Core, IInv, Lists, QueueEntry, QueueTypeOK
<1> QED
  BY <1>1, CoreHolds, PTL

(* A queue is a client of the manager like any other: whatever it does to  *)
(* the manager, from its callbacks too, is a step of CJobManager, its      *)
(* threads or a client.  So all that JobManager and its proofs say of the  *)
(* manager holds below a queue.                                            *)
THEOREM QueueIsClient ==
  QueueSpec => Spec
<1>1. ASSUME Core, NEW jq, NEW pr, Lists(jq, pr), QueueNextJob(jq, pr)
      PROVE  [Next]_vars
  <2>1. CASE UNCHANGED vars
    BY <2>1
  <2>2. CASE jq # <<>> /\ AddJob(Last(jq), queue, m_priority)
    <3>1. jq \in Seq(Jobs) /\ Len(jq) \in Nat /\ Len(jq) # 0
      BY <1>1, <2>2, EmptySeq DEF Lists
    <3>2. jq[Len(jq)] \in Jobs
      BY <3>1
    <3>3. Last(jq) \in Jobs
      BY <3>2 DEF Last
    <3> QED
      BY <2>2, <3>3 DEF Next, Client
  <2> QED
    BY <1>1, <2>1, <2>2 DEF QueueNextJob
<1>2. ASSUME NEW id \in 0..(IdRange - 1), CancelId(id) PROVE [Next]_vars
  BY <1>2 DEF CancelId, Next, Client
<1>3. Core /\ [Working \/ Cancelling \/ ManagerShutdown]_allVars => [Next]_vars
  <2> SUFFICES ASSUME Core, [Working \/ Cancelling \/ ManagerShutdown]_allVars
               PROVE  [Next]_vars
    OBVIOUS
  <2>1. /\ Lists(q_jobQueue, q_processing) /\ q_processing \in Seq(QueueEntry)
        /\ Len(q_processing) \in Nat
    BY DEF Core, Lists
  <2>2. ASSUME NEW j \in Jobs, QueueAddJob(j) PROVE [Next]_vars
    <3> DEFINE jq == IF m_lifo THEN Append(q_jobQueue, j) ELSE <<j>> \o q_jobQueue
    <3>1. /\ QueueNextJob(jq, q_processing)
          /\ \A k \in Range(q_jobQueue) \cup {e.job : e \in Entries} : ~Same(k, j)
      BY <2>2 DEF QueueAddJob
    <3>2. /\ \A a \in 1..Len(q_jobQueue) : ~Same(q_jobQueue[a], j)
          /\ \A a \in 1..Len(q_processing) : ~Same(q_processing[a].job, j)
      BY <3>1, InRange DEF Core, Lists, Entries
    <3>3. Lists(jq, q_processing)
      BY <2>1, <3>2, Enlist
    <3> HIDE DEF jq
    <3> QED
      BY <1>1, <3>1, <3>3
  <2>3. ASSUME NEW w \in Workers, QueueOnJobComplete(w) PROVE [Next]_vars
    <3>1. CASE QueueNextJob(q_jobQueue, q_processing)
      BY <1>1, <2>1, <3>1
    <3>2. ASSUME NEW i \in FindProcessing(job[w]),
                 QueueNextJob(q_jobQueue, RemoveAt(q_processing, i))
          PROVE  [Next]_vars
      <4>1. i \in 1..Len(q_processing)
        BY <2>1 DEF FindProcessing
      <4>2. Lists(q_jobQueue, RemoveAt(q_processing, i))
        BY <2>1, <4>1, Strike
      <4> QED
        BY <1>1, <3>2, <4>2
    <3> QED
      BY <2>3, <3>1, <3>2 DEF QueueOnJobComplete
  <2>4. ASSUME NEW w \in Workers, QueueWorkerStep(w) PROVE [Next]_vars
    BY <2>4 DEF QueueWorkerStep, Next
  <2>5. ASSUME NEW j \in Jobs, QueueCancelJob(j) PROVE [Next]_vars
    <3>1. ASSUME NEW i \in FindProcessing(j), CancelId(q_processing[i].id)
          PROVE  [Next]_vars
      <4>1. i \in 1..Len(q_processing)
        BY <2>1 DEF FindProcessing
      <4> QED
        BY <1>2, <3>1, <4>1, EntryId
    <3> QED
      BY <2>5, <3>1 DEF QueueCancelJob
  <2>6. ASSUME QueueCancelJobsNext PROVE [Next]_vars
    <3>1. /\ q_processing # <<>> /\ CancelId(q_processing[1].id)
      BY <2>1, <2>6, HeadTailProperties DEF QueueCancelJobsNext
    <3>2. 1 \in 1..Len(q_processing)
      BY <2>1, <3>1, EmptySeq
    <3> QED
      BY <1>2, <3>1, <3>2, EntryId
  <2>7. CASE \/ QueueCancelJobsEnd \/ UNCHANGED allVars
             \/ \E how \in {"cancelling", "destroying"} : QueueCancelJobs(how)
    BY <2>7 DEF QueueCancelJobsEnd, QueueCancelJobs, allVars
  <2>8. CASE ManagerShutdown
    BY <2>8 DEF ManagerShutdown, Next
  <2> QED
    BY <2>2, <2>3, <2>4, <2>5, <2>6, <2>7, <2>8 DEF Working, Cancelling
<1> QED
  BY <1>3, CoreHolds, PTL DEF QueueSpec, QueueInit, Spec

-----------------------------------------------------------------------------
(* The pointers and ids of m_processing.                                   *)

(* Every job is equal to itself.  CJob::operator== alone says that it is   *)
(* equal to none (Job.h): OnJobComplete of such a job strikes no entry.    *)
Comparable == \A j \in Jobs : Key[j] # NULL

(* No two entries have the same id: CancelJob of one would take the other  *)
(* along.                                                                  *)
IdsApart == m_running => \A e, f \in Entries : e.id = f.id => e.job = f.job

Handed(e) == Pending(e.job) /\ e.id = work[e.job].id

AllHanded(pr) == \A i \in 1..Len(pr) : Handed(pr[i])

HandedInv == Core /\ (m_running => AllHanded(q_processing))

LEMMA EntriesAre ==
  ASSUME Core, NEW e
  PROVE  e \in Entries <=> \E i \in 1..Len(q_processing) : q_processing[i] = e
<1>1. DOMAIN q_processing = 1..Len(q_processing)
  BY DEF Core, Lists
<1> QED
  BY <1>1 DEF Entries

LEMMA RangeIs ==
  ASSUME NEW s \in Seq(Jobs), NEW x
  PROVE  x \in Range(s) <=> \E i \in 1..Len(s) : s[i] = x
BY DEF Range

LEMMA PendingAllocated ==
  ASSUME Core, NEW k, Pending(k)
  PROVE  k \in allocated
<1>1. k \in Jobs
  BY PendingJobs
<1>2. Tracked(k)
  <2>1. ASSUME NEW w \in Workers, Tends(w, k) PROVE k \in m_processing
    BY <2>1 DEF Core, IInv, OneWorkerPerJob, Running, Tends, WillCallBack
  <2> QED
    BY <2>1 DEF Pending, Awaited, Tracked
<1> QED
  BY <1>1, <1>2 DEF Core, IInv, AllocatedTracked

(* A job that is added disturbs no other.                                  *)
LEMMA AddHands ==
  ASSUME Core, NEW j \in Jobs, AddJob(j, queue, m_priority),
         NEW k, Pending(k), \A w \in notified' : w \in notified \/ job[w] # k
  PROVE  Pending(k)' /\ work'[k] = work[k]
<1>1. k \in Jobs /\ k # j
  BY PendingJobs, PendingAllocated DEF AddJob
<1>2. work'[k] = work[k] /\ job' = job /\ item' = item
  BY <1>1 DEF AddJob, Core, IInv, TypeOK
<1>3. ASSUME Awaited(k) PROVE Awaited(k)'
  <2>1. PICK p \in Priorities : k \in Queued(p)
    BY <1>3 DEF Awaited
  <2>2. /\ m_jobQueue[p] \in Seq(Jobs) /\ m_jobQueue[m_priority] \in Seq(Jobs)
        /\ m_jobQueue' = [m_jobQueue EXCEPT ![m_priority] = Append(@, j)]
        /\ m_jobQueue \in [Priorities -> Seq(Jobs)]
    BY DEF AddJob, Core, IInv, TypeOK
  <2>3. PICK i \in 1..Len(m_jobQueue[p]) : m_jobQueue[p][i] = k
    BY <2>1, <2>2, RangeIs DEF Queued
  <2>4. i \in 1..Len(m_jobQueue'[p]) /\ m_jobQueue'[p][i] = k /\ m_jobQueue'[p] \in Seq(Jobs)
    <3>1. CASE p = m_priority
      <4>1. m_jobQueue'[p] = Append(m_jobQueue[p], j)
        BY <2>2, <3>1
      <4> QED
        BY <2>2, <2>3, <4>1, AppendProperties
    <3>2. CASE p # m_priority
      BY <2>2, <2>3, <3>2
    <3> QED
      BY <3>1, <3>2
  <2> QED
    BY <1>2, <1>3, <2>4, RangeIs DEF Awaited, Queued
<1>4. ASSUME NEW w \in Workers, Tends(w, k) PROVE Tends(w, k)'
  <2>1. pc'[w] = pc[w]
    BY <1>4 DEF Core, IInv, TypeOK, AddJob, StartWorkers, Goto, Tends, WillCallBack
  <2> QED
    BY <1>2, <1>4, <2>1 DEF Tends, WillCallBack
<1> QED
  BY <1>2, <1>3, <1>4 DEF Pending

LEMMA NextJobHands ==
  ASSUME Core, NEW jq, NEW pr, QueueNextJob(jq, pr), Lists(jq, pr), m_running,
         AllHanded(pr),
         \A i \in 1..Len(pr), w \in notified' : w \in notified \/ job[w] # pr[i].job
  PROVE  AllHanded(q_processing)'
<1>1. CASE UNCHANGED <<vars, lost>> /\ q_processing' = pr
  <2>1. ASSUME NEW i \in 1..Len(pr) PROVE Handed(pr[i])'
    BY <1>1, <2>1 DEF AllHanded, Handed, Pending, Awaited, Queued, Tends, WillCallBack,
      vars, managerVars
  <2> QED
    BY <1>1, <2>1 DEF AllHanded
<1>2. CASE /\ jq # <<>>
           /\ AddJob(Last(jq), queue, m_priority)
           /\ q_processing' = Append(pr, [job |-> Last(jq), id |-> NextId])
  <2> DEFINE j == Last(jq)
             e == [job |-> j, id |-> NextId]
  <2>1. /\ j \in Jobs
        /\ Len(q_processing') = Len(pr) + 1
        /\ \A i \in 1..Len(pr) : q_processing'[i] = pr[i]
        /\ q_processing'[Len(pr) + 1] = e
    BY <1>2, HandOut, NextIdType DEF Core, IInv
  <2>2. Len(pr) \in Nat
    BY DEF Lists
  <2>3. Pending(j)' /\ work'[j].id = NextId
    <3>1. work'[j] = [id |-> NextId, prio |-> m_priority, cb |-> queue]
      BY <1>2, <2>1 DEF AddJob, Core, IInv, TypeOK
    <3>2. m_jobQueue[m_priority] \in Seq(Jobs)
          /\ m_jobQueue'[m_priority] = Append(m_jobQueue[m_priority], j)
      BY <1>2, <2>1 DEF AddJob, Core, IInv, TypeOK
    <3>3. j \in Range(m_jobQueue'[m_priority])
      <4> HIDE DEF j
      <4>1. /\ m_jobQueue'[m_priority] \in Seq(Jobs)
            /\ Len(m_jobQueue'[m_priority]) = Len(m_jobQueue[m_priority]) + 1
            /\ m_jobQueue'[m_priority][Len(m_jobQueue[m_priority]) + 1] = j
        BY <2>1, <3>2, AppendProperties
      <4>2. Len(m_jobQueue[m_priority]) \in Nat
        BY <3>2
      <4>3. \E i \in 1..Len(m_jobQueue'[m_priority]) : m_jobQueue'[m_priority][i] = j
        BY <4>1, <4>2
      <4> QED
        BY <4>1, <4>3, RangeIs
    <3> QED
      BY <3>1, <3>3 DEF Pending, Awaited, Queued
  <2> HIDE DEF j
  <2>4. ASSUME NEW i \in 1..Len(pr) PROVE Handed(pr[i])'
    <3>1. AddJob(j, queue, m_priority)
      BY <1>2 DEF j
    <3> QED
      BY <2>1, <2>4, <3>1, AddHands DEF AllHanded, Handed
  <2> QED
    BY <2>1, <2>2, <2>3, <2>4 DEF AllHanded, Handed
<1> QED
  BY <1>1, <1>2 DEF QueueNextJob

(* Cancelling an id disturbs no job that has another one.                  *)
LEMMA CancelHands ==
  ASSUME Core, NEW id \in 0..(IdRange - 1), CancelId(id), UNCHANGED notified,
         NEW k, Pending(k), work[k].id # id
  PROVE  Pending(k)' /\ work'[k] = work[k]
<1>1. k \in Jobs /\ UNCHANGED <<pc, job, item>>
  BY PendingJobs, CancelCore
<1>2. ASSUME work'[k] = work[k], \A p \in Priorities : k \in Queued(p) => k \in Queued(p)'
      PROVE  Pending(k)'
  BY <1>1, <1>2 DEF Pending, Awaited, Tends, WillCallBack
<1>3. CASE CancelQueued(id)
  <2>1. PICK p \in Priorities : \E i \in WithId(p, id) :
          /\ m_jobQueue' = [m_jobQueue EXCEPT ![p] = RemoveAt(@, i)]
          /\ Delete({m_jobQueue[p][i]})
    BY <1>3 DEF CancelQueued
  <2>2. PICK i \in WithId(p, id) :
          /\ m_jobQueue' = [m_jobQueue EXCEPT ![p] = RemoveAt(@, i)]
          /\ Delete({m_jobQueue[p][i]})
    BY <2>1
  <2>3. /\ m_jobQueue \in [Priorities -> Seq(Jobs)] /\ m_jobQueue[p] \in Seq(Jobs)
        /\ i \in 1..Len(m_jobQueue[p]) /\ work[m_jobQueue[p][i]].id = id
    BY DEF WithId, Core, IInv, TypeOK
  <2>4. k # m_jobQueue[p][i] /\ work'[k] = work[k]
    BY <1>1, <2>2, <2>3 DEF Delete
  <2>5. ASSUME NEW q \in Priorities, k \in Queued(q) PROVE k \in Queued(q)'
    <3>1. CASE q # p
      BY <2>2, <2>3, <2>5, <3>1 DEF Queued
    <3>2. CASE q = p
      <4>1. PICK n \in 1..Len(m_jobQueue[p]) : m_jobQueue[p][n] = k
        BY <2>3, <2>5, <3>2, RangeIs DEF Queued
      <4>2. n # i
        BY <2>4, <4>1
      <4>3. /\ RemoveAt(m_jobQueue[p], i) \in Seq(Jobs)
            /\ Len(RemoveAt(m_jobQueue[p], i)) = Len(m_jobQueue[p]) - 1
            /\ \A l \in 1..(Len(m_jobQueue[p]) - 1) :
                 RemoveAt(m_jobQueue[p], i)[l] =
                   IF l < i THEN m_jobQueue[p][l] ELSE m_jobQueue[p][l + 1]
        BY <2>3, RemoveAtProperties DEF Without
      <4>4. \E l \in 1..Len(RemoveAt(m_jobQueue[p], i)) : RemoveAt(m_jobQueue[p], i)[l] = k
        <5>1. CASE n < i
          <6>1. n \in 1..(Len(m_jobQueue[p]) - 1)
            BY <2>3, <4>1, <5>1
          <6> QED
            BY <4>1, <4>3, <5>1, <6>1
        <5>2. CASE n > i
          <6>1. n - 1 \in 1..(Len(m_jobQueue[p]) - 1) /\ ~(n - 1 < i) /\ (n - 1) + 1 = n
            BY <2>3, <4>1, <5>2
          <6> QED
            BY <4>1, <4>3, <6>1
        <5> QED
          BY <2>3, <4>1, <4>2, <5>1, <5>2
      <4>5. m_jobQueue'[p] = RemoveAt(m_jobQueue[p], i)
        BY <2>2, <2>3
      <4> QED
        BY <3>2, <4>3, <4>4, <4>5, RangeIs DEF Queued
    <3> QED
      BY <3>1, <3>2
  <2> QED
    BY <1>2, <2>4, <2>5
<1>4. CASE CancelProcessing(id)
  <2>1. work'[k] = work[k] /\ m_jobQueue' = m_jobQueue
    BY <1>1, <1>4 DEF CancelProcessing, Core, IInv, TypeOK
  <2> QED
    BY <1>2, <2>1 DEF Queued
<1>5. CASE UNCHANGED vars
  BY <1>2, <1>5 DEF vars, managerVars, Queued
<1> QED
  BY <1>3, <1>4, <1>5 DEF CancelId, CancelJob

(* The manager keeps a job until it has called the queue back.             *)
LEMMA WorkerHands ==
  ASSUME Core, NEW w \in Workers, QueueWorkerStep(w), NEW k, Pending(k)
  PROVE  Pending(k)' /\ work'[k] = work[k]
<1> USE DEF Core, IInv, TypeOK
<1>0. k \in Jobs
  BY PendingJobs
<1>1. /\ WorkerStep(w) /\ notified' = notified \ {w}
      /\ pc[w] = "callback" => w \in notified
  BY DEF QueueWorkerStep
<1>2. ASSUME \A v \in Workers \ {w} : pc'[v] = pc[v] /\ job'[v] = job[v] /\ item'[v] = item[v],
             work'[k] = work[k],
             Awaited(k) => Pending(k)',
             Tends(w, k) => Pending(k)'
      PROVE  Pending(k)' /\ work'[k] = work[k]
  <2>1. ASSUME NEW v \in Workers \ {w}, Tends(v, k) PROVE Tends(v, k)'
    BY <1>1, <1>2, <2>1 DEF Tends, WillCallBack
  <2> QED
    BY <1>2, <2>1 DEF Pending
<1>3. ASSUME UNCHANGED <<m_jobQueue, work>>
      PROVE  work'[k] = work[k] /\ (Awaited(k) => Pending(k)')
  BY <1>3 DEF Awaited, Queued, Pending
<1>4. CASE GetNextJobPop(w)
  <2>1. PICK p \in Priorities :
          /\ m_jobQueue[p] # <<>>
          /\ m_jobQueue' = [m_jobQueue EXCEPT ![p] = Tail(@)]
          /\ job' = [job EXCEPT ![w] = Head(m_jobQueue[p])]
    BY <1>4 DEF GetNextJobPop, PopJob, CanPop
  <2>2. UNCHANGED <<work, item>> /\ pc' = [pc EXCEPT ![w] = "work"]
        /\ pc[w] \in {"get", "timedout"}
    BY <1>4 DEF GetNextJobPop, PopJob, Goto
  <2>3. Range(m_jobQueue[p]) = {Head(m_jobQueue[p])} \cup Range(Tail(m_jobQueue[p]))
    BY <2>1, PopFront DEF QueuesApart
  <2>4. ASSUME Awaited(k) PROVE Pending(k)'
    <3>1. CASE k = Head(m_jobQueue[p])
      BY <2>1, <2>2, <2>4, <3>1 DEF Awaited, Pending, Tends, WillCallBack
    <3>2. CASE k # Head(m_jobQueue[p])
      BY <2>1, <2>2, <2>3, <2>4, <3>2 DEF Awaited, Pending, Queued
    <3> QED
      BY <3>1, <3>2
  <2> QED
    BY <1>2, <2>1, <2>2, <2>4 DEF Tends, WillCallBack
<1>5. CASE \/ GetNextJobSleep(w) \/ GetNextJobLeave(w) \/ DeleteWorker(w)
           \/ WaitBlock(w) \/ WaitSignaled(w) \/ WaitTimeout(w)
           \/ CallbackReturn(w) \/ EraseItem(w)
  <2>1. /\ UNCHANGED <<m_jobQueue, work, job>>
        /\ pc[w] \in {"get", "timedout", "exit", "wait", "waiting", "callback", "erase"}
        /\ item' = item \/ item' = [item EXCEPT ![w] = NULL]
    BY <1>5 DEF GetNextJobSleep, GetNextJobLeave, DeleteWorker, WaitBlock,
                WaitSignaled, WaitTimeout, CallbackReturn, EraseItem, managerVars
  <2>2. \E to \in WorkerPcs : pc' = [pc EXCEPT ![w] = to]
    BY <1>5 DEF GetNextJobSleep, GetNextJobLeave, DeleteWorker, WaitBlock,
                WaitSignaled, WaitTimeout, CallbackReturn, EraseItem, Goto, WorkerPcs
  <2>3. ~Tends(w, k)
    BY <1>1, <2>1 DEF Tends, WillCallBack
  <2> QED
    BY <1>2, <1>3, <2>1, <2>2, <2>3
<1>6. CASE OnJobProgressReturn(w)
  <2>1. UNCHANGED <<m_jobQueue, work, job>> /\ pc[w] = "progress"
        /\ pc' = [pc EXCEPT ![w] = "work"] /\ item' = [item EXCEPT ![w] = NULL]
    BY <1>6 DEF OnJobProgressReturn, Goto, managerVars
  <2>2. Tends(w, k) => Tends(w, k)'
    BY <2>1 DEF Tends, WillCallBack
  <2> QED
    BY <1>2, <1>3, <2>1, <2>2 DEF Pending
<1>7. CASE OnJobComplete(w)
  <2>1. UNCHANGED <<m_jobQueue, work>> /\ pc[w] = "work" /\ job[w] \in m_processing
    BY <1>7 DEF OnJobComplete, managerVars, OneWorkerPerJob, Running
  <2>2. /\ item' = [item EXCEPT ![w] = work[job[w]].cb] /\ job' = job
        /\ pc' = [pc EXCEPT ![w] = "notify"]
    BY <1>7, <2>1 DEF OnJobComplete, Goto
  <2>3. Tends(w, k) => Tends(w, k)'
    BY <1>1, <2>1, <2>2 DEF Tends, WillCallBack
  <2> QED
    BY <1>2, <1>3, <2>1, <2>2, <2>3 DEF Pending
<1>8. CASE Notify(w)
  <2>1. UNCHANGED <<m_jobQueue, work, job, item>> /\ pc[w] = "notify"
        /\ pc' = [pc EXCEPT ![w] = IF item[w] # NULL THEN "callback" ELSE "erase"]
    BY <1>8 DEF Notify, Goto, managerVars
  <2>2. Tends(w, k) => Tends(w, k)'
    BY <1>1, <2>1, NullAssumption DEF Tends, WillCallBack
  <2> QED
    BY <1>2, <1>3, <2>1, <2>2 DEF Pending
<1>9. CASE FreeJob(w)
  <2>1. /\ UNCHANGED <<m_jobQueue, item>> /\ pc[w] = "free"
        /\ pc' = [pc EXCEPT ![w] = "get"] /\ job' = [job EXCEPT ![w] = NULL]
        /\ work' = [j \in Jobs |-> IF j \in {job[w]} THEN NoItem ELSE work[j]]
    BY <1>9 DEF FreeJob, Delete, Goto, managerVars
  <2>2. k # job[w]
    <3>1. ASSUME Awaited(k), k = job[w] PROVE FALSE
      BY <3>1 DEF Awaited, HeldNotQueued
    <3>2. ASSUME NEW v \in Workers, Tends(v, k), k = job[w] PROVE FALSE
      <4>1. v = w
        BY <1>0, <3>2, NullAssumption DEF Tends, OneWorkerPerJob
      <4> QED
        BY <2>1, <3>2, <4>1 DEF Tends, WillCallBack
    <3> QED
      BY <3>1, <3>2 DEF Pending
  <2>3. work'[k] = work[k] /\ (Awaited(k) => Pending(k)')
    BY <1>0, <2>1, <2>2 DEF Awaited, Pending, Queued
  <2> QED
    BY <1>2, <2>1, <2>2, <2>3 DEF Tends
<1> QED
  BY <1>1, <1>4, <1>5, <1>6, <1>7, <1>8, <1>9 DEF WorkerStep

(* find() on m_processing has at most one place to stop at.                *)
LEMMA FoundOnce ==
  ASSUME Core, Comparable,
         NEW i \in 1..Len(q_processing), NEW k \in 1..Len(q_processing), k # i
  PROVE  /\ i \in FindProcessing(q_processing[i].job)
         /\ q_processing[k].job # q_processing[i].job
         /\ \A j : Same(q_processing[i].job, j) => q_processing[k].job # j
<1>1. /\ q_processing \in Seq(QueueEntry) /\ DOMAIN q_processing = 1..Len(q_processing)
      /\ Len(q_processing) \in Nat
  BY DEF Core, Lists
<1>2. \A a, b \in 1..Len(q_processing) : Same(q_processing[a].job, q_processing[b].job) => a = b
  BY DEF Core, Lists, Unlike
<1>3. \A a \in 1..Len(q_processing) : Same(q_processing[a].job, q_processing[a].job)
  BY EntryId DEF Comparable, Same
<1>4. i \in FindProcessing(q_processing[i].job)
  <2>1. \A l \in 1..(i - 1) : l \in 1..Len(q_processing) /\ l # i
    BY <1>1
  <2> QED
    BY <1>1, <1>2, <1>3, <2>1 DEF FindProcessing
<1> QED
  BY <1>2, <1>3, <1>4, SameSymmetric

LEMMA CancelOthers ==
  ASSUME HandedInv, Comparable, IdsApart, m_running, UNCHANGED notified,
         NEW i \in 1..Len(q_processing), CancelId(q_processing[i].id),
         NEW k \in 1..Len(q_processing), k # i,
         NEW e, e = q_processing[k]
  PROVE  Handed(e)'
<1> DEFINE f == q_processing[i]
<1>1. e \in Entries /\ f \in Entries /\ f.id \in 0..(IdRange - 1) /\ e.job # f.job
  BY FoundOnce, EntriesAre, EntryId DEF HandedInv
<1>2. Handed(e) /\ CancelId(f.id)
  BY DEF HandedInv, AllHanded
<1> HIDE DEF f
<1>3. e.id # f.id
  BY <1>1 DEF IdsApart
<1>4. Pending(e.job)' /\ work'[e.job] = work[e.job]
  BY <1>1, <1>2, <1>3, CancelHands DEF HandedInv, Handed
<1> QED
  BY <1>2, <1>4 DEF Handed

LEMMA CompleteHands ==
  ASSUME HandedInv, Comparable, m_running, NEW w \in Workers, QueueOnJobComplete(w)
  PROVE  AllHanded(q_processing)'
<1>1. /\ notified' = notified \cup {w} /\ Len(q_processing) \in Nat
      /\ Core /\ AllHanded(q_processing)
  BY DEF QueueOnJobComplete, HandedInv, Core, Lists
<1>2. CASE FindProcessing(job[w]) = {} /\ QueueNextJob(q_jobQueue, q_processing)
  <2>1. \A i \in 1..Len(q_processing) : job[w] # q_processing[i].job
    <3> SUFFICES ASSUME NEW i \in 1..Len(q_processing), job[w] = q_processing[i].job
                 PROVE  FALSE
      OBVIOUS
    <3>1. i \in FindProcessing(q_processing[i].job)
      <4>1. CASE \E k \in 1..Len(q_processing) : k # i
        BY <1>1, <4>1, FoundOnce
      <4>2. CASE \A k \in 1..Len(q_processing) : k = i
        <5>1. /\ DOMAIN q_processing = 1..Len(q_processing)
              /\ \A l \in 1..(i - 1) : l \in 1..Len(q_processing) /\ l # i
          BY <1>1 DEF Core, Lists
        <5>2. Same(q_processing[i].job, q_processing[i].job)
          BY <1>1, EntryId DEF Comparable, Same
        <5> QED
          BY <4>2, <5>1, <5>2 DEF FindProcessing
      <4> QED
        BY <4>1, <4>2
    <3> QED
      BY <1>2, <3>1
  <2> QED
    BY <1>1, <1>2, <2>1, NextJobHands DEF Core
<1>3. ASSUME NEW i \in FindProcessing(job[w]),
             QueueNextJob(q_jobQueue, RemoveAt(q_processing, i))
      PROVE  AllHanded(q_processing)'
  <2> DEFINE pr == RemoveAt(q_processing, i)
  <2>1. i \in 1..Len(q_processing) /\ Same(q_processing[i].job, job[w])
    BY <1>1 DEF FindProcessing, Core, Lists
  <2>0. Lists(q_jobQueue, q_processing)
    BY <1>1 DEF Core
  <2>2. /\ Lists(q_jobQueue, pr) /\ Len(pr) = Len(q_processing) - 1
        /\ \A l \in 1..Len(pr) :
             \E k \in 1..Len(q_processing) : k # i /\ pr[l] = q_processing[k]
    <3>1. Lists(q_jobQueue, pr) /\ Struck(q_processing, i, pr)
      BY <2>0, <2>1, Strike
    <3> QED
      BY ONLY <3>1 DEF Struck
  <2>3. QueueNextJob(q_jobQueue, pr)
    BY <1>3
  <2> HIDE DEF pr
  <2>4. ASSUME NEW l \in 1..Len(pr) PROVE Handed(pr[l]) /\ job[w] # pr[l].job
    <3>1. PICK k \in 1..Len(q_processing) : k # i /\ pr[l] = q_processing[k]
      BY <2>2
    <3> QED
      BY <1>1, <2>1, <3>1, FoundOnce DEF AllHanded
  <2>5. AllHanded(pr)
    BY <2>4 DEF AllHanded
  <2> QED
    BY <1>1, <2>2, <2>3, <2>4, <2>5, NextJobHands
<1> QED
  BY <1>2, <1>3 DEF QueueOnJobComplete

(* A queue in use: no id is cancelled, so ids need not differ.             *)
LEMMA HandedWorking ==
  ASSUME Comparable, HandedInv, [Working]_allVars
  PROVE  m_running' => AllHanded(q_processing)'
<1>1. Core /\ Core' /\ (m_running => AllHanded(q_processing))
  BY CoreStep DEF HandedInv
<1>2. q_processing \in Seq(QueueEntry) /\ Len(q_processing) \in Nat
  BY <1>1 DEF Core, Lists
<1>3. ASSUME UNCHANGED <<vars, q_processing, notified>>
      PROVE  m_running' => AllHanded(q_processing)'
  BY <1>1, <1>3 DEF AllHanded, Handed, Pending, Awaited, Queued, Tends, WillCallBack,
    vars, managerVars
<1>4. ASSUME NEW j \in Jobs, QueueAddJob(j) PROVE m_running' => AllHanded(q_processing)'
  <2> DEFINE jq == IF m_lifo THEN Append(q_jobQueue, j) ELSE <<j>> \o q_jobQueue
  <2>1. /\ QueueNextJob(jq, q_processing) /\ UNCHANGED <<q_state, notified>>
        /\ \A k \in Range(q_jobQueue) \cup {e.job : e \in Entries} : ~Same(k, j)
    BY <1>4 DEF QueueAddJob
  <2>2. /\ \A a \in 1..Len(q_jobQueue) : ~Same(q_jobQueue[a], j)
        /\ \A a \in 1..Len(q_processing) : ~Same(q_processing[a].job, j)
    BY <1>1, <2>1, InRange DEF Core, Lists, Entries
  <2>3. Lists(jq, q_processing)
    BY <1>1, <2>2, Enlist DEF Core
  <2> HIDE DEF jq
  <2>4. m_running' = m_running
    BY <1>1, <2>1, <2>3, NextJobCore DEF Core
  <2> QED
    BY <1>1, <2>1, <2>3, <2>4, NextJobHands
<1>5. ASSUME NEW w \in Workers, QueueOnJobComplete(w)
      PROVE  m_running' => AllHanded(q_processing)'
  <2>1. m_running' => m_running
    BY <1>5 DEF QueueOnJobComplete, QueueNextJob, AddJob, vars, managerVars
  <2> QED
    BY <1>5, <2>1, CompleteHands
<1>6. ASSUME NEW w \in Workers, QueueWorkerStep(w)
      PROVE  m_running' => AllHanded(q_processing)'
  <2>1. m_running' = m_running /\ q_processing' = q_processing
    BY <1>1, <1>6, WorkerCore DEF QueueWorkerStep
  <2>2. \A k : Pending(k) => Pending(k)' /\ work'[k] = work[k]
    BY <1>1, <1>6, WorkerHands
  <2> QED
    BY <1>1, <2>1, <2>2 DEF AllHanded, Handed
<1>7. ASSUME UNCHANGED allVars
      PROVE  m_running' => AllHanded(q_processing)'
  <2>1. UNCHANGED <<vars, q_processing, notified>>
    BY <1>7 DEF allVars, queueVars
  <2> QED
    BY <1>3, <2>1
<1> QED
  BY <1>4, <1>5, <1>6, <1>7 DEF Working

LEMMA HandedStep ==
  ASSUME Comparable, HandedInv, IdsApart,
         [Working \/ Cancelling \/ ManagerShutdown]_allVars
  PROVE  HandedInv'
<1>1. Core /\ Core' /\ (m_running => AllHanded(q_processing))
  BY CoreStep DEF HandedInv
<1>2. q_processing \in Seq(QueueEntry) /\ Len(q_processing) \in Nat
  BY <1>1 DEF Core, Lists
<1>3. ASSUME UNCHANGED <<vars, q_processing, notified>>
      PROVE  m_running' => AllHanded(q_processing)'
  BY <1>1, <1>3 DEF AllHanded, Handed, Pending, Awaited, Queued, Tends, WillCallBack,
    vars, managerVars
<1>4. CASE [Working]_allVars
  BY <1>1, <1>4, HandedWorking DEF HandedInv
<1>7. ASSUME NEW j \in Jobs, QueueCancelJob(j)
      PROVE  m_running' => AllHanded(q_processing)'
  <2>1. CASE UNCHANGED <<vars, q_processing>>
    BY <1>3, <1>7, <2>1 DEF QueueCancelJob
  <2>2. ASSUME NEW i \in FindProcessing(j), CancelId(q_processing[i].id),
               q_processing' = RemoveAt(q_processing, i), m_running'
        PROVE  AllHanded(q_processing)'
    <3>1. i \in 1..Len(q_processing) /\ notified' = notified
      BY <1>2, <1>7 DEF FindProcessing, QueueCancelJob
    <3>2. m_running
      BY <1>1, <2>2, <3>1, EntryId, CancelCore
    <3>3. Lists(q_jobQueue, q_processing)
      BY <1>1 DEF Core
    <3>4. Struck(q_processing, i, q_processing')
      BY <2>2, <3>1, <3>3, Strike
    <3>5. \A l \in 1..Len(q_processing') :
            \E k \in 1..Len(q_processing) : k # i /\ q_processing'[l] = q_processing[k]
      BY ONLY <3>4 DEF Struck
    <3>6. \A k \in 1..Len(q_processing) : \A e :
            k # i /\ e = q_processing[k] => Handed(e)'
      BY <2>2, <3>1, <3>2, CancelOthers
    <3>7. \A l \in 1..Len(q_processing') : \A e : e = q_processing'[l] => Handed(e)'
      BY ONLY <3>5, <3>6
    <3> QED
      BY <3>7 DEF AllHanded, Handed
  <2> QED
    BY <1>7, <2>1, <2>2 DEF QueueCancelJob
<1>8. ASSUME QueueCancelJobsNext
      PROVE  m_running' => AllHanded(q_processing)'
  <2>1. /\ q_processing # <<>> /\ CancelId(q_processing[1].id)
        /\ q_processing' = Tail(q_processing) /\ notified' = notified
    BY <1>2, <1>8, HeadTailProperties DEF QueueCancelJobsNext
  <2>2. 1 \in 1..Len(q_processing)
    BY <1>2, <2>1, EmptySeq
  <2>3. m_running' = m_running
    BY <1>1, <2>1, <2>2, EntryId, CancelCore
  <2>4. /\ Len(q_processing') = Len(q_processing) - 1
        /\ \A l \in 1..(Len(q_processing) - 1) : q_processing'[l] = q_processing[l + 1]
    BY <1>1, <2>1, Shorter DEF Core
  <2>5. ASSUME m_running, NEW l \in 1..Len(q_processing'), NEW e, e = q_processing'[l]
        PROVE  Handed(e)'
    <3>1. /\ l + 1 \in 1..Len(q_processing) /\ l + 1 # 1
          /\ e = q_processing[l + 1]
      BY <1>2, <2>4, <2>5
    <3> QED
      BY <2>1, <2>2, <2>5, <3>1, CancelOthers
  <2> QED
    BY <2>3, <2>5 DEF AllHanded, Handed
<1>9. ASSUME \/ QueueCancelJobsEnd
             \/ \E how \in {"cancelling", "destroying"} : QueueCancelJobs(how)
      PROVE  m_running' => AllHanded(q_processing)'
  <2>1. UNCHANGED <<vars, q_processing, notified>>
    BY <1>9 DEF QueueCancelJobsEnd, QueueCancelJobs
  <2> QED
    BY <1>3, <2>1
<1>10. ASSUME ManagerShutdown
      PROVE  m_running' => AllHanded(q_processing)'
  <2>1. Shutdown
    BY <1>10 DEF ManagerShutdown
  <2> QED
    BY <1>1, <2>1, ShutdownCore
<1> QED
  BY <1>1, <1>4, <1>7, <1>8, <1>9, <1>10 DEF HandedInv, Cancelling

LEMMA HandedClean == HandedInv => NoDanglingEntry
<1> SUFFICES ASSUME HandedInv, m_running, NEW e \in Entries
             PROVE  e.job \in InFlight /\ e.id = work[e.job].id
  BY DEF NoDanglingEntry
<1>1. Handed(e)
  BY EntriesAre DEF HandedInv, AllHanded
<1> QED
  BY <1>1, InFlightPending DEF Handed

(* The entries of m_processing point to jobs the manager still has to call *)
(* back for, under the ids it gave them: the pointers that operator==      *)
(* dereferences in find() (JobManager.cpp:108, :118, :138) are to jobs no  *)
(* thread has deleted.  So for every pool and every order of additions,    *)
(* completions and cancellations, as long as the ids in m_processing       *)
(* differ: with an id that came round (JobManager.cpp:232) a CancelJob     *)
(* would delete the job of another entry.                                  *)
THEOREM EntriesNeverDangle ==
  ASSUME Comparable
  PROVE  QueueSpec /\ []IdsApart => []NoDanglingEntry
<1>1. QueueInit => HandedInv
  <2>1. QueueInit => Len(q_processing) = 0
    BY DEF QueueInit
  <2> QED
    BY <2>1, InitQueue DEF QInv, HandedInv, AllHanded
<1>2. /\ HandedInv /\ IdsApart
      /\ [Working \/ Cancelling \/ ManagerShutdown]_allVars
      => HandedInv'
  BY HandedStep
<1> QED
  BY <1>1, <1>2, HandedClean, PTL DEF QueueSpec

(* A queue that hands out one job at a time, as CJobQueue does by default  *)
(* (JobManager.h:84), has no two ids to confuse: its entry never dangles.  *)
THEOREM OneEntryNeverDangles ==
  ASSUME Comparable, m_jobsAtOnce = 1
  PROVE  QueueSpec => []NoDanglingEntry
<1>1. Core => IdsApart
  <2> SUFFICES ASSUME Core, NEW e \in Entries, NEW f \in Entries
               PROVE  e = f
    BY DEF IdsApart
  <2>1. Len(q_processing) \in Nat /\ Len(q_processing) <= 1
    BY DEF Core, Lists
  <2>2. PICK a \in 1..Len(q_processing) : q_processing[a] = e
    BY EntriesAre
  <2>3. PICK b \in 1..Len(q_processing) : q_processing[b] = f
    BY EntriesAre
  <2>4. a = b
    BY <2>1
  <2> QED
    BY <2>2, <2>3, <2>4
<1> QED
  BY <1>1, CoreHolds, EntriesNeverDangle, PTL

(* Before m_jobCounter comes round it gives each entry an id of its own.   *)
OwnIds(pr) ==
  /\ \A i \in 1..Len(pr) : pr[i].id \in 1..m_jobCounter
  /\ \A i, k \in 1..Len(pr) : pr[i].id = pr[k].id => i = k

OwnIdsInv == Core /\ (m_running => OwnIds(q_processing))

(* The lists that find() and CancelJobs leave: an increasing choice of the *)
(* entries.                                                                *)
LEMMA FewerIds ==
  ASSUME NEW pr \in Seq(QueueEntry), OwnIds(pr)
  PROVE  /\ \A i \in 1..Len(pr) : OwnIds(RemoveAt(pr, i))
         /\ pr # <<>> => OwnIds(Tail(pr))
<1>1. ASSUME NEW r, NEW i \in 1..Len(pr), Without(pr, i, r)
      PROVE  OwnIds(r)
  <2>0. /\ Len(r) = Len(pr) - 1 /\ Len(pr) \in Nat
        /\ \A k \in 1..Len(r) : r[k] = IF k < i THEN pr[k] ELSE pr[k + 1]
    BY <1>1 DEF Without
  <2> DEFINE f(k) == IF k < i THEN k ELSE k + 1
  <2>1. \A k \in 1..Len(r) : f(k) \in 1..Len(pr) /\ r[k] = pr[f(k)]
    BY <1>1, <2>0
  <2>2. \A k, l \in 1..Len(r) : f(k) = f(l) => k = l
    BY <1>1, <2>0
  <2> HIDE DEF f
  <2>3. \A k \in 1..Len(r) : r[k].id \in 1..m_jobCounter
    BY ONLY <2>1, OwnIds(pr) DEF OwnIds
  <2>4. \A k, l \in 1..Len(r) : r[k].id = r[l].id => k = l
    BY ONLY <2>1, <2>2, OwnIds(pr) DEF OwnIds
  <2> QED
    BY <2>3, <2>4 DEF OwnIds
<1>2. ASSUME NEW i \in 1..Len(pr) PROVE OwnIds(RemoveAt(pr, i))
  BY <1>1, <1>2, RemoveAtProperties
<1>3. ASSUME pr # <<>> PROVE OwnIds(Tail(pr))
  <2>1. /\ Tail(pr) \in Seq(QueueEntry) /\ Len(Tail(pr)) = Len(pr) - 1
        /\ \A k \in 1..Len(Tail(pr)) : Tail(pr)[k] = pr[k + 1]
    BY <1>3, HeadTailProperties
  <2>2. 1 \in 1..Len(pr) /\ \A k \in 1..(Len(pr) - 1) : ~(k < 1)
    BY <1>3, EmptySeq
  <2>3. Without(pr, 1, Tail(pr))
    BY <2>1, <2>2 DEF Without
  <2> QED
    BY <1>1, <2>2, <2>3
<1> QED
  BY <1>2, <1>3

LEMMA NextJobIds ==
  ASSUME Core, NEW jq, NEW pr, QueueNextJob(jq, pr), Lists(jq, pr), m_running,
         OwnIds(pr), m_jobCounter < IdRange - 1
  PROVE  OwnIds(q_processing)'
<1>1. CASE UNCHANGED <<vars, lost>> /\ q_processing' = pr
  BY <1>1 DEF OwnIds, vars, managerVars
<1>2. CASE /\ jq # <<>>
           /\ AddJob(Last(jq), queue, m_priority)
           /\ q_processing' = Append(pr, [job |-> Last(jq), id |-> NextId])
  <2> DEFINE e == [job |-> Last(jq), id |-> NextId]
  <2>1. /\ Len(q_processing') = Len(pr) + 1
        /\ \A i \in 1..Len(pr) : q_processing'[i] = pr[i]
        /\ q_processing'[Len(pr) + 1] = e
    BY <1>2, HandOut, NextIdType DEF Core, IInv
  <2>2. /\ Len(pr) \in Nat /\ m_jobCounter \in Nat
        /\ e.id = m_jobCounter + 1 /\ m_jobCounter' = m_jobCounter + 1
    BY <1>2, IdAssumption DEF Lists, Core, IInv, TypeOK, AddJob, NextId
  <2> HIDE DEF e
  <2>3. \A i \in 1..Len(q_processing') :
          \/ i \in 1..Len(pr) /\ q_processing'[i] = pr[i]
          \/ i = Len(pr) + 1 /\ q_processing'[i].id = m_jobCounter + 1
    BY ONLY <2>1, <2>2
  <2>4. \A i \in 1..Len(pr) : pr[i].id \in 1..m_jobCounter
    BY DEF OwnIds
  <2>5. \A i \in 1..Len(q_processing') : q_processing'[i].id \in 1..(m_jobCounter + 1)
    BY ONLY <2>2, <2>3, <2>4
  <2>6. \A i, k \in 1..Len(q_processing') :
          q_processing'[i].id = q_processing'[k].id => i = k
    BY ONLY <2>2, <2>3, <2>4, OwnIds(pr) DEF OwnIds
  <2> QED
    BY <2>2, <2>5, <2>6 DEF OwnIds
<1> QED
  BY <1>1, <1>2 DEF QueueNextJob

LEMMA CounterKept ==
  ASSUME \/ \E w \in Workers : WorkerStep(w)
         \/ \E id \in 0..(IdRange - 1) : CancelId(id)
         \/ Shutdown
  PROVE  m_jobCounter' = m_jobCounter
<1>1. ASSUME NEW w \in Workers, WorkerStep(w) PROVE m_jobCounter' = m_jobCounter
  BY <1>1 DEF WorkerStep, GetNextJobPop, PopJob, GetNextJobSleep, GetNextJobLeave,
    WaitBlock, WaitSignaled, WaitTimeout, OnJobProgressReturn, OnJobComplete, Notify,
    CallbackReturn, EraseItem, FreeJob, DeleteWorker, managerVars
<1>2. ASSUME NEW id \in 0..(IdRange - 1), CancelId(id) PROVE m_jobCounter' = m_jobCounter
  BY <1>2 DEF CancelId, CancelJob, CancelQueued, CancelProcessing, vars, managerVars
<1>3. ASSUME Shutdown PROVE m_jobCounter' = m_jobCounter
  BY <1>3 DEF Shutdown, CancelJobs, CancelJobsSet, CancelJobsCheck, managerVars
<1> QED
  BY <1>1, <1>2, <1>3

LEMMA OwnIdsStep ==
  ASSUME OwnIdsInv, m_jobCounter < IdRange - 1,
         [Working \/ Cancelling \/ ManagerShutdown]_allVars
  PROVE  OwnIdsInv'
<1> DEFINE Goal == m_running' => OwnIds(q_processing)'
<1>1. Core /\ Core' /\ (m_running => OwnIds(q_processing))
  BY CoreStep DEF OwnIdsInv
<1>2. /\ q_processing \in Seq(QueueEntry) /\ Len(q_processing) \in Nat
      /\ Lists(q_jobQueue, q_processing)
  BY <1>1 DEF Core, Lists
<1>3. ASSUME m_jobCounter' = m_jobCounter, m_running' => m_running,
             \/ q_processing' = q_processing
             \/ \E i \in 1..Len(q_processing) : q_processing' = RemoveAt(q_processing, i)
             \/ q_processing # <<>> /\ q_processing' = Tail(q_processing)
      PROVE  Goal
  <2>1. m_running => OwnIds(q_processing')
    BY <1>1, <1>2, <1>3, FewerIds
  <2> QED
    BY <1>3, <2>1 DEF OwnIds
<1>4. ASSUME NEW j \in Jobs, QueueAddJob(j) PROVE Goal
  <2> DEFINE jq == IF m_lifo THEN Append(q_jobQueue, j) ELSE <<j>> \o q_jobQueue
  <2>1. /\ QueueNextJob(jq, q_processing) /\ UNCHANGED <<q_state, notified>>
        /\ \A k \in Range(q_jobQueue) \cup {e.job : e \in Entries} : ~Same(k, j)
    BY <1>4 DEF QueueAddJob
  <2>2. /\ \A a \in 1..Len(q_jobQueue) : ~Same(q_jobQueue[a], j)
        /\ \A a \in 1..Len(q_processing) : ~Same(q_processing[a].job, j)
    BY <1>1, <2>1, InRange DEF Core, Lists, Entries
  <2>3. Lists(jq, q_processing)
    BY <1>2, <2>2, Enlist
  <2> HIDE DEF jq
  <2>4. m_running' = m_running
    BY <1>1, <2>1, <2>3, NextJobCore DEF Core
  <2> QED
    BY <1>1, <2>1, <2>3, <2>4, NextJobIds
<1>5. ASSUME NEW w \in Workers, QueueOnJobComplete(w) PROVE Goal
  <2>1. m_running' => m_running
    BY <1>5 DEF QueueOnJobComplete, QueueNextJob, AddJob, vars, managerVars
  <2>2. CASE QueueNextJob(q_jobQueue, q_processing)
    BY <1>1, <1>2, <2>1, <2>2, NextJobIds
  <2>3. ASSUME NEW i \in FindProcessing(job[w]),
               QueueNextJob(q_jobQueue, RemoveAt(q_processing, i))
        PROVE  Goal
    <3>1. i \in 1..Len(q_processing)
      BY <1>2 DEF FindProcessing
    <3>2. Lists(q_jobQueue, RemoveAt(q_processing, i))
      BY <1>2, <3>1, Strike
    <3>3. m_running => OwnIds(RemoveAt(q_processing, i))
      BY <1>1, <1>2, <3>1, FewerIds
    <3> QED
      BY <1>1, <2>1, <2>3, <3>2, <3>3, NextJobIds
  <2> QED
    BY <1>5, <2>2, <2>3 DEF QueueOnJobComplete
<1>6. ASSUME NEW w \in Workers, QueueWorkerStep(w) PROVE Goal
  <2>1. m_running' = m_running /\ q_processing' = q_processing
    BY <1>1, <1>6, WorkerCore DEF QueueWorkerStep
  <2>2. m_jobCounter' = m_jobCounter
    BY <1>6, CounterKept DEF QueueWorkerStep
  <2> QED
    BY <1>3, <2>1, <2>2
<1>7. ASSUME NEW j \in Jobs, QueueCancelJob(j) PROVE Goal
  <2>1. ASSUME NEW i \in FindProcessing(j), CancelId(q_processing[i].id),
               q_processing' = RemoveAt(q_processing, i)
        PROVE  Goal
    <3>1. i \in 1..Len(q_processing)
      BY <1>2 DEF FindProcessing
    <3>2. m_running' = m_running /\ m_jobCounter' = m_jobCounter
      BY <1>1, <2>1, <3>1, EntryId, CancelCore, CounterKept
    <3> QED
      BY <1>3, <2>1, <3>1, <3>2
  <2>2. CASE UNCHANGED <<vars, q_processing>>
    BY <1>3, <2>2 DEF vars, managerVars
  <2> QED
    BY <1>7, <2>1, <2>2 DEF QueueCancelJob
<1>8. ASSUME QueueCancelJobsNext PROVE Goal
  <2>1. /\ q_processing # <<>> /\ CancelId(q_processing[1].id)
        /\ q_processing' = Tail(q_processing)
    BY <1>2, <1>8, HeadTailProperties DEF QueueCancelJobsNext
  <2>2. 1 \in 1..Len(q_processing)
    BY <1>2, <2>1, EmptySeq
  <2>3. m_running' = m_running /\ m_jobCounter' = m_jobCounter
    BY <1>1, <2>1, <2>2, EntryId, CancelCore, CounterKept
  <2> QED
    BY <1>3, <2>1, <2>3
<1>9. ASSUME \/ QueueCancelJobsEnd \/ UNCHANGED allVars
             \/ \E how \in {"cancelling", "destroying"} : QueueCancelJobs(how)
      PROVE  Goal
  <2>1. UNCHANGED <<vars, q_processing>>
    BY <1>9 DEF QueueCancelJobsEnd, QueueCancelJobs, allVars, queueVars
  <2> QED
    BY <1>3, <2>1 DEF vars, managerVars
<1>10. ASSUME ManagerShutdown PROVE Goal
  BY <1>1, <1>10, ShutdownCore DEF ManagerShutdown
<1> QED
  BY <1>1, <1>4, <1>5, <1>6, <1>7, <1>8, <1>9, <1>10 DEF OwnIdsInv, Working, Cancelling

LEMMA HandedEarly ==
  ASSUME Comparable
  PROVE  QueueSpec /\ [](m_jobCounter < IdRange - 1) => []HandedInv
<1>1. QueueInit => HandedInv /\ OwnIdsInv
  <2>1. QueueInit => Len(q_processing) = 0
    BY DEF QueueInit
  <2> QED
    BY <2>1, InitQueue DEF QInv, HandedInv, AllHanded, OwnIdsInv, OwnIds
<1>2. /\ OwnIdsInv /\ m_jobCounter < IdRange - 1
      /\ [Working \/ Cancelling \/ ManagerShutdown]_allVars
      => OwnIdsInv'
  BY OwnIdsStep
<1>3. OwnIdsInv => IdsApart
  <2> SUFFICES ASSUME OwnIdsInv, m_running, NEW e \in Entries, NEW f \in Entries,
                      e.id = f.id
               PROVE  e = f
    BY DEF IdsApart
  <2>1. PICK a \in 1..Len(q_processing) : q_processing[a] = e
    BY EntriesAre DEF OwnIdsInv
  <2>2. PICK b \in 1..Len(q_processing) : q_processing[b] = f
    BY EntriesAre DEF OwnIdsInv
  <2>3. a = b
    BY <2>1, <2>2 DEF OwnIdsInv, OwnIds
  <2> QED
    BY <2>1, <2>2, <2>3
<1>4. /\ HandedInv /\ IdsApart
      /\ [Working \/ Cancelling \/ ManagerShutdown]_allVars
      => HandedInv'
  BY HandedStep
<1> QED
  BY <1>1, <1>2, <1>3, <1>4, PTL DEF QueueSpec

(* A queue of any width, until its manager has given all but one of its    *)
(* 2^32 - 1 ids: up to then CJobManager::AddJob (JobManager.cpp:232)       *)
(* counts up, no two entries have the same id and none dangles.            *)
THEOREM EarlyEntriesNeverDangle ==
  ASSUME Comparable
  PROVE  QueueSpec /\ [](m_jobCounter < IdRange - 1) => []NoDanglingEntry
BY HandedEarly, HandedClean, PTL

-----------------------------------------------------------------------------
(* The queue implements SerialQueue.  The abstract queue hands out sets of *)
(* jobs; what links them to the entries is that in a queue in use the jobs *)
(* the manager has and those that have entries are the same.               *)

JobsOf(pr) == {pr[i].job : i \in 1..Len(pr)}

SerialInv == QInv /\ AllHanded(q_processing)

LEMMA SameCardinality == \A S : Serial!Cardinality(S) = Cardinality(S)
BY DEF Serial!Cardinality, Cardinality

LEMMA SerialInvariance ==
  ASSUME Comparable
  PROVE  WorkingSpec => []SerialInv
<1>1. QueueInit => SerialInv
  <2>1. QueueInit => Len(q_processing) = 0
    BY DEF QueueInit
  <2> QED
    BY <2>1, InitQueue DEF SerialInv, AllHanded
<1>2. SerialInv /\ [Working]_allVars => SerialInv'
  <2> SUFFICES ASSUME SerialInv, [Working]_allVars PROVE SerialInv'
    OBVIOUS
  <2>1. QInv' /\ HandedInv
    BY QueueStep DEF SerialInv, HandedInv, QInv
  <2> QED
    BY <2>1, HandedWorking DEF SerialInv, QInv
<1> QED
  BY <1>1, <1>2, PTL DEF WorkingSpec

(* As many jobs as entries: no two entries have the same job.              *)
LEMMA JobsOfCount ==
  ASSUME Comparable, NEW jq, NEW pr, Lists(jq, pr)
  PROVE  Cardinality(JobsOf(pr)) = Len(pr)
<1> DEFINE n == Len(pr)
           J == JobsOf(pr)
           f == [i \in 1..n |-> pr[i].job]
<1>1. /\ pr \in Seq(QueueEntry) /\ n \in Nat
      /\ \A a, b \in 1..n : Same(pr[a].job, pr[b].job) => a = b
  BY DEF Lists, Unlike
<1>2. \A a \in 1..n : pr[a].job \in Jobs
  <2>1. ASSUME NEW a \in 1..n PROVE pr[a] \in QueueEntry
    BY <1>1
  <2> QED
    BY <2>1 DEF QueueEntry
<1>3. \A a, b \in 1..n : pr[a].job = pr[b].job => a = b
  <2> SUFFICES ASSUME NEW a \in 1..n, NEW b \in 1..n, pr[a].job = pr[b].job PROVE a = b
    OBVIOUS
  <2>1. Same(pr[a].job, pr[b].job)
    BY <1>2 DEF Comparable, Same
  <2> QED
    BY <1>1, <2>1
<1>4. IsFiniteSet(1..n) /\ Cardinality(1..n) = n
  <2>1. n \in Int /\ n >= 0 /\ 1 \in Int
    BY <1>1
  <2> HIDE DEF n
  <2>2. IsFiniteSet(1..n) /\ Cardinality(1..n) = IF 1 > n THEN 0 ELSE n - 1 + 1
    BY <2>1, FS_Interval
  <2> QED
    BY <2>1, <2>2
<1>5. f \in Surjection(1..n, J)
  BY DEF Surjection, JobsOf
<1>6. f \in Injection(1..n, J)
  BY <1>3, <1>5 DEF Injection, IsInjective, Surjection
<1> HIDE DEF f, J
<1>7. Cardinality(J) = Cardinality(1..n)
  BY <1>4, <1>5, <1>6, FS_Surjection
<1> QED
  BY <1>4, <1>7 DEF J

LEMMA InFlightEntries ==
  ASSUME SerialInv
  PROVE  InFlight = JobsOf(q_processing)
<1>1. ASSUME NEW j \in InFlight PROVE j \in JobsOf(q_processing)
  <2>1. Pending(j) /\ j \in Jobs
    BY InFlightPending, PendingJobs DEF SerialInv, QInv
  <2>2. HasEntry(j, q_processing)
    BY <2>1 DEF SerialInv, QInv, Covered
  <2> QED
    BY <2>2 DEF HasEntry, JobsOf
<1>2. ASSUME NEW i \in 1..Len(q_processing) PROVE q_processing[i].job \in InFlight
  BY InFlightPending DEF SerialInv, AllHanded, Handed
<1> QED
  BY <1>1, <1>2 DEF JobsOf

(* Jobs are counted in the manager, not in the list of the queue: while    *)
(* nothing is cancelled it has at most m_jobsAtOnce that it will call back *)
(* for, and as many as long as one waits.  Jobs that compare as never      *)
(* equal would leave their entries behind, and the manager with fewer.     *)
THEOREM JobsAtOnceKept ==
  ASSUME Comparable
  PROVE  WorkingSpec => []JobsAtOnce
<1>1. SerialInv => JobsAtOnce
  <2> SUFFICES ASSUME SerialInv PROVE JobsAtOnce
    OBVIOUS
  <2>1. Lists(q_jobQueue, q_processing)
    BY DEF SerialInv, QInv, Core
  <2>2. Cardinality(InFlight) = Len(q_processing)
    BY <2>1, InFlightEntries, JobsOfCount
  <2>3. Len(q_processing) <= m_jobsAtOnce
    BY DEF SerialInv, QInv, Core
  <2>4. q_jobQueue # <<>> => Len(q_processing) = m_jobsAtOnce
    BY DEF SerialInv, QInv, Full
  <2> QED
    BY <2>2, <2>3, <2>4 DEF JobsAtOnce
<1> QED
  BY <1>1, SerialInvariance, PTL

SerialState == SerialInv /\ InFlight = JobsOf(q_processing)

(* QueueNextJob does nothing, or hands the next job out. *)
Hands(jq, pr) ==
  \/ /\ jq = <<>> \/ Len(pr) >= m_jobsAtOnce
     /\ q_jobQueue' = jq /\ JobsOf(q_processing') = JobsOf(pr)
  \/ /\ jq # <<>> /\ Len(pr) < m_jobsAtOnce
     /\ q_jobQueue' = Front(jq)
     /\ JobsOf(q_processing') = JobsOf(pr) \cup {Last(jq)}

LEMMA NextJobServes ==
  ASSUME NEW jq, NEW pr, Lists(jq, pr), QueueNextJob(jq, pr), TypeOK, m_running
  PROVE  Hands(jq, pr)
<1>1. CASE /\ jq = <<>> \/ Len(pr) >= m_jobsAtOnce
           /\ q_jobQueue' = jq /\ q_processing' = pr
  BY <1>1 DEF Hands
<1>2. CASE /\ jq # <<>> /\ Len(pr) < m_jobsAtOnce
           /\ q_jobQueue' = Front(jq)
           /\ q_processing' = Append(pr, [job |-> Last(jq), id |-> NextId])
  <2> DEFINE e == [job |-> Last(jq), id |-> NextId]
             q == Append(pr, e)
  <2>1. /\ Len(q) = Len(pr) + 1
        /\ \A i \in 1..Len(pr) : q[i] = pr[i]
        /\ q[Len(pr) + 1] = e
    BY <1>2, HandOut, NextIdType
  <2>2. Len(pr) \in Nat /\ e.job = Last(jq)
    BY DEF Lists
  <2> HIDE DEF e, q
  <2>3. 1..Len(q) = 1..Len(pr) \cup {Len(pr) + 1}
    BY ONLY <2>1, <2>2
  <2>4. JobsOf(q) = JobsOf(pr) \cup {Last(jq)}
    BY ONLY <2>1, <2>2, <2>3 DEF JobsOf
  <2> QED
    BY <1>2, <2>4 DEF Hands, q, e
<1> QED
  BY <1>1, <1>2 DEF QueueNextJob

(* AddJob submits: a job that does not wait finds nobody waiting.          *)
LEMMA AddSubmits ==
  ASSUME Comparable, SerialState, SerialState', NEW j \in Jobs, QueueAddJob(j)
  PROVE  Serial!Submit(j)
<1> DEFINE jq == IF m_lifo THEN Append(q_jobQueue, j) ELSE <<j>> \o q_jobQueue
           J == JobsOf(q_processing)
<1>1. /\ QueueNextJob(jq, q_processing)
      /\ \A k \in Range(q_jobQueue) \cup {e.job : e \in Entries} : ~Same(k, j)
  BY DEF QueueAddJob
<1>2. /\ Lists(q_jobQueue, q_processing) /\ TypeOK /\ m_running
      /\ Full(q_jobQueue, q_processing)
      /\ q_jobQueue \in Seq(Jobs)
  BY DEF SerialState, SerialInv, QInv, Core, IInv, Lists
<1>3. /\ \A a \in 1..Len(q_jobQueue) : ~Same(q_jobQueue[a], j)
      /\ \A a \in 1..Len(q_processing) : ~Same(q_processing[a].job, j)
  BY <1>1, <1>2, InRange DEF Lists, Entries
<1>4. Lists(jq, q_processing) /\ Len(jq) = Len(q_jobQueue) + 1
  BY <1>2, <1>3, Enlist
<1>5. jq # <<>> /\ Len(q_jobQueue) \in Nat
  <2>1. Len(q_jobQueue) \in Nat
    BY <1>2
  <2> HIDE DEF jq
  <2>2. Len(jq) # 0
    BY ONLY <1>4, <2>1
  <2> QED
    BY <2>1, <2>2
<1>6. Hands(jq, q_processing)
  <2> HIDE DEF jq
  <2> QED
    BY <1>1, <1>2, <1>4, NextJobServes
<1>7. InFlight = J /\ InFlight' = JobsOf(q_processing')
  BY DEF SerialState, JobsOf
<1>8. Serial!Cardinality(InFlight) = Len(q_processing)
  BY <1>2, <1>7, JobsOfCount, SameCardinality
<1>9. \A k \in Serial!Range(q_jobQueue) \cup InFlight : ~Serial!Alike(k, j)
  <2>1. \A k \in J : ~Same(k, j)
    BY <1>3 DEF JobsOf
  <2>2. Serial!Range(q_jobQueue) = Range(q_jobQueue)
    BY DEF Serial!Range, Range
  <2> QED
    BY <1>1, <1>7, <2>1, <2>2 DEF Same, Serial!Alike
<1>10. CASE /\ Len(q_processing) >= m_jobsAtOnce
            /\ q_jobQueue' = jq /\ JobsOf(q_processing') = J
  <2>1. InFlight' = InFlight
    BY <1>7, <1>10
  <2> QED
    BY <1>8, <1>9, <1>10, <2>1 DEF Serial!Submit
<1>11. CASE /\ Len(q_processing) < m_jobsAtOnce
            /\ q_jobQueue' = Front(jq)
            /\ JobsOf(q_processing') = J \cup {Last(jq)}
  <2>1. q_jobQueue = <<>>
    BY <1>2, <1>11 DEF Full, Lists
  <2>2. jq = <<j>>
    BY <2>1
  <2>3. Last(jq) = j /\ Front(jq) = <<>>
    BY <2>2 DEF Last, Front
  <2>4. q_jobQueue' = q_jobQueue /\ InFlight' = InFlight \cup {j}
    BY <1>7, <1>11, <2>1, <2>3
  <2> QED
    BY <1>8, <1>9, <1>11, <2>4 DEF Serial!Submit
<1> HIDE DEF jq
<1> QED
  BY <1>5, <1>6, <1>10, <1>11 DEF Hands

(* OnJobComplete completes the job of the entry it erases and hands the    *)
(* next one out in the same step; a job that has none changes nothing.     *)
LEMMA CompleteCompletes ==
  ASSUME Comparable, SerialState, SerialState', NEW w \in Workers, QueueOnJobComplete(w)
  PROVE  (\E j \in Jobs : Serial!Complete(j)) \/ UNCHANGED Serial!vars
<1> DEFINE J == JobsOf(q_processing)
<1>1. /\ Lists(q_jobQueue, q_processing) /\ TypeOK /\ m_running /\ Core
      /\ Full(q_jobQueue, q_processing) /\ Len(q_processing) <= m_jobsAtOnce
      /\ m_jobsAtOnce \in Nat \ {0} /\ Len(q_processing) \in Nat
  BY DEF SerialState, SerialInv, QInv, Core, IInv, Lists
<1>2. InFlight = J /\ InFlight' = JobsOf(q_processing')
  BY DEF SerialState, JobsOf
<1>3. CASE QueueNextJob(q_jobQueue, q_processing)
  <2>1. Hands(q_jobQueue, q_processing)
    BY <1>1, <1>3, NextJobServes
  <2>2. q_jobQueue' = q_jobQueue /\ JobsOf(q_processing') = J
    BY <1>1, <2>1 DEF Hands, Full
  <2> QED
    BY <1>2, <2>2 DEF Serial!vars
<1>4. ASSUME NEW i \in FindProcessing(job[w]),
             QueueNextJob(q_jobQueue, RemoveAt(q_processing, i))
      PROVE  \E j \in Jobs : Serial!Complete(j)
  <2> DEFINE pr == RemoveAt(q_processing, i)
             j == q_processing[i].job
  <2>1. i \in 1..Len(q_processing)
    BY <1>1 DEF FindProcessing, Lists
  <2>2. j \in Jobs /\ j \in InFlight
    BY <1>1, <1>2, <2>1, EntryId DEF JobsOf
  <2>3. Lists(q_jobQueue, pr) /\ Struck(q_processing, i, pr)
    BY <1>1, <2>1, Strike
  <2>4. Hands(q_jobQueue, pr)
    BY <1>1, <1>4, <2>3, NextJobServes
  <2>5. \A k \in 1..Len(q_processing) : k # i => q_processing[k].job # j
    BY <1>1, <2>1, FoundOnce
  <2> HIDE DEF pr
  <2>6. JobsOf(pr) = J \ {j}
    <3>1. ASSUME NEW l \in 1..Len(pr) PROVE pr[l].job \in J \ {j}
      BY <2>3, <2>5 DEF Struck, JobsOf
    <3>2. ASSUME NEW k \in 1..Len(q_processing), q_processing[k].job # j
          PROVE  q_processing[k].job \in JobsOf(pr)
      <4>1. k # i
        BY <3>2
      <4>2. \E l \in 1..Len(pr) : pr[l] = q_processing[k]
        BY <2>3, <4>1 DEF Struck
      <4> QED
        BY <4>2 DEF JobsOf
    <3> QED
      BY <3>1, <3>2 DEF JobsOf
  <2>7. Len(pr) < m_jobsAtOnce
    <3>1. Len(pr) = Len(q_processing) - 1
      BY <2>3 DEF Struck
    <3> QED
      BY ONLY <1>1, <3>1
  <2> HIDE DEF j, J
  <2>8. CASE /\ q_jobQueue = <<>>
             /\ q_jobQueue' = q_jobQueue /\ JobsOf(q_processing') = JobsOf(pr)
    <3>1. InFlight' = InFlight \ {j}
      BY <1>2, <2>6, <2>8
    <3> QED
      BY <2>2, <2>8, <3>1 DEF Serial!Complete
  <2>9. CASE /\ q_jobQueue # <<>> /\ q_jobQueue' = Front(q_jobQueue)
             /\ JobsOf(q_processing') = JobsOf(pr) \cup {Last(q_jobQueue)}
    <3>1. InFlight' = (InFlight \ {j}) \cup {Last(q_jobQueue)}
      BY <1>2, <2>6, <2>9
    <3>2. /\ Serial!Last(q_jobQueue) = Last(q_jobQueue)
          /\ Serial!Front(q_jobQueue) = Front(q_jobQueue)
      BY DEF Serial!Last, Serial!Front, Last, Front
    <3> QED
      BY <2>2, <2>9, <3>1, <3>2 DEF Serial!Complete
  <2>10. Len(pr) \in Nat
    BY <2>3 DEF Lists
  <2> QED
    BY <1>1, <2>4, <2>7, <2>8, <2>9, <2>10 DEF Hands
<1> QED
  BY <1>3, <1>4 DEF QueueOnJobComplete

(* JobManager.h:41-49: while nothing is cancelled a CJobQueue is the       *)
(* SerialQueue, whatever its width and order and however many threads the  *)
(* manager has: jobs go to the manager in the order of the queue, no two   *)
(* alike, and every callback hands the next one out in the same step, so   *)
(* that none waits while the manager has fewer than m_jobsAtOnce.          *)
THEOREM QueueImplementsSerial ==
  ASSUME Comparable
  PROVE  WorkingSpec => ImplementsSerialQueue
<1>1. QueueInit => Serial!Init
  <2> SUFFICES ASSUME QueueInit PROVE Serial!Init
    OBVIOUS
  <2>1. q_jobQueue = <<>> /\ Len(q_processing) = 0 /\ QInv
    BY InitQueue DEF QueueInit
  <2>2. SerialInv
    BY <2>1 DEF SerialInv, AllHanded
  <2>3. InFlight = {}
    BY <2>1, <2>2, InFlightEntries DEF JobsOf
  <2> QED
    BY <2>1, <2>3 DEF Serial!Init
<1>2. SerialState /\ SerialState' /\ [Working]_allVars => [Serial!Next]_Serial!vars
  <2> SUFFICES ASSUME SerialState, SerialState', [Working]_allVars
               PROVE  Serial!Next \/ UNCHANGED Serial!vars
    OBVIOUS
  <2>1. ASSUME NEW j \in Jobs, QueueAddJob(j) PROVE Serial!Next
    BY <2>1, AddSubmits DEF Serial!Next
  <2>2. ASSUME NEW w \in Workers, QueueOnJobComplete(w)
        PROVE  Serial!Next \/ UNCHANGED Serial!vars
    BY <2>2, CompleteCompletes DEF Serial!Next
  <2>3. ASSUME UNCHANGED <<q_jobQueue, q_processing>>
        PROVE  UNCHANGED Serial!vars
    <3>1. InFlight' = InFlight
      BY <2>3 DEF SerialState, JobsOf
    <3> QED
      BY <2>3, <3>1 DEF Serial!vars
  <2>4. ASSUME NEW w \in Workers, QueueWorkerStep(w)
        PROVE  UNCHANGED Serial!vars
    BY <2>3, <2>4 DEF QueueWorkerStep
  <2>5. CASE UNCHANGED allVars
    BY <2>3, <2>5 DEF allVars, queueVars
  <2> QED
    BY <2>1, <2>2, <2>4, <2>5 DEF Working
<1>3. WorkingSpec => []SerialState
  <2>1. SerialInv => SerialState
    BY InFlightEntries DEF SerialState
  <2> QED
    BY <2>1, SerialInvariance, PTL
<1> QED
  BY <1>1, <1>2, <1>3, PTL DEF WorkingSpec, ImplementsSerialQueue, Serial!Spec

-----------------------------------------------------------------------------
(* A queue of jobs that are all different keeps to its width under         *)
(* cancellation too.                                                       *)

AllDifferent == \A j, k \in Jobs : Same(j, k) <=> j = k

(* With the manager or called back by it, and not cancelled.               *)
Live(j) == Pending(j) /\ work[j].cb = queue

NoneLive == \A j \in Jobs : ~Live(j)

LiveInv ==
  /\ m_running => \A j \in Jobs : Live(j) => HasEntry(j, q_processing)
  /\ ~m_running => NoneLive

LEMMA NextJobLive ==
  ASSUME Core, NEW jq, NEW pr, QueueNextJob(jq, pr), Lists(jq, pr),
         m_running, UNCHANGED q_state, Len(pr) <= m_jobsAtOnce,
         notified \subseteq notified',
         notified' \subseteq {w \in Workers : pc[w] = "callback"},
         \A k \in Jobs : Live(k) =>
           \/ HasEntry(k, pr)
           \/ \E w \in notified' : job[w] = k
  PROVE  \A k \in Jobs : Live(k)' => HasEntry(k, q_processing')
<1> USE DEF Core
<1>0. pr \in Seq(QueueEntry) /\ Len(pr) \in Nat /\ IInv'
  <2>1. IInv'
    BY NextJobCore
  <2> QED
    BY <2>1 DEF Lists
<1> SUFFICES ASSUME NEW k \in Jobs, Live(k)' PROVE HasEntry(k, q_processing')
  OBVIOUS
<1>1. ASSUME pc' \in [Workers -> WorkerPcs], job' = job, item' = item,
             \A w \in Workers : pc[w] = "callback" => pc'[w] = "callback"
      PROVE  ~\E w \in notified' : job[w] = k
  <2> SUFFICES ASSUME NEW w \in notified', job[w] = k PROVE FALSE
    OBVIOUS
  <2>1. w \in Workers /\ pc[w] = "callback" /\ pc'[w] = "callback"
    BY <1>1
  <2>2. ~Awaited(k)'
    BY <1>0, <1>1 DEF IInv, HeldNotQueued, Awaited
  <2>3. PICK v \in Workers : Tends(v, k)'
    BY <2>2 DEF Live, Pending
  <2>4. v = w
    BY <1>0, <1>1, <2>1, <2>3, NullAssumption DEF IInv, OneWorkerPerJob, Tends
  <2> QED
    BY <2>1, <2>3, <2>4 DEF Tends, WillCallBack
<1>2. CASE UNCHANGED <<vars, lost>> /\ q_processing' = pr
  <2>1. pc' = pc /\ job' = job /\ item' = item /\ pc' \in [Workers -> WorkerPcs]
    BY <1>2 DEF vars, managerVars, IInv, TypeOK
  <2>2. Live(k)
    BY <1>2 DEF vars, managerVars, Live, Pending, Awaited, Queued, Tends, WillCallBack
  <2> QED
    BY <1>1, <1>2, <2>1, <2>2
<1>3. CASE /\ jq # <<>>
           /\ AddJob(Last(jq), queue, m_priority)
           /\ q_processing' = Append(pr, [job |-> Last(jq), id |-> NextId])
  <2>1. /\ Last(jq) \in Jobs
        /\ Len(q_processing') = Len(pr) + 1
        /\ \A i \in 1..Len(pr) : q_processing'[i] = pr[i]
        /\ q_processing'[Len(pr) + 1].job = Last(jq)
    BY <1>3, HandOut, NextIdType DEF IInv
  <2>2. CASE k = Last(jq)
    BY <1>0, <2>1, <2>2 DEF HasEntry
  <2>3. CASE k # Last(jq)
    <3>1. Pending(k) /\ work'[k] = work[k]
      BY <1>3, <2>1, <2>3, AddedPending DEF Live, AddJob, IInv, TypeOK
    <3>2. /\ pc' \in [Workers -> WorkerPcs] /\ job' = job /\ item' = item
          /\ \A w \in Workers : pc[w] = "callback" => pc'[w] = "callback"
      BY <1>0, <1>3 DEF IInv, TypeOK, AddJob, StartWorkers, Goto
    <3>3. HasEntry(k, pr)
      BY <1>1, <3>1, <3>2 DEF Live
    <3> QED
      BY <1>0, <2>1, <3>3 DEF HasEntry
  <2> QED
    BY <2>2, <2>3
<1> QED
  BY <1>2, <1>3 DEF QueueNextJob

LEMMA WorkerLive ==
  ASSUME Core, NEW w \in Workers, QueueWorkerStep(w), NEW k \in Jobs, Live(k)'
  PROVE  Live(k)
<1>1. Pending(k)
  BY WorkerPending DEF Live
<1>2. work'[k] = work[k] \/ work'[k] = NoItem
  <2>1. WorkerStep(w)
    BY DEF QueueWorkerStep
  <2>2. CASE FreeJob(w)
    BY <2>2 DEF FreeJob, Delete
  <2>3. CASE ~FreeJob(w)
    BY <2>1, <2>3 DEF WorkerStep, GetNextJobPop, PopJob, GetNextJobSleep,
      GetNextJobLeave, WaitBlock, WaitSignaled, WaitTimeout, OnJobProgressReturn,
      OnJobComplete, Notify, CallbackReturn, EraseItem, DeleteWorker
  <2> QED
    BY <2>2, <2>3
<1> QED
  BY <1>1, <1>2, NullAssumption DEF Live, NoItem

(* Cancelling an id ends the wait for the callback of the job that has it, *)
(* and starts none.                                                        *)
LEMMA CancelLive ==
  ASSUME Core, NEW id \in 0..(IdRange - 1), CancelId(id), UNCHANGED notified,
         NEW k \in Jobs, Live(k)'
  PROVE  /\ Live(k)
         /\ IdsUnique => ~(Pending(k) /\ work[k].id = id)
<1> USE DEF Core
<1>0. UNCHANGED <<pc, job, item>>
  BY CancelCore
<1>1. ASSUME work'[k] = work[k], \A p \in Priorities : k \in Queued(p)' => k \in Queued(p)
      PROVE  Live(k)
  BY <1>0, <1>1 DEF Live, Pending, Awaited, Tends, WillCallBack
<1>2. \A x \in Jobs : Tracked(x) => x \in allocated
  BY DEF IInv, AllocatedTracked
<1>3. CASE CancelQueued(id)
  <2>1. PICK p \in Priorities : \E i \in WithId(p, id) :
          /\ m_jobQueue' = [m_jobQueue EXCEPT ![p] = RemoveAt(@, i)]
          /\ Delete({m_jobQueue[p][i]})
    BY <1>3 DEF CancelQueued
  <2>2. PICK i \in WithId(p, id) :
          /\ m_jobQueue' = [m_jobQueue EXCEPT ![p] = RemoveAt(@, i)]
          /\ Delete({m_jobQueue[p][i]})
    BY <2>1
  <2> DEFINE x == m_jobQueue[p][i]
  <2>3. /\ m_jobQueue \in [Priorities -> Seq(Jobs)] /\ m_jobQueue[p] \in Seq(Jobs)
        /\ i \in 1..Len(m_jobQueue[p]) /\ work[x].id = id
    BY DEF WithId, IInv, TypeOK
  <2>4. x \in Jobs /\ x \in Queued(p)
    BY <2>3, InRange DEF Queued
  <2>5. k # x /\ work'[k] = work[k]
    BY <2>2, NullAssumption DEF Delete, Live, NoItem
  <2>6. \A q \in Priorities : k \in Queued(q)' => k \in Queued(q)
    <3>1. Range(RemoveAt(m_jobQueue[p], i)) \subseteq Range(m_jobQueue[p])
      BY <2>3, EraseAt DEF IInv, QueuesApart
    <3> QED
      BY <2>2, <2>3, <3>1 DEF Queued
  <2>7. ASSUME IdsUnique, Pending(k), work[k].id = id PROVE FALSE
    <3>1. k \in allocated /\ x \in allocated
      BY <1>2, <2>4, <2>7, PendingAllocated DEF Tracked
    <3> QED
      BY <2>3, <2>5, <2>7, <3>1 DEF IdsUnique
  <2> QED
    BY <1>1, <2>5, <2>6, <2>7
<1>4. CASE CancelProcessing(id)
  <2>1. PICK x \in m_processing : work[x].id = id /\ work' = [work EXCEPT ![x].cb = NULL]
    BY <1>4 DEF CancelProcessing
  <2>2. m_jobQueue' = m_jobQueue /\ x \in Jobs
    BY <1>4 DEF CancelProcessing, IInv, TypeOK
  <2>3. k # x /\ work'[k] = work[k]
    BY <2>1, <2>2, NullAssumption DEF Live, IInv, TypeOK, CWorkItem
  <2>4. ASSUME IdsUnique, Pending(k), work[k].id = id PROVE FALSE
    <3>1. k \in allocated /\ x \in allocated
      BY <1>2, <2>2, <2>4, PendingAllocated DEF Tracked
    <3> QED
      BY <2>1, <2>3, <2>4, <3>1 DEF IdsUnique
  <2> QED
    BY <1>1, <2>2, <2>3, <2>4 DEF Queued
<1>5. CASE ~ManagerKnows(id) /\ UNCHANGED vars
  <2>1. work'[k] = work[k] /\ m_jobQueue' = m_jobQueue
    BY <1>5 DEF vars, managerVars
  <2>2. ASSUME Pending(k), work[k].id = id PROVE FALSE
    <3>1. ASSUME NEW p \in Priorities, k \in Queued(p) PROVE FALSE
      <4>1. m_jobQueue[p] \in Seq(Jobs)
        BY DEF IInv, TypeOK
      <4>2. PICK n \in 1..Len(m_jobQueue[p]) : m_jobQueue[p][n] = k
        BY <3>1, <4>1, RangeIs DEF Queued
      <4> QED
        BY <1>5, <2>2, <4>1, <4>2 DEF ManagerKnows, WithId
    <3>2. ASSUME NEW w \in Workers, Tends(w, k) PROVE FALSE
      <4>1. k \in m_processing
        BY <3>2 DEF IInv, OneWorkerPerJob, Running, Tends, WillCallBack
      <4> QED
        BY <1>5, <2>2, <4>1 DEF ManagerKnows
    <3> QED
      BY <2>2, <3>1, <3>2 DEF Pending, Awaited
  <2> QED
    BY <1>1, <2>1, <2>2 DEF Queued
<1> QED
  BY <1>3, <1>4, <1>5 DEF CancelId, CancelJob

LEMMA ShutdownLive ==
  ASSUME Core, LiveInv, Shutdown, UNCHANGED notified
  PROVE  LiveInv'
<1> USE DEF Core
<1>1. ~m_running' /\ UNCHANGED <<pc, job, item>>
  BY ShutdownCore
<1> SUFFICES ASSUME NEW k \in Jobs, Live(k)' PROVE FALSE
  BY <1>1 DEF LiveInv, NoneLive
<1>2. CASE CancelJobs
  <2> DEFINE pending == UNION {Queued(p) : p \in Priorities}
  <2>1. /\ m_jobQueue' = [p \in Priorities |-> <<>>]
        /\ work' = [j \in Jobs |->
                      IF j \in pending THEN NoItem
                      ELSE IF j \in m_processing THEN [work[j] EXCEPT !.cb = NULL]
                      ELSE work[j]]
    BY <1>2 DEF CancelJobs
  <2>2. ~Awaited(k)'
    BY <2>1 DEF Awaited, Queued, Range
  <2>3. PICK w \in Workers : Tends(w, k)'
    BY <2>2 DEF Live, Pending
  <2>4. k \in m_processing
    BY <1>1, <2>3 DEF Tends, WillCallBack, IInv, OneWorkerPerJob, Running
  <2>5. work'[k].cb = NULL
    <3>1. work[k] \in CWorkItem
      BY DEF IInv, TypeOK
    <3> HIDE DEF pending
    <3> QED
      BY <2>1, <2>4, <3>1 DEF NoItem, CWorkItem
  <2> QED
    BY <2>5, NullAssumption DEF Live
<1>3. CASE CancelJobsSet \/ CancelJobsCheck
  <2>1. UNCHANGED <<m_running, m_jobQueue, work>> /\ cancelPc # "idle"
    BY <1>3 DEF CancelJobsSet, CancelJobsCheck, managerVars
  <2>2. ~m_running
    BY <1>1, <2>1
  <2>3. Live(k)
    BY <1>1, <2>1 DEF Live, Pending, Awaited, Queued, Tends, WillCallBack
  <2> QED
    BY <2>2, <2>3 DEF LiveInv, NoneLive
<1> QED
  BY <1>2, <1>3 DEF Shutdown

LEMMA CompleteLive ==
  ASSUME Core, AllDifferent, LiveInv, NEW w \in Workers, QueueOnJobComplete(w)
  PROVE  LiveInv'
<1> USE DEF Core
<1>1. /\ pc[w] = "callback" /\ notified' = notified \cup {w} /\ UNCHANGED q_state
      /\ notified' \subseteq {v \in Workers : pc[v] = "callback"}
      /\ Lists(q_jobQueue, q_processing) /\ q_processing \in Seq(QueueEntry)
      /\ Len(q_processing) \in Nat /\ m_jobsAtOnce \in Nat
  BY DEF QueueOnJobComplete, Lists
<1>2. job[w] \in Jobs
  BY <1>1 DEF IInv, TypeOK, JobHeld, Running
<1>3. ASSUME UNCHANGED vars, NEW k \in Jobs, Live(k)' PROVE Live(k)
  BY <1>1, <1>3 DEF Live, Pending, Awaited, Queued, Tends, WillCallBack, vars, managerVars
<1>4. CASE ~m_running
  <2>1. UNCHANGED vars
    BY <1>4 DEF QueueOnJobComplete, QueueNextJob
  <2> QED
    BY <1>3, <1>4, <2>1 DEF LiveInv, NoneLive, vars, managerVars
<1>5. CASE m_running /\ QueueNextJob(q_jobQueue, q_processing)
  <2>1. \A k \in Jobs : Live(k)' => HasEntry(k, q_processing')
    BY <1>1, <1>5, NextJobLive DEF LiveInv
  <2>2. m_running'
    BY <1>1, <1>5, NextJobCore
  <2> QED
    BY <2>1, <2>2 DEF LiveInv
<1>6. ASSUME m_running, NEW i \in FindProcessing(job[w]),
             QueueNextJob(q_jobQueue, RemoveAt(q_processing, i))
      PROVE  LiveInv'
  <2> DEFINE pr == RemoveAt(q_processing, i)
  <2>1. i \in 1..Len(q_processing) /\ q_processing[i].job = job[w]
    <3>1. i \in 1..Len(q_processing) /\ Same(q_processing[i].job, job[w])
      BY <1>1 DEF FindProcessing
    <3>2. q_processing[i] \in QueueEntry
      BY ONLY <1>1, <3>1
    <3>3. q_processing[i].job \in Jobs
      BY ONLY <3>2 DEF QueueEntry
    <3> QED
      BY <1>2, <3>1, <3>3 DEF AllDifferent
  <2>2. /\ Lists(q_jobQueue, pr) /\ Struck(q_processing, i, pr)
        /\ Len(pr) = Len(q_processing) - 1
    <3>1. Lists(q_jobQueue, pr) /\ Struck(q_processing, i, pr)
      BY <1>1, <2>1, Strike
    <3> QED
      BY ONLY <3>1 DEF Struck
  <2>3. \A k \in 1..Len(q_processing) :
          k # i => \E l \in 1..Len(pr) : pr[l] = q_processing[k]
    BY ONLY <2>2 DEF Struck
  <2>4. QueueNextJob(q_jobQueue, pr)
    BY <1>6
  <2> HIDE DEF pr
  <2>5. Len(pr) <= m_jobsAtOnce
    BY <1>1, <2>2
  <2>6. \A k \in Jobs : Live(k) => HasEntry(k, pr) \/ job[w] = k
    <3> SUFFICES ASSUME NEW k \in Jobs, Live(k), job[w] # k PROVE HasEntry(k, pr)
      OBVIOUS
    <3>1. PICK m \in 1..Len(q_processing) : q_processing[m].job = k
      BY <1>6 DEF LiveInv, HasEntry
    <3>2. m # i
      BY <2>1, <3>1
    <3> QED
      BY <2>2, <2>3, <3>1, <3>2 DEF HasEntry
  <2>7. \A k \in Jobs : Live(k)' => HasEntry(k, q_processing')
    BY <1>1, <1>6, <2>2, <2>4, <2>5, <2>6, NextJobLive
  <2>8. m_running'
    BY <1>1, <1>6, <2>2, <2>4, <2>5, NextJobCore
  <2> QED
    BY <2>7, <2>8 DEF LiveInv
<1> QED
  BY <1>4, <1>5, <1>6 DEF QueueOnJobComplete

(* The entry whose job is cancelled is the only one the others can spare.  *)
LEMMA StrikeLive ==
  ASSUME HandedInv, IdsUnique, LiveInv, NEW i \in 1..Len(q_processing),
         CancelId(q_processing[i].id), UNCHANGED notified,
         \A k \in 1..Len(q_processing) :
           k # i => \E l \in 1..Len(q_processing') : q_processing'[l] = q_processing[k]
  PROVE  LiveInv'
<1> DEFINE e == q_processing[i]
<1>1. Core /\ m_running' = m_running /\ e.id \in 0..(IdRange - 1)
  BY EntryId, CancelCore DEF HandedInv
<1>2. CASE ~m_running
  <2>1. \A k \in Jobs : Live(k)' => Live(k)
    BY <1>1, CancelLive
  <2> QED
    BY <1>1, <1>2, <2>1 DEF LiveInv, NoneLive
<1>3. CASE m_running
  <2>1. Pending(e.job) /\ work[e.job].id = e.id
    BY <1>3 DEF HandedInv, AllHanded, Handed
  <2> SUFFICES ASSUME NEW k \in Jobs, Live(k)' PROVE HasEntry(k, q_processing')
    BY <1>1, <1>3 DEF LiveInv
  <2>2. Live(k) /\ k # e.job
    <3> HIDE DEF e
    <3>1. CancelId(e.id)
      BY DEF e
    <3> QED
      BY <1>1, <2>1, <3>1, CancelLive
  <2>3. PICK m \in 1..Len(q_processing) : q_processing[m].job = k
    BY <1>3, <2>2 DEF LiveInv, HasEntry
  <2>4. m # i
    BY <2>2, <2>3
  <2> QED
    BY <2>3, <2>4 DEF HasEntry
<1> QED
  BY <1>2, <1>3

LEMMA LiveStep ==
  ASSUME AllDifferent, HandedInv, IdsUnique, LiveInv,
         [Working \/ Cancelling \/ ManagerShutdown]_allVars
  PROVE  LiveInv'
<1>1. /\ Core /\ Lists(q_jobQueue, q_processing) /\ q_processing \in Seq(QueueEntry)
      /\ Len(q_processing) \in Nat /\ Len(q_processing) <= m_jobsAtOnce
      /\ notified \subseteq {w \in Workers : pc[w] = "callback"}
  BY DEF HandedInv, Core, Lists
<1>2. ASSUME UNCHANGED <<vars, q_processing, notified>> PROVE LiveInv'
  BY <1>2 DEF LiveInv, NoneLive, HasEntry, Live, Pending, Awaited, Queued, Tends,
    WillCallBack, vars, managerVars
<1>3. ASSUME NEW j \in Jobs, QueueAddJob(j) PROVE LiveInv'
  <2> DEFINE jq == IF m_lifo THEN Append(q_jobQueue, j) ELSE <<j>> \o q_jobQueue
  <2>1. /\ QueueNextJob(jq, q_processing) /\ UNCHANGED <<q_state, notified>>
        /\ \A k \in Range(q_jobQueue) \cup {e.job : e \in Entries} : ~Same(k, j)
    BY <1>3 DEF QueueAddJob
  <2>2. /\ \A a \in 1..Len(q_jobQueue) : ~Same(q_jobQueue[a], j)
        /\ \A a \in 1..Len(q_processing) : ~Same(q_processing[a].job, j)
    BY <1>1, <2>1, InRange DEF Lists, Entries
  <2>3. Lists(jq, q_processing)
    BY <1>1, <2>2, Enlist
  <2> HIDE DEF jq
  <2>4. CASE m_running
    <3>1. m_running'
      BY <1>1, <2>1, <2>3, <2>4, NextJobCore
    <3>2. \A k \in Jobs : Live(k)' => HasEntry(k, q_processing')
      BY <1>1, <2>1, <2>3, <2>4, NextJobLive DEF LiveInv
    <3> QED
      BY <3>1, <3>2 DEF LiveInv
  <2>5. CASE ~m_running
    <3>1. UNCHANGED <<vars, notified>>
      BY <2>1, <2>5 DEF QueueNextJob
    <3> QED
      BY <2>5, <3>1 DEF LiveInv, NoneLive, Live, Pending, Awaited, Queued, Tends,
        WillCallBack, vars, managerVars
  <2> QED
    BY <2>4, <2>5
<1>4. ASSUME NEW w \in Workers, QueueOnJobComplete(w) PROVE LiveInv'
  BY <1>1, <1>4, CompleteLive
<1>5. ASSUME NEW w \in Workers, QueueWorkerStep(w) PROVE LiveInv'
  <2>1. m_running' = m_running /\ q_processing' = q_processing
    BY <1>1, <1>5, WorkerCore DEF QueueWorkerStep
  <2>2. \A k \in Jobs : Live(k)' => Live(k)
    BY <1>1, <1>5, WorkerLive
  <2> QED
    BY <2>1, <2>2 DEF LiveInv, NoneLive
<1>6. ASSUME NEW j \in Jobs, QueueCancelJob(j) PROVE LiveInv'
  <2>1. UNCHANGED notified
    BY <1>6 DEF QueueCancelJob
  <2>2. ASSUME NEW i \in FindProcessing(j), CancelId(q_processing[i].id),
               q_processing' = RemoveAt(q_processing, i)
        PROVE  LiveInv'
    <3>1. i \in 1..Len(q_processing)
      BY <1>1 DEF FindProcessing
    <3>2. Struck(q_processing, i, q_processing')
      BY <1>1, <2>2, <3>1, Strike
    <3>3. \A k \in 1..Len(q_processing) :
            k # i => \E l \in 1..Len(q_processing') : q_processing'[l] = q_processing[k]
      BY ONLY <3>2 DEF Struck
    <3> QED
      BY <2>1, <2>2, <3>1, <3>3, StrikeLive
  <2>3. CASE UNCHANGED <<vars, q_processing>>
    BY <1>2, <2>1, <2>3
  <2> QED
    BY <1>6, <2>2, <2>3 DEF QueueCancelJob
<1>7. ASSUME QueueCancelJobsNext PROVE LiveInv'
  <2>1. /\ q_processing # <<>> /\ CancelId(q_processing[1].id)
        /\ q_processing' = Tail(q_processing) /\ UNCHANGED notified
    BY <1>1, <1>7, HeadTailProperties DEF QueueCancelJobsNext
  <2>2. 1 \in 1..Len(q_processing)
    BY <1>1, <2>1, EmptySeq
  <2>3. /\ Len(q_processing') = Len(q_processing) - 1
        /\ \A l \in 1..(Len(q_processing) - 1) : q_processing'[l] = q_processing[l + 1]
    BY <1>1, <2>1, Shorter
  <2>4. ASSUME NEW k \in 1..Len(q_processing), k # 1
        PROVE  \E l \in 1..Len(q_processing') : q_processing'[l] = q_processing[k]
    <3>1. k - 1 \in 1..(Len(q_processing) - 1) /\ (k - 1) + 1 = k
      BY <1>1, <2>4
    <3>2. q_processing'[k - 1] = q_processing[k]
      BY <2>3, <3>1
    <3> QED
      BY <2>3, <3>1, <3>2
  <2> QED
    BY <2>1, <2>2, <2>4, StrikeLive
<1>8. CASE \/ QueueCancelJobsEnd \/ UNCHANGED allVars
           \/ \E how \in {"cancelling", "destroying"} : QueueCancelJobs(how)
  <2>1. UNCHANGED <<vars, q_processing, notified>>
    BY <1>8 DEF QueueCancelJobsEnd, QueueCancelJobs, allVars, queueVars
  <2> QED
    BY <1>2, <2>1
<1>9. CASE ManagerShutdown
  <2>1. Shutdown /\ UNCHANGED notified
    BY <1>9 DEF ManagerShutdown, queueVars
  <2> QED
    BY <1>1, <2>1, ShutdownLive
<1> QED
  BY <1>3, <1>4, <1>5, <1>6, <1>7, <1>8, <1>9 DEF Working, Cancelling

(* JobManager.h:46, "processed sequentially", also when jobs are           *)
(* cancelled: of a queue whose jobs are all different the manager never    *)
(* has more than m_jobsAtOnce that were not cancelled.  CancelJob strikes  *)
(* the entry whose id it cancels, so what an entry less makes room for is  *)
(* a job whose callback was just taken away (JobManager.cpp:112-131).      *)
THEOREM DistinctAtOnce ==
  ASSUME AllDifferent
  PROVE  QueueSpec /\ [](m_jobCounter < IdRange - 1)
           => [](Cardinality(Uncancelled) <= m_jobsAtOnce)
<1>1. Comparable
  BY DEF AllDifferent, Comparable, Same
<1>2. QueueSpec /\ [](m_jobCounter < IdRange - 1) => []HandedInv
  BY <1>1, HandedEarly
<1>3. QueueSpec /\ [](m_jobCounter < IdRange - 1) => []IdsUnique
  BY QueueIsClient, EarlyIdsUnique, PTL
<1>4. QueueInit => LiveInv
  <2>1. QueueInit => QInv /\ m_running /\ Len(q_processing) = 0
    BY InitQueue DEF QueueInit, QInv
  <2>2. QInv => \A j \in Jobs : Live(j) => HasEntry(j, q_processing)
    BY DEF QInv, Covered, Live
  <2> QED
    BY <2>1, <2>2 DEF LiveInv
<1>5. /\ HandedInv /\ IdsUnique /\ LiveInv
      /\ [Working \/ Cancelling \/ ManagerShutdown]_allVars
      => LiveInv'
  BY LiveStep
<1>6. HandedInv /\ LiveInv => Cardinality(Uncancelled) <= m_jobsAtOnce
  <2> SUFFICES ASSUME HandedInv, LiveInv PROVE Cardinality(Uncancelled) <= m_jobsAtOnce
    OBVIOUS
  <2>1. q_processing \in Seq(QueueEntry) /\ Len(q_processing) <= m_jobsAtOnce
    BY DEF HandedInv, Core, Lists
  <2>2. \A j \in Uncancelled : j \in Jobs /\ Live(j)
    BY InFlightPending, PendingJobs DEF Uncancelled, Live, HandedInv
  <2>3. \A j \in Uncancelled : HasEntry(j, q_processing)
    BY <2>2 DEF LiveInv, NoneLive
  <2> QED
    BY <2>1, <2>3, NoMoreThanEntries
<1> QED
  BY <1>2, <1>3, <1>4, <1>5, <1>6, PTL DEF QueueSpec
=============================================================================
