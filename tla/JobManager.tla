----------------------------- MODULE JobManager -----------------------------
(***************************************************************************)
(* CJobManager and its CJobWorker threads (airplay/utils/JobManager.cpp).  *)
(*                                                                         *)
(* Clients add jobs at one of three priorities, cancel them by id, pause   *)
(* priorities, and finally call CancelJobs() to shut down.  A pool of      *)
(* worker threads, created on demand and gone after 30 s without work,     *)
(* takes jobs off the queues, runs them, and notifies a callback.          *)
(*                                                                         *)
(* Every region guarded by CJobManager::m_section is one step; what a      *)
(* thread does with the section released is a step of its own.  The auto-  *)
(* reset CEvent m_jobEvent is modelled by its own atomic regions (those    *)
(* guarded by CEvent::mutex): Set, entering WaitMSec, waking, timing out.  *)
(*                                                                         *)
(* AddJob on a stopped manager returns 0 and changes nothing: no action.   *)
(* A definition named D_Reason is a wrong version of D, never used by the  *)
(* specification: D replaced by it breaks one of the properties below.     *)
(***************************************************************************)
EXTENDS Integers, FiniteSets, SequencesExt

CONSTANTS
  Jobs,         \* CJob objects, that is heap addresses: reused after delete
  Workers,      \* CJobWorker objects, reused after delete as well
  Callbacks,    \* IJobCallback objects
  NULL,         \* the null pointer
  max_workers,  \* CJobManager::GetMaxWorkers' constant, 5 in the code
  IdRange,      \* number of values of the unsigned m_jobCounter, 2^32
  AddedAt,      \* the priorities the clients add jobs at
  PausedAt      \* the priorities the clients pause

LOW    == 0
NORMAL == 1
HIGH   == 2
Priorities == {LOW, NORMAL, HIGH}

ASSUME PoolAssumption == max_workers \in Nat /\ max_workers > HIGH
ASSUME IdAssumption   == IdRange \in Nat /\ IdRange > 1
ASSUME NullAssumption == NULL \notin Jobs \cup Callbacks
ASSUME ClientAssumption == AddedAt \subseteq Priorities /\ PausedAt \subseteq Priorities
ASSUME FiniteAssumption == IsFiniteSet(Jobs) /\ IsFiniteSet(Workers)

VARIABLES
  m_running, m_jobCounter, m_jobQueue, m_jobPause, m_processing, m_workers,
  signaled,     \* m_jobEvent.signaled
  work,         \* the CWorkItem of each job that is queued or processing
  allocated,    \* the jobs handed to the manager and not deleted yet
  pc,           \* where each worker thread is
  job,          \* the job a worker runs: local of CJobWorker::Process
  item,         \* the callback a worker copied out of m_processing
  cancelPc      \* where the caller of CancelJobs is

managerVars == <<m_running, m_jobCounter, m_jobQueue, m_jobPause>>
vars == <<managerVars, m_processing, m_workers, signaled, work, allocated,
          pc, job, item, cancelPc>>

WorkerPcs == {"none",      \* no thread behind this address
              "get",       \* about to take m_section in GetNextJob
              "wait",      \* released it, about to enter WaitMSec
              "waiting",   \* blocked in WaitMSec
              "timedout",  \* WaitMSec returned false
              "work",      \* in CJob::DoWork
              "progress",  \* in IJobCallback::OnJobProgress
              "notify",    \* about to test item.m_callback
              "callback",  \* in IJobCallback::OnJobComplete
              "erase",     \* about to erase the item from m_processing
              "free",      \* about to delete the job
              "exit"}      \* Process returned, about to be destroyed

Running == {"work", "progress", "notify", "callback", "erase"}

CWorkItem == [id: 0..(IdRange - 1), prio: Priorities, cb: Callbacks \cup {NULL}]
NoItem    == [id |-> 0, prio |-> LOW, cb |-> NULL]

-----------------------------------------------------------------------------

GetMaxWorkers(p) == max_workers - (HIGH - p)

Queued(p) == Range(m_jobQueue[p])

NextId_NoWrap == m_jobCounter + 1

NextId == IF m_jobCounter + 1 = IdRange THEN 1 ELSE m_jobCounter + 1

(* The work item freed with its job. *)
Delete(js) == /\ allocated' = allocated \ js
              /\ work' = [j \in Jobs |-> IF j \in js THEN NoItem ELSE work[j]]

Goto(w, label) == pc' = [pc EXCEPT ![w] = label]

Init ==
  /\ m_running = TRUE
  /\ m_jobCounter = 0
  /\ m_jobQueue = [p \in Priorities |-> <<>>]
  /\ m_jobPause = [p \in Priorities |-> FALSE]
  /\ m_processing = {}
  /\ m_workers = {}
  /\ signaled = FALSE
  /\ work = [j \in Jobs |-> NoItem]
  /\ allocated = {}
  /\ pc = [w \in Workers |-> "none"]
  /\ job = [w \in Workers |-> NULL]
  /\ item = [w \in Workers |-> NULL]
  /\ cancelPc = "idle"

-----------------------------------------------------------------------------
(* Calls of the clients.                                                   *)

(* Mutant of StartWorkers: one more thread than the priority may use.      *)
StartWorkers_OffByOne(p) ==
  \/ /\ Cardinality(m_processing) > GetMaxWorkers(p)
     /\ UNCHANGED <<m_workers, pc, signaled>>
  \/ /\ Cardinality(m_processing) <= GetMaxWorkers(p)
     /\ Cardinality(m_processing) < Cardinality(m_workers)
     /\ signaled' = TRUE
     /\ UNCHANGED <<m_workers, pc>>
  \/ /\ Cardinality(m_processing) <= GetMaxWorkers(p)
     /\ Cardinality(m_processing) >= Cardinality(m_workers)
     /\ \E w \in Workers : /\ pc[w] = "none"
                           /\ m_workers' = m_workers \cup {w}
                           /\ Goto(w, "get")
     /\ UNCHANGED signaled

StartWorkers(p) ==
  \/ /\ Cardinality(m_processing) >= GetMaxWorkers(p)
     /\ UNCHANGED <<m_workers, pc, signaled>>
  \/ /\ Cardinality(m_processing) < GetMaxWorkers(p)
     /\ Cardinality(m_processing) < Cardinality(m_workers)
     /\ signaled' = TRUE
     /\ UNCHANGED <<m_workers, pc>>
  \/ /\ Cardinality(m_processing) < GetMaxWorkers(p)
     /\ Cardinality(m_processing) >= Cardinality(m_workers)
     /\ \E w \in Workers : /\ pc[w] = "none"
                           /\ m_workers' = m_workers \cup {w}
                           /\ Goto(w, "get")
     /\ UNCHANGED signaled

AddJob(j, cb, p) ==
  /\ m_running
  /\ j \notin allocated
  /\ allocated' = allocated \cup {j}
  /\ m_jobCounter' = NextId
  /\ work' = [work EXCEPT ![j] = [id |-> NextId, prio |-> p, cb |-> cb]]
  /\ m_jobQueue' = [m_jobQueue EXCEPT ![p] = Append(@, j)]
  /\ StartWorkers(p)
  /\ UNCHANGED <<m_running, m_jobPause, m_processing, job, item, cancelPc>>

WithId(p, id) == {i \in DOMAIN m_jobQueue[p] : work[m_jobQueue[p][i]].id = id}

CancelQueued_Leak(id) ==
  \E p \in Priorities : \E i \in WithId(p, id) :
    /\ m_jobQueue' = [m_jobQueue EXCEPT ![p] = RemoveAt(@, i)]
    /\ UNCHANGED <<allocated, work>>

CancelQueued(id) ==
  \E p \in Priorities : \E i \in WithId(p, id) :
    /\ \A q \in Priorities : q < p => WithId(q, id) = {}
    /\ \A k \in WithId(p, id) : i <= k
    /\ m_jobQueue' = [m_jobQueue EXCEPT ![p] = RemoveAt(@, i)]
    /\ Delete({m_jobQueue[p][i]})

CancelProcessing(id) ==
  /\ \A p \in Priorities : WithId(p, id) = {}
  /\ \E j \in m_processing : /\ work[j].id = id
                             /\ work' = [work EXCEPT ![j].cb = NULL]
  /\ UNCHANGED <<m_jobQueue, allocated>>

CancelJob_EraseRunning(id) ==
  \E j \in m_processing :
    /\ work[j].id = id
    /\ m_processing' = m_processing \ {j}
    /\ UNCHANGED <<managerVars, m_workers, signaled, work, allocated,
                   pc, job, item, cancelPc>>

CancelJob(id) ==
  /\ CancelQueued(id) \/ CancelProcessing(id)
  /\ UNCHANGED <<m_running, m_jobCounter, m_jobPause, m_processing, m_workers,
                 signaled, pc, job, item, cancelPc>>

Pause(p) ==
  /\ m_jobPause' = [m_jobPause EXCEPT ![p] = TRUE]
  /\ UNCHANGED <<m_running, m_jobCounter, m_jobQueue, m_processing, m_workers,
                 signaled, work, allocated, pc, job, item, cancelPc>>

UnPause(p) ==
  /\ m_jobPause' = [m_jobPause EXCEPT ![p] = FALSE]
  /\ UNCHANGED <<m_running, m_jobCounter, m_jobQueue, m_processing, m_workers,
                 signaled, work, allocated, pc, job, item, cancelPc>>

CancelJobs_NoWait ==
  LET pending == UNION {Queued(p) : p \in Priorities}
  IN  /\ cancelPc = "idle"
      /\ m_running' = FALSE
      /\ m_jobQueue' = [p \in Priorities |-> <<>>]
      /\ Delete(pending)
      /\ cancelPc' = "done"
      /\ UNCHANGED <<m_jobCounter, m_jobPause, m_processing, m_workers,
                     signaled, pc, job, item>>

(* CancelJobs up to the first test of its loop, in one m_section region. *)
CancelJobs ==
  LET pending == UNION {Queued(p) : p \in Priorities}
  IN  /\ cancelPc = "idle"
      /\ m_running' = FALSE
      /\ m_jobQueue' = [p \in Priorities |-> <<>>]
      /\ allocated' = allocated \ pending
      /\ work' = [j \in Jobs |->
                    IF j \in pending THEN NoItem
                    ELSE IF j \in m_processing THEN [work[j] EXCEPT !.cb = NULL]
                    ELSE work[j]]
      /\ cancelPc' = IF m_workers = {} THEN "done" ELSE "set"
      /\ UNCHANGED <<m_jobCounter, m_jobPause, m_processing, m_workers,
                     signaled, pc, job, item>>

CancelJobsSet ==
  /\ cancelPc = "set"
  /\ signaled' = TRUE
  /\ cancelPc' = "check"
  /\ UNCHANGED <<managerVars, m_processing, m_workers, work, allocated,
                 pc, job, item>>

CancelJobsCheck ==
  /\ cancelPc = "check"
  /\ cancelPc' = IF m_workers = {} THEN "done" ELSE "set"
  /\ UNCHANGED <<managerVars, m_processing, m_workers, signaled, work,
                 allocated, pc, job, item>>

-----------------------------------------------------------------------------
(* The worker threads.                                                     *)

CanPop_OffByOne(p) == /\ ~m_jobPause[p]
                      /\ m_jobQueue[p] # <<>>
                      /\ Cardinality(m_processing) <= GetMaxWorkers(p)

CanPop(p) == /\ ~m_jobPause[p]
             /\ m_jobQueue[p] # <<>>
             /\ Cardinality(m_processing) < GetMaxWorkers(p)

PopJob_KeepQueued(w) ==
  \E p \in Priorities :
    /\ CanPop(p)
    /\ m_processing' = m_processing \cup {Head(m_jobQueue[p])}
    /\ job' = [job EXCEPT ![w] = Head(m_jobQueue[p])]
    /\ Goto(w, "work")
    /\ UNCHANGED <<managerVars, m_workers, signaled, work, allocated,
                   item, cancelPc>>

PopJob_LowFirst(w) ==
  \E p \in Priorities :
    /\ CanPop(p)
    /\ \A q \in Priorities : q < p => ~CanPop(q)
    /\ m_jobQueue' = [m_jobQueue EXCEPT ![p] = Tail(@)]
    /\ m_processing' = m_processing \cup {Head(m_jobQueue[p])}
    /\ job' = [job EXCEPT ![w] = Head(m_jobQueue[p])]
    /\ Goto(w, "work")
    /\ UNCHANGED <<m_running, m_jobCounter, m_jobPause, m_workers, signaled,
                   work, allocated, item, cancelPc>>

PopJob(w) ==
  \E p \in Priorities :
    /\ CanPop(p)
    /\ \A q \in Priorities : q > p => ~CanPop(q)
    /\ m_jobQueue' = [m_jobQueue EXCEPT ![p] = Tail(@)]
    /\ m_processing' = m_processing \cup {Head(m_jobQueue[p])}
    /\ job' = [job EXCEPT ![w] = Head(m_jobQueue[p])]
    /\ Goto(w, "work")
    /\ UNCHANGED <<m_running, m_jobCounter, m_jobPause, m_workers, signaled,
                   work, allocated, item, cancelPc>>

NoJob == \A p \in Priorities : ~CanPop(p)

RemoveWorker(w) == m_workers' = m_workers \ {w}

(* GetNextJob: a turn of the loop when m_running, the tail otherwise. *)
GetNextJobPop(w) == pc[w] \in {"get", "timedout"} /\ PopJob(w)

GetNextJobSleep_Stopped(w) ==
  /\ pc[w] = "get" /\ NoJob
  /\ Goto(w, "wait")
  /\ UNCHANGED <<managerVars, m_processing, m_workers, signaled, work,
                 allocated, job, item, cancelPc>>

GetNextJobSleep(w) ==
  /\ pc[w] = "get" /\ m_running /\ NoJob
  /\ Goto(w, "wait")
  /\ UNCHANGED <<managerVars, m_processing, m_workers, signaled, work,
                 allocated, job, item, cancelPc>>

GetNextJobLeave_NoRecheck(w) ==
  /\ \/ pc[w] = "get" /\ ~m_running
     \/ pc[w] = "timedout"
  /\ RemoveWorker(w)
  /\ Goto(w, "exit")
  /\ UNCHANGED <<managerVars, m_processing, signaled, work, allocated,
                 job, item, cancelPc>>

GetNextJobLeave(w) ==
  /\ \/ pc[w] = "get" /\ ~m_running
     \/ pc[w] = "timedout"
  /\ NoJob
  /\ RemoveWorker(w)
  /\ Goto(w, "exit")
  /\ UNCHANGED <<managerVars, m_processing, signaled, work, allocated,
                 job, item, cancelPc>>

OtherWaits(w) == \E v \in Workers \ {w} : pc[v] = "waiting"

(* CEvent::WaitMSec by its three outcomes: blocking, returning true (at    *)
(* once or after a Set), and timing out.  prepReturn lowers the signal     *)
(* only when the last waiter leaves.                                       *)
WaitBlock(w) ==
  /\ pc[w] = "wait" /\ ~signaled
  /\ Goto(w, "waiting")
  /\ UNCHANGED <<managerVars, m_processing, m_workers, signaled, work,
                 allocated, job, item, cancelPc>>

WaitSignaled(w) ==
  /\ pc[w] \in {"wait", "waiting"} /\ signaled
  /\ Goto(w, "get")
  /\ signaled' = OtherWaits(w)
  /\ UNCHANGED <<managerVars, m_processing, m_workers, work, allocated,
                 job, item, cancelPc>>

WaitTimeout(w) ==
  /\ pc[w] = "waiting" /\ ~signaled
  /\ Goto(w, "timedout")
  /\ UNCHANGED <<managerVars, m_processing, m_workers, signaled, work,
                 allocated, job, item, cancelPc>>

(* CJob::ShouldCancel from within DoWork: when the job still has its       *)
(* callback, the callback is copied and called with the section released;  *)
(* otherwise OnJobProgress answers true and nothing changes.               *)
OnJobProgress(w) ==
  /\ pc[w] = "work"
  /\ job[w] \in m_processing
  /\ work[job[w]].cb # NULL
  /\ item' = [item EXCEPT ![w] = work[job[w]].cb]
  /\ Goto(w, "progress")
  /\ UNCHANGED <<managerVars, m_processing, m_workers, signaled, work,
                 allocated, job, cancelPc>>

OnJobProgressReturn(w) ==
  /\ pc[w] = "progress"
  /\ item' = [item EXCEPT ![w] = NULL]
  /\ Goto(w, "work")
  /\ UNCHANGED <<managerVars, m_processing, m_workers, signaled, work,
                 allocated, job, cancelPc>>

(* DoWork returns and OnJobComplete runs its first m_section region.  A    *)
(* job that is not in m_processing would be dropped without being freed.   *)
OnJobComplete(w) ==
  /\ pc[w] = "work"
  /\ IF job[w] \in m_processing
     THEN /\ item' = [item EXCEPT ![w] = work[job[w]].cb]
          /\ Goto(w, "notify")
          /\ UNCHANGED job
     ELSE /\ Goto(w, "get")
          /\ job' = [job EXCEPT ![w] = NULL]
          /\ UNCHANGED item
  /\ UNCHANGED <<managerVars, m_processing, m_workers, signaled, work,
                 allocated, cancelPc>>

Notify(w) ==
  /\ pc[w] = "notify"
  /\ Goto(w, IF item[w] # NULL THEN "callback" ELSE "erase")
  /\ UNCHANGED <<managerVars, m_processing, m_workers, signaled, work,
                 allocated, job, item, cancelPc>>

CallbackReturn(w) ==
  /\ pc[w] = "callback"
  /\ Goto(w, "erase")
  /\ item' = [item EXCEPT ![w] = NULL]
  /\ UNCHANGED <<managerVars, m_processing, m_workers, signaled, work,
                 allocated, job, cancelPc>>

EraseItem(w) ==
  /\ pc[w] = "erase"
  /\ m_processing' = m_processing \ {job[w]}
  /\ Goto(w, "free")
  /\ UNCHANGED <<managerVars, m_workers, signaled, work, allocated,
                 job, item, cancelPc>>

FreeJob(w) ==
  /\ pc[w] = "free"
  /\ Delete({job[w]})
  /\ job' = [job EXCEPT ![w] = NULL]
  /\ Goto(w, "get")
  /\ UNCHANGED <<managerVars, m_processing, m_workers, signaled, item, cancelPc>>

(* The thread auto-deletes; ~CJobWorker calls RemoveWorker once more. *)
DeleteWorker(w) ==
  /\ pc[w] = "exit"
  /\ RemoveWorker(w)
  /\ Goto(w, "none")
  /\ UNCHANGED <<managerVars, m_processing, signaled, work, allocated,
                 job, item, cancelPc>>

-----------------------------------------------------------------------------

(* The thread's own steps: what its scheduling makes it take. *)
WorkerStep(w) ==
  \/ GetNextJobPop(w) \/ GetNextJobSleep(w) \/ GetNextJobLeave(w)
  \/ WaitBlock(w) \/ WaitSignaled(w) \/ WaitTimeout(w)
  \/ OnJobProgressReturn(w) \/ OnJobComplete(w)
  \/ Notify(w) \/ CallbackReturn(w) \/ EraseItem(w) \/ FreeJob(w)
  \/ DeleteWorker(w)

Shutdown == CancelJobs \/ CancelJobsSet \/ CancelJobsCheck

Client ==
  \/ \E j \in Jobs, cb \in Callbacks \cup {NULL}, p \in AddedAt :
       AddJob(j, cb, p)
  \/ \E id \in 0..(IdRange - 1) : CancelJob(id)
  \/ \E p \in PausedAt : Pause(p) \/ UnPause(p)

Next == Client \/ Shutdown \/ \E w \in Workers : WorkerStep(w) \/ OnJobProgress(w)

Spec == Init /\ [][Next]_vars

(* Threads are scheduled, the 30 s of WaitMSec pass, DoWork returns after  *)
(* finitely many progress reports, the callbacks return, and the caller of *)
(* CancelJobs runs on.  Clients owe nothing.                               *)
FairSpec == /\ Spec
            /\ \A w \in Workers : /\ WF_vars(WorkerStep(w))
                                  /\ SF_vars(OnJobComplete(w))
            /\ WF_vars(CancelJobsSet \/ CancelJobsCheck)

-----------------------------------------------------------------------------
(* Properties.                                                             *)

(* Type invariant: the states CJobManager, its event and its threads can   *)
(* be in (JobManager.h:322-335).                                           *)
TypeOK ==
  /\ m_running \in BOOLEAN
  /\ m_jobCounter \in 0..(IdRange - 1)
  /\ m_jobQueue \in [Priorities -> Seq(Jobs)]
  /\ m_jobPause \in [Priorities -> BOOLEAN]
  /\ m_processing \subseteq Jobs
  /\ m_workers \subseteq Workers
  /\ signaled \in BOOLEAN
  /\ work \in [Jobs -> CWorkItem]
  /\ allocated \subseteq Jobs
  /\ pc \in [Workers -> WorkerPcs]
  /\ job \in [Workers -> Jobs \cup {NULL}]
  /\ item \in [Workers -> Callbacks \cup {NULL}]
  /\ cancelPc \in {"idle", "set", "check", "done"}

(* A job is in one place only: no queue holds it twice, no two queues hold *)
(* it, and it is not queued while a worker has it, so that no interleaving *)
(* of cancelling, popping, completing and shutting down runs or deletes it *)
(* twice.                                                                  *)
QueuesDisjoint ==
  /\ \A p, q \in Priorities :
       \A a \in DOMAIN m_jobQueue[p], b \in DOMAIN m_jobQueue[q] :
         m_jobQueue[p][a] = m_jobQueue[q][b] => p = q /\ a = b
  /\ \A p \in Priorities : Queued(p) \cap m_processing = {}

(* Exactly one worker has each job of m_processing, and a worker that has  *)
(* a job finds it there: the find() of OnJobComplete never misses, which   *)
(* would leak the job and its place in the pool.                           *)
OneWorkerPerJob ==
  /\ m_processing = {job[w] : w \in {v \in Workers : pc[v] \in Running}}
  /\ \A v, w \in Workers : job[v] = job[w] /\ job[v] # NULL => v = w

(* Every pointer the manager holds is to a job that is not deleted, and    *)
(* every job that is not deleted is held: neither a dangling pointer nor a *)
(* leak, whatever was cancelled and when.                                  *)
NoDanglingNoLeak ==
  allocated = (UNION {Queued(p) : p \in Priorities}) \cup m_processing
              \cup {job[w] : w \in {v \in Workers : pc[v] = "free"}}

(* JobManager.h:165: jobs of lower priority leave spare threads for higher *)
(* ones.  At most GetMaxWorkers(p) of the running jobs have a priority of  *)
(* p or lower, whatever mix of priorities was popped before.               *)
PriorityReserve ==
  \A p \in Priorities :
    Cardinality({j \in m_processing : work[j].prio <= p}) <= GetMaxWorkers(p)

(* Threads are created under load and leave when idle: never are there     *)
(* more than the highest priority added may use, which is max_workers or   *)
(* fewer, so that m_workers.size() and m_processing.size() cannot drift    *)
(* apart to overfill the pool.  A busy thread is always one of them, so    *)
(* that CancelJobs, which waits for m_workers to empty, waits for it.      *)
PoolBounded ==
  /\ m_workers = {} \/ \E p \in AddedAt : Cardinality(m_workers) <= GetMaxWorkers(p)
  /\ m_workers = {w \in Workers : pc[w] \notin {"none", "exit"}}

(* Once CancelJobs has returned no job runs, no callback is being called,  *)
(* and every job was deleted: its caller may destroy the callbacks         *)
(* (JobManager.h:231).                                                     *)
QuiescentAfterCancelJobs ==
  cancelPc = "done" => /\ \A w \in Workers : pc[w] \in {"none", "exit"}
                       /\ allocated = {} /\ m_processing = {}

(* CancelJobs leaves its loop whatever its event does: the workers see     *)
(* m_running, or time out, and find nothing to pop.                        *)
CancelJobsReturns == cancelPc # "idle" ~> cancelPc = "done"

(* While nothing is paused a queued job is eventually popped or cancelled, *)
(* however its wakeup was coalesced, or else jobs of a higher priority     *)
(* run: a job of the highest priority never starves.                       *)
JobServed ==
  \A j \in Jobs, p \in Priorities :
    j \in Queued(p) ~> \/ j \notin Queued(p)
                      \/ \E k \in m_processing : work[k].prio > p

Status(j) == IF \E p \in Priorities : j \in Queued(p) THEN "queued"
             ELSE IF j \in m_processing THEN "running"
             ELSE IF j \in allocated THEN "finished"
             ELSE "absent"

(* The manager implements the service its comments promise.                *)
Service == INSTANCE JobService WITH
             accepting <- m_running,
             paused    <- m_jobPause,
             status    <- [j \in Jobs |-> Status(j)],
             prio      <- [j \in Jobs |-> work[j].prio]

ImplementsService == Service!Spec
=============================================================================
