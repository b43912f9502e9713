------------------------------ MODULE JobQueue ------------------------------
(***************************************************************************)
(* One CJobQueue (airplay/utils/JobManager.cpp:88-177) on top of the job   *)
(* manager: it keeps unique jobs in order and hands at most m_jobsAtOnce   *)
(* of them to CJobManager at a time, the next one when it is called back.  *)
(*                                                                         *)
(* Every public call holds CJobQueue::m_section, and calls the manager     *)
(* with it held.  A call that enters the manager once is one step; the     *)
(* calls of CancelJobs into the manager are a step each, and nobody else   *)
(* enters the queue meanwhile.  A worker in "callback" is in               *)
(* CJobQueue::OnJobComplete; notified says it is past its m_section.       *)
(***************************************************************************)
EXTENDS JobManager

CONSTANTS
  queue,        \* the CJobQueue, an IJobCallback
  Key,          \* the value CJob::operator== compares, NULL: never equal
  m_jobsAtOnce,
  m_lifo,
  m_priority

ASSUME QueueAssumption ==
  /\ queue \in Callbacks /\ DOMAIN Key = Jobs
  /\ m_jobsAtOnce \in Nat \ {0} /\ m_lifo \in BOOLEAN /\ m_priority \in AddedAt

VARIABLES
  q_jobQueue,    \* CJobQueue::m_jobQueue, its back is the next job
  q_processing,  \* CJobQueue::m_processing, records [job, id]
  q_state,       \* "open", or in CancelJobs: "cancelling", "destroying"; "destroyed"
  notified,      \* workers that executed the queue's OnJobComplete
  lost           \* jobs handed to a stopped manager, which nobody deletes

queueVars == <<q_jobQueue, q_processing, q_state, notified, lost>>
allVars == <<vars, queueVars>>

Entries == {q_processing[i] : i \in DOMAIN q_processing}

Same(j, k) == Key[j] = Key[k] /\ Key[j] # NULL

QueueInit == /\ Init
             /\ q_jobQueue = <<>> /\ q_processing = <<>> /\ q_state = "open"
             /\ notified = {} /\ lost = {}

-----------------------------------------------------------------------------

QueueNextJob_NoLimit(jq, pr) ==
  \/ jq = <<>> /\ q_jobQueue' = jq /\ q_processing' = pr /\ UNCHANGED <<vars, lost>>
  \/ /\ jq # <<>> /\ m_running
     /\ AddJob(Last(jq), queue, m_priority)
     /\ q_jobQueue' = Front(jq)
     /\ q_processing' = Append(pr, [job |-> Last(jq), id |-> NextId])
     /\ UNCHANGED lost

(* QueueNextJob on the lists its caller has just changed to jq and pr.     *)
QueueNextJob(jq, pr) ==
  \/ /\ jq = <<>> \/ Len(pr) >= m_jobsAtOnce
     /\ q_jobQueue' = jq /\ q_processing' = pr
     /\ UNCHANGED <<vars, lost>>
  \/ /\ jq # <<>> /\ Len(pr) < m_jobsAtOnce
     /\ m_running
     /\ AddJob(Last(jq), queue, m_priority)
     /\ q_jobQueue' = Front(jq)
     /\ q_processing' = Append(pr, [job |-> Last(jq), id |-> NextId])
     /\ UNCHANGED lost
  \/ /\ jq # <<>> /\ Len(pr) < m_jobsAtOnce
     /\ ~m_running
     /\ q_jobQueue' = Front(jq)
     /\ q_processing' = Append(pr, [job |-> Last(jq), id |-> 0])
     /\ lost' = lost \cup {Last(jq)}
     /\ UNCHANGED vars

QueueAddJob_NoFindProcessing(j) ==
  /\ q_state = "open"
  /\ j \notin allocated \cup lost \cup Range(q_jobQueue)
  /\ \A k \in Range(q_jobQueue) : ~Same(k, j)
  /\ QueueNextJob(IF m_lifo THEN Append(q_jobQueue, j) ELSE <<j>> \o q_jobQueue,
                  q_processing)
  /\ UNCHANGED <<q_state, notified>>

QueueAddJob_OtherEnd(j) ==
  /\ q_state = "open"
  /\ j \notin allocated \cup lost \cup Range(q_jobQueue)
  /\ \A k \in Range(q_jobQueue) \cup {e.job : e \in Entries} : ~Same(k, j)
  /\ QueueNextJob(IF m_lifo THEN <<j>> \o q_jobQueue ELSE Append(q_jobQueue, j),
                  q_processing)
  /\ UNCHANGED <<q_state, notified>>

(* A new job; a job like one that is listed is deleted at once: no step.   *)
QueueAddJob(j) ==
  /\ q_state = "open"
  /\ j \notin allocated \cup lost \cup Range(q_jobQueue)
  /\ \A k \in Range(q_jobQueue) \cup {e.job : e \in Entries} : ~Same(k, j)
  /\ QueueNextJob(IF m_lifo THEN Append(q_jobQueue, j) ELSE <<j>> \o q_jobQueue,
                  q_processing)
  /\ UNCHANGED <<q_state, notified>>

(* The positions find() may stop at: the first equal job. *)
FindProcessing(j) == {i \in DOMAIN q_processing :
                        /\ Same(q_processing[i].job, j)
                        /\ \A k \in 1..(i - 1) : ~Same(q_processing[k].job, j)}

FindQueued(j) == {i \in DOMAIN q_jobQueue :
                    /\ Same(q_jobQueue[i], j)
                    /\ \A k \in 1..(i - 1) : ~Same(q_jobQueue[k], j)}

QueueOnJobComplete_NoErase(w) ==
  /\ pc[w] = "callback" /\ w \notin notified
  /\ q_state = "open"
  /\ QueueNextJob(q_jobQueue, q_processing)
  /\ notified' = notified \cup {w}
  /\ UNCHANGED q_state

(* OnJobComplete: erase the entry equal to the job, whoever put it there,  *)
(* and queue the next job.  On a destroyed queue this is a use of freed    *)
(* memory, which the model does not follow (see CancelledNotCalled).    *)
QueueOnJobComplete(w) ==
  /\ pc[w] = "callback" /\ w \notin notified
  /\ q_state = "open"
  /\ \/ /\ FindProcessing(job[w]) = {}
        /\ QueueNextJob(q_jobQueue, q_processing)
     \/ \E i \in FindProcessing(job[w]) :
          QueueNextJob(q_jobQueue, RemoveAt(q_processing, i))
  /\ notified' = notified \cup {w}
  /\ UNCHANGED q_state

(* CJobPointer::CancelJob; an id the manager no longer knows is ignored.   *)
ManagerKnows(id) == \/ \E p \in Priorities : WithId(p, id) # {}
                    \/ \E j \in m_processing : work[j].id = id

CancelId(id) == \/ CancelJob(id)
                \/ ~ManagerKnows(id) /\ UNCHANGED vars

QueueCancelJob_KeepEntry(j) ==
  /\ q_state = "open"
  /\ \E i \in FindProcessing(j) : CancelId(q_processing[i].id)
  /\ UNCHANGED queueVars

QueueCancelJob(j) ==
  /\ q_state = "open"
  /\ \/ \E i \in FindProcessing(j) :
          /\ CancelId(q_processing[i].id)
          /\ q_processing' = RemoveAt(q_processing, i)
          /\ UNCHANGED q_jobQueue
     \/ /\ FindProcessing(j) = {}
        /\ \E i \in FindQueued(j) : q_jobQueue' = RemoveAt(q_jobQueue, i)
        /\ UNCHANGED <<vars, q_processing>>
  /\ UNCHANGED <<q_state, notified, lost>>

(* CancelJobs, from a client or from ~CJobQueue. *)
QueueCancelJobs(how) ==
  /\ q_state = "open"
  /\ q_state' = how
  /\ UNCHANGED <<vars, q_jobQueue, q_processing, notified, lost>>

QueueCancelJobsNext ==
  /\ q_state \in {"cancelling", "destroying"}
  /\ q_processing # <<>>
  /\ CancelId(Head(q_processing).id)
  /\ q_processing' = Tail(q_processing)
  /\ UNCHANGED <<q_jobQueue, q_state, notified, lost>>

QueueCancelJobsEnd ==
  /\ q_state \in {"cancelling", "destroying"}
  /\ q_processing = <<>>
  /\ q_jobQueue' = <<>>
  /\ q_state' = IF q_state = "destroying" THEN "destroyed" ELSE "open"
  /\ UNCHANGED <<vars, q_processing, notified, lost>>

-----------------------------------------------------------------------------

(* The manager's own steps; OnJobComplete returns after its m_section.     *)
QueueWorkerStep(w) ==
  /\ pc[w] = "callback" => w \in notified
  /\ WorkerStep(w)
  /\ notified' = notified \ {w}
  /\ UNCHANGED <<q_jobQueue, q_processing, q_state, lost>>

ManagerShutdown == Shutdown /\ UNCHANGED queueVars

Working == \/ \E j \in Jobs : QueueAddJob(j)
           \/ \E w \in Workers : QueueOnJobComplete(w) \/ QueueWorkerStep(w)

Cancelling == \/ \E j \in Jobs : QueueCancelJob(j)
              \/ \E how \in {"cancelling", "destroying"} : QueueCancelJobs(how)
              \/ QueueCancelJobsNext \/ QueueCancelJobsEnd

(* A queue in use, a queue whose jobs are cancelled and that is destroyed, *)
(* and one that also outlives its manager.                                 *)
WorkingSpec   == QueueInit /\ [][Working]_allVars
CancelSpec    == QueueInit /\ [][Working \/ Cancelling]_allVars
QueueSpec     == QueueInit /\ [][Working \/ Cancelling \/ ManagerShutdown]_allVars

FairWorkingSpec ==
  /\ WorkingSpec
  /\ \A w \in Workers : WF_allVars(QueueWorkerStep(w) \/ QueueOnJobComplete(w))

-----------------------------------------------------------------------------
(* Properties.                                                             *)

(* The worker will still call the queue back for its job. *)
WillCallBack(w) ==
  \/ pc[w] \in {"work", "progress"} /\ work[job[w]].cb = queue
  \/ pc[w] \in {"notify", "callback"} /\ item[w] = queue /\ w \notin notified

(* The jobs of the queue that the manager has, and will call it back for.  *)
InFlight == {j \in UNION {Queued(p) : p \in Priorities} : work[j].cb = queue}
            \cup {job[w] : w \in {v \in Workers : WillCallBack(v)}}

Uncancelled == {j \in InFlight : work[j].cb = queue}

(* Type invariant of the queue (JobManager.h:150-156): no more entries     *)
(* than m_jobsAtOnce, and ids that the manager can have given.             *)
QueueTypeOK ==
  /\ TypeOK
  /\ q_jobQueue \in Seq(Jobs)
  /\ q_processing \in Seq([job: Jobs, id: 0..(IdRange - 1)])
  /\ Len(q_processing) <= m_jobsAtOnce
  /\ q_state \in {"open", "cancelling", "destroying", "destroyed"}
  /\ notified \subseteq Workers /\ lost \subseteq Jobs

(* The pointers of m_processing, which operator== dereferences, are to     *)
(* jobs the manager will still call back for, under the id it gave them:   *)
(* never to one that another thread has deleted.  Only CancelJobs of the   *)
(* manager, of which the queue is not told, leaves them dangling.          *)
NoDanglingEntry ==
  m_running => \A e \in Entries : e.job \in InFlight /\ e.id = work[e.job].id

(* JobManager.h:47, "queueing multiple copies of the same job will not add *)
(* additional jobs": of the jobs that are queued or being processed, and   *)
(* were not cancelled, no two are equal.                                   *)
UniqueJobs ==
  LET live == Range(q_jobQueue) \cup Uncancelled
  IN  \A j, k \in live : Same(j, k) => j = k

(* JobManager.h:46, "processed sequentially", and :131, OnJobComplete     *)
(* "will move on to the next job": the manager never has more than         *)
(* m_jobsAtOnce jobs of the queue to call it back for, and jobs wait in    *)
(* the queue only while it has as many.                                    *)
JobsAtOnce ==
  /\ Cardinality(InFlight) <= m_jobsAtOnce
  /\ q_state = "open" /\ q_jobQueue # <<>> => Cardinality(InFlight) = m_jobsAtOnce

(* JobManager.h:41-49: the queue keeps the promise of SerialQueue, where a *)
(* job is handed out from when the manager has it until the queue is       *)
(* called back for it: jobs go to the manager in the order of the queue,   *)
(* and whatever completes when, none waits while the manager has fewer     *)
(* than m_jobsAtOnce (JobManager.cpp:134-152).                             *)
Serial == INSTANCE SerialQueue
            WITH limit <- m_jobsAtOnce, lifo <- m_lifo,
                 waiting <- q_jobQueue, handed <- InFlight

ImplementsSerialQueue == Serial!Spec

(* JobManager.h:108 and :118, of CancelJob and CancelJobs: "OnJobComplete  *)
(* will not be performed".  No worker is in the queue's OnJobComplete for  *)
(* a job whose cancellation has returned.                                  *)
CancelledNotCalled ==
  \A w \in Workers : pc[w] = "callback" /\ w \notin notified
                       => work[job[w]].cb = queue

(* JobManager.h:46, jobs "to be processed": a job in a first-in-first-out  *)
(* queue is processed in the end, whatever is added behind it.             *)
QueuedJobServed ==
  \A j \in Jobs : j \in Range(q_jobQueue) ~> \E w \in Workers : job[w] = j

=============================================================================
