-------------------------------- MODULE Timer --------------------------------
(***************************************************************************)
(* CTimer (airplay/threads/Timer.cpp) on CThread (airplay/threads/         *)
(* Thread.cpp, platform/pthreads/ThreadImpl.cpp): the owner, which starts, *)
(* stops, restarts and destroys the timer, and the threads that the timer  *)
(* has spawned.  The end of one may overlap the start of the next.         *)
(*                                                                         *)
(* Each access to a member that both sides use is a step of its own.       *)
(* m_CriticalSection is held only by a thread that ends, from "term" to    *)
(* "leave".  Left out: m_StopEvent and m_StartEvent, which nobody waits    *)
(* for here, priorities and names, and an OnTimeout that waits for its own *)
(* thread (Stop(true), Restart), which never returns.                      *)
(***************************************************************************)
EXTENDS Integers

CONSTANTS
  ClockMod,   \* SystemClockMillis goes round: 2^32 in the code
  Timeouts,   \* what Start is called with
  MaxStarts   \* bound: threads that are spawned

ASSUME TimerAssumption ==
  /\ ClockMod \in Nat \ {0, 1}
  /\ Timeouts \subseteq 1 .. ClockMod - 1
  /\ MaxStarts \in Nat

VARIABLES
  alive,           \* the object was not destroyed
  m_ThreadId,      \* the thread that runs, or 0
  m_bStop, m_eventTimeout, m_TermEvent,
  m_timeout, m_interval, m_endTime,
  clock,
  owner,           \* where the owner is, the call it makes, and wait
  thread,          \* where each thread is, and its locals
  starts,          \* number of threads spawned
  elapsed,         \* history: milliseconds, up to m_timeout, since Process
                   \* began or fired
  raced            \* history: Create reset m_TermEvent before the thread of
                   \* the last start had set it

flags    == <<m_bStop, m_eventTimeout, m_TermEvent>>
settings == <<m_timeout, m_interval>>
vars == <<alive, m_ThreadId, flags, settings, m_endTime, clock, owner, thread,
          starts, elapsed, raced>>

Threads == 1 .. MaxStarts

Body == {"begin", "loop", "wait", "callback"}
Tail == {"exit", "term", "leave"}

OwnerState == [pc   : {"idle", "flag", "wake", "lock", "join", "restart", "gone"},
               call : {"none", "stop", "restart", "destroy", "free"},
               wait : BOOLEAN]

ThreadState == [pc          : {"none", "done"} \cup Body \cup Tail,
                currentTime : 0 .. ClockMod - 1,
                left        : 0 .. ClockMod - 1]

(* uint32_t arithmetic on times                                            *)
Sub(x, y) == IF x < y THEN x - y + ClockMod ELSE x - y
Add(x, y) == IF x + y < ClockMod THEN x + y ELSE x + y - ClockMod

(* m_CriticalSection can be taken.                                         *)
Unlocked == \A t \in Threads : thread[t].pc \notin {"term", "leave"}

Init ==
  /\ alive = TRUE
  /\ m_ThreadId = 0
  /\ m_bStop = FALSE
  /\ m_eventTimeout = FALSE
  /\ m_TermEvent = FALSE
  /\ m_timeout = 0
  /\ m_interval = FALSE
  /\ m_endTime = 0
  /\ clock \in 0 .. ClockMod - 1
  /\ owner = [pc |-> "idle", call |-> "none", wait |-> FALSE]
  /\ thread = [t \in Threads |-> [pc |-> "none", currentTime |-> 0, left |-> 0]]
  /\ starts = 0
  /\ elapsed = 0
  /\ raced = FALSE

-----------------------------------------------------------------------------
(* The owner. *)

IsRunning == m_ThreadId # 0

Create_KeepTermEvent(timeout, interval) ==
  /\ ~IsRunning
  /\ starts < MaxStarts
  /\ m_timeout' = timeout
  /\ m_interval' = interval
  /\ m_bStop' = FALSE
  /\ starts' = starts + 1
  /\ m_ThreadId' = starts'
  /\ thread' = [thread EXCEPT ![starts'].pc = "begin"]
  /\ raced' = (\E t \in Threads : thread[t].pc = "term")
  /\ UNCHANGED <<alive, m_eventTimeout, m_TermEvent, m_endTime, clock, elapsed>>

(* Start, when nothing runs, and CThread::Create.                          *)
Create(timeout, interval) ==
  /\ ~IsRunning
  /\ starts < MaxStarts
  /\ m_timeout' = timeout
  /\ m_interval' = interval
  /\ m_bStop' = FALSE
  /\ m_TermEvent' = FALSE
  /\ starts' = starts + 1
  /\ m_ThreadId' = starts'
  /\ thread' = [thread EXCEPT ![starts'].pc = "begin"]
  /\ raced' = (\E t \in Threads : thread[t].pc = "term")
  /\ UNCHANGED <<alive, m_eventTimeout, m_endTime, clock, elapsed>>

Start(timeout, interval) ==
  /\ owner.pc = "idle"
  /\ Create(timeout, interval)
  /\ UNCHANGED owner

(* What a step of the owner leaves alone, but for m_bStop and the event.   *)
OwnerFrame ==
  UNCHANGED <<m_ThreadId, m_TermEvent, settings, m_endTime, clock, thread, starts,
              elapsed, raced>>

(* Stop returns at once when nothing runs; the destructor goes on with     *)
(* StopThread of ~CThread.                                                 *)
Stop(call, wait) ==
  /\ owner.pc = "idle"
  /\ IsRunning \/ call = "destroy"
  /\ owner' = IF IsRunning THEN [pc |-> "flag", call |-> call, wait |-> wait]
              ELSE [pc |-> "lock", call |-> "free", wait |-> TRUE]
  /\ OwnerFrame
  /\ UNCHANGED <<alive, m_bStop, m_eventTimeout>>

StopFlag ==
  /\ owner.pc = "flag"
  /\ m_bStop' = TRUE
  /\ owner' = [owner EXCEPT !.pc = "wake"]
  /\ OwnerFrame
  /\ UNCHANGED <<alive, m_eventTimeout>>

StopWake ==
  /\ owner.pc = "wake"
  /\ m_eventTimeout' = TRUE
  /\ owner' = [owner EXCEPT !.pc = "lock"]
  /\ OwnerFrame
  /\ UNCHANGED <<alive, m_bStop>>

Return_FreeAtOnce ==
  \/ /\ owner.call = "stop"
     /\ owner' = [owner EXCEPT !.pc = "idle"]
     /\ UNCHANGED alive
  \/ /\ owner.call = "restart"
     /\ owner' = [owner EXCEPT !.pc = "restart"]
     /\ UNCHANGED alive
  \/ /\ owner.call \in {"destroy", "free"}
     /\ owner' = [owner EXCEPT !.pc = "gone"]
     /\ alive' = FALSE

(* StopThread returns: Restart starts again, ~CTimer is followed by        *)
(* ~CThread, which calls StopThread once more, and then the object is gone. *)
Return ==
  \/ /\ owner.call = "stop"
     /\ owner' = [owner EXCEPT !.pc = "idle"]
     /\ UNCHANGED alive
  \/ /\ owner.call = "restart"
     /\ owner' = [owner EXCEPT !.pc = "restart"]
     /\ UNCHANGED alive
  \/ /\ owner.call = "destroy"
     /\ owner' = [owner EXCEPT !.pc = "lock", !.call = "free"]
     /\ UNCHANGED alive
  \/ /\ owner.call = "free"
     /\ owner' = [owner EXCEPT !.pc = "gone"]
     /\ alive' = FALSE

(* StopThread, with the lock: the thread is waited for if there is one.    *)
StopThread ==
  /\ owner.pc = "lock"
  /\ Unlocked
  /\ m_bStop' = TRUE
  /\ IF IsRunning /\ owner.wait
     THEN owner' = [owner EXCEPT !.pc = "join"] /\ UNCHANGED alive
     ELSE Return
  /\ OwnerFrame
  /\ UNCHANGED m_eventTimeout

WaitForThreadExit ==
  /\ owner.pc = "join"
  /\ m_TermEvent
  /\ Return
  /\ OwnerFrame
  /\ UNCHANGED <<m_bStop, m_eventTimeout>>

RestartStart ==
  /\ owner.pc = "restart"
  /\ owner' = [owner EXCEPT !.pc = "idle"]
  /\ IF IsRunning \/ starts = MaxStarts
     THEN UNCHANGED <<alive, m_ThreadId, flags, settings, m_endTime, clock, thread,
                      starts, elapsed, raced>>
     ELSE Create(m_timeout, m_interval)

-----------------------------------------------------------------------------
(* Thread t. *)

ThreadFrame == UNCHANGED <<alive, settings, clock, owner, starts, raced>>

(* left counts only while the thread waits.                                *)
Goto(t, pc) == thread' = [thread EXCEPT ![t].pc = pc, ![t].left = 0]

Begin_ClearStop(t) ==
  /\ thread[t].pc = "begin"
  /\ m_endTime' = Add(clock, m_timeout)
  /\ thread' = [thread EXCEPT ![t].pc = "loop", ![t].currentTime = clock]
  /\ elapsed' = 0
  /\ m_bStop' = FALSE
  /\ ThreadFrame
  /\ UNCHANGED <<m_ThreadId, m_eventTimeout, m_TermEvent>>

Begin_NoWrap(t) ==
  /\ thread[t].pc = "begin"
  /\ m_endTime' = clock + m_timeout
  /\ thread' = [thread EXCEPT ![t].pc = "loop", ![t].currentTime = clock]
  /\ elapsed' = 0
  /\ ThreadFrame
  /\ UNCHANGED <<m_ThreadId, flags>>

Begin(t) ==
  /\ thread[t].pc = "begin"
  /\ m_endTime' = Add(clock, m_timeout)
  /\ thread' = [thread EXCEPT ![t].pc = "loop", ![t].currentTime = clock]
  /\ elapsed' = 0
  /\ ThreadFrame
  /\ UNCHANGED <<m_ThreadId, flags>>

Loop(t) ==
  /\ thread[t].pc = "loop"
  /\ thread' = IF m_bStop THEN [thread EXCEPT ![t].pc = "exit"]
               ELSE [thread EXCEPT ![t].pc = "wait",
                                   ![t].left = Sub(m_endTime, thread[t].currentTime)]
  /\ ThreadFrame
  /\ UNCHANGED <<m_ThreadId, flags, m_endTime, elapsed>>

WaitSignaled_Fires(t) ==
  /\ thread[t].pc = "wait"
  /\ m_eventTimeout
  /\ m_eventTimeout' = FALSE
  /\ thread' = [thread EXCEPT ![t].pc = "callback", ![t].currentTime = clock,
                              ![t].left = 0]
  /\ ThreadFrame
  /\ UNCHANGED <<m_ThreadId, m_bStop, m_TermEvent, m_endTime, elapsed>>

(* WaitMSec returns true: round the loop, with the old currentTime.        *)
WaitSignaled(t) ==
  /\ thread[t].pc = "wait"
  /\ m_eventTimeout
  /\ m_eventTimeout' = FALSE
  /\ Goto(t, "loop")
  /\ ThreadFrame
  /\ UNCHANGED <<m_ThreadId, m_bStop, m_TermEvent, m_endTime, elapsed>>

(* WaitMSec returns false: the timer fires if the end time has come.       *)
Fires(t) == m_endTime <= clock

WaitTimeout(t) ==
  /\ thread[t].pc = "wait"
  /\ ~m_eventTimeout
  /\ thread[t].left = 0
  /\ thread' = [thread EXCEPT ![t].pc = IF Fires(t) THEN "callback" ELSE "loop",
                              ![t].currentTime = clock, ![t].left = 0]
  /\ elapsed' = IF Fires(t) THEN 0 ELSE elapsed
  /\ ThreadFrame
  /\ UNCHANGED <<m_ThreadId, flags, m_endTime>>

(* OnTimeout may stop its own timer, without waiting.                      *)
CallbackStop(t) ==
  /\ thread[t].pc = "callback"
  /\ Unlocked
  /\ m_bStop' = TRUE
  /\ m_eventTimeout' = TRUE
  /\ UNCHANGED <<m_ThreadId, m_TermEvent, m_endTime, thread, elapsed>>
  /\ ThreadFrame

CallbackReturn(t) ==
  /\ thread[t].pc = "callback"
  /\ IF m_interval
     THEN Goto(t, "loop") /\ m_endTime' = Add(thread[t].currentTime, m_timeout)
     ELSE Goto(t, "exit") /\ UNCHANGED m_endTime
  /\ ThreadFrame
  /\ UNCHANGED <<m_ThreadId, flags, elapsed>>

(* staticThread takes the lock and clears m_ThreadId, ...                  *)
ClearThreadId(t) ==
  /\ thread[t].pc = "exit"
  /\ Unlocked
  /\ m_ThreadId' = 0
  /\ Goto(t, "term")
  /\ ThreadFrame
  /\ UNCHANGED <<flags, m_endTime, elapsed>>

(* ... tells who waits for its end, ...                                    *)
SetTermEvent(t) ==
  /\ thread[t].pc = "term"
  /\ m_TermEvent' = TRUE
  /\ Goto(t, "leave")
  /\ ThreadFrame
  /\ UNCHANGED <<m_ThreadId, m_bStop, m_eventTimeout, m_endTime, elapsed>>

(* ... and gives the lock back.                                            *)
Leave(t) ==
  /\ thread[t].pc = "leave"
  /\ thread' = [thread EXCEPT ![t] = [pc |-> "done", currentTime |-> 0, left |-> 0]]
  /\ ThreadFrame
  /\ UNCHANGED <<m_ThreadId, flags, m_endTime, elapsed>>

-----------------------------------------------------------------------------
(* A millisecond passes.                                                   *)
Tick ==
  /\ clock' = Add(clock, 1)
  /\ elapsed' = IF elapsed < m_timeout THEN elapsed + 1 ELSE elapsed
  /\ thread' = [t \in Threads |->
                  IF thread[t].left > 0 THEN [thread[t] EXCEPT !.left = @ - 1]
                  ELSE thread[t]]
  /\ UNCHANGED <<alive, m_ThreadId, flags, settings, m_endTime, owner, starts, raced>>

OwnerReturns == StopFlag \/ StopWake \/ StopThread \/ WaitForThreadExit \/ RestartStart

ThreadStep(t) ==
  \/ Begin(t) \/ Loop(t) \/ WaitSignaled(t) \/ WaitTimeout(t) \/ CallbackReturn(t)
  \/ ClearThreadId(t) \/ SetTermEvent(t) \/ Leave(t)

Next ==
  \/ \E timeout \in Timeouts, interval \in BOOLEAN : Start(timeout, interval)
  \/ \E wait \in BOOLEAN : Stop("stop", wait)
  \/ Stop("restart", TRUE) \/ Stop("destroy", TRUE)
  \/ OwnerReturns
  \/ \E t \in Threads : ThreadStep(t) \/ CallbackStop(t)
  \/ Tick

(* Threads are scheduled, OnTimeout returns, and a call that began goes on. *)
Fairness ==
  /\ WF_vars(OwnerReturns)
  /\ \A t \in Threads : WF_vars(ThreadStep(t))

Spec == Init /\ [][Next]_vars /\ Fairness

-----------------------------------------------------------------------------
(* The state always has these types; the end time keeps to the clock.      *)
TypeOK ==
  /\ alive \in BOOLEAN
  /\ m_ThreadId \in 0 .. starts
  /\ m_bStop \in BOOLEAN
  /\ m_eventTimeout \in BOOLEAN
  /\ m_TermEvent \in BOOLEAN
  /\ m_interval \in BOOLEAN
  /\ raced \in BOOLEAN
  /\ m_timeout \in Timeouts \cup {0}
  /\ m_endTime \in 0 .. ClockMod - 1
  /\ clock \in 0 .. ClockMod - 1
  /\ owner \in OwnerState
  /\ thread \in [Threads -> ThreadState]
  /\ starts \in 0 .. MaxStarts
  /\ elapsed \in 0 .. ClockMod - 1

(* OnTimeout is never called before m_timeout has passed since Process     *)
(* began or the last call, though a Stop may leave m_eventTimeout set for  *)
(* the next thread, and the clock goes round.                              *)
NotEarly ==
  [][\A t \in Threads :
       thread[t].pc # "callback" /\ thread'[t].pc = "callback"
         => elapsed >= m_timeout]_vars

(* After Stop(true), or the Stop in Restart, nothing of the timer runs,    *)
(* unless the timer was started while its last thread was at its end.      *)
StopMeansStopped ==
  [][/\ owner.pc \in {"lock", "join"} /\ owner'.pc \in {"idle", "restart", "gone"}
     /\ owner.wait /\ ~raced
     => \A t \in Threads : thread[t].pc \notin Body \cup {"exit"}]_vars

(* No thread touches the object after its destructor, under the same       *)
(* condition: the second StopThread, in ~CThread, waits for the lock.      *)
NoUseAfterFree ==
  ~alive /\ ~raced => \A t \in Threads : thread[t].pc \in {"none", "done"}

(* Stop, Restart and the destructor return.                                *)
StopReturns == owner.pc \notin {"idle", "gone"} ~> owner.pc \in {"idle", "gone"}
=============================================================================
