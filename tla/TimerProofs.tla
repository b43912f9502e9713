----------------------------- MODULE TimerProofs -----------------------------
(***************************************************************************)
(* Theorems about Timer, for any clock width, timeouts and number of       *)
(* starts.                                                                 *)
(***************************************************************************)
EXTENDS Timer, TLAPS

-----------------------------------------------------------------------------
(* Types. *)

LEMMA ClockArithmetic ==
  ASSUME NEW x \in 0 .. ClockMod - 1, NEW y \in 0 .. ClockMod - 1
  PROVE  /\ Add(x, y) \in 0 .. ClockMod - 1
         /\ Sub(x, y) \in 0 .. ClockMod - 1
         /\ Sub(Add(x, y), x) = y
BY TimerAssumption DEF Add, Sub

LEMMA TimeoutRange ==
  TypeOK => m_timeout \in 0 .. ClockMod - 1
BY TimerAssumption DEF TypeOK

LEMMA InitType == Init => TypeOK
<1> SUFFICES ASSUME Init PROVE TypeOK
  OBVIOUS
<1> USE TimerAssumption
<1>1. owner \in OwnerState
  BY DEF Init, OwnerState
<1>2. [pc |-> "none", currentTime |-> 0, left |-> 0] \in ThreadState
  BY DEF ThreadState
<1>3. thread \in [Threads -> ThreadState]
  BY <1>2 DEF Init
<1>4. m_ThreadId \in 0 .. starts /\ starts \in 0 .. MaxStarts
  BY DEF Init
<1>5. m_timeout \in Timeouts \cup {0}
  BY DEF Init
<1>6. m_endTime \in 0 .. ClockMod - 1 /\ elapsed \in 0 .. ClockMod - 1
  BY DEF Init
<1> QED
  BY <1>1, <1>3, <1>4, <1>5, <1>6 DEF Init, TypeOK

LEMMA CreateType ==
  ASSUME TypeOK, NEW timeout \in Timeouts \cup {0}, NEW interval \in BOOLEAN,
         Create(timeout, interval), owner' \in OwnerState
  PROVE  TypeOK'
<1> USE TimerAssumption
<1>1. starts' \in 1 .. MaxStarts /\ m_ThreadId' \in 0 .. starts'
  BY DEF TypeOK, Create
<1>2. thread' \in [Threads -> ThreadState]
  BY <1>1 DEF TypeOK, Create, ThreadState, Body
<1>3. raced' \in BOOLEAN
  BY DEF Create
<1>4. m_timeout' \in Timeouts \cup {0} /\ m_interval' \in BOOLEAN
  BY DEF Create
<1>5. starts' \in 0 .. MaxStarts
  BY <1>1
<1>6. m_bStop' = FALSE /\ m_TermEvent' = FALSE
      /\ UNCHANGED <<alive, m_eventTimeout, m_endTime, clock, elapsed>>
  BY DEF Create
<1> QED
  BY <1>1, <1>2, <1>3, <1>4, <1>5, <1>6 DEF TypeOK

(* A record of a thread moves to another place.                            *)
LEMMA GotoType ==
  ASSUME thread \in [Threads -> ThreadState], NEW t \in Threads,
         NEW pc \in Body \cup Tail, NEW time \in 0 .. ClockMod - 1,
         thread' \in {[thread EXCEPT ![t].pc = pc, ![t].left = 0],
                      [thread EXCEPT ![t].pc = pc, ![t].currentTime = time, ![t].left = 0]}
  PROVE  thread' \in [Threads -> ThreadState]
<1>1. 0 \in 0 .. ClockMod - 1
  BY TimerAssumption
<1>2. thread[t] \in ThreadState
  OBVIOUS
<1>3. [thread[t] EXCEPT !.pc = pc, !.left = 0] \in ThreadState
  BY <1>1, <1>2 DEF ThreadState
<1>4. [thread[t] EXCEPT !.pc = pc, !.currentTime = time, !.left = 0] \in ThreadState
  BY <1>1, <1>2 DEF ThreadState
<1> QED
  BY <1>3, <1>4

LEMMA StepType == TypeOK /\ [Next]_vars => TypeOK'
<1> SUFFICES ASSUME TypeOK, [Next]_vars PROVE TypeOK'
  OBVIOUS
<1> USE TimerAssumption
<1>1. ASSUME NEW timeout \in Timeouts, NEW interval \in BOOLEAN, Start(timeout, interval)
      PROVE  TypeOK'
  BY <1>1, CreateType DEF Start, TypeOK
<1>2. ASSUME NEW call \in {"stop", "restart", "destroy"}, NEW wait \in BOOLEAN, Stop(call, wait)
      PROVE  TypeOK'
  BY <1>2 DEF TypeOK, OwnerState, Stop, OwnerFrame, flags, settings
<1>3. CASE StopFlag
  BY <1>3 DEF TypeOK, OwnerState, StopFlag, OwnerFrame, flags, settings
<1>4. CASE StopWake
  BY <1>4 DEF TypeOK, OwnerState, StopWake, OwnerFrame, flags, settings
<1>5. CASE StopThread
  <2>1. owner' \in OwnerState
    BY <1>5 DEF TypeOK, OwnerState, StopThread, Return
  <2>2. alive' \in BOOLEAN
    BY <1>5 DEF TypeOK, StopThread, Return
  <2> QED
    BY <1>5, <2>1, <2>2 DEF TypeOK, StopThread, OwnerFrame, settings
<1>6. CASE WaitForThreadExit
  <2>1. owner' \in OwnerState
    BY <1>6 DEF TypeOK, OwnerState, WaitForThreadExit, Return
  <2>2. alive' \in BOOLEAN
    BY <1>6 DEF TypeOK, WaitForThreadExit, Return
  <2> QED
    BY <1>6, <2>1, <2>2 DEF TypeOK, WaitForThreadExit, OwnerFrame, settings
<1>7. CASE RestartStart
  <2>1. owner' \in OwnerState
    BY <1>7 DEF TypeOK, OwnerState, RestartStart
  <2>2. CASE Create(m_timeout, m_interval)
    BY <2>1, <2>2, CreateType DEF TypeOK
  <2> QED
    BY <1>7, <2>1, <2>2 DEF RestartStart, TypeOK, flags, settings
<1>8. ASSUME NEW t \in Threads, ThreadStep(t) \/ CallbackStop(t)
      PROVE  TypeOK'
  <2> USE DEF ThreadFrame, flags, settings
  <2>0. thread \in [Threads -> ThreadState]
    BY DEF TypeOK, ThreadState
  <2>1. CASE Begin(t)
    <3>1. m_endTime' \in 0 .. ClockMod - 1
      BY <2>1, ClockArithmetic, TimeoutRange DEF Begin, TypeOK
    <3>2. thread' \in [Threads -> ThreadState]
      BY <2>0, <2>1 DEF Begin, TypeOK, ThreadState, Body
    <3> QED
      BY <2>1, <3>1, <3>2 DEF Begin, TypeOK, ThreadState
  <2>2. CASE Loop(t)
    <3>1. Sub(m_endTime, thread[t].currentTime) \in 0 .. ClockMod - 1
      BY <2>0, ClockArithmetic DEF TypeOK, ThreadState
    <3>2. thread' \in [Threads -> ThreadState]
      BY <2>0, <2>2, <3>1 DEF Loop, ThreadState, Body, Tail
    <3> QED
      BY <2>2, <3>2 DEF Loop, TypeOK, ThreadState
  <2>3. CASE WaitSignaled(t)
    <3>1. thread' \in [Threads -> ThreadState]
      BY <2>0, <2>3, GotoType DEF WaitSignaled, Goto, Body, Tail, TypeOK
    <3> QED
      BY <2>3, <3>1 DEF WaitSignaled, TypeOK
  <2>4. CASE WaitTimeout(t)
    <3>1. thread' \in [Threads -> ThreadState]
      BY <2>0, <2>4, GotoType DEF WaitTimeout, Body, Tail, TypeOK
    <3> QED
      BY <2>4, <3>1 DEF WaitTimeout, TypeOK
  <2>5. CASE CallbackStop(t)
    BY <2>5 DEF CallbackStop, TypeOK
  <2>6. CASE CallbackReturn(t)
    <3>1. m_endTime' \in 0 .. ClockMod - 1
      BY <2>0, <2>6, ClockArithmetic, TimeoutRange DEF CallbackReturn, TypeOK, ThreadState
    <3>2. thread' \in [Threads -> ThreadState]
      BY <2>0, <2>6 DEF CallbackReturn, Goto, ThreadState, Body, Tail
    <3> QED
      BY <2>6, <3>1, <3>2 DEF CallbackReturn, TypeOK, ThreadState
  <2>7. CASE ClearThreadId(t)
    <3>1. thread' \in [Threads -> ThreadState]
      BY <2>0, <2>7, GotoType DEF ClearThreadId, Goto, Body, Tail, TypeOK
    <3> QED
      BY <2>7, <3>1 DEF ClearThreadId, TypeOK
  <2>8. CASE SetTermEvent(t)
    <3>1. thread' \in [Threads -> ThreadState]
      BY <2>0, <2>8, GotoType DEF SetTermEvent, Goto, Body, Tail, TypeOK
    <3> QED
      BY <2>8, <3>1 DEF SetTermEvent, TypeOK
  <2>9. CASE Leave(t)
    BY <2>9 DEF Leave, TypeOK, ThreadState
  <2> QED
    BY <1>8, <2>1, <2>2, <2>3, <2>4, <2>5, <2>6, <2>7, <2>8, <2>9 DEF ThreadStep
<1>9. CASE Tick
  <2>1. clock' \in 0 .. ClockMod - 1
    BY <1>9, ClockArithmetic DEF Tick, TypeOK
  <2>2. elapsed' \in 0 .. ClockMod - 1
    BY <1>9, TimeoutRange DEF Tick, TypeOK
  <2> QED
    BY <1>9, <2>1, <2>2 DEF Tick, TypeOK, ThreadState, flags, settings
<1>10. CASE UNCHANGED vars
  BY <1>10 DEF vars, TypeOK, flags, settings
<1> QED
  BY <1>1, <1>2, <1>3, <1>4, <1>5, <1>6, <1>7, <1>8, <1>9, <1>10 DEF Next, OwnerReturns

(* The state of the timer, its owner and its threads always has the        *)
(* declared types, whatever the clock width.                               *)
THEOREM TypeCorrect == Spec => []TypeOK
BY InitType, StepType, PTL DEF Spec

-----------------------------------------------------------------------------
(* The threads of the timer and the calls of its owner. *)

(* m_ThreadId is the one thread that has not begun to end.                 *)
OneThread ==
  \A t \in Threads : thread[t].pc \in Body \cup {"exit"} <=> t = m_ThreadId

Fresh == \A t \in Threads : t > starts => thread[t].pc = "none"

(* While a thread runs, m_TermEvent is set only if the thread before it    *)
(* set it late.                                                            *)
OldThread ==
  m_ThreadId # 0 /\ (m_TermEvent \/ \E t \in Threads : thread[t].pc = "term") => raced

(* What the owner's place says of the call it makes.                       *)
Calls ==
  /\ owner.call \in {"restart", "destroy", "free"} => owner.wait
  /\ owner.call = "free" => owner.pc \in {"lock", "join", "gone"}
  /\ owner.call = "free" /\ ~raced => m_ThreadId = 0 /\ owner.pc # "join"
  /\ ~alive => owner.pc = "gone"
  /\ owner.pc = "gone" => owner.call = "free"

ThreadInv == OneThread /\ Fresh /\ OldThread /\ Calls /\ NoUseAfterFree

LEMMA InitThreads == Init => ThreadInv
BY TimerAssumption DEF Init, ThreadInv, OneThread, Fresh, OldThread, Calls,
  NoUseAfterFree, Threads, Body

LEMMA CreateThreads ==
  ASSUME TypeOK, ThreadInv, NEW timeout, NEW interval, Create(timeout, interval),
         owner.pc \in {"idle", "restart"}, owner' = [owner EXCEPT !.pc = "idle"]
  PROVE  ThreadInv'
<1> USE DEF ThreadInv, IsRunning
<1>1. /\ starts' \in Threads /\ m_ThreadId' = starts' /\ starts' = starts + 1
      /\ thread' = [thread EXCEPT ![starts'].pc = "begin"]
  BY TimerAssumption DEF TypeOK, Create, Threads
<1>2. \A t \in Threads : thread'[t].pc = IF t = starts' THEN "begin" ELSE thread[t].pc
  BY <1>1 DEF TypeOK, ThreadState
<1>3. OneThread'
  BY <1>1, <1>2 DEF OneThread, Create, Threads, Body
<1>4. Fresh'
  BY <1>1, <1>2, TimerAssumption DEF TypeOK, Fresh, Threads
<1>5. OldThread'
  BY <1>2 DEF OldThread, Create
<1>6. Calls' /\ NoUseAfterFree'
  BY DEF TypeOK, OwnerState, Calls, Create, NoUseAfterFree
<1> QED
  BY <1>3, <1>4, <1>5, <1>6

(* A step of the owner that starts no thread.                              *)
LEMMA OwnerThreads ==
  ASSUME ThreadInv, OwnerFrame, Calls', NoUseAfterFree'
  PROVE  ThreadInv'
BY DEF ThreadInv, OneThread, Fresh, OldThread, OwnerFrame

(* StopThread goes on to its return when nothing runs, or it need not wait, *)
(* or the event is set.                                                    *)
LEMMA ReturnCalls ==
  ASSUME TypeOK, ThreadInv, Return, OwnerFrame, owner.pc \in {"lock", "join"},
         owner.wait => m_ThreadId = 0 \/ m_TermEvent,
         owner.pc = "lock" => Unlocked /\ (owner.wait => m_ThreadId = 0)
  PROVE  Calls' /\ NoUseAfterFree'
<1> USE DEF ThreadInv
<1>1. Calls'
  <2>1. owner.wait /\ ~raced => m_ThreadId = 0
    BY DEF OldThread
  <2>2. CASE owner.call \in {"stop", "restart"}
    BY <2>2 DEF TypeOK, OwnerState, Calls, Return, OwnerFrame
  <2>3. CASE owner.call = "destroy"
    BY <2>1, <2>3 DEF TypeOK, OwnerState, Calls, Return, OwnerFrame
  <2>4. CASE owner.call = "free"
    BY <2>1, <2>4 DEF TypeOK, OwnerState, Calls, Return, OwnerFrame
  <2> QED
    BY <2>2, <2>3, <2>4 DEF Return
<1>2. ASSUME ~alive', ~raced', NEW t \in Threads
      PROVE  thread'[t].pc \in {"none", "done"}
  <2>1. owner.call = "free" /\ owner.pc = "lock" /\ m_ThreadId = 0
    BY <1>2 DEF Calls, Return, OwnerFrame
  <2>2. thread[t].pc \notin Body \cup Tail
    BY <2>1 DEF OneThread, Unlocked, Threads, Body, Tail
  <2> QED
    BY <2>2 DEF TypeOK, ThreadState, OwnerFrame
<1> QED
  BY <1>1, <1>2 DEF NoUseAfterFree

(* A step of a thread that goes on, or takes the next place of its end.    *)
LEMMA StepThreads ==
  ASSUME TypeOK, ThreadInv, NEW t \in Threads, ThreadFrame,
         thread[t].pc \notin {"none", "done"},
         \A u \in Threads : u # t => thread'[u].pc = thread[u].pc,
         \/ /\ thread[t].pc \in Body
            /\ thread'[t].pc \in Body \cup {"exit"}
            /\ UNCHANGED <<m_ThreadId, m_TermEvent>>
         \/ /\ thread[t].pc = "exit"
            /\ thread'[t].pc = "term"
            /\ m_ThreadId' = 0
            /\ UNCHANGED m_TermEvent
         \/ /\ thread[t].pc = "term"
            /\ thread'[t].pc = "leave"
            /\ UNCHANGED m_ThreadId
         \/ /\ thread[t].pc = "leave"
            /\ thread'[t].pc = "done"
            /\ UNCHANGED <<m_ThreadId, m_TermEvent>>
  PROVE  ThreadInv'
<1> USE DEF ThreadInv, ThreadFrame, Body
<1>1. OneThread'
  BY DEF OneThread, Threads
<1>2. Fresh'
  BY DEF Fresh
<1>3. OldThread'
  BY DEF OldThread
<1>4. Calls'
  BY DEF Calls
<1>5. NoUseAfterFree'
  BY DEF NoUseAfterFree
<1> QED
  BY <1>1, <1>2, <1>3, <1>4, <1>5

LEMMA NextThreads == TypeOK /\ ThreadInv /\ [Next]_vars => ThreadInv'
<1> SUFFICES ASSUME TypeOK, ThreadInv, [Next]_vars PROVE ThreadInv'
  OBVIOUS
<1>1. ASSUME NEW timeout \in Timeouts, NEW interval \in BOOLEAN, Start(timeout, interval)
      PROVE  ThreadInv'
  BY <1>1, CreateThreads DEF Start, TypeOK, OwnerState
<1>2. ASSUME NEW call \in {"stop", "restart", "destroy"}, NEW wait \in BOOLEAN,
             Stop(call, wait), call = "stop" \/ wait
      PROVE  ThreadInv'
  BY <1>2, OwnerThreads
     DEF Stop, OwnerFrame, ThreadInv, Calls, NoUseAfterFree, IsRunning
<1>3. CASE StopFlag
  BY <1>3, OwnerThreads
     DEF TypeOK, OwnerState, StopFlag, OwnerFrame, ThreadInv, Calls, NoUseAfterFree
<1>4. CASE StopWake
  BY <1>4, OwnerThreads
     DEF TypeOK, OwnerState, StopWake, OwnerFrame, ThreadInv, Calls, NoUseAfterFree
<1>5. CASE StopThread
  <2>1. CASE IsRunning /\ owner.wait
    BY <1>5, <2>1, OwnerThreads
       DEF TypeOK, OwnerState, StopThread, OwnerFrame, ThreadInv, Calls, NoUseAfterFree,
           IsRunning
  <2>2. CASE ~(IsRunning /\ owner.wait)
    BY <1>5, <2>2, OwnerThreads, ReturnCalls DEF StopThread, IsRunning
  <2> QED
    BY <2>1, <2>2
<1>6. CASE WaitForThreadExit
  BY <1>6, OwnerThreads, ReturnCalls DEF WaitForThreadExit
<1>7. CASE RestartStart
  <2>1. CASE Create(m_timeout, m_interval)
    BY <1>7, <2>1, CreateThreads DEF RestartStart
  <2>2. CASE OwnerFrame /\ UNCHANGED alive
    BY <1>7, <2>2, OwnerThreads
       DEF TypeOK, OwnerState, RestartStart, OwnerFrame, ThreadInv, Calls, NoUseAfterFree
  <2> QED
    BY <1>7, <2>1, <2>2 DEF RestartStart, OwnerFrame, flags
<1>8. ASSUME NEW t \in Threads, ThreadStep(t) \/ CallbackStop(t)
      PROVE  ThreadInv'
  <2> USE DEF flags, TypeOK, ThreadState
  <2>1. CASE Begin(t)
    BY <2>1, StepThreads DEF Begin, Body
  <2>2. CASE Loop(t)
    BY <2>2, StepThreads DEF Loop, Body
  <2>3. CASE WaitSignaled(t)
    BY <2>3, StepThreads DEF WaitSignaled, Goto, Body
  <2>4. CASE WaitTimeout(t)
    BY <2>4, StepThreads DEF WaitTimeout, Body
  <2>5. CASE CallbackStop(t)
    BY <2>5, StepThreads DEF CallbackStop, Body
  <2>6. CASE CallbackReturn(t)
    BY <2>6, StepThreads DEF CallbackReturn, Goto, Body
  <2>7. CASE ClearThreadId(t)
    BY <2>7, StepThreads DEF ClearThreadId, Goto
  <2>8. CASE SetTermEvent(t)
    BY <2>8, StepThreads DEF SetTermEvent, Goto
  <2>9. CASE Leave(t)
    BY <2>9, StepThreads DEF Leave
  <2> QED
    BY <1>8, <2>1, <2>2, <2>3, <2>4, <2>5, <2>6, <2>7, <2>8, <2>9 DEF ThreadStep
<1>9. CASE Tick
  <2>1. \A t \in Threads : thread'[t].pc = thread[t].pc
    BY <1>9 DEF Tick, TypeOK, ThreadState
  <2> QED
    BY <1>9, <2>1
       DEF Tick, ThreadInv, OneThread, Fresh, OldThread, Calls, NoUseAfterFree, flags
<1>10. CASE UNCHANGED vars
  BY <1>10 DEF vars, flags, ThreadInv, OneThread, Fresh, OldThread, Calls, NoUseAfterFree
<1> QED
  BY <1>1, <1>2, <1>3, <1>4, <1>5, <1>6, <1>7, <1>8, <1>9, <1>10 DEF Next, OwnerReturns

THEOREM ThreadsHold == Spec => [](TypeOK /\ ThreadInv)
BY TypeCorrect, InitThreads, NextThreads, PTL DEF Spec

(* Once the destructor has returned no thread of the timer will touch it,  *)
(* unless the timer was started while its last thread was at its end.      *)
THEOREM FreedUnused == Spec => []NoUseAfterFree
BY ThreadsHold, PTL DEF ThreadInv

LEMMA StopStep ==
  ASSUME TypeOK, ThreadInv, [Next]_vars,
         owner.pc \in {"lock", "join"}, owner'.pc \in {"idle", "restart", "gone"},
         owner.wait, ~raced, NEW t \in Threads
  PROVE  thread[t].pc \notin Body \cup {"exit"}
<1>1. StopThread \/ WaitForThreadExit
  BY DEF Next, OwnerReturns, Start, Stop, StopFlag, StopWake, RestartStart, ThreadStep,
         Begin, Loop, WaitSignaled, WaitTimeout, CallbackStop, CallbackReturn,
         ClearThreadId, SetTermEvent, Leave, ThreadFrame, Tick, vars
<1>2. m_ThreadId = 0
  BY <1>1 DEF StopThread, WaitForThreadExit, IsRunning, ThreadInv, OldThread,
              TypeOK, OwnerState
<1> QED
  BY <1>2 DEF ThreadInv, OneThread, Threads

(* When a Stop that waits returns, no thread of the timer calls OnTimeout  *)
(* or will, under the same condition.                                      *)
THEOREM StopStops == Spec => StopMeansStopped
<1>1. TypeOK /\ ThreadInv /\ [Next]_vars
      => [owner.pc \in {"lock", "join"} /\ owner'.pc \in {"idle", "restart", "gone"}
          /\ owner.wait /\ ~raced
          => \A t \in Threads : thread[t].pc \notin Body \cup {"exit"}]_vars
  BY StopStep
<1> QED
  BY <1>1, ThreadsHold, PTL DEF Spec, StopMeansStopped

-----------------------------------------------------------------------------
(* Time. *)

(* A thread in the loop has all of m_timeout before it, or the time has    *)
(* passed; one that waits will not stop before that.                       *)
WholeTimeout(t) ==
  \/ elapsed >= m_timeout
  \/ Sub(m_endTime, thread[t].currentTime) = m_timeout

TimeInv ==
  \A t \in Threads :
    /\ thread[t].pc \in {"loop", "wait"} => WholeTimeout(t)
    /\ thread[t].pc = "wait" => elapsed + thread[t].left >= m_timeout

LEMMA InitTime == Init => TimeInv
BY DEF Init, TimeInv

LEMMA CreateTime ==
  ASSUME TypeOK, ThreadInv, NEW timeout, NEW interval, Create(timeout, interval)
  PROVE  TimeInv'
<1>1. starts' \in Threads /\ starts' = starts + 1 /\ m_ThreadId = 0
      /\ thread' = [thread EXCEPT ![starts'].pc = "begin"]
  BY TimerAssumption DEF TypeOK, Create, Threads, IsRunning
<1>2. \A t \in Threads : thread'[t].pc = IF t = starts' THEN "begin" ELSE thread[t].pc
  BY <1>1 DEF TypeOK, ThreadState
<1>3. \A t \in Threads : thread[t].pc \notin Body
  BY <1>1 DEF ThreadInv, OneThread, Threads
<1> QED
  BY <1>2, <1>3 DEF TimeInv, Body

(* No other thread is in the loop.                                         *)
LEMMA AloneInBody ==
  ASSUME TypeOK, ThreadInv, NEW t \in Threads, thread[t].pc \in Body,
         NEW u \in Threads, u # t
  PROVE  thread[u].pc \notin Body
BY DEF ThreadInv, OneThread

LEMMA NextTime == TypeOK /\ ThreadInv /\ TimeInv /\ [Next]_vars => TimeInv'
<1> SUFFICES ASSUME TypeOK, ThreadInv, TimeInv, [Next]_vars PROVE TimeInv'
  OBVIOUS
<1>0. ASSUME UNCHANGED <<thread, m_timeout, m_endTime, elapsed>>
      PROVE  TimeInv'
  BY <1>0 DEF TimeInv, WholeTimeout
<1>1. CASE \E timeout \in Timeouts, interval \in BOOLEAN : Start(timeout, interval)
  BY <1>1, CreateTime DEF Start
<1>2. CASE \E call \in {"stop", "restart", "destroy"}, wait \in BOOLEAN : Stop(call, wait)
  BY <1>0, <1>2 DEF Stop, OwnerFrame, settings
<1>3. CASE StopFlag \/ StopWake \/ StopThread \/ WaitForThreadExit
  BY <1>0, <1>3
     DEF StopFlag, StopWake, StopThread, WaitForThreadExit, OwnerFrame, settings
<1>4. CASE RestartStart
  BY <1>0, <1>4, CreateTime DEF RestartStart, settings
<1>5. ASSUME NEW t \in Threads, ThreadStep(t) \/ CallbackStop(t)
      PROVE  TimeInv'
  <2> USE DEF flags, settings, ThreadFrame
  <2>0. thread \in [Threads -> ThreadState] /\ thread[t] \in ThreadState
    BY DEF TypeOK
  <2>1. CASE Begin(t)
    <3>1. \A u \in Threads : u # t => thread'[u].pc \notin Body
      BY <2>0, <2>1, AloneInBody DEF Begin, Body
    <3>2. thread'[t].pc = "loop" /\ thread'[t].currentTime = clock
      BY <2>0, <2>1 DEF Begin, ThreadState
    <3>3. Sub(m_endTime, clock)' = m_timeout'
      BY <2>1, ClockArithmetic, TimeoutRange DEF Begin, TypeOK
    <3> QED
      BY <2>1, <3>1, <3>2, <3>3 DEF TimeInv, WholeTimeout, Body, Begin
  <2>2. CASE Loop(t)
    <3>1. UNCHANGED <<elapsed, m_timeout, m_endTime>>
      BY <2>2 DEF Loop
    <3>2. \A u \in Threads : u # t => thread'[u] = thread[u]
      BY <2>0, <2>2 DEF Loop
    <3>3. /\ thread'[t].currentTime = thread[t].currentTime
          /\ \/ thread'[t].pc = "exit"
             \/ /\ thread'[t].pc = "wait"
                /\ thread'[t].left = Sub(m_endTime, thread[t].currentTime)
      <4>1. CASE m_bStop
        <5>1. thread' = [thread EXCEPT ![t].pc = "exit"]
          BY <2>2, <4>1 DEF Loop
        <5> QED
          BY <2>0, <5>1 DEF ThreadState
      <4>2. CASE ~m_bStop
        BY <2>0, <2>2, <4>2 DEF Loop, ThreadState
      <4> QED
        BY <4>1, <4>2
    <3>4. WholeTimeout(t)
      BY <2>2 DEF Loop, TimeInv
    <3>5. Sub(m_endTime, thread[t].currentTime) \in 0 .. ClockMod - 1
      BY <2>0, ClockArithmetic DEF TypeOK, ThreadState
    <3>6. elapsed \in Nat /\ m_timeout \in Nat
      BY TimeoutRange DEF TypeOK
    <3>7. WholeTimeout(t)'
      BY <3>1, <3>3, <3>4 DEF WholeTimeout, Sub
    <3>8. thread'[t].pc = "wait" => elapsed' + thread'[t].left >= m_timeout'
      BY <3>1, <3>3, <3>4, <3>5, <3>6 DEF WholeTimeout
    <3>9. ASSUME NEW u \in Threads, u # t
          PROVE  /\ thread'[u].pc \in {"loop", "wait"} => WholeTimeout(u)'
                 /\ thread'[u].pc = "wait" => elapsed' + thread'[u].left >= m_timeout'
      BY <3>1, <3>2, <3>9 DEF TimeInv, WholeTimeout, Sub
    <3> QED
      BY <3>7, <3>8, <3>9 DEF TimeInv
  <2>3. CASE WaitSignaled(t) \/ WaitTimeout(t)
    <3>1. \A u \in Threads : u # t => thread'[u].pc \notin Body
      BY <2>0, <2>3, AloneInBody DEF WaitSignaled, WaitTimeout, Goto, Body
    <3>2. CASE WaitSignaled(t)
      <4>1. thread'[t].pc = "loop" /\ thread'[t].currentTime = thread[t].currentTime
        BY <2>0, <3>2 DEF WaitSignaled, Goto, ThreadState
      <4>2. WholeTimeout(t)'
        BY <3>2, <4>1 DEF WaitSignaled, TimeInv, WholeTimeout, Sub
      <4> QED
        BY <3>1, <4>1, <4>2 DEF TimeInv, Body
    <3>3. CASE WaitTimeout(t)
      <4>1. \/ thread'[t].pc = "callback"
            \/ thread'[t].pc = "loop" /\ UNCHANGED <<elapsed, m_timeout>>
        BY <2>0, <3>3 DEF WaitTimeout, Fires, ThreadState, Body, Tail
      <4>2. elapsed >= m_timeout
        BY <2>0, <3>3, TimeoutRange DEF WaitTimeout, TimeInv, TypeOK
      <4> QED
        BY <3>1, <4>1, <4>2 DEF TimeInv, WholeTimeout, Body
    <3> QED
      BY <2>3, <3>2, <3>3
  <2>4. CASE CallbackReturn(t)
    <3>1. \A u \in Threads : u # t => thread'[u].pc \notin Body
      BY <2>0, <2>4, AloneInBody DEF CallbackReturn, Goto, Body
    <3>2. \/ thread'[t].pc = "exit"
          \/ /\ thread'[t].pc = "loop"
             /\ thread'[t].currentTime = thread[t].currentTime
             /\ m_endTime' = Add(thread[t].currentTime, m_timeout)
      BY <2>0, <2>4 DEF CallbackReturn, Goto, ThreadState
    <3>3. Sub(Add(thread[t].currentTime, m_timeout), thread[t].currentTime) = m_timeout
      BY <2>0, ClockArithmetic, TimeoutRange DEF ThreadState
    <3>4. m_timeout' = m_timeout
      BY <2>4 DEF CallbackReturn
    <3> QED
      BY <3>1, <3>2, <3>3, <3>4 DEF TimeInv, WholeTimeout, Sub, Body
  <2>5. CASE CallbackStop(t)
    BY <1>0, <2>5 DEF CallbackStop
  <2>6. CASE ClearThreadId(t) \/ SetTermEvent(t) \/ Leave(t)
    <3>1. UNCHANGED <<m_timeout, m_endTime, elapsed>>
      BY <2>6 DEF ClearThreadId, SetTermEvent, Leave
    <3>2. thread'[t].pc \notin Body
      BY <2>0, <2>6 DEF ClearThreadId, SetTermEvent, Leave, Goto, ThreadState, Body
    <3>3. \A u \in Threads : u # t => thread'[u] = thread[u]
      BY <2>0, <2>6 DEF ClearThreadId, SetTermEvent, Leave, Goto
    <3> QED
      BY <3>1, <3>2, <3>3 DEF TimeInv, WholeTimeout, Sub, Body
  <2> QED
    BY <1>5, <2>1, <2>2, <2>3, <2>4, <2>5, <2>6 DEF ThreadStep
<1>6. CASE Tick
  <2>1. UNCHANGED <<m_timeout, m_endTime>>
        /\ elapsed' = IF elapsed < m_timeout THEN elapsed + 1 ELSE elapsed
    BY <1>6 DEF Tick, settings
  <2>2. ASSUME NEW t \in Threads
        PROVE  /\ thread'[t].pc = thread[t].pc
               /\ thread'[t].currentTime = thread[t].currentTime
               /\ thread'[t].left = IF thread[t].left > 0 THEN thread[t].left - 1
                                    ELSE thread[t].left
               /\ thread[t].left \in Nat
    BY <1>6 DEF Tick, TypeOK, ThreadState
  <2>3. elapsed \in Nat /\ m_timeout \in Nat
    BY TimeoutRange DEF TypeOK
  <2> QED
    BY <2>1, <2>2, <2>3 DEF TimeInv, WholeTimeout, Sub
<1>7. CASE UNCHANGED vars
  BY <1>0, <1>7 DEF vars, settings
<1> QED
  BY <1>1, <1>2, <1>3, <1>4, <1>5, <1>6, <1>7 DEF Next, OwnerReturns

LEMMA FireStep ==
  ASSUME TypeOK, TimeInv, [Next]_vars, NEW t \in Threads,
         thread[t].pc # "callback", thread'[t].pc = "callback"
  PROVE  elapsed >= m_timeout
<1>0. thread \in [Threads -> ThreadState]
  BY DEF TypeOK
<1>1. ASSUME NEW timeout, NEW interval, Create(timeout, interval)
      PROVE  FALSE
  <2>1. thread' = [thread EXCEPT ![starts'].pc = "begin"] /\ starts' \in Threads
    BY <1>1, TimerAssumption DEF Create, TypeOK, Threads
  <2> QED
    BY <1>0, <2>1 DEF ThreadState
<1>2. ASSUME UNCHANGED thread
      PROVE  FALSE
  BY <1>2
<1>3. ASSUME NEW u \in Threads, ThreadStep(u) \/ CallbackStop(u)
      PROVE  WaitTimeout(t)
  <2>1. ASSUME NEW pc \in Body \cup Tail, pc # "callback", Goto(u, pc)
        PROVE  FALSE
    BY <1>0, <2>1 DEF Goto, ThreadState
  <2>2. ~WaitSignaled(u) /\ ~CallbackReturn(u) /\ ~ClearThreadId(u) /\ ~SetTermEvent(u)
    BY <2>1 DEF WaitSignaled, CallbackReturn, ClearThreadId, SetTermEvent, Body, Tail
  <2>3. ~Begin(u) /\ ~Loop(u) /\ ~Leave(u) /\ ~CallbackStop(u)
    BY <1>0, <1>2 DEF Begin, Loop, Leave, CallbackStop, ThreadState
  <2>4. WaitTimeout(u) /\ u = t
    BY <1>0, <1>3, <2>2, <2>3 DEF ThreadStep, WaitTimeout
  <2> QED
    BY <2>4
<1>4. ~Tick
  BY DEF Tick, TypeOK, ThreadState
<1>5. WaitTimeout(t)
  BY <1>1, <1>2, <1>3, <1>4
     DEF Next, OwnerReturns, Start, Stop, StopFlag, StopWake, StopThread,
         WaitForThreadExit, RestartStart, OwnerFrame, vars
<1> QED
  BY <1>5, TimeoutRange DEF WaitTimeout, TimeInv, TypeOK, ThreadState

(* OnTimeout is never called before m_timeout has passed, wherever the     *)
(* clock goes round and whatever a Stop left in m_eventTimeout.            *)
THEOREM NeverEarly == Spec => NotEarly
<1>1. TypeOK /\ TimeInv /\ [Next]_vars
      => [\A t \in Threads :
            thread[t].pc # "callback" /\ thread'[t].pc = "callback"
              => elapsed >= m_timeout]_vars
  BY FireStep
<1>2. Spec => []TimeInv
  BY ThreadsHold, InitTime, NextTime, PTL DEF Spec
<1> QED
  BY <1>1, <1>2, TypeCorrect, PTL DEF Spec, NotEarly
=============================================================================
