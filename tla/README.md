# A verification project for librhino

librhino is the media-receiver library of the Rhino application: it lets phones
and laptops on the same network push photos, music and video to a device, over
AirPlay, AirTunes (RAOP), UPnP and DLNA. It is a C and C++ port of parts of
XBMC, with Android and Windows shells around it. Of its 2955 files most are
vendored libraries; the first-party code is in `src/airplay`, `src/dlna`,
`src/icebox` and `src/android`. This directory holds TLA+ models of its
concurrent core, the TLC runs that check them and proofs about them.

Paths below are relative to `src/airplay` unless they begin with `src/`.

## 1. Inventory

| Component | State | Operations | How it interacts | What is hard |
|---|---|---|---|---|
| **Job manager** `utils/JobManager.*`, `Job.h` | three queues by priority, pauses, running items, list of threads, id counter, an auto-reset event | AddJob, CancelJob, CancelJobs, Pause, UnPause; worker loop: GetNextJob, OnJobProgress, OnJobComplete | calls back `IJobCallback` with its lock released; threads are made on demand and delete themselves | wakeups, idle timeouts, cancels racing completion, shutdown, who frees a job |
| **Job queue** `CJobQueue` in `utils/JobManager.*` | jobs waiting, jobs handed to the manager | AddJob, CancelJob, CancelJobs, OnJobComplete, destructor | a client of the job manager, called back on its threads | late callbacks, equality in place of identity, stalls |
| **Zeroconf publisher** `network/Zeroconf.*`, `network/mdns/ZeroconfMDNS.*` | services wanted, started flag, registration handles | PublishService, RemoveService, Start, Stop, CPublish jobs | publishes through jobs, removes at once | a job's copy crossing a removal; handles registered and remembered in two steps |
| Zeroconf browser `network/ZeroconfBrowser.*` | discovered services by type | AddServiceType, Start, Stop, callbacks of the responder | called back by mDNSResponder | the lock handed to the client |
| **Events** `threads/Event.*`, `Condition.h` | signal, number of waiters, groups | Set, Reset, WaitMSec, group wait | used by all of `airplay` | a signal raised outside the group's lock, several waiters |
| Shared section `threads/SharedSection.h` | readers, a recursive mutex | lock, lock_shared, try_lock | | writer starvation |
| **Threads and timers** `threads/Thread.*`, `Timer.*` | thread id, stop flag, three events, auto delete; end time, timeout, interval | Create, StopThread, exit; Start, Stop, Restart | base of every worker | a thread at its end against the next start, auto delete against stop, joining oneself, 32-bit time |
| Lock-free containers `threads/LockFree.*` | stack, heap, queue | push, pop, alloc, free, enqueue, dequeue | no first-party user | ABA, a full heap |
| **AirPlay server** `network/airplay_server.*` | connections, reverse event and slide sockets by session, per-client parser and slide show | DidAccept, DidRead, DidClose, announcements, DisconnectClient, Deinitialize | callbacks of the network loop, announcements from other threads | maps that must agree; a lock some paths take |
| HTTP parser `utils/HttpParser.*` | bytes so far, state, positions | addBytes, getValue | one per AirPlay client | chunking, lengths |
| AirTunes server `network/AirTunesServer.*` | one server, a pipe, metadata | StartServer, StopServer, callbacks of libshairplay | publishes through Zeroconf | callbacks during stop |
| **RAOP session and buffer** `raop_rtp.cc`, `raop_buffer.cc` and the RTSP handlers of `raop.cc` in `src/third_party/libshairplay/src/lib` | window of 16-bit sequence numbers, slots; running and joined flags, flush request, parameters to hand on, sockets | queue, dequeue, resend, flush; init, start, stop, flush, setters, the UDP and TCP threads | an RTSP thread and a receiving thread share one session; the network | wrap-around, lost, repeated and late packets, fields `new` does not clear, who ends the thread |
| Announcement manager `interfaces/AnnouncementManager.*` | listeners | add, remove, announce | calls the AirPlay server with its lock held | removal from a callback |
| Network services `network/NetworkServices.cpp` and interfaces `network/linux`, `network/windows` | which servers run | start and stop in order | calls all servers | input and output |
| UPnP `network/upnp` | adapters of Platinum | conversions, callbacks | | formats |
| DLNA `src/dlna/android/libdlna` | lists of devices and clients, one lock each | Init, add, remove, notify | callbacks of the DLNA stack | lock order, a lock taken twice |
| Cloud sync `src/icebox` | none | stubs | | |
| Applications `src/android/app`, `win32` | | user interface, JNI | | |
| Vendored | libplist, mDNSResponder, libupnp, Platinum, json-c, tinyxml, libshairplay | | | |

What makes each correct, in one line: *job manager*: each job is in one place,
run by one thread, freed once, in order of priority within the limits of the
pool, and never left without a thread; *job queue*: at most so many at a time,
no job twice, never idle with work, nothing after a cancel; *publisher*: what
is published is what is wanted, and every handle is known; *events*: a set
event releases a waiter; *shared section*: readers or one writer; *threads*:
stop returns only after the end, and once; *AirPlay server*: every socket in a
map belongs to a live connection of its session; *parser*: the result depends
on the bytes only; *timers*: never early,
and silent after Stop; *RAOP*: packets leave in order and at their place, the
window never exceeds the buffer, a session outlives its thread; *DLNA*: no lock cycle, no notification to a
removed client; *lock-free queue*: the elements taken are those put, in order.

The hazards behind these, each at its line and with the property that covers
it, are in `PROJECT.json` under "hazards".

## 2. Plan

1. **Done.** `JobService`, `JobManager`, `JobManagerProofs`,
   `JobManagerCapacityProofs`, `JobManagerRefinementProofs`: everything else
   runs on these threads.
2. **Done.** `SerialQueue`, `JobQueue`, `JobQueueProofs`, composed with `JobManager` (EXTENDS:
   the queue calls the manager's actions with its own lock held).
3. **Done.** `Zeroconf`, `ZeroconfProofs`, composed with `JobService`
   (INSTANCE): the publisher relies only on what the manager was shown to
   implement.
4. **Done.** `RaopBuffer`, `RaopRtp`, `RaopProofs`: the buffer as a value, the
   session that owns it, and the network between sender and session.
5. **Done.** `AirPlayServer`, `AirPlayServerProofs`: the three maps, sessions,
   the slide show, announcements from other threads.
6. **Done.** `Timer`, `TimerProofs`: CTimer on CThread, with threads of one timer
   that overlap.
7. CThread with auto delete, which only the workers of the job manager use:
   `StopThread` against the delete in `staticThread`.
8. The AirPlay server with its callbacks and its announcements interleaved
   access by access: the callbacks do not take `m_connectionLock`.
9. The Zeroconf browser, whose shape is that of the publisher without jobs, and
   the HTTP parser as a fold over bytes against a reference parse.

Every safety property the passing runs check is a theorem (section 5), both
refinements included. Worth stating next: an abstract queue with cancels, where
a job that was cancelled may still be running and a place may stay free until
the next AddJob.
Runs stay at two or three threads, jobs, sockets or handles and within minutes.

## 3. The modules

### JobService: what the manager promises

Four variables: open or closed, paused priorities, and for each job its status
(absent, queued, running, finished) and priority. A job starts only if it is
the highest runnable one and its priority may take one more thread; nothing
starts after Close; a job is destroyed only when it no longer runs.

### JobManager: `CJobManager`, `CJobWorker`, and the event between them

*State.* `m_running`, `m_jobCounter`, `m_jobQueue`, `m_jobPause`,
`m_processing` and `m_workers` are the members of that name; `work` is the
`CWorkItem` of each job; `signaled` is that of `m_jobEvent`. `pc`, `job` and
`item` are the threads: where each is in `CJobWorker::Process`, and its locals.
`allocated` are the jobs the manager must delete; jobs and workers are heap
addresses, used again after delete.

*Steps.* One region guarded by `m_section` is one action: `AddJob` with
`StartWorkers`, `CancelJob`, `Pause`, `UnPause`, the regions of `CancelJobs`,
a turn of `GetNextJob` (pop, go to sleep, or leave), the two regions of
`OnJobComplete`. What happens outside of the lock is a step of its own: the test
of the copied callback and the call, deleting the job, entering `WaitMSec`,
waking, timing out. `IsPaused` and `IsProcessing` only read. `AddJob` when
stopped returns 0 and is no step.

*Left out.* What jobs do (DoWork is the time between two steps, with any number
of progress reports), the argument of callbacks, names of threads, and memory
errors: a pointer that would dangle shows as a violated invariant.

### JobQueue: `CJobQueue` on top of JobManager

Adds `q_jobQueue`, `q_processing` (records of job and id) and where the queue
is in CancelJobs or its destructor. Each public method holds the queue's
`m_section`, so a method that enters the manager once is one step; `CancelJobs`
enters it once per entry, a step each. `OnJobComplete` runs on a worker thread
that the manager has put in "callback". `Key` is what `operator==` of the jobs
compares; `NULL` is the inherited one, which is never true. `lost` are the jobs
given to a stopped manager. What follows a call into a destroyed queue is
undefined and not followed: `CancelledNotCalled` is the property it violates.

`SerialQueue` is what the class promises in its comments, with two variables: the
jobs that wait, and the set handed out. A submitted job is handed out if there is
room and waits behind (or, last in first out, before) the others if not; one that
completes gives its place to the next. `JobQueue` implements it as long as nothing
is cancelled; there is no step in between where a place is free and a job waits.

### Zeroconf: `CZeroconf` and `CZeroconfMDNS` on top of JobService

`m_service_map` and `m_started` under `mp_crit_sec`; `m_servmap` is what each
CPublish job has still to publish; `live` is the responder's side of each
handle (external); `registered` is a handle between `DNSServiceRegister` and
`m_services.insert`, which are two regions of `m_data_guard`. Jobs are reused
addresses. `m_service` is NULL in all of the code, so the shared connection and
`ProcessResults` are left out, as are the singleton's release and the thread of
the embedded responder.

### RaopBuffer and RaopRtp: an AirTunes stream

*The buffer is a value.* Each function of `raop_buffer.cc` that changes the
buffer is an operator from buffers to buffers under the function's name, so the
proofs are about the functions and the session merely calls them. Slots,
`first_seqnum`, `last_seqnum` and `is_empty` are the fields; the audio of a slot
is the packet it came from. `raop_buffer_init` is a *set*: `new` leaves the
numbers and the `available` flags as the memory was.

*A packet is its place in the stream*, and its sequence number is that place
modulo `SeqMod`; "the wrong sound" can then be said (`InTime`), which it
could not of numbers. What dequeue hands over is one of three things: the audio
of a packet, a whole slot of zeros for a packet that is missing (`Silence`), or no
bytes at all (`NoAudio`, and `Stale` beside an `available` flag that is only what
the memory held). After the last the sound goes on a place early; `InTime` says
that it comes only from a slot that nobody used since `raop_buffer_init`.
`BadPacket` is one of a length that `raop_buffer_queue` refuses with -1: the
callers assert on it, and `Asserts` says whether the build has asserts. UDP is the absence of a channel: any packet sent since
SETUP may arrive now, again, or never. TCP is `read`, the length of the prefix
read.

*Two threads.* The RTSP thread runs the handlers one by one; `rtsp` says which of
them waits in `raop_rtp_stop` for the other thread. That thread is `pc`; a round
of its loop is `raop_rtp_process_events` (one region of `run_mutex`), `select`,
one packet, and playing what can be played. `mail` is the set of parameters set
and not taken yet: each has one slot, which the next value overwrites. `broken`
remembers that the UDP thread left its loop by itself: `select` failed, or
`audio_process` returned -2, which the callbacks of `AirTunesServer` never do but
the interface allows (`Failures`). Nobody reads `tsock`, and the three sockets are
an else-if: behind one timing packet (`timing`) what comes on `dsock` is not read
again, and the thread goes round without a wait. A FLUSH may name any number
(`FlushNumbers`); `astray` remembers that one of this session named the number of no packet
that was sent or is next.

*Left out.* Decryption and decoding, authentication, headers and addresses.

### AirPlayServer: `CAirPlayServer` and its connections

`m_connections` maps a socket to the part of its client that matters: session,
last event, slides, whether the slide timer runs. `m_reverseEventSockets` and
`m_reverseSlideSockets` have NULL for no entry (the code makes entries by
`operator[]`). A socket is an address: it is accepted again after delete, and the
order in which std::map walks the connections is the order of addresses, which
`DisconnectClient` depends on. The server thread runs one callback, timer or
posted task at a time, a step each; `tasks` are the posted ones, with their weak
pointers. An announcement comes from another thread and is one step as well.

Neither `DidRead` nor `ProcessRequest` asks what a connection was turned into by
`/reverse`, and nobody reads `socket_type_`: every request, and every answer to a
GET that may or may not have been sent, is taken on every connection at any time.
Slides therefore wait, and timers run, on any of them.

`serving` is whether the server's thread runs. `StopServer` ends it with its tasks
and its timers and leaves the maps; `StartServer` stops it if need be, and
Deinitialize then clears two of the three maps. Three histories say what the code
leaves behind: `orphaned` the sessions whose slide entry `DisconnectClient` or
Deinitialize left, `leaked` the clients that a restart does not release, and
`stopped`, of a client, that its timer was stopped while slides waited and that
none has been shown since.

*Left out.* Texts, passwords, photos and their files, the delegate that plays,
and torn accesses between callbacks and announcements. The GET that `RequestSlides`
sends changes nothing here, so its step only takes the task, and the slide entry
under no session id, which nothing else looks up, is left out with it. That the
timers of a loop stop with it is the message loop's doing. OnDisconnect after
StopServer posts to a loop that is deleted (`airplay_server.cc:445`): what follows
is undefined and not followed.

### Timer: `CTimer` on `CThread`

The owner starts, stops, restarts and destroys; each thread the timer has had is
a process of its own, since the end of one may overlap the start of the next.
Every access to a member that both sides use is a step. The clock goes round, as
SystemClockMillis does. `elapsed` counts up to `m_timeout` from the start of
Process or the last call. `raced` says that Create reset `m_TermEvent` before the
previous thread had set it; see "Also seen".

*Left out.* `m_StopEvent` and `m_StartEvent` (nobody waits for them here),
priorities, auto delete, and an OnTimeout that waits for its own thread.

## 4. The runs

Constants are in the `.cfg` files; symmetry is used in safety runs only, over
sets whose members the module never tells apart.

| Run | Question | Instance |
|---|---|---|
| `manager_pool` | jobs in one place, one thread, freed once; limits of the pool; shutdown complete; the manager implements `JobService`; no deadlock | 3 jobs, 4 threads to start of which `max_workers = 3` allows two at the priorities used, ids 1 and 2, two priorities of which the lower may be paused |
| `manager_live` | CancelJobs returns; queued jobs are served | 2 jobs, 2 threads, low and high, no pauses |
| `queue_working` | the queue implements `SerialQueue`, no equal jobs, each job processed in the end | 4 jobs (two equal), one at a time, 3 threads, FIFO, no cancels |
| `queue_cancel` | entries never dangle | 3 jobs, 2 threads, LIFO, cancels, destruction, shutdown |
| `zeroconf_patient` | published = wanted, no leak, answers right, if services are withdrawn only while no job publishes | 3 services, 3 jobs, 3 handles |
| `zeroconf_live` | handles are live and held once; an added service gets published | 2 services of which one may be refused, 2 jobs, 3 handles |
| `raop_stream` | the player gets the packet that is due, as much silence, or nothing from a slot never used; in order, within the window; only what is missing is asked for again | 4 slots, 16 numbers, 8 packets from number 13 on, numbers of a new buffer 12 or 15, one session, one FLUSH (of the next packet, of none, of 7 or of 15), short packets in a build without asserts, UDP with and without resends, and TCP |
| `raop_session` | no session is freed under its thread, sockets closed, joins return, requests reach the thread | 2 slots, 8 numbers, 3 packets, two ANNOUNCEs, one FLUSH, select and audio_process may fail, a timing packet may wait, short packets in a build with asserts |
| `airplay_server` | reverse sockets are live and of their session, slides that wait have a timer unless it was stopped while they did, a disconnect is carried out | 2 sockets, a session and senders without one, 1 task of each kind, 2 slides, any number of stops and starts until every address is leaked |
| `timer` | never early; Stop returns, and means stopped; no thread outlives the object | a clock of 4, timeouts 1 and 2, 3 starts |

*Bounds and why they are enough.* `max_workers = 3` gives the
three priorities limits of 1, 2 and 3. In `manager_pool` jobs are added at the two
lower ones, so that the limits 1 and 2 are reached and the third is not; with four
threads to start there are always two that must not be, so that `PoolBounded` can
be broken (`PoolStaysBounded` proves it for every limit). The queue runs add at
one priority. Three jobs with ids out of {1, 2} and
reuse of addresses make ids and pointers come round while old threads still
hold them. A third job in the queue is what makes the late completion of one
equal job hit the entry of another, and with a fourth two unequal jobs wait
behind one that runs, so that their order shows. Three publish jobs allow two of them to
publish the same service while a third waits; three services let the job of
Start carry more than one. In `zeroconf_live` a leaked handle can use up the
bound on handles; `ServicePublished` then asks nothing (`NoHandleFree`), which
the run reaches only after a leak.

Sixteen numbers are four laps of four slots, the least `BufferAssumption` allows.
Eight packets from number 13 on cross the end of the numbers, can fill the
window and leave it by up to a lap, so that every branch of
`raop_buffer_queue` is taken on both sides of the wrap. They are at most half of the
numbers, or a packet of the stream would be mistaken for one a cycle older: what
happens to a *jump* of half the numbers is listed below. Two sessions let a
packet and a thread of the first meet the second. Two AirPlay sockets are enough
for each hazard of the maps: an entry whose socket was closed and accepted again,
two connections of one session, a connection that comes after the reverse socket.
Two slides let the end of a show be followed by a slide, or a slide wait behind one
when the timer is stopped. One task of each kind is enough for a task whose client was
closed, and for both orders of the two kinds.
Three starts of a timer let a thread that ends meet the next and the one after
it, and a clock of 4 with a timeout of 2 wraps within one wait.

Deadlock is checked in `manager_pool`; in the other runs the system may really
stop (shut down, or no client calls left) and the check is off.

*Fairness.* `FairSpec` of JobManager: weak fairness of each thread's own steps,
which includes the timeout of `WaitMSec` (30 s, a constant in the code) and the
return of `DoWork` and of callbacks; strong fairness of the end of DoWork, since a
job that reports progress keeps passing through the same state; weak fairness of
the loop of CancelJobs. Clients owe nothing. JobQueue adds weak fairness of the
callback, run by the same threads. Zeroconf has weak fairness of running jobs
and strong fairness of a start, because all its jobs have one priority and the
manager's queue is first in, first out. RaopRtp: weak fairness of the receiving
thread, whose `select` returns within 5 ms, and of the return of a join whose
thread is gone; nothing is assumed of the network or of RTSP clients.
AirPlayServer: weak fairness of the tasks of the message loop, which runs while
the server does; timers and peers owe it nothing. Timer: weak fairness of each thread and of a call the owner
has begun; the clock owes nothing, and neither does the owner owe a call.

### Disagreements between the code and its comments

Each is a run TLC finds violated, quoted in `PROJECT.json` under "findings".

| Run | What happens |
|---|---|
| `queue_late` | OnJobComplete of the queue is called after CancelJob, CancelJobs or the destructor returned |
| `zeroconf_stale` | a CPublish job publishes what was removed or stopped meanwhile |

Also seen while modelling, and kept as hazards or notes rather than runs. In the
job manager and its clients:

- `JobManager.cpp:360` two AddJobs, two sleepers about to enter WaitMSec: the two
  Sets are one signal, and the second sleeper may wait up to 30 s beside a job;
- `JobManager.cpp:316` a job queued under a pause whose thread timed out and left
  has no thread after UnPause, until the next AddJob;
- `JobManager.cpp:274` two AddJobs before the new thread has popped: it counts
  as free, no second thread is made, the second job waits for the first;
- `JobManager.cpp:108` a late completion erases the entry of a newer, equal job;
- `JobManager.cpp:121` CancelJob of the queue's running job leaves the waiting
  ones behind until the next AddJob;
- `JobManager.cpp:232` with `m_jobsAtOnce > 1`, once an id has come round while
  its first job is still listed, CancelJob of one entry deletes the job of another;
- `JobManager.cpp:157` a job given to a stopped manager is never deleted (`lost`);
- `Job.h:148` with the inherited `operator==` a queue stops after
  `m_jobsAtOnce` jobs;
- `Zeroconf.cpp:91` RemoveService of a service that exists and is not yet
  published returns false; `Zeroconf.cpp:98` HasService reads without the lock;
- `ZeroconfMDNS.cpp:124` two jobs that publish one identifier: the first handle
  is overwritten and lost.

In the RAOP session (`raop_buffer.cc`, `raop_rtp.cc`):

- `raop_buffer.cc:165` the uninitialised `available` can make the first packet
  of a number look like one that was resent, and it is dropped. `Flags` holds both
  values in the runs: a dropped packet is a lost one;
- `raop_buffer.cc:424` when such a slot falls due, it is handed over with length 0,
  where a missing packet is a slot of silence (`:415`): the sound that follows is a
  place early. `InTime` allows exactly this (`Stale`);
- `raop_rtp.cc:397` a timing packet is never read from `tsock`. It keeps `select`
  from waiting, and the else-if keeps `dsock` from being read from then on;
- `raop_rtp.cc:394`, `:541` a resent packet of 12 to 15 bytes, or one of a TCP stream
  of fewer than 12, fails an assert, and with it the program (that of line 411 holds,
  since 403 looks at the length);
- `raop.cc:338` a FLUSH may name any number: one of no packet makes what is sent
  next early or late, and one of -42 is taken for no request;
- a FLUSH that the thread takes late can set playback back to its number; a FLUSH
  with a number leaves `is_empty`, so that an empty buffer still accepts older
  packets. `InOrder` therefore speaks of the steps outside of `events`;
- a resent packet on the control socket is played only with the next packet on the
  data socket; over TCP numbers are ignored;
- a jump of half the numbers or more counts as too late and is dropped;
- a UDP thread that leaves its loop by itself clears `running`: `raop_rtp_stop`
  then returns without a join, the sockets stay open and SETUP is refused;
- `raop_buffer.cc:429` `raop_buffer_handle_resends` does not look at `is_empty`: if
  the first packet is dropped because of the uninitialised flags, it asks for the
  numbers the memory happened to hold (`AskedMissing` allows exactly that);
- `raop_rtp.cc:639` metadata set again before it was taken is leaked.

In the AirPlay server (`airplay_server.cc`):

- an announcement goes out once per connection of a session, where the comment
  at line 600 says once per reverse socket;
- `/stop` (line 1610) stops the timer of the connection it comes on and keeps its
  slides: they wait until the next one arrives, which shows the oldest of them.
  On another connection than that of the slides it does not end the show;
- an answer without a picture (line 1423) asks for the next slide all the same;
- StopServer leaves `m_loop` pointing to a loop that is deleted (line 445);
- `DisconnectClient` skips the connections after the reverse socket and leaves the
  slide entry; `Deinitialize` clears the event sockets twice and the slide
  sockets never.

In timers (`Timer.cpp`, `Thread.cpp`):

- Start while `m_ThreadId` is already 0 and the old thread has yet to set
  `m_TermEvent`: Create resets the event, the old thread then sets it, and the
  next Stop(true) or destructor returns while the new thread runs
  (`Thread.cpp:96`, `:135`). The properties of Stop exclude exactly this (`raced`);
- OnTimeout that calls Stop(true) or Restart waits for itself;
- a wait that ends late, when the clock has gone round in between, finds the end
  time ahead again: the timer is silent for the 49 days of the clock.

## 5. The proofs

The theorems hold for every value of the constants. The three modules
about `JobManager` assume only what it states of them: finite sets of
jobs and threads, `max_workers > 2` (so that low priority may use a thread at
all), at least two ids, NULL not a job or callback. `JobQueueProofs` adds
`QueueAssumption`: the queue is a callback, takes at least one job at once, adds
at a priority clients may add at, and equality of jobs is that of a key. What a
single theorem assumes besides is said with it below.

*Types.* `TypeCorrect`, one step per action; the lemmas before it say what
removing an element and appending one do to a sequence.

*Where a job is.* The invariants the pool run checks are not inductive. `IInv`
adds to the types and to `OneWorkerPerJob`: a thread holds a job exactly in
the places where it should (`JobHeld`); the queues are injective and disjoint,
and disjoint from what threads hold (`QueuesApart`, `HeldNotQueued`: without the
second, popping could give one job to two threads); the threads listed are those
not gone (`WorkersListed`); the order of shutdown, which says that after
CancelJobs nothing is queued and "done" means no thread (`ShutdownOrder`); and
for each job, that it is allocated exactly when a queue or a thread has it
(`AllocatedTracked`, the pointwise form of `NoDanglingNoLeak`). Most actions only
move one thread from one place to another and share the lemma `MoveInv`; adding,
cancelling, popping, erasing, freeing and shutting down have a lemma each. From
`IInv` follow `JobsInOnePlace`, `JobsRunByOneWorker`, `JobsFreedOnce` and
`ShutdownComplete`.

*Ids.* `EarlyIdsUnique`: as long as `m_jobCounter` has not reached its last value,
no two jobs the manager has share an id. The condition is part of the statement,
since the counter does come round and nothing looks for ids in use then.

*Limits.* `CapInv` adds that a queued job has the priority of its queue, that for
each priority the running jobs of at most that priority are within its limit, and
that the threads listed are no more than the highest priority that clients add at may
use (`FewWorkers`). The second is inductive only
because PopJob tests the number of *all* running jobs, which bounds those of low
priority, and because a job keeps its priority while it runs. From it follow
`SparesKept` and `PoolStaysBounded`.

*No job without a thread.* `NoJobStranded` says of every priority that is never
paused: while a job is queued at it, the pool lists a thread. Signals play no part
in it. AddJob leaves a thread behind because either as many jobs run as may, on
listed threads (`BusyThread`), or a listed thread has no job, or it makes one; a
thread that leaves found nothing it might pop, so a job that still waits does so
because others run, on threads that stay (`LastThreadStays`). For a priority that
is paused it is false: that is the `UnPause` of section 4.

*Refinement.* `ManagerImplementsService` is `Spec => ImplementsService`. A job
has the status of the one place where it is (`StatusIs`, from `IInv`) and the
priority of its work item. Adding is Submit, CancelJob of a queued job Withdraw,
popping Start, erasing the item Finish, deleting the job Destroy, CancelJobs
Close, pausing SetPause; all other steps stutter. That PopJob is Start needs
`QueuedPrio`, so that "the highest queue that may be popped" is "the highest job
that may run" (`RunnableIsCanPop`). With it the publisher, which uses
`JobService` only, may rely on the manager at any size.

*The queue.* `JobQueueProofs` has three layers.

`Core` holds of every queue (`QueueSpec`: with cancels, destruction and shutdown
of the manager). It extends `IInv` of the manager: the two lists together hold no
two equal jobs (`Lists`), the entries are never more than allowed, and only this
queue gives jobs to the manager. From it follow `QueueTypeCorrect` and
`QueueIsClient`: each step of a queue is a step of the manager with some client,
so whatever is proved of `JobManager` holds below a queue.

`QInv` holds of a queue in use without cancels (`WorkingSpec`): every job that
waits in the manager for the queue, or whose thread will still call the queue
back, has an entry (`Covered`), and jobs wait only while the entries are as many
as allowed. OnJobComplete finds its entry by equality of *jobs*, which could
strike the wrong one: with `Covered` the completed job has an entry, and with
`Lists` it is the only one equal to it. That one thread at a time tells of a job
is `OneWorkerPerJob`, by way of `IInv`. From `QInv` follows `JobsStayUnique`.

`HandedInv`, again of every queue, is the converse of `Covered`: while the manager
runs, each entry names a job it will still call back for, under the id it gave.
Two things break it in this code, and the theorems say so. Jobs that keep the
inherited `operator==` are equal to nothing, not even themselves, so OnJobComplete
strikes no entry and it stays when the job is deleted: `Comparable` excludes
them. And CancelJob of one entry deletes another job if that has the same id:
`EntriesNeverDangle` therefore assumes that no two entries share one. Two
corollaries discharge it: `OneEntryNeverDangles` for a queue of one job at a time,
the default, and `EarlyEntriesNeverDangle` for any width until the ids come round
(`OwnIdsInv`).

`QueueImplementsSerial` is `WorkingSpec => ImplementsSerialQueue`, for comparable
jobs. `SerialQueue` knows only the jobs that wait, in order, and the set that is
handed out. That set is mapped to `InFlight`, the jobs the *manager* has and will
call the queue back for, not to the queue's own entries: `SerialInv` joins
`Covered` and its converse, so that both are the same set (`InFlightEntries`) and
as many as the entries (`JobsOfCount`). `JobsAtOnceKept` says so of the jobs the manager
has, and is about them and not about entries: with the inherited `operator==` the
entries stay and the manager has none, so it too assumes `Comparable` (the runs
check it as part of `ImplementsSerialQueue`). Then AddJob is Submit (a free place means
that nobody waits), OnJobComplete is Complete of the job whose entry it strikes,
and the steps of the threads stutter. The converse needs no condition on ids
here, since nothing is cancelled (`HandedWorking`).

`DistinctAtOnce` adds to these that cancelling does not let a queue exceed its
width: if all jobs are different (`AllDifferent`), each job that is in flight and
not cancelled has an entry (`LiveInv`). CancelJob strikes an entry only with the
callback of its job, which needs that no other job has its id: the theorem uses
`EarlyIdsUnique` through `QueueIsClient`, and so holds until ids come round. With
equal jobs the proof does not go through: a late callback may strike the entry of
a newer one.

*Handles.* `ZeroconfProofs` proves `TypeCorrect` and `HandlesStayLive` of
`Zeroconf` under its own assumptions: identifiers are numbers, what may be
refused are identifiers, and NONE is no service, handle or registration.
`HandlesLive` is inductive together with the types: a new handle is one that was
not live, so nobody holds it; RememberService passes it from its job to
`m_services`; doStop and doRemoveService deallocate only what `m_services` holds
and forget it in the same region of `m_data_guard`. That a handle between the
two regions of doPublishService survives them is the clause on `Range(m_services)`.

*What is published.* For clients that withdraw only while no job is queued or
runs (`PatientSpec`) the same module proves `PublishedAsWanted`, `NoHandleLeaked`
and `RemoveAnswersRight`. `PlaceInv` says where a service is: in one job that has
yet to publish it, or behind one live handle, never both and never twice
(`OnePlace`), with the info the map has (`WaitingWanted`, `LiveWanted`); every
service wanted and not refusable is in one of these places (`WantedPlaced`), and a live handle
is in `m_services` or on its way there (`LiveHeld`). `OnePlace` is why
`m_services.insert`, which drops a handle if one is there, never drops one; it is
also what an impatient client breaks (`zeroconf_stale`). It holds because
PublishService refuses an identifier in the map, and a publisher that Start may
start has nothing under way. `PublisherIsClient` (`Spec => Manager!Spec`) shows
that the publisher and its jobs take no step `JobService` does not offer: with
`ManagerImplementsService`, the two modules meet in the middle.

*The buffer and the session.* `RaopProofs` assumes `BufferAssumption` (at least
four laps) and `SessionAssumption`. Its base are facts about `seqnum_cmp` alone:
it is the difference if that is less than half the numbers away (`CmpFacts`), the
next number is one further, and two numbers in one window with one slot are
equal. On them stands one lemma per function of the buffer: flush, store, queue
and dequeue keep a buffer well typed and `WindowOK`. `WindowKept` is then one
citation per step of the session, and holds for any length of the buffer. That a
session is freed only when its thread is gone, and its sockets are closed
(`FreedUnused`, `NoSocketLeaked`), follows from `LifeInv`: a thread exists exactly
between SETUP and join, `joined` says so, and `running` is lowered by the other
side only while a request waits or the thread broke off. `SoundInTime` is the one
about contents: `PlaceInv` says that the audio in a taken slot is that of the
packet whose number the slot has, and that a slot without audio is not available
unless it was never used (`Sounding`), so that dequeue makes silence of it; a new
session starts without audio, and the
place of a number of the window is unique, since two numbers of one window with
one slot are equal (`SlotOnce`) and twice the stream's length fits in the numbers
(`SessionAssumption`). `PlayedForward` and `AskedOnlyMissing` are action
properties. Both need to know where the window is in the *stream*, not only
modulo its numbers: `StreamInv` says that its first number is that of a packet
sent or about to be, its last that of one sent, at most one behind the first, and
that a FLUSH that waits names such a number, all of it until a FLUSH names another
(`astray`). A packet that arrives leaves the
first number alone or, when it overruns the window, moves it forward
(`QueueStream`); playing moves it by one; so its place never goes back. What is
asked for again runs from the first number to before the first slot that is taken,
and by `PlaceInv` no slot then holds that packet's audio.

*Reverse sockets.* In `AirPlayServerProofs` the two properties about sockets
(`EventSocketsStayLive`, `SlideSocketsStayLive`) are inductive with the types,
together: DidClose clears the entries of the session of
the closed connection only, and that is enough because the entries of all *other*
sessions are, by the same invariant, connections of other sessions. An address
accepted again is in no map for the same reason. `SlidesAreShown`
is inductive by itself once `stopped` is part of it (`Shows`): a slide is added and
shown in one callback, showing one starts the timer again, and what stops a timer
while slides wait says so.

*Timers.* `ThreadInv` says that the threads before their end are exactly the one
in `m_ThreadId`; that while one runs, `m_TermEvent` is set, or about to be by an
older thread, only if `raced`; and where the owner stands in its call. It gives
`StopStops` and `FreedUnused`. `TimeInv` says that a thread that waits has as
much time left as is missing (`elapsed + left >= m_timeout`): `NeverEarly` holds
for any width of the clock because the waiting is counted down, and the
comparison with `m_endTime` can only add to it.

*Only model-checked.* The eight liveness properties, out of the prover's reach:
`CancelJobsReturns`, `JobServed`, `QueuedJobServed`, `ServicePublished`,
`JoinReturns`, `RequestTaken`, `DisconnectServed` and `StopReturns`. The two
properties that the runs `queue_late` and `zeroconf_stale` refute have no theorem
for the specifications that refute them.

## 6. Not modelled

The rows of the inventory that are not in bold. Section 2 says which come next.

- CEvent's groups, `CThread::AbortableWait`, the shared section and the lock-free
  containers have no first-party user: there is no program to state a property
  of. Worth knowing if one appears: `CEvent::Set` may release the group waits of
  two threads one after the other, and writers of a shared section may starve.
- The HTTP parser is a function of the bytes one client sent; `AirPlayServer`
  takes requests as parsed.
- The AirTunes server is a shell around the RAOP session, and the announcement
  manager a list under one lock. The first hands on what `mail` stands for, the
  second calls what `AirPlayServer` models as announcements.
- DLNA runs between the binder of Android and a vendored stack whose threads are
  not in the repository; a model would have to invent their order.
- UPnP, plist, variants and settings convert formats; interfaces, pipes and
  sockets below the callbacks are input and output; the applications are user
  interface and JNI; cloud sync returns constants.
- The vendored libraries (mDNSResponder alone is a third of all lines; libplist,
  libupnp, Platinum, json-c, tinyxml) appear only through the calls the modelled
  code makes. Most of the lines of this repository are theirs, so the share of
  lines that the models stand for stays small.

Data races on unguarded members (`HasService`, the callbacks of the AirPlay server
against announcements) are listed as hazards; the models take each region as the
code does and have no torn reads, except in `Timer`, where each access is a step.
