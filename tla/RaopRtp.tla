------------------------------- MODULE RaopRtp -------------------------------
(***************************************************************************)
(* An AirTunes session (libshairplay raop_rtp.cc): the RTSP handlers of    *)
(* raop.cc that own a raop_rtp_t, the thread that receives and plays the   *)
(* stream, and the network between it and the sender.                      *)
(*                                                                         *)
(* A packet is the number of its place in the stream; the sequence number  *)
(* on the wire is that number modulo SeqMod.  UDP loses, duplicates and    *)
(* reorders: any packet sent since SETUP may arrive at any time, any       *)
(* number of times or never.  TCP delivers each once, in order.            *)
(*                                                                         *)
(* Regions under run_mutex are one step.  The buffer is used by the thread *)
(* alone until it is joined.  Decoding and the addresses are left out;     *)
(* volume, metadata and cover art are members of mail.  raop_rtp_stop is   *)
(* only ever called to destroy.  A failed assert aborts the program.       *)
(***************************************************************************)
EXTENDS RaopBuffer, FiniteSets

CONSTANTS
  Numbers,      \* the sequence numbers uninitialised memory may hold
  Flags,        \* the available flags uninitialised memory may hold
  Modes,        \* how senders set up: udp, udp without control port, tcp
  Parameters,   \* kinds of SET_PARAMETER: volume, metadata, coverart
  WireStart,    \* sequence number of packet 0
  MaxPackets,   \* bound: packets of the stream
  MaxFlushes,   \* bound: FLUSH requests
  MaxSessions,  \* bound: ANNOUNCE requests
  FlushNumbers, \* what a FLUSH may name beside the next packet, and nothing
  Timing,       \* whether the sender sends timing packets
  Failures,     \* whether select and audio_process may fail
  Asserts       \* whether the build keeps assert (no NDEBUG)

NO_FLUSH == -42

ASSUME SessionAssumption ==
  /\ Packets = 0 .. MaxPackets - 1
  /\ MaxPackets \in Nat
  /\ 2 * MaxPackets <= SeqMod
  /\ WireStart \in SeqNums
  /\ Numbers \subseteq SeqNums
  /\ Flags \subseteq BOOLEAN
  /\ Modes \subseteq {"udp", "udp_noresend", "tcp"}
  /\ FlushNumbers \subseteq SeqNums \cup {NO_FLUSH}
  /\ {Timing, Failures, Asserts} \subseteq BOOLEAN
  /\ MaxFlushes \in Nat
  /\ MaxSessions \in Nat

VARIABLES
  raop_rtp,    \* whether conn->raop_rtp is not null
  rtsp,        \* the RTSP thread: idle, or the request it joins the thread for
  running, joined, flush, mail,
  mode,        \* use_udp and control_rport of raop_rtp_start
  sockets,     \* whether csock, tsock and dsock are open
  buffer,
  pc,          \* where the thread is
  sent,        \* packets the sender has sent
  base,        \* of them, those sent before SETUP, to other ports
  read,        \* TCP: packets read from the stream
  asked,       \* sequence numbers asked for again on the control channel
  timing,      \* whether a timing packet waits on tsock
  flushes, sessions,  \* bounds
  broken,      \* history: the UDP thread left its loop by itself
  astray       \* history: a FLUSH of the session named a number of no packet
               \* that was sent or is next

shared  == <<running, joined, flush, mail>>
network == <<sent, base, read, asked, timing>>
bounds  == <<flushes, sessions>>
history == <<broken, astray>>
vars == <<raop_rtp, rtsp, shared, mode, sockets, buffer, pc, network, bounds, history>>

ThreadPcs == {"none", "init", "events", "select", "dequeue",
              "failed",    \* audio_process returned -2
              "destroy",   \* past the loop, before audio_destroy
              "clear",     \* UDP: about to set running = 0
              "exited",
              "aborted"}   \* and the program with it

Wire(n) == (WireStart + n) % SeqMod

no_resend == mode # "udp"

(* The place in the stream of the number that is due.                      *)
Due == UShort(buffer.first_seqnum - WireStart)

-----------------------------------------------------------------------------
(* What raop_rtp_init returns.                                             *)
Initialised ==
  /\ running' = FALSE
  /\ joined' = TRUE
  /\ flush' = NO_FLUSH
  /\ mail' = {}
  /\ sockets' = FALSE
  /\ buffer' \in raop_buffer_init(Numbers, Flags)
  /\ pc' = "none"
  /\ timing' = FALSE
  /\ broken' = FALSE
  /\ astray' = FALSE
  /\ UNCHANGED <<mode, sent, base, read, asked>>

Init ==
  /\ raop_rtp = FALSE
  /\ rtsp = "idle"
  /\ running = FALSE
  /\ joined = TRUE
  /\ flush = NO_FLUSH
  /\ mail = {}
  /\ mode \in Modes
  /\ sockets = FALSE
  /\ buffer \in raop_buffer_init(Numbers, Flags)
  /\ pc = "none"
  /\ sent = 0
  /\ base = 0
  /\ read = 0
  /\ asked = {}
  /\ timing = FALSE
  /\ flushes = 0
  /\ sessions = 0
  /\ broken = FALSE
  /\ astray = FALSE

-----------------------------------------------------------------------------
(* The RTSP thread: one request at a time. *)

(* raop_rtp_stop joins the thread of a session that runs; otherwise it     *)
(* returns at once, and leaves the sockets as they are.                    *)
MustJoin == raop_rtp /\ running /\ ~joined

BeginStop(request) ==
  /\ MustJoin
  /\ running' = FALSE
  /\ rtsp' = request
  /\ UNCHANGED <<raop_rtp, joined, flush, mail, mode, sockets, buffer, pc,
                 network, history>>

(* ANNOUNCE destroys the session there is and makes a new one, which fails *)
(* when the address or the format is not understood.                       *)
Announce ==
  /\ rtsp = "idle"
  /\ sessions < MaxSessions
  /\ sessions' = sessions + 1
  /\ \/ BeginStop("ANNOUNCE")
     \/ /\ ~MustJoin
        /\ raop_rtp' \in BOOLEAN
        /\ Initialised
        /\ UNCHANGED rtsp
  /\ UNCHANGED flushes

(* SETUP; raop_rtp_start ignores a session that runs or was not joined.    *)
Setup ==
  /\ rtsp = "idle"
  /\ raop_rtp
  /\ ~running
  /\ joined
  /\ running' = TRUE
  /\ joined' = FALSE
  /\ mode' \in Modes
  /\ sockets' = TRUE
  /\ pc' = "init"
  /\ base' = sent
  /\ read' = sent
  /\ asked' = {}
  /\ UNCHANGED <<raop_rtp, rtsp, flush, mail, buffer, sent, timing, bounds, history>>

(* FLUSH, with the number of the next packet, without RTP-Info, or with    *)
(* any other number: strtol is taken as it comes.  One outside of the      *)
(* sequence numbers does what -1 does, and NO_FLUSH is no request.         *)
Flush ==
  /\ rtsp = "idle"
  /\ raop_rtp
  /\ flushes < MaxFlushes
  /\ flushes' = flushes + 1
  /\ flush' \in {Wire(sent), -1} \cup FlushNumbers
  /\ astray' = (astray \/ flush' \in SeqNums \ {Wire(n) : n \in 0 .. sent})
  /\ UNCHANGED <<raop_rtp, rtsp, running, joined, mail, mode, sockets, buffer, pc,
                 network, sessions, broken>>

(* raop_rtp_set_volume, raop_rtp_set_metadata, raop_rtp_set_coverart       *)
SetParameter(kind) ==
  /\ rtsp = "idle"
  /\ raop_rtp
  /\ mail' = mail \cup {kind}
  /\ UNCHANGED <<raop_rtp, rtsp, running, joined, flush, mode, sockets, buffer, pc,
                 network, bounds, history>>

(* TEARDOWN, or conn_destroy when the connection closes.                   *)
Teardown ==
  /\ rtsp = "idle"
  /\ raop_rtp
  /\ \/ BeginStop("TEARDOWN")
     \/ /\ ~MustJoin
        /\ raop_rtp' = FALSE
        /\ pc' = "none"
        /\ UNCHANGED <<rtsp, shared, mode, sockets, buffer, network, history>>
  /\ UNCHANGED bounds

JoinThread_KeepSockets ==
  /\ rtsp # "idle"
  /\ pc = "exited"
  /\ rtsp' = "idle"
  /\ raop_rtp' = FALSE
  /\ joined' = TRUE
  /\ pc' = "none"
  /\ UNCHANGED <<running, flush, mail, mode, sockets, buffer, network, bounds, history>>

(* The join in raop_rtp_stop returns: the sockets are closed, the buffer   *)
(* is flushed, and the session is freed or made anew.                      *)
JoinThread ==
  /\ rtsp # "idle"
  /\ pc = "exited"
  /\ rtsp' = "idle"
  /\ \/ /\ rtsp = "TEARDOWN"
        /\ raop_rtp' = FALSE
        /\ joined' = TRUE
        /\ sockets' = FALSE
        /\ buffer' = raop_buffer_flush(buffer, -1)
        /\ pc' = "none"
        /\ timing' = FALSE
        /\ UNCHANGED <<running, flush, mail, mode, sent, base, read, asked, history>>
     \/ /\ rtsp = "ANNOUNCE"
        /\ raop_rtp' \in BOOLEAN
        /\ Initialised
  /\ UNCHANGED bounds

-----------------------------------------------------------------------------
(* The thread: raop_rtp_thread_udp or raop_rtp_thread_tcp. *)

(* What a step of the thread leaves alone, apart from the buffer.          *)
ThreadFrame ==
  UNCHANGED <<raop_rtp, rtsp, joined, mode, sockets, sent, base, timing, bounds, astray>>

Goto(to) ==
  /\ pc' = to
  /\ ThreadFrame
  /\ UNCHANGED <<running, flush, mail, buffer, read, asked, broken>>

AudioInit == pc = "init" /\ Goto("events")

ProcessEvents_IgnoreStop ==
  /\ pc = "events"
  /\ Goto("select")

ProcessEvents_KeepFlush ==
  /\ pc = "events"
  /\ running
  /\ pc' = "select"
  /\ buffer' = IF flush = NO_FLUSH THEN buffer ELSE raop_buffer_flush(buffer, flush)
  /\ mail' = {}
  /\ ThreadFrame
  /\ UNCHANGED <<running, flush, read, asked, broken>>

(* raop_rtp_process_events: one region under run_mutex; the buffer is      *)
(* flushed after it.                                                       *)
ProcessEvents ==
  /\ pc = "events"
  /\ running
  /\ pc' = "select"
  /\ buffer' = IF flush = NO_FLUSH THEN buffer ELSE raop_buffer_flush(buffer, flush)
  /\ flush' = NO_FLUSH
  /\ mail' = {}
  /\ ThreadFrame
  /\ UNCHANGED <<running, read, asked, broken>>

StopSeen == pc = "events" /\ ~running /\ Goto("destroy")

(* select times out after 5 ms, or there is nothing to queue: a packet     *)
(* that is too short or of another type, part of one of TCP, or a timing   *)
(* packet, which stays where it is: nobody reads tsock.                    *)
SelectTimeout == pc = "select" /\ Goto("events")

SelectError_ClearRunning ==
  /\ pc = "select"
  /\ Failures
  /\ pc' = "destroy"
  /\ running' = FALSE
  /\ broken' = TRUE
  /\ ThreadFrame
  /\ UNCHANGED <<flush, mail, buffer, read, asked>>

(* The loop is left on an error of select, and by TCP when the sender      *)
(* closes the stream.                                                      *)
SelectError ==
  /\ pc = "select"
  /\ Failures
  /\ pc' = "destroy"
  /\ broken' = (mode # "tcp")
  /\ ThreadFrame
  /\ UNCHANGED <<running, flush, mail, buffer, read, asked>>

(* A packet on the data socket is queued, and what can be played is played. *)
(* The sockets are an else-if: behind a timing packet this one is not read. *)
ReceiveData(n) ==
  /\ pc = "select"
  /\ mode # "tcp"
  /\ ~timing
  /\ base <= n /\ n < sent
  /\ buffer' = raop_buffer_queue(buffer, n, Wire(n))
  /\ pc' = "dequeue"
  /\ ThreadFrame
  /\ UNCHANGED <<running, flush, mail, read, asked, broken>>

(* A packet that was asked for comes on the control socket: it is queued,  *)
(* and waits there for the next packet on the data socket.                 *)
ReceiveControl(n) ==
  /\ pc = "select"
  /\ mode # "tcp"
  /\ base <= n /\ n < sent
  /\ Wire(n) \in asked
  /\ buffer' = raop_buffer_queue(buffer, n, Wire(n))
  /\ pc' = "events"
  /\ ThreadFrame
  /\ UNCHANGED <<running, flush, mail, read, asked, broken>>

(* A resent packet of 12 to 15 bytes, or a packet of the stream of fewer   *)
(* than 12: assert(ret >= 0), or without asserts nothing was queued.       *)
ReceiveBad ==
  /\ pc = "select"
  /\ LET queued == raop_buffer_queue(buffer, BadPacket, buffer.first_seqnum)
     IN  buffer' = IF ~Asserts /\ mode = "tcp" /\ CanDequeue(queued, TRUE)
                   THEN raop_buffer_dequeue(queued) ELSE queued
  /\ pc' = IF Asserts THEN "aborted" ELSE "events"
  /\ ThreadFrame
  /\ UNCHANGED <<running, flush, mail, read, asked, broken>>

(* One round of the loop that plays: dequeue and audio_process.            *)
Play ==
  /\ pc = "dequeue"
  /\ CanDequeue(buffer, no_resend)
  /\ buffer' = raop_buffer_dequeue(buffer)
  /\ pc' = "dequeue" \/ (Failures /\ pc' = "failed")
  /\ ThreadFrame
  /\ UNCHANGED <<running, flush, mail, read, asked, broken>>

(* Nothing more to play, or the player failed, with which the loop of the  *)
(* thread ends: raop_buffer_handle_resends sends what it finds missing,    *)
(* which the sender may have or not.                                       *)
AskAgain ==
  /\ \/ pc = "dequeue" /\ ~CanDequeue(buffer, no_resend)
     \/ pc = "failed"
  /\ asked' = IF no_resend THEN asked ELSE asked \cup Resends(buffer)
  /\ pc' = IF pc = "failed" THEN "destroy" ELSE "events"
  /\ broken' = (broken \/ pc = "failed")
  /\ ThreadFrame
  /\ UNCHANGED <<running, flush, mail, buffer, read>>

(* TCP: the next packet of the stream is given the number that is due and  *)
(* one packet is played; what audio_process returns is not looked at.      *)
ReadStream ==
  /\ pc = "select"
  /\ mode = "tcp"
  /\ read < sent
  /\ read' = read + 1
  /\ LET queued == raop_buffer_queue(buffer, read, buffer.first_seqnum)
     IN  buffer' = IF CanDequeue(queued, TRUE) THEN raop_buffer_dequeue(queued) ELSE queued
  /\ pc' = "events"
  /\ ThreadFrame
  /\ UNCHANGED <<running, flush, mail, asked, broken>>

(* audio_destroy; only the UDP thread clears running afterwards.           *)
AudioDestroy == pc = "destroy" /\ Goto(IF mode = "tcp" THEN "exited" ELSE "clear")

ClearRunning ==
  /\ pc = "clear"
  /\ running' = FALSE
  /\ pc' = "exited"
  /\ ThreadFrame
  /\ UNCHANGED <<flush, mail, buffer, read, asked, broken>>

-----------------------------------------------------------------------------
(* The sender, and the whole. *)

SendPacket ==
  /\ sockets
  /\ sent < MaxPackets
  /\ sent' = sent + 1
  /\ UNCHANGED <<raop_rtp, rtsp, shared, mode, sockets, buffer, pc, base, read, asked,
                 timing, bounds, history>>

SendTiming ==
  /\ Timing
  /\ sockets
  /\ mode # "tcp"
  /\ ~timing
  /\ timing' = TRUE
  /\ UNCHANGED <<raop_rtp, rtsp, shared, mode, sockets, buffer, pc, sent, base, read, asked,
                 bounds, history>>

Rtsp ==
  /\ pc # "aborted"
  /\ \/ Announce \/ Setup \/ Flush \/ Teardown
     \/ \E k \in Parameters : SetParameter(k)

Thread ==
  \/ AudioInit \/ ProcessEvents \/ StopSeen \/ SelectTimeout \/ SelectError
  \/ ReceiveBad \/ Play \/ AskAgain \/ ReadStream \/ AudioDestroy \/ ClearRunning
  \/ \E n \in Packets : ReceiveData(n) \/ ReceiveControl(n)

Next == Rtsp \/ JoinThread \/ Thread \/ SendPacket \/ SendTiming

(* The thread is scheduled, select returns within 5 ms, a join whose       *)
(* thread is gone returns.  Nothing is assumed of the network.             *)
Fairness == WF_vars(Thread) /\ WF_vars(JoinThread)

Spec == Init /\ [][Next]_vars /\ Fairness

-----------------------------------------------------------------------------
(* The state always has these types.                                       *)
TypeOK ==
  /\ raop_rtp \in BOOLEAN
  /\ rtsp \in {"idle", "ANNOUNCE", "TEARDOWN"}
  /\ running \in BOOLEAN
  /\ joined \in BOOLEAN
  /\ flush \in SeqNums \cup {-1, NO_FLUSH}
  /\ mail \subseteq Parameters
  /\ mode \in Modes
  /\ sockets \in BOOLEAN
  /\ buffer \in Buffer
  /\ pc \in ThreadPcs
  /\ sent \in 0 .. MaxPackets
  /\ base \in 0 .. sent
  /\ read \in base .. sent
  /\ asked \subseteq SeqNums
  /\ timing \in BOOLEAN
  /\ flushes \in 0 .. MaxFlushes
  /\ sessions \in 0 .. MaxSessions
  /\ broken \in BOOLEAN
  /\ astray \in BOOLEAN

(* Audio waits only at a number of the window that is due, and the window  *)
(* never exceeds the slots (queue, dequeue and flush of raop_buffer.cc).   *)
BufferWindow == WindowOK(buffer)

(* For every place of the stream UDP hands the player the packet of that   *)
(* place or as much silence: what is lost, late, repeated or reordered     *)
(* never shifts the sound.  It hands over nothing only where the slot has  *)
(* not been used since raop_buffer_init and the memory said it was.        *)
InTime ==
  mode # "tcp" /\ pc = "dequeue" /\ CanDequeue(buffer, no_resend)
    => Dequeued(buffer) \in {Due, Silence, Stale}

(* Nothing of the stream is played twice: only a FLUSH, a new session or a *)
(* buffer emptied by them sets playing back.  A FLUSH that named a number  *)
(* of no packet makes what is sent early or late by half the numbers.      *)
InOrder ==
  [][mode # "tcp" /\ pc # "events" /\ ~astray /\ ~buffer.is_empty /\ ~buffer'.is_empty
       => Due' >= Due]_vars

(* Only packets that were sent and are neither over nor waiting are asked  *)
(* for again.  raop_buffer_handle_resends does not look at is_empty: an    *)
(* empty buffer may ask for what its memory happens to say, but not for a  *)
(* packet that waits either.                                               *)
AskedMissing ==
  [][\A s \in asked' \ asked :
       /\ ~buffer.is_empty /\ ~astray
            => \E n \in 0 .. sent - 1 : Wire(n) = s /\ n >= Due
       /\ \A i \in Slots :
            buffer.entries[i].audio \in Packets => Wire(buffer.entries[i].audio) # s]_vars

(* A session is freed or replaced only when its thread is gone, by         *)
(* whichever of the thread and raop_rtp_stop clears running first.         *)
NoUseAfterFree ==
  [][pc' = "none" => pc \in {"none", "exited"}]_vars

(* A freed session has closed its sockets, unless its UDP thread left by   *)
(* itself: then raop_rtp_stop returns early and they stay open.            *)
SocketsClosed == ~raop_rtp => ~sockets \/ broken

(* TEARDOWN and ANNOUNCE are answered: the join returns.                   *)
JoinReturns == rtsp # "idle" ~> rtsp = "idle" \/ pc = "aborted"

(* A FLUSH or a parameter reaches the thread, unless the session ends.     *)
RequestTaken ==
  (flush # NO_FLUSH \/ mail # {}) /\ running
    ~> (flush = NO_FLUSH /\ mail = {}) \/ ~running \/ pc \in {"exited", "aborted"}
=============================================================================
