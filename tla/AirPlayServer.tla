---------------------------- MODULE AirPlayServer ----------------------------
(***************************************************************************)
(* CAirPlayServer and its CTCPClient connections                           *)
(* (airplay/network/airplay_server.cc).                                    *)
(*                                                                         *)
(* A sender opens several connections and names its session in a header.   *)
(* Over one of them it asks for /reverse: the server keeps that socket and *)
(* sends events, or requests for the slides of a slide show, back on it.   *)
(*                                                                         *)
(* A socket is an address: std::map walks the connections in the order of  *)
(* addresses, and an address is used again once its socket was deleted.    *)
(* The server thread runs one callback, timer or posted task at a time;    *)
(* each is one step.  Announcements come on other threads and hold         *)
(* m_connectionLock; that the callbacks do not take it is left out, as are *)
(* the text of requests and answers, passwords, the files of the photos,   *)
(* and the delegate that plays.                                            *)
(***************************************************************************)
EXTENDS Integers, FiniteSets, Sequences, Functions

CONSTANTS
  Sockets,      \* addresses, numbers
  Sessions,     \* X-Apple-Session-ID
  NoSession,    \* no id, or the id of zeros
  ALL,          \* the receiver "all"
  NULL,
  States,       \* the states the application announces
  MaxTasks,     \* bound: tasks of one kind waiting in the message loop
  MaxSlides     \* bound: slides waiting on all connections

ASSUME ServerAssumption ==
  /\ Sockets \subseteq Nat
  /\ NoSession \notin Sessions
  /\ ALL \notin Sessions \cup {NoSession}
  /\ NULL \notin Sockets
  /\ States \subseteq {"PLAYING", "PAUSED", "STOPPED"}
  /\ {MaxTasks, MaxSlides} \subseteq Nat

VARIABLES
  m_connections,           \* connected sockets with their CTCPClient
  m_reverseEventSockets,   \* a socket, or NULL, for each session
  m_reverseSlideSockets,   \* the same; the entry under no id, which only
                           \* the GET of RequestSlides looks up, is left out
  tasks,                   \* m_loop: posted tasks, first in first out
  leaked,                  \* sockets of clients that nobody releases
  orphaned,                \* history: sessions whose slide socket was dropped
                           \* by DisconnectClient or Deinitialize
  serving                  \* the server's thread runs its message loop

maps == <<m_reverseEventSockets, m_reverseSlideSockets>>
vars == <<m_connections, maps, tasks, leaked, orphaned, serving>>

SessionIds == Sessions \cup {NoSession}

(* The part of a CTCPClient that matters here: session_id_, last_event_,   *)
(* slide_show_context_, slide_show_timer_ (socket_type_ is never read); and *)
(* a history: its timer was stopped while slides waited, and no slide came *)
(* since.                                                                  *)
Client == [session : SessionIds,
           event   : {"NONE", "LOADING", "PLAYING", "PAUSED", "STOPPED"},
           slides  : Seq({"slide", "end"}),
           timer   : BOOLEAN,
           stopped : BOOLEAN]

NewClient == [session |-> NoSession, event |-> "NONE", slides |-> <<>>,
              timer |-> FALSE, stopped |-> FALSE]

(* A posted task with its arguments; client is a weak pointer.  The session *)
(* that RequestSlides is given only chooses the text and the socket of its *)
(* GET, and is left out.                                                   *)
Task == [kind    : {"RequestSlides", "DisconnectClient"},
         session : SessionIds \cup {ALL},
         client  : Sockets \cup {NULL}]

Connected == DOMAIN m_connections

-----------------------------------------------------------------------------
Init ==
  /\ m_connections = <<>>
  /\ m_reverseEventSockets = [s \in SessionIds |-> NULL]
  /\ m_reverseSlideSockets = [s \in Sessions |-> NULL]
  /\ tasks = <<>>
  /\ leaked = {}
  /\ orphaned = {}
  /\ serving = TRUE

-----------------------------------------------------------------------------
(* Announcements: AnnounceToClientsInThread and ComposeReverseEvent. *)

(* The connections of c that send an event for state to their session's    *)
(* reverse socket.                                                         *)
Composers(c, state, receiver) ==
  {s \in DOMAIN c :
     /\ m_reverseEventSockets[c[s].session] \notin {NULL, s}
     /\ receiver \in {ALL, c[s].session}
     /\ c[s].event # state \/ state = "PLAYING"}

Announced(c, state, receiver) ==
  [s \in DOMAIN c |->
     IF s \in Composers(c, state, receiver) THEN [c[s] EXCEPT !.event = state] ELSE c[s]]

(* OnPlay, OnPause and OnStop of the player, for one session or all.       *)
Announce(state, receiver) ==
  /\ m_connections' = Announced(m_connections, state, receiver)
  /\ UNCHANGED <<maps, tasks, leaked, orphaned, serving>>

(* A bound of the model: a message loop takes any number of tasks.         *)
CanPost(kind) == Cardinality({i \in DOMAIN tasks : tasks[i].kind = kind}) < MaxTasks

(* OnDisconnect announces STOPPED and posts DisconnectClient; after        *)
(* StopServer it would post to a loop that is deleted (m_loop stays), which *)
(* is undefined and not followed.                                          *)
AnnounceDisconnect(receiver) ==
  /\ serving
  /\ CanPost("DisconnectClient")
  /\ m_connections' = Announced(m_connections, "STOPPED", receiver)
  /\ tasks' = Append(tasks, [kind |-> "DisconnectClient", session |-> receiver,
                            client |-> NULL])
  /\ UNCHANGED <<maps, leaked, orphaned, serving>>

-----------------------------------------------------------------------------
(* Sockets and requests: DidAccept, DidRead and DidClose. *)

(* Weak pointers to clients that are deleted become null.                  *)
WithoutClients(gone) ==
  [i \in DOMAIN tasks |->
     IF tasks[i].client \in gone THEN [tasks[i] EXCEPT !.client = NULL] ELSE tasks[i]]

DidAccept(s) ==
  /\ serving
  /\ s \notin Connected \cup leaked
  /\ m_connections' = [t \in Connected \cup {s} |->
                         IF t = s THEN NewClient ELSE m_connections[t]]
  /\ UNCHANGED <<maps, tasks, leaked, orphaned, serving>>

(* The slide entry of a session is set or erased.                          *)
WithSlideSocket(id, socket) ==
  [t \in Sessions |-> IF t = id THEN socket ELSE m_reverseSlideSockets[t]]

(* A client names its session in its first request that has an id.         *)
InSession(s, id) ==
  [m_connections EXCEPT ![s].session = IF @ = NoSession THEN id ELSE @]

(* The ids in a header that make a difference to a client.                 *)
Headers(s) ==
  IF s \in Connected /\ m_connections[s].session # NoSession THEN {NoSession} ELSE SessionIds

(* Any request may arrive on any connection: DidRead and ProcessRequest do *)
(* not ask whether it was turned round.                                    *)
CanRequest(s) == serving /\ s \in Connected

(* /reverse, for events                                                    *)
ReverseEvent(s, id) ==
  /\ CanRequest(s)
  /\ m_connections' = InSession(s, id)
  /\ m_reverseEventSockets' =
       [m_reverseEventSockets EXCEPT ![m_connections'[s].session] = s]
  /\ UNCHANGED <<m_reverseSlideSockets, tasks, leaked, orphaned, serving>>

(* /reverse with X-Apple-Purpose: slideshow                                *)
ReverseSlideShow(s, id) ==
  /\ CanRequest(s)
  /\ m_connections' = InSession(s, id)
  /\ m_reverseSlideSockets' = WithSlideSocket(m_connections'[s].session, s)
  /\ orphaned' = orphaned \ {m_connections'[s].session}
  /\ UNCHANGED <<m_reverseEventSockets, tasks, leaked, serving>>

(* /play; without a Content-Location it returns before it announces.       *)
ProcessPlayRequest(s, id) ==
  /\ CanRequest(s)
  /\ LET c == [InSession(s, id) EXCEPT ![s].event = "NONE"]
     IN  m_connections' \in {c, Announced(c, "LOADING", ALL)}
  /\ UNCHANGED <<maps, tasks, leaked, orphaned, serving>>

scheduleNextSlideRequest(s) ==
  /\ CanPost("RequestSlides")
  /\ tasks' = Append(tasks, [kind |-> "RequestSlides", session |-> NoSession,
                            client |-> s])

(* /slideshows/1 with its settings                                         *)
ProcessSlideShowRequest(s, id) ==
  /\ CanRequest(s)
  /\ scheduleNextSlideRequest(s)
  /\ m_connections' = Announced(InSession(s, id), "LOADING", ALL)
  /\ UNCHANGED <<maps, leaked, orphaned, serving>>

HasSlide(slides) == \E i \in DOMAIN slides : slides[i] = "slide"

(* The timer of a connection is stopped, whatever waits for it.            *)
Halted(client) ==
  [client EXCEPT !.timer = FALSE,
                 !.stopped = @ \/ (client.timer /\ HasSlide(client.slides))]

(* /stop stops the timer of the connection it arrives on.                  *)
StopRequest(s, id) ==
  /\ CanRequest(s)
  /\ m_connections' = [InSession(s, id) EXCEPT ![s] = Halted(@)]
  /\ UNCHANGED <<maps, tasks, leaked, orphaned, serving>>

(* Any other request only names the session: also /slideshows/1 without    *)
(* settings, and an answer with no content or whose picture cannot be      *)
(* written.                                                                *)
OtherRequest(s, id) ==
  /\ CanRequest(s)
  /\ m_connections' = InSession(s, id)
  /\ UNCHANGED <<maps, tasks, leaked, orphaned, serving>>

(* scheduleNextSlide: the first slide is shown and the timer started.      *)
Shown(client) ==
  IF client.slides = <<>> THEN client
  ELSE [client EXCEPT !.slides = Tail(@), !.timer = TRUE, !.stopped = FALSE]

CanQueue(s) ==
  /\ CanRequest(s)
  /\ SumFunction([t \in Connected |-> Len(m_connections[t].slides)]) < MaxSlides

(* slide_show_context_.push                                                *)
Queued(client, slide) == [client EXCEPT !.slides = Append(@, slide)]

(* Mutant of SlideArrives: the show is not started.                        *)
SlideArrives_NoStart(s, id) ==
  /\ CanQueue(s)
  /\ scheduleNextSlideRequest(s)
  /\ m_connections' = [InSession(s, id) EXCEPT ![s] = Queued(@, "slide")]
  /\ UNCHANGED <<maps, leaked, orphaned, serving>>

(* ProcessReverseResponse, with a picture: it is queued, shown if no timer *)
(* runs, and the next one is asked for.                                    *)
SlideArrives(s, id) ==
  /\ CanQueue(s)
  /\ scheduleNextSlideRequest(s)
  /\ m_connections' =
       [InSession(s, id) EXCEPT ![s] = IF @.timer THEN Queued(@, "slide")
                                       ELSE Shown(Queued(@, "slide"))]
  /\ UNCHANGED <<maps, leaked, orphaned, serving>>

(* ProcessReverseResponse, with content but no picture: the next one is    *)
(* asked for all the same.                                                 *)
NoPicture(s, id) ==
  /\ CanRequest(s)
  /\ scheduleNextSlideRequest(s)
  /\ m_connections' = InSession(s, id)
  /\ UNCHANGED <<maps, leaked, orphaned, serving>>

(* ProcessReverseResponse, with 204: the end of the show is queued, and    *)
(* whether a timer will take it is not asked.                              *)
SlideShowEnds(s, id) ==
  /\ CanQueue(s)
  /\ m_connections' = [InSession(s, id) EXCEPT ![s] = Queued(@, "end")]
  /\ UNCHANGED <<maps, tasks, leaked, orphaned, serving>>

(* Mutant of DidClose: only the connection is forgotten.                   *)
DidClose_KeepReverse(s) ==
  /\ serving
  /\ s \in Connected
  /\ m_connections' = [t \in Connected \ {s} |-> m_connections[t]]
  /\ tasks' = WithoutClients({s})
  /\ UNCHANGED <<maps, leaked, orphaned, serving>>

(* Mutant of DidClose: tasks hold plain pointers.                          *)
DidClose_KeepPointers(s) ==
  /\ serving
  /\ s \in Connected
  /\ m_connections' = [t \in Connected \ {s} |-> m_connections[t]]
  /\ LET id == m_connections[s].session
     IN  /\ m_reverseEventSockets' = [m_reverseEventSockets EXCEPT ![id] = NULL]
         /\ m_reverseSlideSockets' = WithSlideSocket(id, NULL)
         /\ orphaned' = orphaned \ {id}
  /\ UNCHANGED <<tasks, leaked, serving>>

(* The connection and its session's reverse sockets are forgotten.         *)
DidClose(s) ==
  /\ serving
  /\ s \in Connected
  /\ m_connections' = [t \in Connected \ {s} |-> m_connections[t]]
  /\ LET id == m_connections[s].session
     IN  /\ m_reverseEventSockets' = [m_reverseEventSockets EXCEPT ![id] = NULL]
         /\ m_reverseSlideSockets' = WithSlideSocket(id, NULL)
         /\ orphaned' = orphaned \ {id}
  /\ tasks' = WithoutClients({s})
  /\ UNCHANGED <<leaked, serving>>

-----------------------------------------------------------------------------
(* Timers and posted tasks. *)

(* The timer is not repeating: scheduleNextSlide starts it again.          *)
TimerFires(s) ==
  /\ s \in Connected
  /\ m_connections[s].timer
  /\ m_connections' =
       [m_connections EXCEPT ![s] = Shown([@ EXCEPT !.timer = FALSE])]
  /\ UNCHANGED <<maps, tasks, leaked, orphaned, serving>>

FirstTask(kind) == tasks # <<>> /\ Head(tasks).kind = kind

(* The slide socket of the client's session, if the client lives and there *)
(* is one, is sent a GET: what comes back is the peer's affair.            *)
RequestSlides ==
  /\ FirstTask("RequestSlides")
  /\ tasks' = Tail(tasks)
  /\ UNCHANGED <<m_connections, maps, leaked, orphaned, serving>>

Members(id) == {s \in Connected : m_connections[s].session = id}

(* Mutant of Disconnected: the reverse socket is skipped as well.          *)
Disconnected_KeepReverse(id) ==
  IF id \notin SessionIds \/ m_reverseEventSockets[id] = NULL THEN {}
  ELSE {s \in Members(id) : s < m_reverseEventSockets[id]}

(* The loop of DisconnectClientInThread walks the connections of the       *)
(* session in the order of addresses.  At the reverse socket it erases the *)
(* entry, and then skips those that come after: they stay.                 *)
Disconnected(id) ==
  IF id \notin SessionIds \/ m_reverseEventSockets[id] = NULL THEN {}
  ELSE IF m_reverseEventSockets[id] \in Members(id)
       THEN {s \in Members(id) : s <= m_reverseEventSockets[id]}
       ELSE Members(id)

DisconnectClientInThread ==
  /\ FirstTask("DisconnectClient")
  /\ LET id == Head(tasks).session
         gone == Disconnected(id)
     IN  /\ m_connections' = [s \in Connected \ gone |-> m_connections[s]]
         /\ m_reverseEventSockets' =
              [t \in SessionIds |->
                 IF t = id /\ m_reverseEventSockets[t] \in gone THEN NULL
                 ELSE m_reverseEventSockets[t]]
         /\ orphaned' = orphaned \cup
              {t \in Sessions : t = id /\ m_reverseSlideSockets[t] \in gone}
         /\ tasks' = Tail(WithoutClients(gone))
  /\ UNCHANGED <<m_reverseSlideSockets, leaked, serving>>

(* The thread ends, with its tasks and timers; the maps and connections    *)
(* stay as they are, and other threads still announce to them.             *)
StopServer ==
  /\ serving
  /\ serving' = FALSE
  /\ m_connections' = [s \in Connected |-> Halted(m_connections[s])]
  /\ tasks' = <<>>
  /\ UNCHANGED <<maps, leaked, orphaned>>

(* StartServer stops the server if it runs.  Deinitialize clears the maps, *)
(* but m_reverseEventSockets twice and m_reverseSlideSockets never, and    *)
(* releases no client.                                                     *)
StartServer ==
  /\ serving' = TRUE
  /\ leaked' = leaked \cup Connected
  /\ m_connections' = <<>>
  /\ m_reverseEventSockets' = [s \in SessionIds |-> NULL]
  /\ orphaned' = {s \in Sessions : m_reverseSlideSockets[s] # NULL}
  /\ tasks' = <<>>
  /\ UNCHANGED m_reverseSlideSockets

-----------------------------------------------------------------------------
Request(s, id) ==
  \/ ReverseEvent(s, id) \/ ReverseSlideShow(s, id)
  \/ ProcessPlayRequest(s, id) \/ ProcessSlideShowRequest(s, id)
  \/ StopRequest(s, id) \/ OtherRequest(s, id)

Answer(s, id) == SlideArrives(s, id) \/ NoPicture(s, id) \/ SlideShowEnds(s, id)

Next ==
  \/ \E state \in States, receiver \in Sessions \cup {ALL} : Announce(state, receiver)
  \/ \E receiver \in Sessions \cup {ALL} : AnnounceDisconnect(receiver)
  \/ \E s \in Sockets :
       \/ DidAccept(s) \/ DidClose(s) \/ TimerFires(s)
       \/ \E id \in Headers(s) : Request(s, id) \/ Answer(s, id)
  \/ RequestSlides \/ DisconnectClientInThread \/ StopServer \/ StartServer

(* The message loop runs its tasks; peers owe it nothing, and no property  *)
(* needs that timers run out.                                              *)
Fairness == WF_vars(RequestSlides \/ DisconnectClientInThread)

Spec == Init /\ [][Next]_vars /\ Fairness

-----------------------------------------------------------------------------
(* The state always has these types, and posted tasks hold no pointer to a *)
(* client that is deleted.                                                 *)
TypeOK ==
  /\ Connected \subseteq Sockets \ leaked
  /\ m_connections \in [Connected -> Client]
  /\ m_reverseEventSockets \in [SessionIds -> Sockets \cup {NULL}]
  /\ m_reverseSlideSockets \in [Sessions -> Sockets \cup {NULL}]
  /\ tasks \in Seq(Task)
  /\ \A i \in DOMAIN tasks : tasks[i].client \in Connected \cup {NULL}
  /\ leaked \subseteq Sockets
  /\ orphaned \subseteq Sessions
  /\ serving \in BOOLEAN

(* The socket that AnnounceToClients sends the events of a session on is   *)
(* open and belongs to that session, whatever was closed, disconnected or  *)
(* accepted at the same address since.  Only the entry of senders without  *)
(* a session id may be stale.                                              *)
EventSocketsLive ==
  \A id \in Sessions :
    m_reverseEventSockets[id] # NULL =>
      /\ m_reverseEventSockets[id] \in Connected
      /\ m_connections[m_reverseEventSockets[id]].session = id

(* The same of the sockets that RequestSlides sends on, except after       *)
(* DisconnectClient or Deinitialize, which leave the entry behind.         *)
SlideSocketsLive ==
  \A id \in Sessions \ orphaned :
    m_reverseSlideSockets[id] # NULL =>
      /\ m_reverseSlideSockets[id] \in Connected
      /\ m_connections[m_reverseSlideSockets[id]].session = id

(* A slide never waits without a timer that will show it, whatever came    *)
(* before it, unless the timer was stopped while it waited: /stop, which   *)
(* leaves slide_show_context_ as it is, then holds the slides back until   *)
(* the next one arrives.                                                   *)
SlideTimerRuns ==
  \A s \in Connected :
    HasSlide(m_connections[s].slides) => m_connections[s].timer \/ m_connections[s].stopped

(* OnDisconnect of a session is carried out: events stop going to it, or   *)
(* the server is stopped or restarted.                                     *)
DisconnectServed ==
  \A id \in Sessions :
    (\E i \in DOMAIN tasks :
        tasks[i].kind = "DisconnectClient" /\ tasks[i].session = id)
      ~> (m_reverseEventSockets[id] = NULL \/ ~serving)
=============================================================================
