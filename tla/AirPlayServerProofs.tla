------------------------- MODULE AirPlayServerProofs -------------------------
(***************************************************************************)
(* Theorems about AirPlayServer, for any sockets, sessions and states.     *)
(***************************************************************************)
EXTENDS AirPlayServer, TLAPS

-----------------------------------------------------------------------------
(* Types. *)

LEMMA NewClientType == NewClient \in Client
BY ServerAssumption DEF NewClient, Client, SessionIds

(* A field of a client is set.                                             *)
LEMMA UpdatedClient ==
  ASSUME NEW c \in Client
  PROVE  /\ \A id \in SessionIds : [c EXCEPT !.session = id] \in Client
         /\ \A e \in {"NONE", "LOADING", "PLAYING", "PAUSED", "STOPPED"} :
              [c EXCEPT !.event = e] \in Client
BY SMTT(20) DEF Client

LEMMA HaltedClient ==
  ASSUME NEW c \in Client
  PROVE  /\ Halted(c) \in Client
         /\ Halted(c).session = c.session /\ Halted(c).slides = c.slides
         /\ Halted(c).timer = FALSE
         /\ Halted(c).stopped = (c.stopped \/ (c.timer /\ HasSlide(c.slides)))
<1> DEFINE b == c.stopped \/ (c.timer /\ HasSlide(c.slides))
<1>1. b \in BOOLEAN
  BY DEF HasSlide, Client
<1>2. Halted(c) = [c EXCEPT !.timer = FALSE, !.stopped = b]
  BY DEF Halted
<1> HIDE DEF b
<1>3. [c EXCEPT !.timer = FALSE, !.stopped = b] \in Client
  BY <1>1 DEF Client
<1> QED
  BY <1>2, <1>3 DEF Client, b

LEMMA QueuedClient ==
  ASSUME NEW c \in Client, NEW slide \in {"slide", "end"}
  PROVE  /\ Queued(c, slide) \in Client
         /\ Queued(c, slide).session = c.session
         /\ Queued(c, slide).slides = Append(c.slides, slide)
         /\ Queued(c, slide).timer = c.timer /\ Queued(c, slide).stopped = c.stopped
<1>1. Append(c.slides, slide) \in Seq({"slide", "end"})
  BY DEF Client
<1> QED
  BY <1>1 DEF Queued, Client

LEMMA InSessionType ==
  ASSUME m_connections \in [Connected -> Client], NEW s \in Connected, NEW id \in SessionIds
  PROVE  /\ InSession(s, id) \in [Connected -> Client]
         /\ \A t \in Connected :
              /\ InSession(s, id)[t].session =
                   IF t = s /\ m_connections[t].session = NoSession THEN id
                   ELSE m_connections[t].session
              /\ InSession(s, id)[t].stopped = m_connections[t].stopped
              /\ InSession(s, id)[t].slides = m_connections[t].slides
              /\ InSession(s, id)[t].timer = m_connections[t].timer
<1> DEFINE c == m_connections[s]
           d == [c EXCEPT !.session = IF @ = NoSession THEN id ELSE @]
           n == InSession(s, id)
<1>1. c \in Client /\ c.session \in SessionIds
  BY DEF Client
<1>2. n = [m_connections EXCEPT ![s] = d]
  BY DEF InSession
<1>3. d = [c EXCEPT !.session = IF c.session = NoSession THEN id ELSE c.session]
  OBVIOUS
<1>4. d \in Client
  BY <1>1, <1>3, UpdatedClient
<1>5. /\ d.session = IF c.session = NoSession THEN id ELSE c.session
      /\ d.slides = c.slides /\ d.timer = c.timer /\ d.stopped = c.stopped
  BY <1>1 DEF Client
<1> HIDE DEF d, n
<1>6. n \in [Connected -> Client]
  BY <1>2, <1>4
<1>7. n[s] = d /\ \A t \in Connected : t # s => n[t] = m_connections[t]
  BY <1>2, <1>6
<1>8. ASSUME NEW t \in Connected
      PROVE  /\ n[t].session = IF t = s /\ m_connections[t].session = NoSession THEN id
                               ELSE m_connections[t].session
             /\ n[t].stopped = m_connections[t].stopped
             /\ n[t].slides = m_connections[t].slides
             /\ n[t].timer = m_connections[t].timer
  <2>1. CASE t = s
    BY ONLY <1>5, <1>7, <2>1
  <2>2. CASE t # s
    BY ONLY <1>7, <2>2, <1>8
  <2> QED
    BY <2>1, <2>2
<1> QED
  BY <1>6, <1>8 DEF n

LEMMA AnnouncedType ==
  ASSUME NEW C, NEW c \in [C -> Client], NEW state, NEW receiver,
         state \in {"LOADING", "PLAYING", "PAUSED", "STOPPED"}
  PROVE  /\ Announced(c, state, receiver) \in [C -> Client]
         /\ \A t \in C :
              /\ Announced(c, state, receiver)[t].session = c[t].session
              /\ Announced(c, state, receiver)[t].stopped = c[t].stopped
              /\ Announced(c, state, receiver)[t].slides = c[t].slides
              /\ Announced(c, state, receiver)[t].timer = c[t].timer
BY DEF Announced, Client

LEMMA WithoutClientsType ==
  ASSUME TypeOK, NEW gone
  PROVE  /\ WithoutClients(gone) \in Seq(Task)
         /\ DOMAIN WithoutClients(gone) = DOMAIN tasks
         /\ \A i \in DOMAIN tasks :
              WithoutClients(gone)[i].client \in (Connected \ gone) \cup {NULL}
<1> DEFINE w == WithoutClients(gone)
<1>1. tasks \in Seq(Task) /\ DOMAIN tasks = 1 .. Len(tasks) /\ Len(tasks) \in Nat
  BY DEF TypeOK
<1>2. ASSUME NEW i \in 1 .. Len(tasks)
      PROVE  /\ w[i] \in Task
             /\ w[i].client \in (Connected \ gone) \cup {NULL}
  <2>1. tasks[i] \in Task /\ tasks[i].client \in Connected \cup {NULL}
    BY <1>1 DEF TypeOK
  <2> QED
    BY <1>1, <2>1 DEF WithoutClients, Task
<1>3. w = [i \in 1 .. Len(tasks) |-> w[i]]
  BY <1>1 DEF WithoutClients
<1>4. w \in [1 .. Len(tasks) -> Task]
  BY <1>2, <1>3
<1>5. w \in Seq(Task)
  BY <1>1, <1>4
<1> QED
  BY <1>1, <1>2, <1>5 DEF WithoutClients

(* What a step does to the connections, when the rest keeps its type.      *)
LEMMA ConnectionsType ==
  ASSUME TypeOK,
         m_connections' \in [Connected -> Client],
         tasks' \in Seq(Task),
         \A i \in DOMAIN tasks' : tasks'[i].client \in Connected \cup {NULL},
         m_reverseEventSockets' \in [SessionIds -> Sockets \cup {NULL}],
         m_reverseSlideSockets' \in [Sessions -> Sockets \cup {NULL}],
         orphaned' \subseteq Sessions,
         UNCHANGED <<leaked, serving>>
  PROVE  TypeOK'
<1>1. Connected' = Connected
  BY DEF Connected
<1> QED
  BY <1>1 DEF TypeOK

LEMMA PostType ==
  ASSUME TypeOK, NEW task \in Task, task.client \in Connected \cup {NULL},
         tasks' = Append(tasks, task)
  PROVE  /\ tasks' \in Seq(Task)
         /\ \A i \in DOMAIN tasks' : tasks'[i].client \in Connected \cup {NULL}
BY DEF TypeOK

LEMMA TakeType ==
  ASSUME TypeOK, tasks # <<>>, tasks' = Tail(tasks)
  PROVE  /\ tasks' \in Seq(Task)
         /\ \A i \in DOMAIN tasks' : tasks'[i].client \in Connected \cup {NULL}
         /\ Head(tasks) \in Task /\ Head(tasks).client \in Connected \cup {NULL}
BY DEF TypeOK

LEMMA InitType == Init => TypeOK
<1> SUFFICES ASSUME Init PROVE TypeOK
  OBVIOUS
<1>1. m_connections \in [Connected -> Client] /\ Connected = {}
  BY DEF Init, Connected
<1>2. tasks \in Seq(Task) /\ \A i \in DOMAIN tasks : FALSE
  BY DEF Init
<1> QED
  BY <1>1, <1>2, ServerAssumption DEF Init, TypeOK

LEMMA ShownType ==
  ASSUME NEW c \in Client
  PROVE  /\ Shown(c) \in Client
         /\ Shown(c).session = c.session
         /\ c.slides # <<>> => Shown(c).timer = TRUE
<1>1. CASE c.slides = <<>>
  BY <1>1 DEF Shown
<1>2. CASE c.slides # <<>>
  <2>1. Tail(c.slides) \in Seq({"slide", "end"})
    BY <1>2 DEF Client
  <2>2. Shown(c) = [c EXCEPT !.slides = Tail(c.slides), !.timer = TRUE, !.stopped = FALSE]
    BY <1>2 DEF Shown
  <2> QED
    BY <2>1, <2>2 DEF Client
<1> QED
  BY <1>1, <1>2

(* The slide entry of a session stays a socket or NULL.                    *)
LEMMA SlideEntryType ==
  ASSUME TypeOK, NEW id, NEW socket \in Sockets \cup {NULL}
  PROVE  WithSlideSocket(id, socket) \in [Sessions -> Sockets \cup {NULL}]
BY DEF WithSlideSocket, TypeOK

LEMMA RequestType ==
  ASSUME TypeOK, NEW s \in Sockets, NEW id \in SessionIds, Request(s, id)
  PROVE  TypeOK'
<1>1. /\ m_connections \in [Connected -> Client] /\ s \in Connected
      /\ UNCHANGED <<leaked, serving>>
  BY DEF TypeOK, Request, CanRequest, ReverseEvent, ReverseSlideShow, ProcessPlayRequest,
         ProcessSlideShowRequest, StopRequest, OtherRequest
<1>2. InSession(s, id) \in [Connected -> Client]
  BY <1>1, InSessionType
<1>3. CASE ReverseEvent(s, id)
  <2>1. m_connections' \in [Connected -> Client] /\ m_connections'[s].session \in SessionIds
    BY <1>1, <1>2, <1>3 DEF ReverseEvent, Client
  <2>2. m_reverseEventSockets' \in [SessionIds -> Sockets \cup {NULL}]
    BY <1>3, <2>1 DEF ReverseEvent, TypeOK
  <2> QED
    BY <1>1, <1>3, <2>1, <2>2, ConnectionsType DEF ReverseEvent, TypeOK
<1>4. CASE ReverseSlideShow(s, id)
  <2>1. m_connections' \in [Connected -> Client] /\ m_connections'[s].session \in SessionIds
    BY <1>1, <1>2, <1>4 DEF ReverseSlideShow, Client
  <2>2. m_reverseSlideSockets' \in [Sessions -> Sockets \cup {NULL}]
    BY <1>4, SlideEntryType DEF ReverseSlideShow
  <2> QED
    BY <1>1, <1>4, <2>1, <2>2, ConnectionsType DEF ReverseSlideShow, TypeOK
<1>5. CASE ProcessPlayRequest(s, id)
  <2> DEFINE c == [InSession(s, id) EXCEPT ![s].event = "NONE"]
  <2>1. c \in [Connected -> Client]
    BY <1>2 DEF Client
  <2>2. m_connections' \in [Connected -> Client]
    <3>1. m_connections' \in {c, Announced(c, "LOADING", ALL)}
      BY <1>5 DEF ProcessPlayRequest
    <3> HIDE DEF c
    <3>2. Announced(c, "LOADING", ALL) \in [Connected -> Client]
      BY <2>1, AnnouncedType
    <3> QED
      BY <2>1, <3>1, <3>2
  <2> QED
    BY <1>1, <1>5, <2>2, ConnectionsType DEF ProcessPlayRequest, TypeOK, maps
<1>6. CASE ProcessSlideShowRequest(s, id)
  <2>1. m_connections' \in [Connected -> Client]
    BY <1>2, <1>6, AnnouncedType DEF ProcessSlideShowRequest
  <2>2. [kind |-> "RequestSlides", session |-> NoSession, client |-> s] \in Task
    BY DEF Task, SessionIds
  <2>3. /\ tasks' \in Seq(Task)
        /\ \A i \in DOMAIN tasks' : tasks'[i].client \in Connected \cup {NULL}
    BY <1>1, <1>6, <2>2, PostType DEF ProcessSlideShowRequest, scheduleNextSlideRequest
  <2> QED
    BY <1>1, <1>6, <2>1, <2>3, ConnectionsType DEF ProcessSlideShowRequest, TypeOK, maps
<1>7. CASE StopRequest(s, id) \/ OtherRequest(s, id)
  <2>1. m_connections' \in [Connected -> Client]
    <3>1. CASE StopRequest(s, id)
      <4>1. PICK n \in [Connected -> Client] : m_connections' = [n EXCEPT ![s] = Halted(n[s])]
        BY <1>2, <3>1 DEF StopRequest
      <4> QED
        BY <1>1, <4>1, HaltedClient
    <3>2. CASE OtherRequest(s, id)
      BY <1>2, <3>2 DEF OtherRequest
    <3> QED
      BY <1>7, <3>1, <3>2
  <2> QED
    BY <1>1, <1>7, <2>1, ConnectionsType DEF StopRequest, OtherRequest, TypeOK, maps
<1> QED
  BY <1>3, <1>4, <1>5, <1>6, <1>7 DEF Request

(* What an answer does to its connection.                                  *)
LEMMA AnswerForm ==
  ASSUME TypeOK, NEW s \in Sockets, NEW id \in SessionIds, Answer(s, id)
  PROVE  \E n \in [Connected -> Client], c \in Client :
           /\ s \in Connected
           /\ n = InSession(s, id)
           /\ m_connections' = [n EXCEPT ![s] = c]
           /\ c.session = n[s].session
           /\ c \in {n[s], Queued(n[s], "end")}
                \/ c = (IF n[s].timer THEN Queued(n[s], "slide")
                        ELSE Shown(Queued(n[s], "slide")))
<1> DEFINE n == InSession(s, id)
           q == Queued(n[s], "slide")
<1>1. m_connections \in [Connected -> Client] /\ s \in Connected
  BY DEF TypeOK, Answer, SlideArrives, NoPicture, SlideShowEnds, CanQueue, CanRequest
<1>2. n \in [Connected -> Client] /\ n[s] \in Client
  BY <1>1, InSessionType
<1> HIDE DEF n
<1>3. q \in Client /\ q.session = n[s].session
  BY <1>2, QueuedClient
<1>4. CASE m_connections' = [n EXCEPT ![s] = IF n[s].timer THEN q ELSE Shown(q)]
  <2> DEFINE c == IF n[s].timer THEN q ELSE Shown(q)
  <2> HIDE DEF q
  <2>1. Shown(q) \in Client /\ Shown(q).session = q.session
    BY <1>3, ShownType
  <2>2. c \in Client /\ c.session = n[s].session
    BY <1>3, <2>1
  <2>3. c = (IF n[s].timer THEN Queued(n[s], "slide") ELSE Shown(Queued(n[s], "slide")))
    BY DEF q
  <2>4. m_connections' = [n EXCEPT ![s] = c] /\ n = InSession(s, id)
    BY <1>4 DEF n
  <2> HIDE DEF c
  <2> QED
    BY <1>1, <1>2, <2>2, <2>3, <2>4
<1>5. CASE m_connections' = [n EXCEPT ![s] = Queued(n[s], "end")]
  BY <1>1, <1>2, <1>5, QueuedClient DEF n
<1>6. CASE m_connections' = n
  <2>1. m_connections' = [n EXCEPT ![s] = n[s]]
    BY <1>1, <1>2, <1>6
  <2> QED
    BY <1>1, <1>2, <2>1 DEF n
<1> QED
  BY <1>4, <1>5, <1>6 DEF Answer, SlideArrives, NoPicture, SlideShowEnds, n, q

LEMMA AnswerType ==
  ASSUME TypeOK, NEW s \in Sockets, NEW id \in SessionIds, Answer(s, id)
  PROVE  TypeOK'
<1>1. s \in Connected /\ m_connections' \in [Connected -> Client]
  BY AnswerForm
<1>2. UNCHANGED <<maps, leaked, orphaned, serving>>
  BY DEF Answer, SlideArrives, NoPicture, SlideShowEnds
<1>3. [kind |-> "RequestSlides", session |-> NoSession, client |-> s] \in Task
  BY DEF Task, SessionIds
<1>4. /\ tasks' \in Seq(Task)
      /\ \A i \in DOMAIN tasks' : tasks'[i].client \in Connected \cup {NULL}
  <2>1. CASE scheduleNextSlideRequest(s)
    BY <1>1, <1>3, <2>1, PostType DEF scheduleNextSlideRequest
  <2>2. CASE UNCHANGED tasks
    BY <2>2 DEF TypeOK
  <2> QED
    BY <2>1, <2>2 DEF Answer, SlideArrives, NoPicture, SlideShowEnds
<1> QED
  BY <1>1, <1>2, <1>4, ConnectionsType DEF TypeOK, maps

LEMMA StepType == TypeOK /\ [Next]_vars => TypeOK'
<1> SUFFICES ASSUME TypeOK, [Next]_vars PROVE TypeOK'
  OBVIOUS
<1>0. m_connections \in [Connected -> Client] /\ Connected \subseteq Sockets \ leaked
  BY DEF TypeOK
<1>1. ASSUME NEW state \in States, NEW receiver \in Sessions \cup {ALL}, Announce(state, receiver)
      PROVE  TypeOK'
  <2>1. m_connections' \in [Connected -> Client]
    BY <1>0, <1>1, AnnouncedType, ServerAssumption DEF Announce
  <2> QED
    BY <1>1, <2>1, ConnectionsType DEF Announce, TypeOK, maps
<1>2. ASSUME NEW receiver \in Sessions \cup {ALL}, AnnounceDisconnect(receiver)
      PROVE  TypeOK'
  <2>1. m_connections' \in [Connected -> Client]
    BY <1>0, <1>2, AnnouncedType DEF AnnounceDisconnect
  <2>2. [kind |-> "DisconnectClient", session |-> receiver, client |-> NULL] \in Task
    BY DEF Task, SessionIds
  <2>3. /\ tasks' \in Seq(Task)
        /\ \A i \in DOMAIN tasks' : tasks'[i].client \in Connected \cup {NULL}
    BY <1>2, <2>2, PostType DEF AnnounceDisconnect
  <2> QED
    BY <1>2, <2>1, <2>3, ConnectionsType DEF AnnounceDisconnect, TypeOK, maps
<1>3. ASSUME NEW s \in Sockets, DidAccept(s)
      PROVE  TypeOK'
  <2>1. Connected' = Connected \cup {s} /\ m_connections' \in [Connected' -> Client]
    BY <1>0, <1>3, NewClientType DEF DidAccept, Connected
  <2> QED
    BY <1>3, <2>1 DEF DidAccept, TypeOK, maps
<1>4. ASSUME NEW s \in Sockets, DidClose(s)
      PROVE  TypeOK'
  <2>1. Connected' = Connected \ {s} /\ m_connections' \in [Connected' -> Client]
    BY <1>0, <1>4 DEF DidClose, Connected
  <2>2. /\ tasks' \in Seq(Task) /\ DOMAIN tasks' = DOMAIN tasks
        /\ \A i \in DOMAIN tasks : tasks'[i].client \in (Connected \ {s}) \cup {NULL}
    BY <1>4, WithoutClientsType DEF DidClose
  <2>3. /\ m_reverseEventSockets' \in [SessionIds -> Sockets \cup {NULL}]
        /\ m_reverseSlideSockets' \in [Sessions -> Sockets \cup {NULL}]
        /\ orphaned' \subseteq Sessions
    BY <1>4, SlideEntryType DEF DidClose, TypeOK
  <2> QED
    BY <1>4, <2>1, <2>2, <2>3 DEF DidClose, TypeOK
<1>5. ASSUME NEW s \in Sockets, TimerFires(s)
      PROVE  TypeOK'
  <2>1. s \in Connected /\ [m_connections[s] EXCEPT !.timer = FALSE] \in Client
    BY <1>0, <1>5 DEF TimerFires, Client
  <2>2. m_connections' \in [Connected -> Client]
    BY <1>0, <1>5, <2>1, ShownType DEF TimerFires
  <2> QED
    BY <1>5, <2>2, ConnectionsType DEF TimerFires, TypeOK, maps
<1>6. ASSUME NEW s \in Sockets, NEW id \in SessionIds, Request(s, id)
      PROVE  TypeOK'
  BY <1>6, RequestType
<1>7. ASSUME NEW s \in Sockets, NEW id \in SessionIds, Answer(s, id)
      PROVE  TypeOK'
  BY <1>7, AnswerType
<1>8. CASE RequestSlides
  BY <1>0, <1>8, TakeType, ConnectionsType DEF RequestSlides, FirstTask, TypeOK, maps
<1>9. CASE DisconnectClientInThread
  <2> DEFINE gone == Disconnected(Head(tasks).session)
             rest == WithoutClients(gone)
  <2>1. Connected' = Connected \ gone /\ m_connections' \in [Connected' -> Client]
    BY <1>0, <1>9 DEF DisconnectClientInThread, Connected
  <2>2. /\ rest \in Seq(Task) /\ DOMAIN rest = DOMAIN tasks
        /\ \A i \in DOMAIN tasks : rest[i].client \in (Connected \ gone) \cup {NULL}
    BY WithoutClientsType
  <2>3. rest # <<>> /\ tasks' = Tail(rest)
    BY <1>9, <2>2 DEF DisconnectClientInThread, FirstTask, TypeOK
  <2>4. /\ tasks' \in Seq(Task)
        /\ \A i \in DOMAIN tasks' : tasks'[i].client \in (Connected \ gone) \cup {NULL}
    BY <2>2, <2>3
  <2>5. /\ m_reverseEventSockets' \in [SessionIds -> Sockets \cup {NULL}]
        /\ UNCHANGED <<m_reverseSlideSockets, leaked, serving>>
    BY <1>9 DEF DisconnectClientInThread, TypeOK
  <2>6. orphaned' \subseteq Sessions
    BY <1>9 DEF DisconnectClientInThread, TypeOK
  <2> QED
    BY <2>1, <2>4, <2>5, <2>6 DEF TypeOK
<1>10. CASE StartServer
  <2>1. Connected' = {} /\ m_connections' \in [Connected' -> Client]
    BY <1>10 DEF StartServer, Connected
  <2>2. tasks' \in Seq(Task) /\ \A i \in DOMAIN tasks' : FALSE
    BY <1>10 DEF StartServer
  <2> QED
    BY <1>10, <2>1, <2>2, ServerAssumption DEF StartServer, TypeOK
<1>12. CASE StopServer
  <2>1. Connected' = Connected /\ m_connections' \in [Connected -> Client]
    BY <1>0, <1>12, HaltedClient DEF StopServer, Connected
  <2>2. tasks' \in Seq(Task) /\ \A i \in DOMAIN tasks' : FALSE
    BY <1>12 DEF StopServer
  <2> QED
    BY <1>12, <2>1, <2>2 DEF StopServer, TypeOK, maps
<1>11. CASE UNCHANGED vars
  BY <1>11 DEF vars, maps, TypeOK, Connected
<1> QED
  <2>1. \A s \in Sockets : Headers(s) \subseteq SessionIds
    BY DEF Headers, SessionIds
  <2> QED
    BY <1>1, <1>2, <1>3, <1>4, <1>5, <1>6, <1>7, <1>8, <1>9, <1>10, <1>11, <1>12, <2>1 DEF Next

(* The state of the server always has the declared types, and a posted     *)
(* task never holds a pointer to a client that was deleted.                *)
THEOREM TypeCorrect == Spec => []TypeOK
BY InitType, StepType, PTL DEF Spec

-----------------------------------------------------------------------------
(* The reverse sockets. *)

SocketsLive == EventSocketsLive /\ SlideSocketsLive

LEMMA InitSockets == Init => SocketsLive
BY DEF Init, SocketsLive, EventSocketsLive, SlideSocketsLive, SessionIds, Connected

(* A step that closes nothing and turns nothing round.                     *)
LEMMA SameSockets ==
  ASSUME SocketsLive, UNCHANGED maps, orphaned' = orphaned,
         Connected \subseteq Connected',
         \A s \in Connected : m_connections[s].session \in Sessions
                                => m_connections'[s].session = m_connections[s].session
  PROVE  SocketsLive'
BY DEF SocketsLive, EventSocketsLive, SlideSocketsLive, maps

(* What the requests leave of the sessions and the slide shows.            *)
LEMMA RequestEffect ==
  ASSUME TypeOK, NEW s \in Sockets, NEW id \in SessionIds, Request(s, id)
  PROVE  /\ s \in Connected /\ Connected' = Connected
         /\ \A t \in Connected :
              /\ m_connections'[t].session =
                   IF t = s /\ m_connections[t].session = NoSession THEN id
                   ELSE m_connections[t].session
              /\ m_connections'[t].slides = m_connections[t].slides
              /\ \/ /\ m_connections'[t].timer = m_connections[t].timer
                    /\ m_connections'[t].stopped = m_connections[t].stopped
                 \/ m_connections'[t].stopped =
                      (m_connections[t].stopped \/
                         (m_connections[t].timer /\ HasSlide(m_connections[t].slides)))
<1>1. m_connections \in [Connected -> Client] /\ s \in Connected
  BY DEF TypeOK, Request, CanRequest, ReverseEvent, ReverseSlideShow, ProcessPlayRequest,
         ProcessSlideShowRequest, StopRequest, OtherRequest
<1> DEFINE n == InSession(s, id)
           c == [n EXCEPT ![s].event = "NONE"]
<1>2. /\ n \in [Connected -> Client]
      /\ \A t \in Connected :
           /\ n[t].session = IF t = s /\ m_connections[t].session = NoSession THEN id
                             ELSE m_connections[t].session
           /\ n[t].stopped = m_connections[t].stopped
           /\ n[t].slides = m_connections[t].slides
           /\ n[t].timer = m_connections[t].timer
  BY <1>1, InSessionType
<1>3. CASE ReverseEvent(s, id) \/ ReverseSlideShow(s, id) \/ OtherRequest(s, id)
  <2>1. m_connections' = n
    BY <1>3 DEF ReverseEvent, ReverseSlideShow, OtherRequest
  <2> HIDE DEF n
  <2> QED
    BY <1>1, <1>2, <2>1 DEF Connected
<1>4. CASE ProcessPlayRequest(s, id)
  <2>1. /\ c \in [Connected -> Client]
        /\ \A t \in Connected : /\ c[t].session = n[t].session /\ c[t].stopped = n[t].stopped
                                /\ c[t].slides = n[t].slides /\ c[t].timer = n[t].timer
    <3> DEFINE d == [n[s] EXCEPT !.event = "NONE"]
    <3> HIDE DEF n
    <3>1. n[s] \in Client
      BY ONLY <1>1, <1>2
    <3>2. /\ d \in Client /\ d.session = n[s].session /\ d.stopped = n[s].stopped
          /\ d.slides = n[s].slides /\ d.timer = n[s].timer
      <4>1. d \in Client
        BY <3>1, UpdatedClient
      <4> QED
        BY ONLY <3>1, <4>1 DEF Client
    <3>3. c = [n EXCEPT ![s] = d]
      OBVIOUS
    <3> HIDE DEF c, d
    <3>4. c \in [Connected -> Client] /\ c[s] = d
      BY ONLY <1>1, <1>2, <3>2, <3>3
    <3>5. \A t \in Connected : t # s => c[t] = n[t]
      BY ONLY <1>2, <3>3
    <3> QED
      BY ONLY <3>2, <3>4, <3>5
  <2>2. m_connections' \in {c, Announced(c, "LOADING", ALL)}
    BY <1>4 DEF ProcessPlayRequest
  <2> HIDE DEF c, n
  <2>3. /\ m_connections' \in [Connected -> Client]
        /\ \A t \in Connected :
             /\ m_connections'[t].session = c[t].session
             /\ m_connections'[t].stopped = c[t].stopped
             /\ m_connections'[t].slides = c[t].slides
             /\ m_connections'[t].timer = c[t].timer
    BY <2>1, <2>2, AnnouncedType
  <2> QED
    BY <1>1, <1>2, <2>1, <2>3 DEF Connected
<1>5. CASE ProcessSlideShowRequest(s, id)
  <2>1. m_connections' = Announced(n, "LOADING", ALL)
    BY <1>5 DEF ProcessSlideShowRequest
  <2> HIDE DEF n
  <2>2. /\ m_connections' \in [Connected -> Client]
        /\ \A t \in Connected :
             /\ m_connections'[t].session = n[t].session
             /\ m_connections'[t].stopped = n[t].stopped
             /\ m_connections'[t].slides = n[t].slides
             /\ m_connections'[t].timer = n[t].timer
    BY <1>2, <2>1, AnnouncedType
  <2> QED
    BY <1>1, <1>2, <2>2 DEF Connected
<1>6. CASE StopRequest(s, id)
  <2>1. m_connections' = [n EXCEPT ![s] = Halted(n[s])]
    BY <1>6 DEF StopRequest
  <2> HIDE DEF n
  <2>2. n[s] \in Client
    BY <1>1, <1>2
  <2>3. /\ Halted(n[s]).session = n[s].session /\ Halted(n[s]).slides = n[s].slides
        /\ Halted(n[s]).stopped = (n[s].stopped \/ (n[s].timer /\ HasSlide(n[s].slides)))
    BY <2>2, HaltedClient
  <2>4. /\ m_connections'[s] = Halted(n[s]) /\ Connected' = Connected
        /\ \A t \in Connected : t # s => m_connections'[t] = n[t]
    BY <1>1, <1>2, <2>1 DEF Connected
  <2>5. ASSUME NEW t \in Connected
        PROVE  /\ m_connections'[t].session =
                    IF t = s /\ m_connections[t].session = NoSession THEN id
                    ELSE m_connections[t].session
               /\ m_connections'[t].slides = m_connections[t].slides
               /\ \/ /\ m_connections'[t].timer = m_connections[t].timer
                     /\ m_connections'[t].stopped = m_connections[t].stopped
                  \/ m_connections'[t].stopped =
                       (m_connections[t].stopped \/
                          (m_connections[t].timer /\ HasSlide(m_connections[t].slides)))
    <3>1. CASE t = s
      BY ONLY <1>1, <1>2, <2>3, <2>4, <3>1
    <3>2. CASE t # s
      BY ONLY <1>2, <2>4, <2>5, <3>2
    <3> QED
      BY <3>1, <3>2
  <2> QED
    BY <1>1, <2>4, <2>5
<1> QED
  BY <1>3, <1>4, <1>5, <1>6 DEF Request

(* /reverse makes the socket of the request the reverse socket of its      *)
(* session.                                                                *)
LEMMA RequestSockets ==
  ASSUME TypeOK, SocketsLive, NEW s \in Sockets, NEW id \in SessionIds, Request(s, id)
  PROVE  SocketsLive'
<1>1. /\ s \in Connected /\ Connected' = Connected
      /\ \A t \in Connected :
           m_connections[t].session \in Sessions
             => m_connections'[t].session = m_connections[t].session
  BY RequestEffect, ServerAssumption
<1>2. CASE ReverseEvent(s, id)
  <2>1. /\ m_reverseEventSockets' =
             [m_reverseEventSockets EXCEPT ![m_connections'[s].session] = s]
        /\ UNCHANGED <<m_reverseSlideSockets, orphaned>>
    BY <1>2 DEF ReverseEvent
  <2>2. EventSocketsLive'
    BY <1>1, <2>1 DEF SocketsLive, EventSocketsLive, TypeOK, SessionIds
  <2>3. SlideSocketsLive'
    BY <1>1, <2>1 DEF SocketsLive, SlideSocketsLive
  <2> QED
    BY <2>2, <2>3 DEF SocketsLive
<1>3. CASE ReverseSlideShow(s, id)
  <2>1. /\ m_reverseSlideSockets' = WithSlideSocket(m_connections'[s].session, s)
        /\ orphaned' = orphaned \ {m_connections'[s].session}
        /\ UNCHANGED m_reverseEventSockets
    BY <1>3 DEF ReverseSlideShow
  <2>2. SlideSocketsLive'
    BY <1>1, <2>1 DEF SocketsLive, SlideSocketsLive, WithSlideSocket
  <2>3. EventSocketsLive'
    BY <1>1, <2>1 DEF SocketsLive, EventSocketsLive
  <2> QED
    BY <2>2, <2>3 DEF SocketsLive
<1>4. CASE UNCHANGED maps /\ orphaned' = orphaned
  BY <1>1, <1>4, SameSockets
<1> QED
  BY <1>2, <1>3, <1>4
     DEF Request, ProcessPlayRequest, ProcessSlideShowRequest, StopRequest,
         OtherRequest

(* What the answers and the timer leave of the sessions, and of the slides *)
(* of the other connections.                                               *)
LEMMA AnswerEffect ==
  ASSUME TypeOK, NEW s \in Sockets, NEW id \in SessionIds, Answer(s, id)
  PROVE  /\ s \in Connected /\ Connected' = Connected
         /\ \A t \in Connected :
              m_connections'[t].session =
                IF t = s /\ m_connections[t].session = NoSession THEN id
                ELSE m_connections[t].session
         /\ \A t \in Connected \ {s} :
              /\ m_connections'[t].slides = m_connections[t].slides
              /\ m_connections'[t].timer = m_connections[t].timer
              /\ m_connections'[t].stopped = m_connections[t].stopped
         /\ UNCHANGED <<maps, orphaned>>
<1>1. UNCHANGED <<maps, orphaned>>
  BY DEF Answer, SlideArrives, NoPicture, SlideShowEnds
<1>2. PICK n \in [Connected -> Client], c \in Client :
        /\ s \in Connected /\ n = InSession(s, id)
        /\ m_connections' = [n EXCEPT ![s] = c] /\ c.session = n[s].session
  BY AnswerForm
<1>3. \A t \in Connected :
        /\ n[t].session = IF t = s /\ m_connections[t].session = NoSession THEN id
                          ELSE m_connections[t].session
        /\ n[t].slides = m_connections[t].slides
        /\ n[t].timer = m_connections[t].timer
        /\ n[t].stopped = m_connections[t].stopped
  BY <1>2, InSessionType DEF TypeOK
<1>4. /\ Connected' = Connected /\ m_connections'[s] = c
      /\ \A t \in Connected \ {s} : m_connections'[t] = n[t]
  BY <1>2 DEF Connected
<1> QED
  BY <1>1, <1>2, <1>3, <1>4

LEMMA TimerEffect ==
  ASSUME TypeOK, NEW s \in Sockets, TimerFires(s)
  PROVE  \E c \in Client :
           /\ s \in Connected /\ Connected' = Connected
           /\ c.slides = m_connections[s].slides
           /\ m_connections'[s] = Shown(c)
           /\ Shown(c).session = m_connections[s].session
           /\ \A t \in Connected \ {s} : m_connections'[t] = m_connections[t]
           /\ UNCHANGED <<maps, orphaned>>
<1> DEFINE c == [m_connections[s] EXCEPT !.timer = FALSE]
<1>1. m_connections \in [Connected -> Client] /\ s \in Connected
  BY DEF TypeOK, TimerFires
<1>2. /\ c \in Client /\ c.slides = m_connections[s].slides
      /\ c.session = m_connections[s].session
  BY <1>1 DEF Client
<1>3. m_connections' = [m_connections EXCEPT ![s] = Shown(c)] /\ UNCHANGED <<maps, orphaned>>
  BY DEF TimerFires
<1> HIDE DEF c
<1> QED
  BY <1>1, <1>2, <1>3, ShownType DEF Connected

(* The entries of other sessions are on other sockets than those that      *)
(* DidClose, DisconnectClient and StartServer take away.                   *)
LEMMA DidCloseSockets ==
  ASSUME TypeOK, SocketsLive, NEW s \in Sockets, DidClose(s)
  PROVE  SocketsLive'
<1> DEFINE id == m_connections[s].session
<1>1. /\ s \in Connected /\ id \in SessionIds
      /\ Connected' = Connected \ {s}
      /\ \A t \in Connected \ {s} : m_connections'[t] = m_connections[t]
  BY DEF TypeOK, DidClose, Connected, Client
<1>2. /\ m_reverseEventSockets' = [m_reverseEventSockets EXCEPT ![id] = NULL]
      /\ m_reverseSlideSockets' = WithSlideSocket(id, NULL)
      /\ orphaned' = orphaned \ {id}
  BY DEF DidClose
<1>3. EventSocketsLive'
  BY <1>1, <1>2 DEF SocketsLive, EventSocketsLive, TypeOK, SessionIds
<1>4. SlideSocketsLive'
  BY <1>1, <1>2 DEF SocketsLive, SlideSocketsLive, WithSlideSocket
<1> QED
  BY <1>3, <1>4 DEF SocketsLive

LEMMA DisconnectSockets ==
  ASSUME TypeOK, SocketsLive, DisconnectClientInThread
  PROVE  SocketsLive'
<1> DEFINE id == Head(tasks).session
           gone == Disconnected(id)
<1>1. /\ Connected' = Connected \ gone
      /\ \A t \in Connected \ gone : m_connections'[t] = m_connections[t]
      /\ m_reverseEventSockets' =
           [t \in SessionIds |-> IF t = id /\ m_reverseEventSockets[t] \in gone THEN NULL
                                 ELSE m_reverseEventSockets[t]]
      /\ orphaned' = orphaned \cup
           {t \in Sessions : t = id /\ m_reverseSlideSockets[t] \in gone}
      /\ UNCHANGED m_reverseSlideSockets
  BY DEF DisconnectClientInThread, Connected
<1>2. \A s \in gone : s \in Connected /\ m_connections[s].session = id
  BY DEF Disconnected, Members
<1> HIDE DEF gone, id
<1>3. EventSocketsLive'
  BY <1>1, <1>2 DEF SocketsLive, EventSocketsLive, SessionIds
<1>4. SlideSocketsLive'
  BY <1>1, <1>2 DEF SocketsLive, SlideSocketsLive, SessionIds
<1> QED
  BY <1>3, <1>4 DEF SocketsLive

LEMMA NextSockets == TypeOK /\ SocketsLive /\ [Next]_vars => SocketsLive'
<1> SUFFICES ASSUME TypeOK, SocketsLive, [Next]_vars PROVE SocketsLive'
  OBVIOUS
<1>0. m_connections \in [Connected -> Client]
  BY DEF TypeOK
<1>1. ASSUME NEW state \in States \cup {"STOPPED"}, NEW receiver,
             m_connections' = Announced(m_connections, state, receiver),
             UNCHANGED <<maps, orphaned>>
      PROVE  SocketsLive'
  <2>1. /\ m_connections' \in [Connected -> Client]
        /\ \A s \in Connected : m_connections'[s].session = m_connections[s].session
    BY <1>0, <1>1, AnnouncedType, ServerAssumption
  <2>2. Connected' = Connected
    BY <2>1 DEF Connected
  <2> QED
    BY <1>1, <2>1, <2>2, SameSockets DEF maps
<1>2. ASSUME NEW s \in Sockets, DidAccept(s)
      PROVE  SocketsLive'
  BY <1>2, SameSockets DEF DidAccept, Connected
<1>3. ASSUME NEW s \in Sockets, NEW id \in SessionIds, Answer(s, id)
      PROVE  SocketsLive'
  <2>1. /\ Connected' = Connected /\ UNCHANGED <<maps, orphaned>>
        /\ \A t \in Connected : m_connections[t].session \in Sessions
             => m_connections'[t].session = m_connections[t].session
    BY <1>3, AnswerEffect, ServerAssumption
  <2> QED
    BY <2>1, SameSockets
<1>4. ASSUME NEW s \in Sockets, TimerFires(s)
      PROVE  SocketsLive'
  <2>1. /\ Connected' = Connected /\ UNCHANGED <<maps, orphaned>>
        /\ \A t \in Connected : m_connections'[t].session = m_connections[t].session
    BY <1>4, TimerEffect
  <2> QED
    BY <2>1, SameSockets
<1>5. CASE StartServer
  BY <1>5 DEF StartServer, SocketsLive, EventSocketsLive, SlideSocketsLive, SessionIds
<1>6. CASE UNCHANGED vars \/ RequestSlides
  <2>1. UNCHANGED <<m_connections, maps, orphaned>>
    BY <1>6 DEF vars, RequestSlides
  <2> QED
    BY <2>1, SameSockets DEF Connected
<1>7. CASE StopServer
  <2>1. /\ Connected' = Connected /\ UNCHANGED <<maps, orphaned>>
        /\ \A s \in Connected : m_connections'[s].session = m_connections[s].session
    BY <1>0, <1>7, HaltedClient DEF StopServer, Connected
  <2> QED
    BY <2>1, SameSockets
<1> QED
  <2>1. \A s \in Sockets : Headers(s) \subseteq SessionIds
    BY DEF Headers, SessionIds
  <2> QED
    BY <1>1, <1>2, <1>3, <1>4, <1>5, <1>6, <1>7, <2>1, RequestSockets, DidCloseSockets,
       DisconnectSockets
       DEF Next, Announce, AnnounceDisconnect

LEMMA SocketsHold == Spec => []SocketsLive
BY TypeCorrect, InitSockets, NextSockets, PTL DEF Spec

(* AnnounceToClients sends the events of a session on an open socket of    *)
(* that session, whatever was accepted, closed, disconnected or restarted. *)
THEOREM EventSocketsStayLive == Spec => []EventSocketsLive
BY SocketsHold, PTL DEF SocketsLive

(* RequestSlides sends on an open socket of the session, unless the slide  *)
(* socket was disconnected or the server restarted.                        *)
THEOREM SlideSocketsStayLive == Spec => []SlideSocketsLive
BY SocketsHold, PTL DEF SocketsLive

-----------------------------------------------------------------------------
(* Slide shows. *)

(* The timer of a show runs while a slide waits, unless it was stopped.    *)
ShowOK(c) == HasSlide(c.slides) => c.timer \/ c.stopped

Shows == \A s \in Connected : ShowOK(m_connections[s])

LEMMA ShownOK ==
  ASSUME NEW c \in Client
  PROVE  ShowOK(Shown(c))
<1>1. CASE c.slides = <<>>
  BY <1>1 DEF ShowOK, HasSlide, Shown
<1>2. CASE c.slides # <<>>
  BY <1>2, ShownType DEF ShowOK
<1> QED
  BY <1>1, <1>2

LEMMA QueuedOK ==
  ASSUME NEW c \in Client, ShowOK(c)
  PROVE  /\ ShowOK(Queued(c, "end"))
         /\ c.timer => ShowOK(Queued(c, "slide"))
<1>1. HasSlide(Append(c.slides, "end")) => HasSlide(c.slides)
  BY DEF HasSlide, Client
<1> QED
  BY <1>1, QueuedClient DEF ShowOK

LEMMA AnswerShows ==
  ASSUME TypeOK, Shows, NEW s \in Sockets, NEW id \in SessionIds, Answer(s, id)
  PROVE  Shows'
<1>1. /\ s \in Connected /\ Connected' = Connected
      /\ \A t \in Connected \ {s} :
           /\ m_connections'[t].slides = m_connections[t].slides
           /\ m_connections'[t].timer = m_connections[t].timer
           /\ m_connections'[t].stopped = m_connections[t].stopped
  BY AnswerEffect
<1>2. PICK n \in [Connected -> Client], c \in Client :
        /\ n = InSession(s, id)
        /\ m_connections' = [n EXCEPT ![s] = c]
        /\ \/ c \in {n[s], Queued(n[s], "end")}
           \/ c = IF n[s].timer THEN Queued(n[s], "slide") ELSE Shown(Queued(n[s], "slide"))
  BY AnswerForm
<1>3. ShowOK(n[s])
  <2>1. /\ n[s].slides = m_connections[s].slides
        /\ n[s].timer = m_connections[s].timer
        /\ n[s].stopped = m_connections[s].stopped
    BY <1>1, <1>2, InSessionType DEF TypeOK
  <2> QED
    BY <1>1, <2>1 DEF Shows, ShowOK
<1>4. Queued(n[s], "slide") \in Client
  BY <1>1, QueuedClient
<1>5. ShowOK(c)
  BY <1>1, <1>2, <1>3, <1>4, QueuedOK, ShownOK
<1>6. m_connections'[s] = c
  BY <1>1, <1>2
<1> QED
  BY <1>1, <1>5, <1>6 DEF Shows, ShowOK

LEMMA NextShows == TypeOK /\ Shows /\ [Next]_vars => Shows'
<1> SUFFICES ASSUME TypeOK, Shows, [Next]_vars PROVE Shows'
  OBVIOUS
<1>0. m_connections \in [Connected -> Client]
  BY DEF TypeOK
<1>1. ASSUME Connected' = Connected,
             \A t \in Connected :
               /\ m_connections'[t].slides = m_connections[t].slides
               /\ \/ /\ m_connections'[t].timer = m_connections[t].timer
                     /\ m_connections'[t].stopped = m_connections[t].stopped
                  \/ m_connections'[t].stopped =
                       (m_connections[t].stopped \/
                          (m_connections[t].timer /\ HasSlide(m_connections[t].slides)))
      PROVE  Shows'
  BY <1>1 DEF Shows, ShowOK
<1>2. ASSUME Connected' \subseteq Connected,
             \A t \in Connected' : m_connections'[t] = m_connections[t]
      PROVE  Shows'
  BY <1>2 DEF Shows
<1>3. ASSUME NEW state \in States \cup {"STOPPED"}, NEW receiver,
             m_connections' = Announced(m_connections, state, receiver)
      PROVE  Shows'
  <2>1. /\ m_connections' \in [Connected -> Client]
        /\ \A t \in Connected : /\ m_connections'[t].slides = m_connections[t].slides
                                /\ m_connections'[t].stopped = m_connections[t].stopped
                                /\ m_connections'[t].timer = m_connections[t].timer
    BY <1>0, <1>3, AnnouncedType, ServerAssumption
  <2> QED
    BY <1>1, <2>1 DEF Connected
<1>4. ASSUME NEW s \in Sockets, DidAccept(s)
      PROVE  Shows'
  <2>1. /\ Connected' = Connected \cup {s} /\ m_connections'[s] = NewClient
        /\ \A t \in Connected : t # s => m_connections'[t] = m_connections[t]
    BY <1>4 DEF DidAccept, Connected
  <2>2. ShowOK(NewClient)
    BY DEF NewClient, ShowOK, HasSlide
  <2> QED
    BY <2>1, <2>2 DEF Shows
<1>5. ASSUME NEW s \in Sockets, DidClose(s)
      PROVE  Shows'
  BY <1>2, <1>5 DEF DidClose, Connected
<1>6. ASSUME NEW s \in Sockets, NEW id \in SessionIds, Request(s, id)
      PROVE  Shows'
  BY <1>1, <1>6, RequestEffect
<1>7. ASSUME NEW s \in Sockets, TimerFires(s)
      PROVE  Shows'
  <2>1. PICK c \in Client :
          /\ s \in Connected /\ Connected' = Connected /\ m_connections'[s] = Shown(c)
          /\ \A t \in Connected \ {s} : m_connections'[t] = m_connections[t]
    BY <1>7, TimerEffect
  <2> QED
    BY <2>1, ShownOK DEF Shows
<1>8. CASE DisconnectClientInThread
  BY <1>2, <1>8 DEF DisconnectClientInThread, Connected
<1>9. CASE StartServer
  BY <1>2, <1>9 DEF StartServer, Connected
<1>10. CASE UNCHANGED vars \/ RequestSlides
  BY <1>2, <1>10 DEF vars, RequestSlides, Connected
<1>11. CASE StopServer
  <2>1. /\ Connected' = Connected
        /\ \A s \in Connected : m_connections'[s] = Halted(m_connections[s])
    BY <1>11 DEF StopServer, Connected
  <2>2. ASSUME NEW s \in Connected
        PROVE  ShowOK(Halted(m_connections[s]))
    BY <1>0, <2>2, HaltedClient DEF Shows, ShowOK
  <2> QED
    BY <2>1, <2>2 DEF Shows
<1> QED
  <2>1. \A s \in Sockets : Headers(s) \subseteq SessionIds
    BY DEF Headers, SessionIds
  <2> QED
    BY <1>3, <1>4, <1>5, <1>6, <1>7, <1>8, <1>9, <1>10, <1>11, <2>1, AnswerShows
       DEF Next, Announce, AnnounceDisconnect

(* A slide that waits is waited for by a timer, unless /stop or StopServer *)
(* stopped the timer while slides waited and none arrived since.           *)
THEOREM SlidesAreShown == Spec => []SlideTimerRuns
<1>1. Init => Shows
  BY DEF Init, Shows, Connected
<1>2. Shows => SlideTimerRuns
  BY DEF Shows, ShowOK, SlideTimerRuns
<1> QED
  BY <1>1, <1>2, TypeCorrect, NextShows, PTL DEF Spec
=============================================================================
