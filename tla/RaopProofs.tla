------------------------------ MODULE RaopProofs ------------------------------
(***************************************************************************)
(* Theorems about RaopRtp and RaopBuffer, for any number of slots, laps,   *)
(* packets and sessions.                                                   *)
(***************************************************************************)
EXTENDS RaopRtp, TLAPS

-----------------------------------------------------------------------------
(* Sequence numbers. *)

LEMMA NumberFacts ==
  /\ RAOP_BUFFER_LENGTH \in Nat /\ RAOP_BUFFER_LENGTH >= 1
  /\ SeqMod \in Nat /\ SeqMod >= 4 * RAOP_BUFFER_LENGTH
<1>1. PICK k \in Nat : Laps = 4 + k
  <2>1. Laps - 4 \in Nat /\ Laps = 4 + (Laps - 4)
    BY BufferAssumption
  <2> QED
    BY <2>1
<1>2. RAOP_BUFFER_LENGTH * (4 + k) = 4 * RAOP_BUFFER_LENGTH + RAOP_BUFFER_LENGTH * k
  BY <1>1, BufferAssumption
<1>3. RAOP_BUFFER_LENGTH * k \in Nat
  BY <1>1, BufferAssumption
<1> QED
  BY <1>1, <1>2, <1>3, BufferAssumption DEF SeqMod

LEMMA UShortType ==
  ASSUME NEW x \in Int, -SeqMod <= x, x < 2 * SeqMod
  PROVE  UShort(x) \in SeqNums
BY NumberFacts DEF UShort, SeqNums

LEMMA SlotType ==
  ASSUME NEW s \in SeqNums
  PROVE  Slot(s) \in Slots
BY NumberFacts DEF Slot, Slots, SeqNums

LEMMA WireType ==
  ASSUME NEW n \in Nat
  PROVE  Wire(n) \in SeqNums
BY NumberFacts, SessionAssumption DEF Wire, SeqNums

(* seqnum_cmp is the distance from t to s, at most half way round.         *)
LEMMA CmpFacts ==
  ASSUME NEW s \in SeqNums, NEW t \in SeqNums
  PROVE  /\ seqnum_cmp(s, t) \in Int
         /\ 2 * seqnum_cmp(s, t) < SeqMod /\ -SeqMod <= 2 * seqnum_cmp(s, t)
         /\ \/ seqnum_cmp(s, t) = s - t
            \/ seqnum_cmp(s, t) = s - t + SeqMod
            \/ seqnum_cmp(s, t) = s - t - SeqMod
BY NumberFacts DEF seqnum_cmp, UShort, SeqNums

LEMMA UShortFacts ==
  ASSUME NEW x \in Int, -SeqMod <= x, x < 2 * SeqMod
  PROVE  /\ UShort(x) \in 0 .. SeqMod - 1
         /\ UShort(x) = x \/ UShort(x) = x + SeqMod \/ UShort(x) = x - SeqMod
BY NumberFacts DEF UShort

(* The window of RAOP_BUFFER_LENGTH numbers from f: a number that is not   *)
(* too late and does not overrun lies in it.                               *)
LEMMA InsideWindow ==
  ASSUME NEW s \in SeqNums, NEW f \in SeqNums, seqnum_cmp(s, f) >= 0,
         ~(seqnum_cmp(s, UShort(f + RAOP_BUFFER_LENGTH)) >= 0)
  PROVE  seqnum_cmp(s, f) < RAOP_BUFFER_LENGTH
<1> DEFINE u == UShort(f + RAOP_BUFFER_LENGTH)
<1>1. /\ u \in SeqNums
      /\ u = f + RAOP_BUFFER_LENGTH \/ u = f + RAOP_BUFFER_LENGTH - SeqMod
  BY NumberFacts DEF UShort, SeqNums
<1> HIDE DEF u
<1>2. /\ seqnum_cmp(s, u) \in Int /\ -SeqMod <= 2 * seqnum_cmp(s, u)
      /\ \/ seqnum_cmp(s, u) = s - u
         \/ seqnum_cmp(s, u) = s - u + SeqMod
         \/ seqnum_cmp(s, u) = s - u - SeqMod
  BY <1>1, CmpFacts
<1>3. seqnum_cmp(s, u) < 0
  BY <1>2 DEF u
<1>4. /\ seqnum_cmp(s, f) \in Int /\ 2 * seqnum_cmp(s, f) < SeqMod
      /\ \/ seqnum_cmp(s, f) = s - f
         \/ seqnum_cmp(s, f) = s - f + SeqMod
         \/ seqnum_cmp(s, f) = s - f - SeqMod
  BY CmpFacts
<1>5. /\ s \in Int /\ f \in Int /\ u \in Int
      /\ SeqMod \in Nat /\ RAOP_BUFFER_LENGTH \in Nat /\ 4 * RAOP_BUFFER_LENGTH <= SeqMod
  BY <1>1, NumberFacts DEF SeqNums
<1> QED
  BY ONLY seqnum_cmp(s, f) >= 0, <1>1, <1>2, <1>3, <1>4, <1>5

LEMMA CmpSelf ==
  ASSUME NEW s \in SeqNums
  PROVE  /\ seqnum_cmp(s, s) = 0
         /\ UShort(s - 1) \in SeqNums
         /\ seqnum_cmp(UShort(s - 1), s) = -1
         /\ seqnum_cmp(s, UShort(s - 1)) = 1
BY NumberFacts DEF seqnum_cmp, UShort, SeqNums

(* The window moves on by one.                                             *)
LEMMA CmpNext ==
  ASSUME NEW s \in SeqNums, NEW f \in SeqNums,
         0 <= seqnum_cmp(s, f), seqnum_cmp(s, f) < RAOP_BUFFER_LENGTH
  PROVE  /\ UShort(f + 1) \in SeqNums
         /\ seqnum_cmp(s, UShort(f + 1)) = seqnum_cmp(s, f) - 1
         /\ seqnum_cmp(s, f) = 0 => s = f
BY NumberFacts DEF seqnum_cmp, UShort, SeqNums

(* Numbers of one window compare as their distances from its start.        *)
LEMMA CmpInWindow ==
  ASSUME NEW s \in SeqNums, NEW t \in SeqNums, NEW f \in SeqNums,
         -1 <= seqnum_cmp(s, f), seqnum_cmp(s, f) < RAOP_BUFFER_LENGTH,
         -1 <= seqnum_cmp(t, f), seqnum_cmp(t, f) < RAOP_BUFFER_LENGTH
  PROVE  seqnum_cmp(s, t) = seqnum_cmp(s, f) - seqnum_cmp(t, f)
<1>1. /\ \/ seqnum_cmp(s, f) = s - f
         \/ seqnum_cmp(s, f) = s - f + SeqMod
         \/ seqnum_cmp(s, f) = s - f - SeqMod
      /\ \/ seqnum_cmp(t, f) = t - f
         \/ seqnum_cmp(t, f) = t - f + SeqMod
         \/ seqnum_cmp(t, f) = t - f - SeqMod
      /\ \/ seqnum_cmp(s, t) = s - t
         \/ seqnum_cmp(s, t) = s - t + SeqMod
         \/ seqnum_cmp(s, t) = s - t - SeqMod
      /\ seqnum_cmp(s, f) \in Int /\ seqnum_cmp(t, f) \in Int /\ seqnum_cmp(s, t) \in Int
      /\ 2 * seqnum_cmp(s, t) < SeqMod /\ -SeqMod <= 2 * seqnum_cmp(s, t)
  BY CmpFacts
<1> QED
  BY <1>1, NumberFacts DEF SeqNums

-----------------------------------------------------------------------------
(* The buffer. *)

LEMMA BufferFields ==
  ASSUME NEW b \in Buffer
  PROVE  /\ b.is_empty \in BOOLEAN
         /\ b.first_seqnum \in SeqNums /\ b.last_seqnum \in SeqNums
         /\ b.entries \in [Slots -> Entry]
BY DEF Buffer

LEMMA InitBuffer ==
  ASSUME NEW numbers \in SUBSET SeqNums, NEW flags \in SUBSET BOOLEAN,
         NEW b \in raop_buffer_init(numbers, flags)
  PROVE  b \in Buffer /\ WindowOK(b)
<1> DEFINE E == {e \in [available : flags, seqnum : numbers, audio : {NoAudio, Stale}] :
                   e.audio = Stale <=> e.available}
<1>0. \A e \in E : e \in Entry /\ e.audio \notin Packets
  BY BufferAssumption DEF Entry
<1> HIDE DEF E
<1>1. /\ b.is_empty = TRUE /\ b.first_seqnum \in SeqNums /\ b.last_seqnum \in SeqNums
      /\ b.entries \in [Slots -> E]
  BY DEF raop_buffer_init, E
<1>2. b \in Buffer
  <2>1. b = [is_empty |-> b.is_empty, first_seqnum |-> b.first_seqnum,
             last_seqnum |-> b.last_seqnum, entries |-> b.entries]
    BY DEF raop_buffer_init
  <2>2. b.entries \in [Slots -> Entry]
    BY <1>0, <1>1
  <2> QED
    BY <1>1, <2>1, <2>2 DEF Buffer
<1> QED
  BY <1>0, <1>1, <1>2 DEF WindowOK

LEMMA ClearedType ==
  ASSUME NEW b \in Buffer
  PROVE  /\ ClearedEntries(b) \in [Slots -> Entry]
         /\ \A i \in Slots : /\ ClearedEntries(b)[i].audio \notin Packets
                           /\ ~ClearedEntries(b)[i].available
BY BufferAssumption DEF ClearedEntries, Buffer, Entry

LEMMA FlushOK ==
  ASSUME NEW b \in Buffer, NEW next \in SeqNums \cup {-1}
  PROVE  /\ raop_buffer_flush(b, next) \in Buffer
         /\ WindowOK(raop_buffer_flush(b, next))
         /\ next \in SeqNums =>
              /\ raop_buffer_flush(b, next).is_empty = b.is_empty
              /\ raop_buffer_flush(b, next).first_seqnum = next
              /\ raop_buffer_flush(b, next).last_seqnum = UShort(next - 1)
<1> DEFINE f == raop_buffer_flush(b, next)
           c == ClearedEntries(b)
<1>1. /\ c \in [Slots -> Entry] /\ \A i \in Slots : c[i].audio \notin Packets
  BY ClearedType
<1>2. CASE next \in SeqNums
  <2>1. f = [b EXCEPT !.entries = c, !.first_seqnum = next, !.last_seqnum = UShort(next - 1)]
    BY <1>2 DEF raop_buffer_flush
  <2> HIDE DEF c, f
  <2>2. /\ f \in Buffer /\ f.entries = c /\ f.is_empty = b.is_empty
        /\ f.first_seqnum = next /\ f.last_seqnum = UShort(next - 1)
    BY <1>1, <1>2, <2>1, CmpSelf DEF Buffer
  <2>3. buflen(f) = 0
    BY <1>2, <2>2, CmpSelf DEF buflen
  <2>4. WindowOK(f)
    BY <1>1, <2>2, <2>3, NumberFacts DEF WindowOK
  <2> QED
    BY <2>2, <2>4 DEF f
<1>3. CASE next \notin SeqNums
  <2>1. f = [b EXCEPT !.entries = c, !.is_empty = TRUE]
    BY <1>3 DEF raop_buffer_flush
  <2> HIDE DEF c, f
  <2>2. f \in Buffer /\ f.entries = c /\ f.is_empty
    BY <1>1, <2>1 DEF Buffer
  <2>3. WindowOK(f)
    BY <1>1, <2>2 DEF WindowOK
  <2> QED
    BY <1>3, <2>2, <2>3 DEF f
<1> QED
  BY <1>2, <1>3

(* Storing a number that is neither late nor past the window.              *)
LEMMA StoreOK ==
  ASSUME NEW b \in Buffer, WindowOK(b), NEW s \in SeqNums, NEW n \in Packets,
         ~b.is_empty => /\ seqnum_cmp(s, b.first_seqnum) >= 0
                        /\ seqnum_cmp(s, b.first_seqnum) < RAOP_BUFFER_LENGTH
  PROVE  Store(b, s, n) \in Buffer /\ WindowOK(Store(b, s, n))
<1> DEFINE f == IF b.is_empty THEN s ELSE b.first_seqnum
           l == IF b.is_empty THEN s ELSE b.last_seqnum
           d == Store(b, s, n)
           e == [available |-> TRUE, seqnum |-> s, audio |-> n]
<1>1. f \in SeqNums /\ l \in SeqNums /\ e \in Entry /\ Slot(s) \in Slots
  BY BufferFields, SlotType DEF Entry
<1>2. /\ d.is_empty = FALSE /\ d.first_seqnum = f
      /\ d.last_seqnum = IF seqnum_cmp(s, l) > 0 THEN s ELSE l
      /\ d.entries = [b.entries EXCEPT ![Slot(s)] = e]
      /\ d \in Buffer
  <2>1. d = [is_empty |-> FALSE, first_seqnum |-> f,
             last_seqnum |-> IF seqnum_cmp(s, l) > 0 THEN s ELSE l,
             entries |-> [b.entries EXCEPT ![Slot(s)] = e]]
    BY DEF Store
  <2> HIDE DEF f, l, e, d
  <2>2. [b.entries EXCEPT ![Slot(s)] = e] \in [Slots -> Entry]
    BY <1>1, BufferFields
  <2> QED
    BY <1>1, <2>1, <2>2 DEF Buffer
<1>3. /\ seqnum_cmp(s, f) \in 0 .. RAOP_BUFFER_LENGTH - 1
      /\ seqnum_cmp(l, f) \in -1 .. RAOP_BUFFER_LENGTH - 1
  BY BufferFields, CmpSelf, CmpFacts, NumberFacts DEF WindowOK, buflen
<1>4. \A i \in Slots :
        b.entries[i].audio \in Packets =>
          /\ b.entries[i].available /\ Slot(b.entries[i].seqnum) = i
          /\ b.entries[i].seqnum \in SeqNums
          /\ 0 <= seqnum_cmp(b.entries[i].seqnum, f)
          /\ seqnum_cmp(b.entries[i].seqnum, f) <= seqnum_cmp(l, f)
          /\ ~b.is_empty
  <2> SUFFICES ASSUME NEW i \in Slots, b.entries[i].audio \in Packets
               PROVE  /\ b.entries[i].available /\ Slot(b.entries[i].seqnum) = i
                      /\ b.entries[i].seqnum \in SeqNums
                      /\ 0 <= seqnum_cmp(b.entries[i].seqnum, f)
                      /\ seqnum_cmp(b.entries[i].seqnum, f) <= seqnum_cmp(l, f)
                      /\ ~b.is_empty
    OBVIOUS
  <2>1. b.entries[i] \in Entry /\ b.entries[i].seqnum \in SeqNums
    BY BufferFields DEF Entry
  <2>2. /\ b.entries[i].available /\ ~b.is_empty /\ Slot(b.entries[i].seqnum) = i
        /\ 0 <= seqnum_cmp(b.entries[i].seqnum, b.first_seqnum)
        /\ seqnum_cmp(b.entries[i].seqnum, b.first_seqnum) < buflen(b)
    BY DEF WindowOK, InWindow
  <2>3. /\ seqnum_cmp(b.entries[i].seqnum, b.first_seqnum) \in Int
        /\ seqnum_cmp(b.last_seqnum, b.first_seqnum) \in Int
    BY <2>1, BufferFields, CmpFacts
  <2> QED
    BY <2>1, <2>2, <2>3 DEF buflen
<1> HIDE DEF f, l, d, e
<1>5. /\ seqnum_cmp(d.last_seqnum, f) \in 0 .. RAOP_BUFFER_LENGTH - 1
      /\ seqnum_cmp(d.last_seqnum, f) >= seqnum_cmp(s, f)
      /\ seqnum_cmp(d.last_seqnum, f) >= seqnum_cmp(l, f)
  <2>1. seqnum_cmp(s, l) = seqnum_cmp(s, f) - seqnum_cmp(l, f)
    BY <1>1, <1>3, CmpInWindow, NumberFacts
  <2> QED
    BY <1>2, <1>3, <2>1, NumberFacts
<1>6. buflen(d) = seqnum_cmp(d.last_seqnum, f) + 1
  BY <1>2 DEF buflen
<1>7. ASSUME NEW i \in Slots, d.entries[i].audio \in Packets
      PROVE  /\ d.entries[i].available
             /\ Slot(d.entries[i].seqnum) = i
             /\ InWindow(d, d.entries[i].seqnum)
  <2>1. CASE i = Slot(s)
    <3>1. d.entries[i] = e
      BY <1>1, <1>2, <2>1, BufferFields
    <3> QED
      BY <1>2, <1>3, <1>5, <1>6, <2>1, <3>1, NumberFacts DEF e, InWindow
  <2>2. CASE i # Slot(s)
    <3>1. d.entries[i] = b.entries[i]
      BY <1>1, <1>2, <2>2, BufferFields
    <3>2. b.entries[i].seqnum \in SeqNums
      BY BufferFields DEF Entry
    <3>3. seqnum_cmp(b.entries[i].seqnum, f) \in Int /\ seqnum_cmp(l, f) \in Int
      BY <1>1, <3>2, CmpFacts
    <3> QED
      BY <1>2, <1>4, <1>5, <1>6, <1>7, <3>1, <3>2, <3>3, NumberFacts DEF InWindow
  <2> QED
    BY <2>1, <2>2
<1>8. buflen(d) \in 0 .. RAOP_BUFFER_LENGTH
  BY <1>5, <1>6, NumberFacts
<1>9. WindowOK(d)
  BY <1>2, <1>7, <1>8 DEF WindowOK
<1> QED
  BY <1>2, <1>9 DEF d

LEMMA QueueIs ==
  ASSUME NEW b, NEW s, NEW n \in Packets
  PROVE  raop_buffer_queue(b, n, s) =
           IF TooLate(b, s) THEN b
           ELSE IF Duplicate(MakeRoom(b, s), s) THEN MakeRoom(b, s)
           ELSE Store(MakeRoom(b, s), s, n)
<1>1. ~LengthInvalid(n)
  BY BufferAssumption DEF LengthInvalid
<1> QED
  BY <1>1 DEF raop_buffer_queue

LEMMA QueueBad == \A b, s : raop_buffer_queue(b, BadPacket, s) = b
BY DEF raop_buffer_queue, LengthInvalid

(* Whatever number a packet has, the window keeps to the slots.            *)
LEMMA QueueOK ==
  ASSUME NEW b \in Buffer, WindowOK(b), NEW s \in SeqNums, NEW n \in Packets
  PROVE  /\ raop_buffer_queue(b, n, s) \in Buffer
         /\ WindowOK(raop_buffer_queue(b, n, s))
<1> DEFINE room == MakeRoom(b, s)
<1>1. CASE TooLate(b, s)
  BY <1>1, QueueIs
<1>2. CASE ~TooLate(b, s)
  <2>1. room \in Buffer /\ WindowOK(room)
    BY FlushOK DEF MakeRoom
  <2>2. ~room.is_empty => /\ seqnum_cmp(s, room.first_seqnum) >= 0
                          /\ seqnum_cmp(s, room.first_seqnum) < RAOP_BUFFER_LENGTH
    <3>1. CASE Overruns(b, s)
      <4>1. room.first_seqnum = s
        BY <3>1, FlushOK DEF MakeRoom
      <4> QED
        BY <4>1, CmpSelf, NumberFacts
    <3>2. CASE ~Overruns(b, s)
      <4>1. room = b /\ (~b.is_empty => ~(seqnum_cmp(s, b.first_seqnum) < 0))
        BY <1>2, <3>2 DEF MakeRoom, TooLate
      <4>2. ~b.is_empty => seqnum_cmp(s, b.first_seqnum) >= 0
        BY <4>1, BufferFields, CmpFacts
      <4>3. b.first_seqnum \in SeqNums
        BY BufferFields
      <4> HIDE DEF room
      <4> QED
        BY <3>2, <4>1, <4>2, <4>3, InsideWindow DEF Overruns
    <3> QED
      BY <3>1, <3>2
  <2>3. raop_buffer_queue(b, n, s) = IF Duplicate(room, s) THEN room ELSE Store(room, s, n)
    BY <1>2, QueueIs
  <2> HIDE DEF room
  <2> QED
    BY <2>1, <2>2, <2>3, StoreOK
<1> QED
  BY <1>1, <1>2

LEMMA DequeueOK ==
  ASSUME NEW b \in Buffer, WindowOK(b), NEW no, CanDequeue(b, no)
  PROVE  raop_buffer_dequeue(b) \in Buffer /\ WindowOK(raop_buffer_dequeue(b))
<1> DEFINE f == b.first_seqnum
           old == b.entries[Slot(f)]
           e == IF old.available THEN [old EXCEPT !.available = FALSE, !.audio = NoAudio]
                ELSE old
           d == raop_buffer_dequeue(b)
<1>1. /\ f \in SeqNums /\ b.last_seqnum \in SeqNums /\ Slot(f) \in Slots
      /\ b.entries \in [Slots -> Entry] /\ old \in Entry /\ ~b.is_empty
      /\ buflen(b) \in 1 .. RAOP_BUFFER_LENGTH
  <2>1. buflen(b) \in 0 .. RAOP_BUFFER_LENGTH /\ buflen(b) > 0 /\ ~b.is_empty
    BY DEF CanDequeue, WindowOK
  <2> QED
    BY <2>1, BufferFields, SlotType, NumberFacts
<1>2. e \in Entry /\ e.audio \notin Packets
  BY <1>1, BufferAssumption DEF WindowOK, Entry
<1>3. UShort(f + 1) \in SeqNums
  BY <1>1, NumberFacts, UShortType DEF SeqNums
<1>4. d = [b EXCEPT !.first_seqnum = UShort(f + 1), !.entries[Slot(f)] = e]
  BY <1>1 DEF raop_buffer_dequeue, Buffer
<1> HIDE DEF e, d
<1>5. /\ d \in Buffer /\ d.is_empty = b.is_empty /\ d.last_seqnum = b.last_seqnum
      /\ d.first_seqnum = UShort(f + 1)
      /\ d.entries = [b.entries EXCEPT ![Slot(f)] = e]
  BY <1>1, <1>2, <1>3, <1>4 DEF Buffer
<1>6. seqnum_cmp(b.last_seqnum, f) = buflen(b) - 1
  BY <1>1, CmpFacts DEF buflen
<1>7. buflen(d) = buflen(b) - 1
  BY <1>1, <1>5, <1>6, CmpNext, NumberFacts DEF buflen
<1>8. ASSUME NEW i \in Slots, d.entries[i].audio \in Packets
      PROVE  /\ d.entries[i].available
             /\ Slot(d.entries[i].seqnum) = i
             /\ InWindow(d, d.entries[i].seqnum)
  <2>1. i # Slot(f) /\ d.entries[i] = b.entries[i]
    BY <1>1, <1>2, <1>5, <1>8
  <2> DEFINE s == b.entries[i].seqnum
  <2>2. s \in SeqNums
    BY <1>1 DEF Entry
  <2>3. b.entries[i].available /\ Slot(s) = i /\ InWindow(b, s)
    BY <1>8, <2>1 DEF WindowOK
  <2>4. /\ seqnum_cmp(s, f) \in 0 .. RAOP_BUFFER_LENGTH - 1
        /\ seqnum_cmp(s, f) < buflen(b) /\ s # f
    BY <1>1, <2>1, <2>2, <2>3, CmpFacts, NumberFacts DEF InWindow
  <2>5. seqnum_cmp(s, UShort(f + 1)) = seqnum_cmp(s, f) - 1 /\ seqnum_cmp(s, f) # 0
    BY <1>1, <2>2, <2>4, CmpNext, NumberFacts
  <2> QED
    BY <1>1, <1>5, <1>7, <2>1, <2>3, <2>4, <2>5, NumberFacts DEF InWindow
<1>9. buflen(d) \in 0 .. RAOP_BUFFER_LENGTH
  BY <1>1, <1>7, NumberFacts
<1>10. WindowOK(d)
  BY <1>1, <1>5, <1>8, <1>9 DEF WindowOK
<1> QED
  BY <1>5, <1>10 DEF d

-----------------------------------------------------------------------------
(* Types, and the window of the buffer. *)

LEMMA InitType == Init => TypeOK /\ BufferWindow
<1> SUFFICES ASSUME Init PROVE TypeOK /\ BufferWindow
  OBVIOUS
<1>1. buffer \in Buffer /\ WindowOK(buffer)
  BY InitBuffer, SessionAssumption DEF Init
<1>2. /\ sent \in 0 .. MaxPackets /\ base \in 0 .. sent /\ read \in base .. sent
      /\ asked \subseteq SeqNums
      /\ flushes \in 0 .. MaxFlushes /\ sessions \in 0 .. MaxSessions
  BY SessionAssumption DEF Init
<1>3. /\ raop_rtp \in BOOLEAN /\ running \in BOOLEAN /\ joined \in BOOLEAN
      /\ sockets \in BOOLEAN /\ broken \in BOOLEAN /\ astray \in BOOLEAN /\ timing \in BOOLEAN
      /\ rtsp \in {"idle", "ANNOUNCE", "TEARDOWN"} /\ pc \in ThreadPcs
      /\ flush \in SeqNums \cup {-1, NO_FLUSH} /\ mail \subseteq Parameters /\ mode \in Modes
  BY DEF Init, ThreadPcs
<1> QED
  BY <1>1, <1>2, <1>3 DEF TypeOK, BufferWindow

LEMMA InitialisedType ==
  ASSUME Initialised
  PROVE  /\ buffer' \in Buffer /\ WindowOK(buffer')
         /\ running' = FALSE /\ joined' = TRUE /\ flush' = NO_FLUSH /\ mail' = {}
         /\ sockets' = FALSE /\ pc' = "none" /\ timing' = FALSE
         /\ broken' = FALSE /\ astray' = FALSE
         /\ UNCHANGED <<mode, sent, base, read, asked>>
BY InitBuffer, SessionAssumption DEF Initialised

LEMMA RtspType == TypeOK /\ BufferWindow /\ (Rtsp \/ JoinThread) => TypeOK' /\ BufferWindow'
<1> SUFFICES ASSUME TypeOK, BufferWindow, Rtsp \/ JoinThread PROVE TypeOK' /\ BufferWindow'
  OBVIOUS
<1> USE DEF TypeOK, BufferWindow, shared, network, bounds, history
<1>1. CASE Announce
  <2>0. sessions' \in 0 .. MaxSessions /\ UNCHANGED flushes
    BY <1>1, SessionAssumption DEF Announce
  <2>1. CASE BeginStop("ANNOUNCE")
    BY <2>0, <2>1 DEF BeginStop
  <2>2. CASE Initialised /\ raop_rtp' \in BOOLEAN /\ UNCHANGED rtsp
    <3>1. pc' \in ThreadPcs /\ flush' \in SeqNums \cup {-1, NO_FLUSH} /\ mail' \subseteq Parameters
      BY <2>2, InitialisedType DEF ThreadPcs
    <3> HIDE DEF TypeOK
    <3> QED
      BY <2>0, <2>2, <3>1, InitialisedType DEF TypeOK
  <2> QED
    BY <1>1, <2>1, <2>2 DEF Announce
<1>2. CASE Setup
  <2>1. base' \in 0 .. sent' /\ read' \in base' .. sent' /\ asked' \subseteq SeqNums
    BY <1>2 DEF Setup
  <2>2. pc' \in ThreadPcs
    BY <1>2 DEF Setup, ThreadPcs
  <2> QED
    BY <1>2, <2>1, <2>2 DEF Setup
<1>3. CASE Flush
  <2>1. flush' \in SeqNums \cup {-1, NO_FLUSH}
    BY <1>3, WireType, SessionAssumption DEF Flush
  <2>2. astray' \in BOOLEAN
    BY <1>3 DEF Flush
  <2> QED
    BY <1>3, <2>1, <2>2, SessionAssumption DEF Flush
<1>4. ASSUME NEW kind \in Parameters, SetParameter(kind)
      PROVE  TypeOK' /\ BufferWindow'
  BY <1>4 DEF SetParameter
<1>5. CASE Teardown
  <2>1. CASE BeginStop("TEARDOWN")
    BY <1>5, <2>1 DEF Teardown, BeginStop
  <2>2. CASE ~BeginStop("TEARDOWN")
    BY <1>5, <2>2 DEF Teardown, ThreadPcs
  <2> QED
    BY <2>1, <2>2
<1>6. CASE JoinThread
  <2>1. CASE Initialised /\ raop_rtp' \in BOOLEAN
    BY <1>6, <2>1, InitialisedType DEF JoinThread, ThreadPcs
  <2>2. CASE rtsp = "TEARDOWN"
    BY <1>6, <2>2, FlushOK DEF JoinThread, ThreadPcs
  <2> QED
    BY <1>6, <2>1, <2>2 DEF JoinThread
<1> QED
  BY <1>1, <1>2, <1>3, <1>4, <1>5, <1>6 DEF Rtsp

LEMMA ThreadType == TypeOK /\ BufferWindow /\ Thread => TypeOK' /\ BufferWindow'
<1> SUFFICES ASSUME TypeOK, BufferWindow, Thread PROVE TypeOK' /\ BufferWindow'
  OBVIOUS
<1> USE DEF TypeOK, BufferWindow, bounds, ThreadFrame, ThreadPcs
<1>0. CASE ReceiveBad
  <2>1. buffer' \in Buffer /\ WindowOK(buffer')
    BY <1>0, QueueBad, DequeueOK DEF ReceiveBad
  <2> QED
    BY <1>0, <2>1 DEF ReceiveBad
<1>1. CASE AudioInit \/ StopSeen \/ SelectTimeout \/ AudioDestroy
  BY <1>1 DEF AudioInit, StopSeen, SelectTimeout, AudioDestroy, Goto
<1>2. CASE ProcessEvents
  <2>1. flush # NO_FLUSH => flush \in SeqNums \cup {-1}
    OBVIOUS
  <2>2. buffer' \in Buffer /\ WindowOK(buffer')
    BY <1>2, <2>1, FlushOK DEF ProcessEvents
  <2> QED
    BY <1>2, <2>2 DEF ProcessEvents
<1>3. CASE SelectError
  <2>1. broken' \in BOOLEAN
    BY <1>3 DEF SelectError
  <2> QED
    BY <1>3, <2>1 DEF SelectError
<1>4. ASSUME NEW n \in Packets, ReceiveData(n) \/ ReceiveControl(n)
      PROVE  TypeOK' /\ BufferWindow'
  <2>1. Wire(n) \in SeqNums
    BY WireType, SessionAssumption
  <2>2. buffer' \in Buffer /\ WindowOK(buffer')
    BY <1>4, <2>1, QueueOK DEF ReceiveData, ReceiveControl
  <2> QED
    BY <1>4, <2>2 DEF ReceiveData, ReceiveControl
<1>5. CASE Play
  <2>1. buffer' \in Buffer /\ WindowOK(buffer')
    BY <1>5, DequeueOK DEF Play
  <2> QED
    BY <1>5, <2>1 DEF Play
<1>6. CASE AskAgain
  <2>1. asked' \subseteq SeqNums /\ broken' \in BOOLEAN
    BY <1>6 DEF AskAgain, Resends
  <2> QED
    BY <1>6, <2>1 DEF AskAgain
<1>7. CASE ReadStream
  <2> DEFINE queued == raop_buffer_queue(buffer, read, buffer.first_seqnum)
  <2>1. read \in Packets
    BY <1>7, SessionAssumption DEF ReadStream
  <2>2. queued \in Buffer /\ WindowOK(queued)
    BY <2>1, QueueOK, BufferFields
  <2>3. buffer' = IF CanDequeue(queued, TRUE) THEN raop_buffer_dequeue(queued) ELSE queued
    BY <1>7 DEF ReadStream
  <2> HIDE DEF queued
  <2>4. buffer' \in Buffer /\ WindowOK(buffer')
    BY <2>2, <2>3, DequeueOK
  <2>5. read' \in base .. sent
    BY <1>7 DEF ReadStream
  <2> QED
    BY <1>7, <2>4, <2>5 DEF ReadStream
<1>8. CASE ClearRunning
  BY <1>8 DEF ClearRunning
<1> QED
  BY <1>0, <1>1, <1>2, <1>3, <1>4, <1>5, <1>6, <1>7, <1>8 DEF Thread

LEMMA StepType == TypeOK /\ BufferWindow /\ [Next]_vars => TypeOK' /\ BufferWindow'
<1>1. TypeOK /\ BufferWindow /\ SendPacket => TypeOK' /\ BufferWindow'
  BY SessionAssumption DEF TypeOK, BufferWindow, SendPacket, shared, bounds, history
<1>2. TypeOK /\ BufferWindow /\ UNCHANGED vars => TypeOK' /\ BufferWindow'
  BY DEF TypeOK, BufferWindow, vars, shared, network, bounds, history
<1>3. TypeOK /\ BufferWindow /\ SendTiming => TypeOK' /\ BufferWindow'
  BY DEF TypeOK, BufferWindow, SendTiming, shared, bounds, history
<1> QED
  BY <1>1, <1>2, <1>3, RtspType, ThreadType DEF Next

(* The state of a session always has the declared types.                   *)
THEOREM TypeCorrect == Spec => []TypeOK
BY InitType, StepType, PTL DEF Spec

(* For any number of slots and laps: what a flush, a new session, a        *)
(* packet of any number or a dequeue leaves in the buffer is in its window *)
(* and the window fits the slots.                                          *)
THEOREM WindowKept == Spec => []BufferWindow
BY InitType, StepType, PTL DEF Spec

-----------------------------------------------------------------------------
(* The life of a session. *)

LifeInv ==
  /\ rtsp # "idle" => raop_rtp
  /\ ~raop_rtp => pc = "none"
  /\ raop_rtp => (joined <=> pc = "none")
  /\ rtsp = "idle" /\ pc \notin {"none", "exited"} => running
  /\ mode = "tcp" => pc # "clear" /\ (rtsp = "idle" /\ pc = "exited" => running)
  /\ raop_rtp /\ pc = "none" => ~sockets
  /\ mode # "tcp" /\ rtsp = "idle" /\ pc \in {"destroy", "clear"} => broken
  /\ mode # "tcp" /\ rtsp = "idle" /\ pc = "exited" => broken
  /\ pc \in {"dequeue", "failed"} => mode # "tcp"
  /\ SocketsClosed

LEMMA InitLife == Init => LifeInv
BY DEF Init, LifeInv, SocketsClosed

LEMMA NextLife == TypeOK /\ LifeInv /\ [Next]_vars => LifeInv'
<1> SUFFICES ASSUME TypeOK, LifeInv, [Next]_vars PROVE LifeInv'
  OBVIOUS
<1> USE DEF LifeInv, SocketsClosed, shared, network, bounds, history
<1>1. CASE Announce
  <2>1. CASE BeginStop("ANNOUNCE")
    BY <2>1 DEF BeginStop, MustJoin
  <2>2. CASE Initialised /\ raop_rtp' \in BOOLEAN /\ UNCHANGED rtsp /\ rtsp = "idle"
    BY <2>2, InitialisedType
  <2> QED
    BY <1>1, <2>1, <2>2 DEF Announce
<1>2. CASE Setup
  BY <1>2 DEF Setup
<1>3. CASE Flush
  BY <1>3 DEF Flush
<1>4. CASE \E kind \in Parameters : SetParameter(kind)
  BY <1>4 DEF SetParameter
<1>5. CASE Teardown
  <2>1. CASE BeginStop("TEARDOWN")
    BY <2>1 DEF BeginStop, MustJoin
  <2>2. CASE /\ rtsp = "idle" /\ raop_rtp /\ ~MustJoin
             /\ raop_rtp' = FALSE /\ pc' = "none"
             /\ UNCHANGED <<rtsp, shared, mode, sockets, buffer, network, history>>
    <3>1. pc \in {"none", "exited"} \/ running
      BY <2>2
    <3>2. pc = "none" => ~sockets
      BY <2>2
    <3>3. pc = "exited" => ~running \/ joined
      BY <2>2 DEF MustJoin
    <3>4. pc # "none" => ~joined
      BY <2>2
    <3>5. ~sockets \/ broken
      BY <2>2, <3>1, <3>2, <3>3, <3>4 DEF MustJoin
    <3> QED
      BY <2>2, <3>5
  <2> QED
    BY <1>5, <2>1, <2>2 DEF Teardown
<1>6. CASE JoinThread
  BY <1>6, InitialisedType DEF JoinThread
<1>7. CASE Thread
  <2> USE DEF ThreadFrame
  <2>1. CASE AudioInit \/ StopSeen \/ SelectTimeout \/ AudioDestroy
    BY <2>1 DEF AudioInit, StopSeen, SelectTimeout, AudioDestroy, Goto
  <2>2. CASE SelectError
    BY <2>2 DEF SelectError
  <2>3. CASE ClearRunning
    BY <2>3 DEF ClearRunning
  <2>4. CASE ProcessEvents
    BY <2>4 DEF ProcessEvents
  <2>5. CASE Play \/ ReadStream \/ ReceiveBad
    <3>1. /\ UNCHANGED <<raop_rtp, rtsp, running, joined, mode, sockets, broken>>
          /\ \/ pc = "dequeue" /\ pc' \in {"dequeue", "failed"}
             \/ pc = "select" /\ pc' \in {"events", "aborted"}
      BY <2>5 DEF Play, ReadStream, ReceiveBad
    <3> QED
      BY <3>1
  <2>7. CASE AskAgain
    <3>1. /\ UNCHANGED <<raop_rtp, rtsp, running, joined, mode, sockets>>
          /\ \/ pc = "dequeue" /\ pc' = "events" /\ broken' = broken
             \/ pc = "failed" /\ pc' = "destroy" /\ broken' = TRUE
      BY <2>7 DEF AskAgain, TypeOK
    <3> QED
      BY <3>1
  <2>6. CASE \E n \in Packets : ReceiveData(n) \/ ReceiveControl(n)
    BY <2>6 DEF ReceiveData, ReceiveControl
  <2> QED
    BY <1>7, <2>1, <2>2, <2>3, <2>4, <2>5, <2>6, <2>7 DEF Thread
<1>8. CASE SendPacket \/ SendTiming
  BY <1>8 DEF SendPacket, SendTiming
<1>9. CASE UNCHANGED vars
  BY <1>9 DEF vars
<1> QED
  BY <1>1, <1>2, <1>3, <1>4, <1>5, <1>6, <1>7, <1>8, <1>9 DEF Next, Rtsp

THEOREM LifeHolds == Spec => []LifeInv
BY TypeCorrect, InitLife, NextLife, PTL DEF Spec

(* A session that is gone has closed its sockets, unless its UDP thread    *)
(* left by itself.                                                         *)
THEOREM NoSocketLeaked == Spec => []SocketsClosed
BY LifeHolds, PTL DEF LifeInv

LEMMA FreeStep ==
  ASSUME TypeOK, LifeInv, [Next]_vars, pc' = "none"
  PROVE  pc \in {"none", "exited"}
<1>1. CASE Announce \/ Teardown
  BY <1>1 DEF Announce, Teardown, BeginStop, MustJoin, LifeInv, TypeOK
<1>2. CASE JoinThread
  BY <1>2 DEF JoinThread
<1>3. CASE \/ Setup \/ Flush \/ (\E kind \in Parameters : SetParameter(kind))
           \/ SendPacket \/ SendTiming
  BY <1>3 DEF Setup, Flush, SetParameter, SendPacket, SendTiming
<1>4. CASE UNCHANGED vars
  BY <1>4 DEF vars
<1>5. ~Thread \/ pc = "none"
  BY DEF Thread, AudioInit, StopSeen, SelectTimeout, AudioDestroy, Goto, SelectError,
         ClearRunning, ProcessEvents, Play, AskAgain, ReadStream, ReceiveBad, ReceiveData,
         ReceiveControl
<1> QED
  BY <1>1, <1>2, <1>3, <1>4, <1>5 DEF Next, Rtsp

(* TEARDOWN, ANNOUNCE and the end of the connection free a session only    *)
(* when its thread is gone.                                                *)
THEOREM FreedUnused == Spec => NoUseAfterFree
<1>1. TypeOK /\ LifeInv /\ [Next]_vars
      => [pc' = "none" => pc \in {"none", "exited"}]_vars
  BY FreeStep
<1> QED
  BY <1>1, TypeCorrect, LifeHolds, PTL DEF Spec, NoUseAfterFree

-----------------------------------------------------------------------------
(* The sound of UDP is at its place: the audio of a slot is the packet     *)
(* whose number the slot has, and the one number of the window that has    *)
(* the slot of the number that is due is that number.                      *)

LEMMA RemainderIs ==
  ASSUME NEW x \in Nat, NEW m \in Nat, m >= 1, NEW q \in Int, NEW r \in Int,
         x = m * q + r, 0 <= r, r < m
  PROVE  x % m = r
OBVIOUS

LEMMA RemainderOnce ==
  ASSUME NEW x \in Nat, NEW m \in Nat, m >= 1, x < 2 * m
  PROVE  x % m = x \/ x % m = x - m
<1>1. CASE x < m
  BY <1>1
<1>2. CASE x >= m
  <2>1. x = m * 1 + (x - m) /\ 0 <= x - m /\ x - m < m
    BY <1>2
  <2> QED
    BY <2>1, RemainderIs
<1> QED
  BY <1>1, <1>2

LEMMA WireFacts ==
  ASSUME NEW n \in Packets
  PROVE  Wire(n) = WireStart + n \/ Wire(n) = (WireStart + n) - SeqMod
<1>1. /\ WireStart + n \in Nat /\ WireStart + n < 2 * SeqMod
      /\ SeqMod \in Nat /\ SeqMod >= 1
  BY SessionAssumption, NumberFacts DEF SeqNums
<1>2. \/ (WireStart + n) % SeqMod = WireStart + n
      \/ (WireStart + n) % SeqMod = (WireStart + n) - SeqMod
  BY <1>1, RemainderOnce
<1>3. Wire(n) = (WireStart + n) % SeqMod
  BY DEF Wire
<1> QED
  BY <1>2, <1>3, Zenon

(* The place of a packet in the stream follows from its number. *)
LEMMA PlaceFacts ==
  ASSUME NEW n \in Packets
  PROVE  UShort(Wire(n) - WireStart) = n
BY WireFacts, SessionAssumption, NumberFacts DEF UShort, SeqNums

LEMMA Remainder ==
  ASSUME NEW x \in Int, NEW l \in Int, l >= 1
  PROVE  x % l = x - l * (x \div l) /\ x \div l \in Int
OBVIOUS

LEMMA SmallMultiple ==
  ASSUME NEW l \in Nat, l >= 1, NEW k \in Int, 0 <= l * k, l * k < l
  PROVE  l * k = 0
<1>1. CASE k >= 1
  <2>1. l * k = l + l * (k - 1) /\ l * (k - 1) >= 0
    BY <1>1
  <2> QED
    BY <2>1
<1>2. CASE k = 0
  BY <1>2
<1>3. CASE k <= -1
  <2>1. l * k = -l + l * (k + 1) /\ l * (-(k + 1)) >= 0 /\ l * (k + 1) = -(l * (-(k + 1)))
    BY <1>3
  <2> QED
    BY <2>1
<1> QED
  BY <1>1, <1>2, <1>3

LEMMA SlotOnce ==
  ASSUME NEW s \in SeqNums, NEW f \in SeqNums, Slot(s) = Slot(f),
         0 <= seqnum_cmp(s, f), seqnum_cmp(s, f) < RAOP_BUFFER_LENGTH
  PROVE  s = f
<1> DEFINE l == RAOP_BUFFER_LENGTH
           d == seqnum_cmp(s, f)
           q == s \div l
           r == f \div l
<1>1. /\ l \in Nat /\ l >= 1 /\ Laps \in Nat /\ s \in Int /\ f \in Int
      /\ SeqMod = l * Laps
  BY NumberFacts, BufferAssumption DEF SeqMod, SeqNums
<1>2. s - l * q = f - l * r /\ q \in Int /\ r \in Int
  <2>1. s % l = s - l * q /\ f % l = f - l * r /\ q \in Int /\ r \in Int
    BY <1>1, Remainder
  <2>2. s % l = f % l
    BY DEF Slot
  <2> QED
    BY <2>1, <2>2
<1>3. \E k \in Int : d = l * k
  <2>1. s - f = l * (q - r)
    <3> HIDE DEF q, r, l
    <3>1. s - f = l * q - l * r
      BY <1>1, <1>2
    <3>2. l * (q - r) = l * q - l * r
      BY <1>1, <1>2
    <3> QED
      BY <3>1, <3>2
  <2>2. d = s - f \/ d = s - f + SeqMod \/ d = s - f - SeqMod
    BY CmpFacts
  <2>3. /\ l * (q - r) + l * Laps = l * (q - r + Laps)
        /\ l * (q - r) - l * Laps = l * (q - r - Laps)
    <3> HIDE DEF q, r, l
    <3> QED
      BY <1>1, <1>2
  <2>4. q - r \in Int /\ q - r + Laps \in Int /\ q - r - Laps \in Int
    <3> HIDE DEF q, r
    <3> QED
      BY <1>1, <1>2
  <2> HIDE DEF q, r, l, d
  <2> QED
    BY <1>1, <2>1, <2>2, <2>3, <2>4
<1>4. d = 0
  BY <1>1, <1>3, SmallMultiple
<1> QED
  BY <1>4, CmpNext, NumberFacts

(* No slot that is available and was used since has no sound.              *)
Sounding(b) ==
  \A i \in Slots : b.entries[i].available => b.entries[i].audio # NoAudio

Silent(b) == \A i \in Slots : b.entries[i].audio \notin Packets

Aligned(b) ==
  \A i \in Slots :
    b.entries[i].audio \in Packets => b.entries[i].seqnum = Wire(b.entries[i].audio)

(* A session starts with an empty buffer, which only its thread fills.     *)
PlaceInv ==
  /\ raop_rtp /\ pc = "none" => Silent(buffer)
  /\ mode # "tcp" => Aligned(buffer)
  /\ Sounding(buffer)

LEMMA SilentAligned == \A b : Silent(b) => Aligned(b)
BY DEF Silent, Aligned

LEMMA InitSilent ==
  ASSUME NEW b \in raop_buffer_init(Numbers, Flags)
  PROVE  Silent(b) /\ Sounding(b)
BY BufferAssumption DEF raop_buffer_init, Silent, Sounding

LEMMA FlushSilent ==
  ASSUME NEW b \in Buffer, NEW next
  PROVE  Silent(raop_buffer_flush(b, next)) /\ Sounding(raop_buffer_flush(b, next))
<1> DEFINE c == ClearedEntries(b)
<1>1. \A i \in Slots : c[i].audio \notin Packets /\ ~c[i].available
  BY ClearedType
<1> HIDE DEF c
<1>2. raop_buffer_flush(b, next).entries = c
  BY DEF raop_buffer_flush, Buffer, c
<1> QED
  BY <1>1, <1>2 DEF Silent, Sounding

LEMMA QueueSounding ==
  ASSUME NEW b \in Buffer, Sounding(b), NEW s \in SeqNums, NEW n \in Packets
  PROVE  Sounding(raop_buffer_queue(b, n, s))
<1> DEFINE room == MakeRoom(b, s)
           d == Store(room, s, n)
<1>1. room \in Buffer /\ Sounding(room)
  BY FlushOK, FlushSilent DEF MakeRoom
<1>2. raop_buffer_queue(b, n, s) \in {b, room, d}
  BY QueueIs
<1> HIDE DEF room
<1>3. d.entries = [room.entries EXCEPT ![Slot(s)] =
                     [available |-> TRUE, seqnum |-> s, audio |-> n]]
  BY DEF Store
<1> HIDE DEF d
<1>4. n # NoAudio
  BY BufferAssumption
<1>5. ASSUME NEW i \in Slots, d.entries[i].available PROVE d.entries[i].audio # NoAudio
  <2>1. CASE i = Slot(s)
    BY <1>1, <1>3, <1>4, <2>1, BufferFields
  <2>2. CASE i # Slot(s)
    <3>1. d.entries[i] = room.entries[i]
      BY <1>1, <1>3, <2>2, BufferFields
    <3> QED
      BY <1>1, <1>5, <3>1 DEF Sounding
  <2> QED
    BY <2>1, <2>2
<1>6. Sounding(d)
  BY <1>5 DEF Sounding
<1> QED
  BY <1>1, <1>2, <1>6

LEMMA DequeueSounding ==
  ASSUME NEW b \in Buffer, Sounding(b)
  PROVE  Sounding(raop_buffer_dequeue(b))
<1> DEFINE j == Slot(b.first_seqnum)
           old == b.entries[j]
           e == IF old.available THEN [old EXCEPT !.available = FALSE, !.audio = NoAudio]
                ELSE old
           d == raop_buffer_dequeue(b)
<1>1. j \in Slots /\ b.entries \in [Slots -> Entry] /\ old \in Entry
  BY BufferFields, SlotType
<1>2. d.entries = [b.entries EXCEPT ![j] = e]
  BY <1>1 DEF raop_buffer_dequeue, Buffer
<1>3. ~e.available
  BY <1>1 DEF Entry
<1> HIDE DEF j, e, d
<1>4. ASSUME NEW i \in Slots, d.entries[i].available
      PROVE  d.entries[i].audio # NoAudio
  BY <1>1, <1>2, <1>3, <1>4 DEF Sounding
<1>5. Sounding(d)
  BY <1>4 DEF Sounding
<1> QED
  BY <1>5 DEF d

LEMMA QueueAligned ==
  ASSUME NEW b \in Buffer, Aligned(b), NEW n \in Packets
  PROVE  Aligned(raop_buffer_queue(b, n, Wire(n)))
<1> DEFINE s == Wire(n)
           room == MakeRoom(b, s)
           d == Store(room, s, n)
<1>1. s \in SeqNums /\ Slot(s) \in Slots
  BY WireType, SlotType, SessionAssumption
<1>2. room \in Buffer /\ Aligned(room)
  BY <1>1, FlushOK, FlushSilent, SilentAligned DEF MakeRoom
<1> HIDE DEF room
<1>3. d.entries = [room.entries EXCEPT ![Slot(s)] =
                     [available |-> TRUE, seqnum |-> s, audio |-> n]]
  BY DEF Store
<1> HIDE DEF d, s
<1>4. ASSUME NEW i \in Slots, d.entries[i].audio \in Packets
      PROVE  d.entries[i].seqnum = Wire(d.entries[i].audio)
  <2>1. CASE i = Slot(s)
    <3>1. d.entries[i] = [available |-> TRUE, seqnum |-> s, audio |-> n]
      BY <1>1, <1>2, <1>3, <2>1, BufferFields
    <3> QED
      BY <3>1 DEF s
  <2>2. CASE i # Slot(s)
    <3>1. d.entries[i] = room.entries[i]
      BY <1>1, <1>2, <1>3, <2>2, BufferFields
    <3> QED
      BY <1>2, <1>4, <3>1 DEF Aligned
  <2> QED
    BY <2>1, <2>2
<1>5. Aligned(d)
  BY <1>4 DEF Aligned
<1> QED
  BY <1>2, <1>5, QueueIs DEF room, d, s

LEMMA DequeueAligned ==
  ASSUME NEW b \in Buffer, Aligned(b)
  PROVE  Aligned(raop_buffer_dequeue(b))
<1> DEFINE j == Slot(b.first_seqnum)
           old == b.entries[j]
           e == IF old.available THEN [old EXCEPT !.available = FALSE, !.audio = NoAudio]
                ELSE old
           d == raop_buffer_dequeue(b)
<1>1. j \in Slots /\ b.entries \in [Slots -> Entry] /\ old \in Entry
  BY BufferFields, SlotType
<1>2. d.entries = [b.entries EXCEPT ![j] = e]
  BY <1>1 DEF raop_buffer_dequeue, Buffer
<1>3. e.audio \notin Packets \/ e = old
  BY <1>1, BufferAssumption DEF Entry
<1> HIDE DEF j, e, d
<1>4. ASSUME NEW i \in Slots, d.entries[i].audio \in Packets
      PROVE  d.entries[i] = b.entries[i]
  BY <1>1, <1>2, <1>3, <1>4
<1>5. Aligned(d)
  BY <1>4 DEF Aligned
<1> QED
  BY <1>5 DEF d

LEMMA InitPlace == Init => PlaceInv
BY InitSilent, SilentAligned DEF Init, PlaceInv

LEMMA NextPlace == TypeOK /\ BufferWindow /\ LifeInv /\ PlaceInv /\ [Next]_vars => PlaceInv'
<1> SUFFICES ASSUME TypeOK, BufferWindow, LifeInv, PlaceInv, [Next]_vars PROVE PlaceInv'
  OBVIOUS
<1> USE DEF PlaceInv, shared, network, bounds, history
<1>0. buffer \in Buffer
  BY DEF TypeOK
<1>1. ASSUME Initialised PROVE PlaceInv'
  <2>1. Silent(buffer') /\ Sounding(buffer')
    BY <1>1, InitSilent DEF Initialised
  <2> QED
    BY <2>1, SilentAligned
<1>2. CASE Announce
  BY <1>1, <1>2 DEF Announce, BeginStop
<1>3. CASE Setup
  <2>1. Silent(buffer) /\ buffer' = buffer /\ pc' = "init"
    BY <1>3 DEF Setup, LifeInv
  <2> QED
    BY <2>1, SilentAligned
<1>4. CASE Flush \/ (\E kind \in Parameters : SetParameter(kind)) \/ SendPacket \/ SendTiming
  BY <1>4 DEF Flush, SetParameter, SendPacket, SendTiming
<1>5. CASE Teardown
  BY <1>5 DEF Teardown, BeginStop
<1>6. CASE JoinThread
  <2>1. CASE Initialised
    BY <1>1, <2>1
  <2>2. CASE raop_rtp' = FALSE /\ UNCHANGED mode /\ buffer' = raop_buffer_flush(buffer, -1)
    BY <1>0, <2>2, FlushSilent, SilentAligned
  <2> QED
    BY <1>6, <2>1, <2>2 DEF JoinThread
<1>7. CASE Thread
  <2>1. pc' # "none" /\ mode' = mode
    BY <1>7 DEF Thread, ThreadFrame, AudioInit, StopSeen, SelectTimeout, AudioDestroy,
      Goto, SelectError, ClearRunning, ProcessEvents, Play, AskAgain, ReadStream,
      ReceiveBad, ReceiveData, ReceiveControl
  <2>2. CASE \/ AudioInit \/ StopSeen \/ SelectTimeout \/ AudioDestroy \/ SelectError
             \/ ClearRunning \/ AskAgain
    <3>1. buffer' = buffer
      BY <2>2 DEF AudioInit, StopSeen, SelectTimeout, AudioDestroy, Goto, SelectError,
        ClearRunning, AskAgain
    <3> QED
      BY <2>1, <3>1
  <2>3. CASE ProcessEvents
    <3>1. buffer' = buffer \/ (Silent(buffer') /\ Sounding(buffer'))
      BY <1>0, <2>3, FlushSilent DEF ProcessEvents
    <3> QED
      BY <2>1, <3>1, SilentAligned
  <2>4. CASE Play
    BY <1>0, <2>1, <2>4, DequeueAligned, DequeueSounding DEF Play
  <2>5. CASE \E n \in Packets : ReceiveData(n) \/ ReceiveControl(n)
    <3>1. PICK n \in Packets : ReceiveData(n) \/ ReceiveControl(n)
      BY <2>5
    <3>2. buffer' = raop_buffer_queue(buffer, n, Wire(n))
      BY <3>1 DEF ReceiveData, ReceiveControl
    <3>3. Wire(n) \in SeqNums
      BY WireType, SessionAssumption
    <3>4. Sounding(buffer')
      BY <1>0, <3>2, <3>3, QueueSounding
    <3>5. mode # "tcp" => Aligned(buffer')
      BY <1>0, <3>2, QueueAligned
    <3> QED
      BY <2>1, <3>4, <3>5
  <2>6. CASE ReadStream
    <3> DEFINE queued == raop_buffer_queue(buffer, read, buffer.first_seqnum)
    <3>1. /\ mode = "tcp" /\ read \in Packets
          /\ buffer' = IF CanDequeue(queued, TRUE) THEN raop_buffer_dequeue(queued) ELSE queued
      BY <2>6, SessionAssumption DEF ReadStream, TypeOK
    <3>2. queued \in Buffer /\ Sounding(queued)
      BY <1>0, <3>1, QueueOK, QueueSounding, BufferFields DEF BufferWindow
    <3> HIDE DEF queued
    <3>3. Sounding(buffer')
      BY <3>1, <3>2, DequeueSounding
    <3> QED
      BY <2>1, <3>1, <3>3
  <2>7. CASE ReceiveBad
    <3>1. \/ buffer' = buffer
          \/ mode = "tcp" /\ buffer' = raop_buffer_dequeue(buffer)
      BY <2>7, QueueBad DEF ReceiveBad
    <3> QED
      BY <1>0, <2>1, <3>1, DequeueSounding
  <2> QED
    BY <1>7, <2>2, <2>3, <2>4, <2>5, <2>6, <2>7 DEF Thread
<1>8. CASE UNCHANGED vars
  BY <1>8 DEF vars
<1> QED
  BY <1>2, <1>3, <1>4, <1>5, <1>6, <1>7, <1>8 DEF Next, Rtsp

LEMMA PlaceHolds == Spec => []PlaceInv
BY InitPlace, NextPlace, TypeCorrect, WindowKept, LifeHolds, PTL DEF Spec

(* Whatever UDP loses, repeats or delays, whatever number a FLUSH names    *)
(* and however often the numbers have come round: what raop_buffer_dequeue *)
(* hands out is the packet of the place that is due, a place of silence,   *)
(* or nothing from a slot that nobody used since raop_buffer_init.         *)
THEOREM SoundInTime == Spec => []InTime
<1>1. TypeOK /\ BufferWindow /\ PlaceInv => InTime
  <2> SUFFICES ASSUME TypeOK, BufferWindow, PlaceInv, mode # "tcp",
                      CanDequeue(buffer, no_resend)
               PROVE  Dequeued(buffer) \in {Due, Silence, Stale}
    BY DEF InTime
  <2> DEFINE f == buffer.first_seqnum
             e == FirstEntry(buffer)
  <2>1. f \in SeqNums /\ Slot(f) \in Slots /\ e \in Entry /\ e = buffer.entries[Slot(f)]
    BY BufferFields, SlotType DEF TypeOK, FirstEntry
  <2> SUFFICES ASSUME e.available, e.audio # Stale PROVE e.audio = Due
    BY DEF Dequeued
  <2>2. e.seqnum \in SeqNums /\ e.audio \in Packets
    BY <2>1 DEF Entry, PlaceInv, Sounding
  <2>3. Slot(e.seqnum) = Slot(f) /\ InWindow(buffer, e.seqnum)
    BY <2>1, <2>2 DEF BufferWindow, WindowOK
  <2>4. buflen(buffer) \in 0 .. RAOP_BUFFER_LENGTH
    BY DEF BufferWindow, WindowOK, CanDequeue
  <2>5. e.seqnum = Wire(e.audio)
    BY <2>1, <2>2 DEF PlaceInv, Aligned
  <2> HIDE DEF e
  <2>6. e.seqnum = f
    <3>1. 0 <= seqnum_cmp(e.seqnum, f) /\ seqnum_cmp(e.seqnum, f) < RAOP_BUFFER_LENGTH
      BY <2>1, <2>2, <2>3, <2>4, CmpFacts, NumberFacts DEF InWindow
    <3> QED
      BY <2>1, <2>2, <2>3, <3>1, SlotOnce
  <2>7. e.audio = UShort(f - WireStart)
    BY <2>2, <2>5, <2>6, PlaceFacts
  <2> QED
    BY <2>7 DEF Due, e
<1> QED
  BY <1>1, PlaceHolds, TypeCorrect, WindowKept, PTL

-----------------------------------------------------------------------------
(* Where the window is in the stream: with UDP its numbers are those of    *)
(* packets that were sent, and the place that is due is that of the first. *)

At(k) == UShort(WireStart + k)

Place(b) == UShort(b.first_seqnum - WireStart)

StreamOf(b, n) ==
  \E k \in 0 .. n, m \in -1 .. n - 1 :
    k - 1 <= m /\ b.first_seqnum = At(k) /\ b.last_seqnum = At(m)

LEMMA StreamNumbers ==
  /\ MaxPackets \in Nat /\ 2 * MaxPackets <= SeqMod
  /\ SeqMod \in Nat /\ SeqMod >= 4 /\ WireStart \in 0 .. SeqMod - 1
BY SessionAssumption, NumberFacts DEF SeqNums

LEMMA AtFacts ==
  ASSUME NEW k \in -1 .. MaxPackets
  PROVE  /\ At(k) \in SeqNums
         /\ k >= 0 => Wire(k) = At(k) /\ UShort(At(k) - WireStart) = k
         /\ UShort(At(k) + 1) = At(k + 1)
         /\ k >= 0 => UShort(At(k) - 1) = At(k - 1)
<1>1. At(k) \in SeqNums /\ (k >= 0 => UShort(At(k) - WireStart) = k)
  BY StreamNumbers DEF At, UShort, SeqNums
<1>2. ASSUME k >= 0 PROVE Wire(k) = At(k)
  <2>1. /\ WireStart + k \in Nat /\ WireStart + k < 2 * SeqMod
        /\ SeqMod \in Nat /\ SeqMod >= 1
    BY <1>2, StreamNumbers
  <2>2. CASE WireStart + k < SeqMod
    BY <2>1, <2>2, StreamNumbers DEF Wire, At, UShort
  <2>3. CASE WireStart + k >= SeqMod
    <3>1. (WireStart + k) % SeqMod = (WireStart + k) - SeqMod
      <4> DEFINE x == WireStart + k
      <4>1. x \in Nat /\ x = SeqMod * 1 + (x - SeqMod) /\ 0 <= x - SeqMod /\ x - SeqMod < SeqMod
        BY <2>1, <2>3
      <4> QED
        BY <2>1, <4>1, RemainderIs
    <3> QED
      BY <2>1, <2>3, <3>1, StreamNumbers DEF Wire, At, UShort
  <2> QED
    BY <2>1, <2>2, <2>3
<1>3. UShort(At(k) + 1) = At(k + 1)
  BY StreamNumbers DEF At, UShort
<1>4. k >= 0 => UShort(At(k) - 1) = At(k - 1)
  BY StreamNumbers DEF At, UShort
<1> QED
  BY <1>1, <1>2, <1>3, <1>4

(* Numbers less than half way round compare as their places.               *)
LEMMA AtDistance ==
  ASSUME NEW k \in -1 .. MaxPackets, NEW m \in -1 .. MaxPackets,
         2 * (m - k) < SeqMod, -SeqMod <= 2 * (m - k)
  PROVE  seqnum_cmp(At(m), At(k)) = m - k
BY StreamNumbers DEF seqnum_cmp, At, UShort

LEMMA PlaceOf ==
  ASSUME NEW b, NEW k \in 0 .. MaxPackets, b.first_seqnum = At(k)
  PROVE  Place(b) = k
BY AtFacts DEF Place

LEMMA StoreFields ==
  ASSUME NEW b \in Buffer, NEW s \in SeqNums, NEW n \in Packets
  PROVE  LET d == Store(b, s, n)
         IN  /\ ~d.is_empty
             /\ d.first_seqnum = IF b.is_empty THEN s ELSE b.first_seqnum
             /\ d.last_seqnum =
                  IF b.is_empty THEN s
                  ELSE IF seqnum_cmp(s, b.last_seqnum) > 0 THEN s ELSE b.last_seqnum
BY CmpSelf DEF Store

(* A packet never moves playing back, and moves it on only to itself.      *)
LEMMA QueueStream ==
  ASSUME NEW b \in Buffer, NEW c \in 0 .. MaxPackets, NEW n \in Packets, n < c,
         ~b.is_empty => StreamOf(b, c)
  PROVE  LET d == raop_buffer_queue(b, n, Wire(n))
         IN  ~d.is_empty => /\ StreamOf(d, c)
                            /\ ~b.is_empty => Place(d) >= Place(b)
<1> DEFINE s == Wire(n)
           room == MakeRoom(b, s)
           d == Store(room, s, n)
<1>1. /\ n \in 0 .. MaxPackets - 1 /\ n \in Int /\ c \in Int /\ MaxPackets \in Int
      /\ s = At(n) /\ s \in SeqNums /\ s \in SeqNums \cup {-1}
  BY AtFacts, SessionAssumption
<1>2. room \in Buffer /\ room.is_empty = b.is_empty
  BY <1>1, FlushOK DEF MakeRoom
<1>3. /\ ~d.is_empty
      /\ d.first_seqnum = IF room.is_empty THEN s ELSE room.first_seqnum
      /\ d.last_seqnum =
           IF room.is_empty THEN s
           ELSE IF seqnum_cmp(s, room.last_seqnum) > 0 THEN s ELSE room.last_seqnum
  <2> HIDE DEF room, s
  <2> QED
    BY <1>1, <1>2, StoreFields
<1>4. CASE b.is_empty
  <2>1. d.first_seqnum = At(n) /\ d.last_seqnum = At(n)
    BY <1>1, <1>2, <1>3, <1>4
  <2>2. n \in 0 .. c /\ n \in -1 .. c - 1
    BY <1>1
  <2>3. StreamOf(d, c)
    <3> HIDE DEF d
    <3> QED
      BY <1>1, <2>1, <2>2 DEF StreamOf
  <2>4. raop_buffer_queue(b, n, s) = IF Duplicate(room, s) THEN room ELSE d
    BY <1>4, QueueIs DEF TooLate
  <2> HIDE DEF d, room
  <2> QED
    BY <1>2, <1>4, <2>3, <2>4
<1>5. CASE ~b.is_empty
  <2>1. PICK k \in 0 .. c, m \in -1 .. c - 1 :
          k - 1 <= m /\ b.first_seqnum = At(k) /\ b.last_seqnum = At(m)
    BY <1>5 DEF StreamOf
  <2>2. k \in 0 .. MaxPackets /\ m \in -1 .. MaxPackets /\ n \in -1 .. MaxPackets
    BY <1>1, StreamNumbers
  <2>3. seqnum_cmp(s, b.first_seqnum) = n - k
    BY <1>1, <2>1, <2>2, AtDistance, StreamNumbers
  <2>4. Place(b) = k
    BY <2>1, <2>2, PlaceOf
  <2>5. CASE TooLate(b, s)
    <3>1. raop_buffer_queue(b, n, s) = b
      BY <2>5, QueueIs
    <3>2. Place(b) >= Place(b)
      BY <2>2, <2>4
    <3> QED
      BY <1>5, <3>1, <3>2
  <2>6. CASE ~TooLate(b, s)
    <3>1. n >= k
      BY <1>1, <1>5, <2>2, <2>3, <2>6 DEF TooLate
    <3>2. \E i \in k .. n, j \in -1 .. c - 1 :
            /\ i - 1 <= j /\ n - j <= RAOP_BUFFER_LENGTH
            /\ room.first_seqnum = At(i) /\ room.last_seqnum = At(j)
      <4>1. CASE Overruns(b, s)
        <5>1. room.first_seqnum = At(n) /\ room.last_seqnum = At(n - 1)
          BY <1>1, <4>1, FlushOK, AtFacts, <2>2 DEF MakeRoom
        <5>2. n \in k .. n /\ n - 1 \in -1 .. c - 1 /\ n - 1 <= n - 1
              /\ n - (n - 1) <= RAOP_BUFFER_LENGTH
          BY <1>1, <2>2, <3>1, NumberFacts
        <5> HIDE DEF room
        <5> QED
          BY <5>1, <5>2
      <4>2. CASE ~Overruns(b, s)
        <5>1. room = b
          BY <4>2 DEF MakeRoom
        <5>2. n - k < RAOP_BUFFER_LENGTH
          <6>1. ~(seqnum_cmp(s, UShort(b.first_seqnum + RAOP_BUFFER_LENGTH)) >= 0)
            BY <4>2 DEF Overruns
          <6>2. b.first_seqnum \in SeqNums /\ seqnum_cmp(s, b.first_seqnum) >= 0
            BY <1>1, <2>2, <2>3, <3>1, BufferFields
          <6> QED
            BY <1>1, <2>3, <6>1, <6>2, InsideWindow
        <5>3. n - m <= RAOP_BUFFER_LENGTH
          BY <1>1, <2>1, <2>2, <5>2, NumberFacts
        <5> QED
          BY <2>1, <2>2, <3>1, <5>1, <5>3
      <4> QED
        BY <4>1, <4>2
    <3>3. PICK i \in k .. n, j \in -1 .. c - 1 :
            /\ i - 1 <= j /\ n - j <= RAOP_BUFFER_LENGTH
            /\ room.first_seqnum = At(i) /\ room.last_seqnum = At(j)
      BY <3>2
    <3>4. /\ i \in 0 .. c /\ i \in 0 .. MaxPackets /\ j \in -1 .. MaxPackets
          /\ i <= n /\ k <= i
      BY <1>1, <2>2, StreamNumbers
    <3>5. seqnum_cmp(s, room.last_seqnum) = n - j
      <4>1. 2 * (n - j) < SeqMod /\ -SeqMod <= 2 * (n - j)
        BY <1>1, <3>3, <3>4, NumberFacts, StreamNumbers
      <4> HIDE DEF room
      <4> QED
        BY <1>1, <2>2, <3>3, <3>4, <4>1, AtDistance
    <3>6. StreamOf(room, c) /\ Place(room) = i
      <4> HIDE DEF room
      <4> QED
        BY <3>3, <3>4, PlaceOf DEF StreamOf
    <3>7. StreamOf(d, c) /\ Place(d) = i
      <4>1. /\ d.first_seqnum = At(i)
            /\ d.last_seqnum = IF n - j > 0 THEN At(n) ELSE At(j)
        <5> HIDE DEF d, room
        <5> QED
          BY <1>1, <1>2, <1>3, <1>5, <3>3, <3>5
      <4>2. n \in -1 .. c - 1 /\ i - 1 <= n
        BY <1>1, <3>4
      <4> HIDE DEF d, room
      <4> QED
        BY <3>3, <3>4, <4>1, <4>2, PlaceOf DEF StreamOf
    <3>8. raop_buffer_queue(b, n, s) = IF Duplicate(room, s) THEN room ELSE d
      BY <2>6, QueueIs
    <3> HIDE DEF d, room, s
    <3>9. CASE raop_buffer_queue(b, n, s) = room
      BY <2>2, <2>4, <3>4, <3>6, <3>9 DEF s
    <3>10. CASE raop_buffer_queue(b, n, s) = d
      BY <2>2, <2>4, <3>4, <3>7, <3>10 DEF s
    <3> QED
      BY <3>8, <3>9, <3>10
  <2> HIDE DEF room, d
  <2> QED
    BY <1>5, <2>1, <2>4, <2>5, <2>6
<1> QED
  BY <1>4, <1>5

LEMMA DequeueStream ==
  ASSUME NEW b \in Buffer, NEW c \in 0 .. MaxPackets, StreamOf(b, c),
         NEW no, CanDequeue(b, no)
  PROVE  LET d == raop_buffer_dequeue(b)
         IN  StreamOf(d, c) /\ Place(d) >= Place(b)
<1> DEFINE d == raop_buffer_dequeue(b)
<1>1. PICK k \in 0 .. c, m \in -1 .. c - 1 :
        k - 1 <= m /\ b.first_seqnum = At(k) /\ b.last_seqnum = At(m)
  BY DEF StreamOf
<1>2. /\ k \in 0 .. MaxPackets /\ m \in -1 .. MaxPackets
      /\ c \in Int /\ m <= c - 1 /\ c <= MaxPackets /\ MaxPackets \in Int
  BY StreamNumbers
<1>3. 2 * (m - k) < SeqMod /\ -SeqMod <= 2 * (m - k)
  BY <1>1, <1>2, StreamNumbers
<1>4. m >= k
  <2>1. seqnum_cmp(b.last_seqnum, b.first_seqnum) = m - k
    BY <1>1, <1>2, <1>3, AtDistance
  <2> QED
    BY <1>2, <2>1 DEF CanDequeue, buflen
<1>5. d.first_seqnum = UShort(b.first_seqnum + 1) /\ d.last_seqnum = b.last_seqnum
  BY DEF raop_buffer_dequeue, Buffer
<1>6. d.first_seqnum = At(k + 1) /\ d.last_seqnum = At(m)
  BY <1>1, <1>2, <1>5, AtFacts
<1> HIDE DEF d
<1>7. k + 1 \in 0 .. c /\ k + 1 \in 0 .. MaxPackets /\ (k + 1) - 1 <= m
  BY <1>2, <1>4
<1>8. StreamOf(d, c)
  BY <1>6, <1>7 DEF StreamOf
<1>9. Place(d) = k + 1 /\ Place(b) = k
  BY <1>1, <1>2, <1>6, <1>7, PlaceOf
<1> QED
  BY <1>2, <1>8, <1>9 DEF d

(* A session starts empty; while no FLUSH names anything but a packet that  *)
(* was sent or is next, nor does a UDP buffer that is not empty.            *)
StreamInv ==
  /\ ~astray /\ flush \in SeqNums => \E k \in 0 .. sent : flush = At(k)
  /\ ~astray /\ mode # "tcp" /\ ~buffer.is_empty => StreamOf(buffer, sent)
  /\ raop_rtp /\ pc = "none" => buffer.is_empty

LEMMA NoFlushNumber == NO_FLUSH \notin SeqNums /\ -1 \notin SeqNums
BY NumberFacts DEF SeqNums, NO_FLUSH

LEMMA InitStream == Init => StreamInv
BY NoFlushNumber DEF Init, StreamInv, raop_buffer_init

LEMMA FlushedStream ==
  ASSUME NEW b \in Buffer, NEW c \in 0 .. MaxPackets, NEW next \in SeqNums \cup {-1},
         next \in SeqNums => \E k \in 0 .. c : next = At(k)
  PROVE  LET d == raop_buffer_flush(b, next) IN ~d.is_empty => StreamOf(d, c)
<1> DEFINE d == raop_buffer_flush(b, next)
<1>1. CASE next \in SeqNums
  <2>1. PICK k \in 0 .. c : next = At(k)
    BY <1>1
  <2>2. k \in -1 .. MaxPackets /\ k - 1 \in -1 .. c - 1 /\ k - 1 <= k - 1 /\ k >= 0
    BY StreamNumbers
  <2>3. d.first_seqnum = At(k) /\ d.last_seqnum = At(k - 1)
    BY <1>1, <2>1, <2>2, FlushOK, AtFacts
  <2> HIDE DEF d
  <2> QED
    BY <2>2, <2>3 DEF StreamOf, d
<1>2. CASE next \notin SeqNums
  <2>1. d.is_empty
    BY <1>2 DEF raop_buffer_flush, Buffer
  <2> QED
    BY <2>1
<1> QED
  BY <1>1, <1>2

(* One more packet sent: what was in the stream still is.                  *)
LEMMA StreamGrows ==
  ASSUME NEW c \in Nat
  PROVE  /\ 0 .. c \subseteq 0 .. c + 1
         /\ \A b : StreamOf(b, c) => StreamOf(b, c + 1)
<1>1. 0 .. c \subseteq 0 .. c + 1 /\ -1 .. c - 1 \subseteq -1 .. (c + 1) - 1
  OBVIOUS
<1> QED
  BY <1>1 DEF StreamOf

LEMMA NextStream ==
  ASSUME TypeOK, BufferWindow, LifeInv, StreamInv, [Next]_vars
  PROVE  /\ StreamInv'
         /\ [mode # "tcp" /\ pc # "events" /\ ~astray /\ ~buffer.is_empty /\ ~buffer'.is_empty
               => Due' >= Due]_vars
<1> DEFINE Moves == mode # "tcp" /\ pc # "events" /\ ~astray /\ ~buffer.is_empty
                      /\ ~buffer'.is_empty
                      => Due' >= Due
<1> USE DEF StreamInv, shared, network, bounds, history
<1>0. /\ buffer \in Buffer /\ sent \in 0 .. MaxPackets
      /\ flush \in SeqNums \cup {-1, NO_FLUSH} /\ Due = Place(buffer) /\ Due' = Place(buffer')
      /\ Due \in Int
  <2>1. buffer \in Buffer
    BY DEF TypeOK
  <2>2. Due \in Int
    BY <2>1, BufferFields, StreamNumbers DEF Due, UShort, SeqNums
  <2> QED
    BY <2>1, <2>2 DEF TypeOK, Due, Place
<1>1. ASSUME buffer' = buffer PROVE Moves
  <2>1. Due' = Due
    BY <1>1 DEF Due
  <2> QED
    BY <1>0, <2>1
<1>2. ASSUME Initialised PROVE StreamInv' /\ Moves
  <2>1. buffer'.is_empty /\ flush' = NO_FLUSH
    BY <1>2 DEF Initialised, raop_buffer_init
  <2> QED
    BY <2>1, NoFlushNumber
<1>3. CASE Announce
  BY <1>1, <1>2, <1>3 DEF Announce, BeginStop
<1>4. CASE Setup
  <2>1. /\ buffer.is_empty /\ buffer' = buffer /\ pc' = "init"
        /\ UNCHANGED <<flush, sent, astray>>
    BY <1>4 DEF Setup, LifeInv
  <2> QED
    BY <1>1, <2>1
<1>5. CASE Flush
  <2>1. /\ UNCHANGED <<buffer, mode, raop_rtp, pc, sent>>
        /\ astray' = (astray \/ flush' \in SeqNums \ {Wire(n) : n \in 0 .. sent})
    BY <1>5 DEF Flush
  <2>2. ~astray' /\ flush' \in SeqNums => \E k \in 0 .. sent : flush' = Wire(k)
    BY <2>1
  <2>3. \A k \in 0 .. sent : Wire(k) = At(k)
    BY <1>0, StreamNumbers, AtFacts
  <2> QED
    BY <1>1, <2>1, <2>2, <2>3
<1>6. CASE \E kind \in Parameters : SetParameter(kind)
  BY <1>1, <1>6 DEF SetParameter
<1>7. CASE Teardown
  <2>1. /\ UNCHANGED <<buffer, flush, mode, sent, astray>>
        /\ UNCHANGED <<raop_rtp, pc>> \/ raop_rtp' = FALSE
    BY <1>7 DEF Teardown, BeginStop
  <2> QED
    BY <1>1, <2>1
<1>8. CASE JoinThread
  <2>1. CASE Initialised
    BY <1>2, <2>1
  <2>2. CASE raop_rtp' = FALSE /\ UNCHANGED <<flush, mode, sent, astray>>
             /\ buffer' = raop_buffer_flush(buffer, -1)
    <3>1. buffer'.is_empty
      BY <1>0, <2>2, NoFlushNumber DEF raop_buffer_flush, Buffer
    <3> QED
      BY <2>2, <3>1
  <2> QED
    BY <1>8, <2>1, <2>2 DEF JoinThread
<1>9. CASE Thread
  <2>1. pc' # "none" /\ mode' = mode /\ sent' = sent /\ astray' = astray
    BY <1>9 DEF Thread, ThreadFrame, AudioInit, StopSeen, SelectTimeout, AudioDestroy,
      Goto, SelectError, ClearRunning, ProcessEvents, Play, AskAgain, ReadStream,
      ReceiveBad, ReceiveData, ReceiveControl
  <2>2. CASE \/ AudioInit \/ StopSeen \/ SelectTimeout \/ AudioDestroy \/ SelectError
             \/ ClearRunning \/ AskAgain
    <3>1. buffer' = buffer /\ flush' = flush
      BY <2>2 DEF AudioInit, StopSeen, SelectTimeout, AudioDestroy, Goto, SelectError,
        ClearRunning, AskAgain
    <3> QED
      BY <1>1, <2>1, <3>1
  <2>3. CASE ProcessEvents
    <3>1. /\ buffer' = IF flush = NO_FLUSH THEN buffer ELSE raop_buffer_flush(buffer, flush)
          /\ flush' = NO_FLUSH /\ pc = "events"
      BY <2>3 DEF ProcessEvents
    <3>2. ~astray /\ mode # "tcp" /\ ~buffer'.is_empty => StreamOf(buffer', sent)
      BY <1>0, <3>1, FlushedStream
    <3> QED
      BY <2>1, <3>1, <3>2, NoFlushNumber
  <2>4. CASE Play
    <3>1. /\ CanDequeue(buffer, no_resend) /\ buffer' = raop_buffer_dequeue(buffer)
          /\ flush' = flush
      BY <2>4 DEF Play
    <3>2. ~astray /\ mode # "tcp"
            => StreamOf(buffer', sent) /\ Place(buffer') >= Place(buffer)
      BY <1>0, <3>1, DequeueStream DEF CanDequeue
    <3> QED
      BY <1>0, <2>1, <3>1, <3>2
  <2>5. ASSUME NEW n \in Packets, ReceiveData(n) \/ ReceiveControl(n)
        PROVE  StreamInv' /\ Moves
    <3>1. /\ buffer' = raop_buffer_queue(buffer, n, Wire(n)) /\ flush' = flush /\ n < sent
      <4>1. CASE ReceiveData(n)
        BY <4>1 DEF ReceiveData
      <4>2. CASE ReceiveControl(n)
        BY <1>0, <4>2 DEF ReceiveControl, TypeOK
      <4> QED
        BY <2>5, <4>1, <4>2
    <3>2. ~astray /\ mode # "tcp" /\ ~buffer'.is_empty
            => StreamOf(buffer', sent) /\ (~buffer.is_empty => Place(buffer') >= Place(buffer))
      BY <1>0, <3>1, QueueStream
    <3> QED
      BY <1>0, <2>1, <3>1, <3>2
  <2>6. CASE ReadStream
    BY <2>1, <2>6 DEF ReadStream
  <2>7. CASE ReceiveBad
    <3>1. CASE buffer' = buffer
      BY <1>1, <2>1, <2>7, <3>1 DEF ReceiveBad
    <3>2. CASE buffer' # buffer
      BY <2>1, <2>7, <3>2, QueueBad DEF ReceiveBad
    <3> QED
      BY <3>1, <3>2
  <2> QED
    BY <1>9, <2>2, <2>3, <2>4, <2>5, <2>6, <2>7 DEF Thread
<1>12. CASE SendTiming
  BY <1>1, <1>12 DEF SendTiming
<1>10. CASE SendPacket
  <2>1. /\ sent' = sent + 1 /\ UNCHANGED <<buffer, flush, mode, raop_rtp, pc, astray>>
        /\ sent \in Nat
    BY <1>0, <1>10 DEF SendPacket
  <2>2. ~astray /\ flush \in SeqNums => \E k \in 0 .. sent' : flush = At(k)
    BY <2>1, StreamGrows
  <2>3. StreamOf(buffer, sent) => StreamOf(buffer, sent')
    BY <2>1, StreamGrows
  <2> QED
    BY <1>1, <2>1, <2>2, <2>3
<1>11. CASE UNCHANGED vars
  BY <1>1, <1>11 DEF vars
<1> QED
  BY <1>3, <1>4, <1>5, <1>6, <1>7, <1>8, <1>9, <1>10, <1>11, <1>12 DEF Next, Rtsp

LEMMA StreamHolds == Spec => []StreamInv
<1>1. TypeOK /\ BufferWindow /\ LifeInv /\ StreamInv /\ [Next]_vars => StreamInv'
  BY NextStream
<1> QED
  BY <1>1, InitStream, TypeCorrect, WindowKept, LifeHolds, PTL DEF Spec

(* While the UDP buffer is in use, no packet that comes, whatever its      *)
(* number, and no packet that is played ever sets playing back, unless a   *)
(* FLUSH has named a number of no packet.                                  *)
THEOREM PlayedForward == Spec => InOrder
<1>1. TypeOK /\ BufferWindow /\ LifeInv /\ StreamInv /\ [Next]_vars
      => [mode # "tcp" /\ pc # "events" /\ ~astray /\ ~buffer.is_empty /\ ~buffer'.is_empty
            => Due' >= Due]_vars
  BY NextStream
<1> QED
  BY <1>1, StreamHolds, TypeCorrect, WindowKept, LifeHolds, PTL DEF Spec, InOrder

(* A number raop_buffer_handle_resends asks for has an empty slot.         *)
LEMMA ResendFacts ==
  ASSUME NEW b \in Buffer, NEW s \in Resends(b)
  PROVE  /\ s \in SeqNums
         /\ 0 <= seqnum_cmp(s, b.first_seqnum)
         /\ seqnum_cmp(s, b.first_seqnum) < seqnum_cmp(b.last_seqnum, b.first_seqnum)
         /\ ~b.entries[Slot(s)].available
<1>1. /\ s \in SeqNums /\ 0 <= seqnum_cmp(s, b.first_seqnum)
      /\ seqnum_cmp(s, b.first_seqnum) < seqnum_cmp(b.last_seqnum, b.first_seqnum)
      /\ \A t \in SeqNums :
           0 <= seqnum_cmp(t, b.first_seqnum)
             /\ seqnum_cmp(t, b.first_seqnum) <= seqnum_cmp(s, b.first_seqnum)
             => ~b.entries[Slot(t)].available
  BY DEF Resends
<1>2. seqnum_cmp(s, b.first_seqnum) \in Int
  BY <1>1, BufferFields, CmpFacts
<1> QED
  BY <1>1, <1>2

(* The number at a distance of a place is that of the place so far on.      *)
LEMMA AtOfDistance ==
  ASSUME NEW s \in SeqNums, NEW k \in 0 .. MaxPackets, NEW d \in Nat,
         d = seqnum_cmp(s, At(k)), k + d <= MaxPackets
  PROVE  At(k + d) = s
BY StreamNumbers DEF seqnum_cmp, At, UShort, SeqNums

LEMMA AskStep ==
  ASSUME TypeOK, BufferWindow, PlaceInv, StreamInv, [Next]_vars, NEW s \in asked' \ asked
  PROVE  /\ ~buffer.is_empty /\ ~astray
              => \E n \in 0 .. sent - 1 : Wire(n) = s /\ n >= Due
         /\ \A i \in Slots :
              buffer.entries[i].audio \in Packets => Wire(buffer.entries[i].audio) # s
<1>1. AskAgain
  <2>1. asked' # asked /\ asked' # {}
    OBVIOUS
  <2> QED
    BY <2>1 DEF Next, Rtsp, Thread, ThreadFrame, Announce, BeginStop, Initialised, Setup, Flush,
      SetParameter, Teardown, JoinThread, AudioInit, StopSeen, SelectTimeout, AudioDestroy,
      Goto, SelectError, ClearRunning, ProcessEvents, Play, ReadStream, ReceiveBad,
      ReceiveData, ReceiveControl, SendPacket, SendTiming, vars, shared, network, bounds
<1>2. mode = "udp" /\ s \in Resends(buffer)
  BY <1>1 DEF AskAgain, no_resend
<1>3. buffer \in Buffer /\ sent \in 0 .. MaxPackets /\ buffer.first_seqnum \in SeqNums
  BY BufferFields DEF TypeOK
<1>4. /\ s \in SeqNums
      /\ 0 <= seqnum_cmp(s, buffer.first_seqnum)
      /\ seqnum_cmp(s, buffer.first_seqnum) < seqnum_cmp(buffer.last_seqnum, buffer.first_seqnum)
      /\ ~buffer.entries[Slot(s)].available
  BY <1>2, <1>3, ResendFacts
<1>5. ASSUME NEW i \in Slots, buffer.entries[i].audio \in Packets,
             Wire(buffer.entries[i].audio) = s
      PROVE  FALSE
  <2>1. buffer.entries[i].seqnum = s
    BY <1>2, <1>5 DEF PlaceInv, Aligned
  <2>2. buffer.entries[i].available /\ Slot(buffer.entries[i].seqnum) = i
    BY <1>5 DEF BufferWindow, WindowOK
  <2> QED
    BY <1>4, <2>1, <2>2
<1>6. ASSUME ~buffer.is_empty, ~astray
      PROVE  \E n \in 0 .. sent - 1 : Wire(n) = s /\ n >= Due
  <2>1. PICK k \in 0 .. sent, m \in -1 .. sent - 1 :
          k - 1 <= m /\ buffer.first_seqnum = At(k) /\ buffer.last_seqnum = At(m)
    BY <1>2, <1>6 DEF StreamInv, StreamOf
  <2>2. /\ k \in 0 .. MaxPackets /\ k \in -1 .. MaxPackets /\ m \in -1 .. MaxPackets
        /\ 2 * (m - k) < SeqMod /\ -SeqMod <= 2 * (m - k)
    BY <1>3, <2>1, StreamNumbers
  <2>3. seqnum_cmp(buffer.last_seqnum, buffer.first_seqnum) = m - k
    BY <2>1, <2>2, AtDistance
  <2> DEFINE d == seqnum_cmp(s, At(k))
  <2>4. d \in Nat /\ d < m - k
    BY <1>3, <1>4, <2>1, <2>3, CmpFacts
  <2> HIDE DEF d
  <2>5. k + d \in 0 .. sent - 1 /\ k + d \in -1 .. MaxPackets /\ k + d <= MaxPackets /\ k + d >= k
    BY <1>3, <2>1, <2>2, <2>4, StreamNumbers
  <2>6. At(k + d) = s
    BY <1>4, <2>2, <2>4, <2>5, AtOfDistance DEF d
  <2>7. Wire(k + d) = s
    BY <2>5, <2>6, AtFacts
  <2>8. Due = k
    BY <2>1, <2>2, PlaceOf DEF Due, Place
  <2> QED
    BY <2>5, <2>7, <2>8
<1> QED
  BY <1>5, <1>6

(* raop_buffer_handle_resends asks for no packet that is over or was never *)
(* sent and for none that waits to be played, whatever was lost, repeated  *)
(* or flushed.                                                             *)
THEOREM AskedOnlyMissing == Spec => AskedMissing
<1>1. TypeOK /\ BufferWindow /\ PlaceInv /\ StreamInv /\ [Next]_vars
      => [\A s \in asked' \ asked :
            /\ ~buffer.is_empty /\ ~astray
                 => \E n \in 0 .. sent - 1 : Wire(n) = s /\ n >= Due
            /\ \A i \in Slots :
                 buffer.entries[i].audio \in Packets
                   => Wire(buffer.entries[i].audio) # s]_vars
  BY AskStep
<1> QED
  BY <1>1, PlaceHolds, StreamHolds, TypeCorrect, WindowKept, PTL DEF Spec, AskedMissing
=============================================================================
