------------------------------ MODULE RaopBuffer ------------------------------
(***************************************************************************)
(* The playout buffer of an AirTunes stream (libshairplay raop_buffer.cc): *)
(* a window of RAOP_BUFFER_LENGTH slots over 16-bit RTP sequence numbers.  *)
(* A buffer is a value and every function of the file that changes it is   *)
(* an operator that returns the new buffer; RaopRtp owns the buffer and    *)
(* calls them.  Decrypting and decoding are left out: the audio of a slot  *)
(* is the packet it came from.                                             *)
(***************************************************************************)
EXTENDS Integers

CONSTANTS
  RAOP_BUFFER_LENGTH,  (* number of slots                                  *)
  Laps,                (* the sequence numbers go Laps times round the slots *)
  Packets,             (* what a slot may hold the audio of                *)
  BadPacket,           (* a packet with a datalen that is not valid        *)
  NoAudio,             (* a slot whose audio_buffer_len is 0               *)
  Stale,               (* the same, beside an available flag that is only  *)
                       (* what raop_buffer_init found in the memory        *)
  Silence              (* a whole audio_buffer_size of zeros               *)

(* In the code 16 slots and 4096 laps: 65536 numbers.  Half of the numbers *)
(* must cover the window, or "late" and "ahead" cannot be told apart.      *)
ASSUME BufferAssumption ==
  /\ RAOP_BUFFER_LENGTH \in Nat \ {0}
  /\ Laps \in Nat
  /\ Laps >= 4
  /\ {BadPacket, NoAudio, Stale, Silence} \cap Packets = {}
  /\ NoAudio # Stale /\ NoAudio # Silence /\ Stale # Silence

SeqMod == RAOP_BUFFER_LENGTH * Laps

SeqNums == 0 .. SeqMod - 1

Slots == 0 .. RAOP_BUFFER_LENGTH - 1

Slot(seqnum) == seqnum % RAOP_BUFFER_LENGTH

(* Conversion to unsigned short of a number at most one lap outside.       *)
UShort(x) ==
  IF x < 0 THEN x + SeqMod ELSE IF x >= SeqMod THEN x - SeqMod ELSE x

seqnum_cmp_Unsigned(s1, s2) == UShort(s1 - s2)

(* The difference, as a signed short.                                      *)
seqnum_cmp(s1, s2) ==
  LET d == UShort(s1 - s2) IN IF 2 * d >= SeqMod THEN d - SeqMod ELSE d

Entry == [available : BOOLEAN, seqnum : SeqNums,
          audio : Packets \cup {NoAudio, Stale}]

Buffer == [is_empty : BOOLEAN, first_seqnum : SeqNums, last_seqnum : SeqNums,
           entries : [Slots -> Entry]]

(* raop_buffer_init allocates with new and sets only is_empty and          *)
(* audio_buffer_len: the numbers and the available flags are whatever the  *)
(* memory held.  numbers and flags say which values that may be.           *)
raop_buffer_init(numbers, flags) ==
  [is_empty : {TRUE}, first_seqnum : numbers, last_seqnum : numbers,
   entries : [Slots -> {e \in [available : flags, seqnum : numbers, audio : {NoAudio, Stale}] :
                          e.audio = Stale <=> e.available}]]

(* Number of positions between first_seqnum and last_seqnum, both included. *)
buflen(b) == seqnum_cmp(b.last_seqnum, b.first_seqnum) + 1

FirstEntry(b) == b.entries[Slot(b.first_seqnum)]

ClearedEntries(b) ==
  [i \in Slots |-> [b.entries[i] EXCEPT !.available = FALSE, !.audio = NoAudio]]

(* next_seq outside the numbers empties the buffer; inside, playing goes   *)
(* on from there, but is_empty is left as it is.                           *)
raop_buffer_flush(b, next_seq) ==
  IF next_seq \in SeqNums
  THEN [b EXCEPT !.entries = ClearedEntries(b),
                 !.first_seqnum = next_seq,
                 !.last_seqnum = UShort(next_seq - 1)]
  ELSE [b EXCEPT !.entries = ClearedEntries(b), !.is_empty = TRUE]

TooLate(b, seqnum) == ~b.is_empty /\ seqnum_cmp(seqnum, b.first_seqnum) < 0

Overruns(b, seqnum) ==
  seqnum_cmp(seqnum, UShort(b.first_seqnum + RAOP_BUFFER_LENGTH)) >= 0

MakeRoom(b, seqnum) ==
  IF Overruns(b, seqnum) THEN raop_buffer_flush(b, seqnum) ELSE b

Duplicate(b, seqnum) ==
  /\ b.entries[Slot(seqnum)].available
  /\ b.entries[Slot(seqnum)].seqnum = seqnum

Store(b, seqnum, packet) ==
  LET f == IF b.is_empty THEN seqnum ELSE b.first_seqnum
      l == IF b.is_empty THEN seqnum ELSE b.last_seqnum
  IN  [is_empty |-> FALSE,
       first_seqnum |-> f,
       last_seqnum |-> IF seqnum_cmp(seqnum, l) > 0 THEN seqnum ELSE l,
       entries |-> [b.entries EXCEPT ![Slot(seqnum)] =
                      [available |-> TRUE, seqnum |-> seqnum, audio |-> packet]]]

(* The one case in which raop_buffer_queue returns less than 0.            *)
LengthInvalid(packet) == packet = BadPacket

raop_buffer_queue_AcceptLate(b, packet, seqnum) ==
  LET room == MakeRoom(b, seqnum)
  IN  IF LengthInvalid(packet) THEN b
      ELSE IF Duplicate(room, seqnum) THEN room
      ELSE Store(room, seqnum, packet)

(* The number is the one in the packet, or with use_seqnum = 0 (TCP) the   *)
(* one that is due.                                                        *)
raop_buffer_queue(b, packet, seqnum) ==
  LET room == MakeRoom(b, seqnum)
  IN  IF LengthInvalid(packet) \/ TooLate(b, seqnum) THEN b
      ELSE IF Duplicate(room, seqnum) THEN room
      ELSE Store(room, seqnum, packet)

(* raop_buffer_dequeue returns NULL unless CanDequeue.                     *)
CanDequeue(b, no_resend) ==
  /\ ~b.is_empty
  /\ buflen(b) > 0
  /\ no_resend \/ FirstEntry(b).available \/ buflen(b) >= RAOP_BUFFER_LENGTH

(* What it hands out: a slot that is not available is a place of silence,  *)
(* NoAudio and Stale are no sound at all (its length is 0): what follows  *)
(* is then heard a place early.                                            *)
Dequeued(b) == IF FirstEntry(b).available THEN FirstEntry(b).audio ELSE Silence

raop_buffer_dequeue_KeepAvailable(b) ==
  [b EXCEPT !.first_seqnum = UShort(@ + 1),
            !.entries[Slot(b.first_seqnum)] =
              IF @.available THEN [@ EXCEPT !.audio = NoAudio] ELSE @]

raop_buffer_dequeue_NoWrap(b) ==
  [b EXCEPT !.first_seqnum = @ + 1,
            !.entries[Slot(b.first_seqnum)] = [@ EXCEPT !.available = FALSE, !.audio = NoAudio]]

raop_buffer_dequeue(b) ==
  [b EXCEPT !.first_seqnum = UShort(@ + 1),
            !.entries[Slot(b.first_seqnum)] =
              IF @.available THEN [@ EXCEPT !.available = FALSE, !.audio = NoAudio]
                             ELSE @]

Resends_All(b) ==
  {s \in SeqNums : seqnum_cmp(s, b.first_seqnum) \in 0 .. buflen(b) - 2}

(* The numbers raop_buffer_handle_resends asks for: those before the first *)
(* available slot, at most up to last_seqnum.                              *)
Resends(b) ==
  LET ahead(s) == seqnum_cmp(s, b.first_seqnum)
      end == seqnum_cmp(b.last_seqnum, b.first_seqnum)
  IN  {s \in SeqNums : /\ 0 <= ahead(s) /\ ahead(s) < end
                       /\ \A t \in SeqNums :
                            0 <= ahead(t) /\ ahead(t) <= ahead(s)
                              => ~b.entries[Slot(t)].available}

-----------------------------------------------------------------------------
(* The audio in a slot belongs to a number of the window that is due, and  *)
(* the window is no longer than the slots.                                 *)
InWindow(b, s) ==
  /\ 0 <= seqnum_cmp(s, b.first_seqnum)
  /\ seqnum_cmp(s, b.first_seqnum) < buflen(b)

WindowOK(b) ==
  /\ ~b.is_empty => buflen(b) \in 0 .. RAOP_BUFFER_LENGTH
  /\ \A i \in Slots :
       LET e == b.entries[i]
       IN  e.audio \in Packets => /\ e.available
                                  /\ ~b.is_empty
                                  /\ Slot(e.seqnum) = i
                                  /\ InWindow(b, e.seqnum)
=============================================================================
