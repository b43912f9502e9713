SPECIFICATION Spec
CONSTANTS
  RAOP_BUFFER_LENGTH = 4
  Laps = 4
  Packets <- MCPackets
  BadPacket = BadPacket
  NoAudio = NoAudio
  Stale = Stale
  Silence = Silence
  Numbers = {12, 15}
  Flags = {TRUE, FALSE}
  Modes <- AllModes
  Parameters = {}
  WireStart = 13
  MaxPackets = 8
  MaxFlushes = 1
  MaxSessions = 1
  FlushNumbers <- OddFlushes
  Timing = FALSE
  Failures = FALSE
  Asserts = FALSE
INVARIANTS TypeOK BufferWindow InTime
PROPERTIES InOrder AskedMissing
CHECK_DEADLOCK FALSE
