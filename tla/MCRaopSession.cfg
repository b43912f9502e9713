SPECIFICATION Spec
CONSTANTS
  RAOP_BUFFER_LENGTH = 2
  Laps = 4
  Packets <- MCPackets
  BadPacket = BadPacket
  NoAudio = NoAudio
  Stale = Stale
  Silence = Silence
  Numbers = {6}
  Flags = {TRUE, FALSE}
  Modes <- AllModes
  Parameters = {volume}
  volume = volume
  WireStart = 6
  MaxPackets = 3
  MaxFlushes = 1
  MaxSessions = 2
  FlushNumbers = {}
  Timing = TRUE
  Failures = TRUE
  Asserts = TRUE
INVARIANTS SocketsClosed
PROPERTIES NoUseAfterFree JoinReturns RequestTaken
CHECK_DEADLOCK FALSE
