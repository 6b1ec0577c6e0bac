SPECIFICATION FairSpec
CONSTANTS
  Task = {t1, t2}
  Key = {0, 1}
  Image = {a, b}
  a = a
  b = b
  Chunks <- Lengths
  Calls <- DrawCalls
  Script <- RustScript
  ProtocolVersion = 3
  MaxFaults = 0
  MaxCancels = 0
  NoImage = NoImage
  Blank = Blank
  Garbled = Garbled
  Factory = Factory
  Free = Free
  Idle = Idle
INVARIANTS HandshakeOnce CommandsUnderstood
PROPERTIES FlushIsAtomic CallsReturn FlushCommits
