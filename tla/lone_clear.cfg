SPECIFICATION Spec
CONSTANTS
  Task = {t1}
  Key = {0, 1}
  Image = {a}
  a = a
  b = b
  Chunks <- OnlyA
  Calls <- ClearCalls
  Script <- GoScript
  ProtocolVersion = 3
  MaxFaults = 0
  MaxCancels = 0
  NoImage = NoImage
  Blank = Blank
  Garbled = Garbled
  Factory = Factory
  Free = Free
  Idle = Idle
INVARIANT FlushShowsClears
