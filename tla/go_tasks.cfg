SPECIFICATION Spec
CONSTANTS
  Task = {t1, t2}
  Key = {0, 1}
  Image = {a}
  a = a
  b = b
  Chunks <- OnlyA
  Calls <- MixedCalls
  Script <- GoScript
  ProtocolVersion = 1
  MaxFaults = 1
  MaxCancels = 0
  NoImage = NoImage
  Blank = Blank
  Garbled = Garbled
  Factory = Factory
  Free = Free
  Idle = Idle
INVARIANTS FlushPublishes NothingLost
VIEW Blindfolded
