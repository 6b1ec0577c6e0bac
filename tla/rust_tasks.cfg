SPECIFICATION Spec
CONSTANTS
  Task = {t1, t2}
  Key = {0, 1}
  Image = {a}
  a = a
  b = b
  Chunks <- OnlyA
  Calls <- MixedCalls
  Script <- RustScript
  ProtocolVersion = 2
  MaxFaults = 1
  MaxCancels = 1
  NoImage = NoImage
  Blank = Blank
  Garbled = Garbled
  Factory = Factory
  Free = Free
  Idle = Idle
INVARIANTS TransferIntact OnlyRacersGreet Publishing
VIEW Blindfolded
