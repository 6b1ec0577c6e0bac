SPECIFICATION Spec
CONSTANTS
  Task = {t1}
  Key = {0}
  Image = {b}
  a = a
  b = b
  Chunks <- OnlyB
  Calls <- DimCalls
  Script <- RustScript
  ProtocolVersion = 3
  MaxFaults = 1
  MaxCancels = 0
  NoImage = NoImage
  Blank = Blank
  Garbled = Garbled
  Factory = Factory
  Free = Free
  Idle = Idle
INVARIANT RetryShowsImages
