SPECIFICATION Spec
CONSTANTS
  Task = {t1}
  Key = {0, 1}
  Image = {a, b}
  a = a
  b = b
  Chunks <- HasEmpty
  Calls <- AllCalls
  Script <- RustScript
  ProtocolVersion = 3
  MaxFaults = 0
  MaxCancels = 0
  NoImage = NoImage
  Blank = Blank
  Garbled = Garbled
  Factory = Factory
  Free = Free
  Idle = Idle
INVARIANTS TypeOK  FlushShowsImages ClearAllBlanks GreetedFirst
