SPECIFICATION FairSpec
CONSTANTS
  Key = {0, 1}
  NoKey = 9
  Image = {}
  NoImage = NoImage
  Chunks <- NoChunks
  ProtocolVersion = 3
  Blank = Blank
  Garbled = Garbled
  Factory = Factory
  Capacity = 2
  MaxReports = 3
  MaxFaults = 2
CHECK_DEADLOCK FALSE
INVARIANTS TypeOK NoDoubleTrigger EveryPressCounts StartsClean EndsDark
PROPERTIES EveryPressPosted SignalEnds
