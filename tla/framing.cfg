SPECIFICATION SendingSpec
CONSTANTS
  PacketSizes = {512, 1024}
  Lengths <- AllLengths
  Serials = {s1}
  NoSerial = NoSerial
  HardcodedSerial = Hardcoded
  Pictures <- Sizes
  Formats <- AllFormats
CHECK_DEADLOCK FALSE
INVARIANTS InBounds Reassembles FitsTable ShowsThePicture
