SPECIFICATION FairSpec
CONSTANTS
  t1 = t1
  t2 = t2
  t3 = t3
  r1 = r1
  r2 = r2
  Task = {t1}
  Uses <- Alone
  Reader = {r1}
  Free = Free
  KeyCount = 2
  EncoderCount = 1
  ProtocolVersion = 3
  BothKeypressStates = TRUE
  BothEncoderStates = TRUE
  ProcessInput <- Decoder
  ReportsReleases = TRUE
  MaxHeld = 1
  MaxEvents = 3
  MaxFaults = 1
  MaxDrops = 1
CHECK_DEADLOCK FALSE
INVARIANTS TypeOK HeardIsHeld
PROPERTIES EventuallyHeard TimedReadReturns
