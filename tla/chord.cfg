SPECIFICATION Spec
CONSTANTS
  t1 = t1
  t2 = t2
  t3 = t3
  r1 = r1
  r2 = r2
  Task = {t1}
  Uses <- Alone
  Reader = {r1}
  Free = Free
  KeyCount = 2
  EncoderCount = 0
  ProtocolVersion = 3
  BothKeypressStates = TRUE
  BothEncoderStates = TRUE
  ProcessInput <- Decoder
  ReportsReleases = TRUE
  MaxHeld = 2
  MaxEvents = 4
  MaxFaults = 0
  MaxDrops = 0
CHECK_DEADLOCK FALSE
INVARIANT HeardIsHeld
