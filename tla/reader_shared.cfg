SPECIFICATION Spec
CONSTANTS
  t1 = t1
  t2 = t2
  t3 = t3
  r1 = r1
  r2 = r2
  Task = {t1, t2, t3}
  Uses <- Split
  Reader = {r1, r2}
  Free = Free
  KeyCount = 1
  EncoderCount = 1
  ProtocolVersion = 3
  BothKeypressStates = TRUE
  BothEncoderStates = FALSE
  ProcessInput <- Decoder
  ReportsReleases = TRUE
  MaxHeld = 2
  MaxEvents = 3
  MaxFaults = 1
  MaxDrops = 1
CHECK_DEADLOCK FALSE
INVARIANTS Alternates ToldIsStored NoGhostPress NothingMissed
