SPECIFICATION FairSpec
CONSTANTS
  d1 = d1
  d2 = d2
  Device = {d1, d2}
  Interfaces <- Attachable
  Queries <- Asked
  MaxChanges = 5
  MaxFaults = 1
CHECK_DEADLOCK FALSE
INVARIANTS TypeOK Settled
PROPERTIES TellsNews NoRumours EventuallySeen CancelCloses
