CONSTANTS
  MaxSignals = 2
  Wrong = {2}
  Frail = {2}
SPECIFICATION FairSpec
INVARIANTS
  TypeOK
  DeadPeerDropped
PROPERTIES
  SilentPeerDropped
CHECK_DEADLOCK FALSE
