CONSTANTS
  Allocs = {a1, a2}
  Ports = {p1}
  Nil = Nil
  Loop = Loop
  Quota = 1
  MaxTotal = 1
  MaxFail = 1
SPECIFICATION LiveSpec
INVARIANTS
  TypeOK
  SettledIsBilled
  ClosedIsBilled
PROPERTIES
  ExhaustedIsCut
CHECK_DEADLOCK FALSE
