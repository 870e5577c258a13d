CONSTANTS
  Allocs = {a1, a2}
  Ports = {p1}
  Nil = Nil
  Loop = Loop
  Quota = 1
  MaxTotal = 2
  MaxFail = 0
SPECIFICATION Spec
INVARIANTS
  OpenRelayIsMetered
