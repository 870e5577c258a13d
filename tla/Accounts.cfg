CONSTANTS
  Names = {root, ann}
  Admins = {root}
  Ids = {home}
  RandomIds = {x1, x2}
  Reqs = {r1, r2}
  MaxUsers = 2
  MaxSessions = 2
  MaxShares = 1
  MaxFaults = 1
SPECIFICATION Spec
SYMMETRY Symmetry
CONSTRAINT Few
INVARIANTS
  TypeOK
  IndexesAgree
  NothingDangles
  OneRecordPerName
PROPERTIES
  RestartRestores
CHECK_DEADLOCK FALSE
