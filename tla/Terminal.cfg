CONSTANTS
  Opens = {o1, o2}
  MaxSess = 2
  MaxOut = 2
SPECIFICATION FirstPrintsSpec
SYMMETRY Symmetry
INVARIANTS
  TypeOK
  NothingLost
  OneShell
  ExitReported
