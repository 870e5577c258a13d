CONSTANTS
  c1 = c1
  Conns = {c1}
  Size = 2
  Nil = nil
  MaxStreams = 2
  MaxUp <- MCBytes
  MaxDown <- MCBytes
SPECIFICATION FairSpec
INVARIANTS
  TypeOK
  TablesAgreeWhenQuiet
  EndIsComplete
PROPERTIES
  CloseReachesTheOther
  EachIsAStream
CHECK_DEADLOCK FALSE
