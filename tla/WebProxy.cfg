CONSTANTS
  Sockets = {s1}
  Requests = {q1}
  MaxFrames = 1
  MaxData = 2
  Size = 2
  Chunks <- MCChunks
SPECIFICATION FairSpec
INVARIANTS
  TypeOK
  NoUnreachableConn
  ResponseWhole
PROPERTIES
  EachIsASocket
  EndIsHeard
CHECK_DEADLOCK FALSE
