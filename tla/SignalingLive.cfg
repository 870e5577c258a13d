CONSTANTS
  Agents = {a1}
  Sessions = {s1, s2}
  Kinds = {web, client}
  Reqs = {r1}
  MaxEntries = 1
  MaxConns = 2
  ChCap = 1
  None = None
SPECIFICATION ControlLiveSpec
INVARIANTS
  ClaimHasItsSocket
PROPERTIES
  SocketEndFreesAgent
  DisplacedSocketEnds
