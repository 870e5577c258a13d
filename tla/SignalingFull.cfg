CONSTANTS
  Agents = {a1}
  Sessions = {s1, s2}
  Kinds = {web}
  Reqs = {r1}
  MaxEntries = 2
  MaxConns = 1
  ChCap = 1
  None = None
SPECIFICATION Spec
SYMMETRY Symmetry
INVARIANTS
  TypeOK
  RegistryConsistent
  ClosedOnce
PROPERTIES
  EvictionHasACause
