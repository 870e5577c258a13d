SPECIFICATION LiveSpec
CONSTANTS
  Main = main
  Reconnects = {r1, r2}
  Callers = {heart}
  Heart = heart
  ChCap = 1
  MaxSent = 2
  MaxGhosts = 1
  MaxFaults = 3
INVARIANTS
  TypeOK
  SingleFlight
  HandledInOrder
PROPERTIES
  Recovers
  MessagesAreTaken
