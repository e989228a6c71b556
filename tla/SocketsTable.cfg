SPECIFICATION Spec
CONSTANTS
  Clients = {c1}
  Udps = {}
  MaxSock = 2
  MaxLink = 2
  MaxConns = 4
  Careful = TRUE
INVARIANTS
  InsideTable
CHECK_DEADLOCK FALSE
