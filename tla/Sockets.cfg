SPECIFICATION Spec
CONSTANTS
  Clients = {c1, c2}
  Udps = {u}
  MaxSock = 2
  MaxLink = 2
  MaxConns = 3
  Careful = TRUE
INVARIANTS
  
  
  NoSocketLeaks
  NoOrphanLink
  
  TableIsHeld
CHECK_DEADLOCK FALSE
SYMMETRY Symmetry
