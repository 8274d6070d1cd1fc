SPECIFICATION FairSpec
CONSTANTS
  Requests = {r1, r2}
  Editors = {e1}
  None = None
INVARIANTS
  
  ClosedTunnelsStayClosed
  
PROPERTIES
  RequestsAreAnswered
CHECK_DEADLOCK FALSE
