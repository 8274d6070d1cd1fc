SPECIFICATION Spec
CONSTANTS
  Tables = {t1}
  Defs = {d1, d2}
  Absent = Absent
  Nothing = Nothing
  Requests <- OverwriteRequests
  Runs = {x1, x2}
  Mysql = FALSE
  Batches = 1
  MaxPlans = 1
  MaxBuilds = 2
  MaxEdits = 1
SYMMETRY Symmetry
INVARIANTS
  PlansAreUsedOnce
  
CHECK_DEADLOCK FALSE
