SPECIFICATION Spec
CONSTANTS
  Tables = {t1}
  Defs <- MCDefs
  Absent = Absent
  Nothing = Nothing
  Requests <- StructureRequests
  Runs = {x1}
  Mysql = TRUE
  Batches = 1
  MaxPlans = 1
  MaxBuilds = 1
  MaxEdits = 1
INVARIANTS
  DropsArePreviewed
CHECK_DEADLOCK FALSE
