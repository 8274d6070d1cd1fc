SPECIFICATION FairSpec
CONSTANTS
  Tables = {t1, t2}
  Defs <- MCDefs
  Absent = Absent
  Nothing = Nothing
  Requests <- DataRequests
  Runs = {x1}
  Mysql = TRUE
  Batches = 2
  MaxPlans = 1
  MaxBuilds = 0
  MaxEdits = 2
INVARIANTS
  PooledSessionsCheckForeignKeys
  DoneMeansCopied
PROPERTIES
  OldRowsAreKept
  
CHECK_DEADLOCK FALSE
