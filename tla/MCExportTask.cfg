INIT TaskInit
NEXT TaskNext
CONSTANTS
  Engines = {"mysql", "postgres"}
  Backends = {"builtin", "mysqldump"}
  MaxRuns = 2
  None = None
INVARIANT TabAgreesWithJobs
CHECK_DEADLOCK FALSE
