SPECIFICATION DialogSpec
CONSTANTS
  None = None
  Order <- MCOrder
  MaxHistory = 2
  RowResults = {"changed"}
  Connections = {"c1", "c2"}
  Databases = {"d"}
  Stored <- MCStored
  Listings <- MCListings
  MaxRuns = 2
  MaxEdits = 1
  MaxBrowses = 0
  Strategies <- MCStrategies
  CrossEngine = FALSE
  MaxPreviews = 2
  MaxSyncs = 1
  MaxChoices = 1
INVARIANTS
  NoEndlessSpinner
  OutcomeAgreesWithJob
PROPERTIES
  ResultsBelongToTheScreen
  RunsWhatWasConfirmed
  CancelledStaysCancelled
CHECK_DEADLOCK FALSE
