SPECIFICATION FairSpec
CONSTANTS
  Procs = {p1, p2}
  Fields = {f1, f2}
  Keys = {old, k1, k2}
  Old = old
  None = None
  AddOnly = TRUE
INVARIANTS
  SecretsStayReadable
PROPERTIES
  LegacyKeyOutlivesMigration
  OnlyCurrentFormIsWritten
  StartupEnds
