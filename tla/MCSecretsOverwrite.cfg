SPECIFICATION Spec
CONSTANTS
  Procs = {p1, p2}
  Fields = {f1}
  Keys = {old, k1, k2}
  Old = old
  None = None
  AddOnly = FALSE
INVARIANTS
  SecretsStayReadable
