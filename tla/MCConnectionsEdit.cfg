SPECIFICATION Spec
CONSTANTS
  Requests = {r1}
  Editors = {e1}
  None = None
INVARIANTS
  EditsTakeEffect
CHECK_DEADLOCK FALSE
