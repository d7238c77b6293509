SPECIFICATION Spec
CONSTANTS
  Input <- PlainInputs
  Client = {c1}
  Auditor = {c1}
  MayRevoke = {}
  MaxCalls = 3
INVARIANT RestartKeepsReturned
CHECK_DEADLOCK FALSE
