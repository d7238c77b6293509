SPECIFICATION Spec
CONSTANTS
  Input <- VaultInputs
  Client = {c1}
  Auditor = {}
  MayRevoke = {}
  MaxCalls = 2
INVARIANT NoUnitIsRefused
CHECK_DEADLOCK FALSE
