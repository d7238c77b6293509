SPECIFICATION FairSpec
CONSTANTS
  Input <- KeyInputs
  Client = {c1, c2}
  Auditor = {c2}
  MayRevoke = {c1}
  MaxCalls = 4
INVARIANTS
  OneDisposition
  ReturnedIsDurable
  ReconcileErrsByCommits
PROPERTIES
  StoreKeepsLog
  IngestEnds
CHECK_DEADLOCK FALSE
