SPECIFICATION Spec
CONSTANTS
  MinEvidenceQuality = 5
  EvidenceLookback = 3
  EvidenceLimit = 1
  Worker = {w1}
  LateWorker = {w1}
  Observation <- DepartObservations
  FaultKinds = {}
  MaxRequests = 2
  MaxQueued = 2
  MaxFaults = 0
INVARIANTS
  ResultNeverCollides
  LogReplays
  AcceptedIsNotLost
  NoticeCitesItsOwn
CHECK_DEADLOCK FALSE
