SPECIFICATION Spec
CONSTANTS
  MinEvidenceQuality = 5
  EvidenceLookback = 3
  EvidenceLimit = 3
  Worker = {w1}
  LateWorker = {}
  Observation <- PairObservations
  FaultKinds = {"storage"}
  MaxRequests = 2
  MaxQueued = 2
  MaxFaults = 1
INVARIANT AckedIsAccepted
CHECK_DEADLOCK FALSE
