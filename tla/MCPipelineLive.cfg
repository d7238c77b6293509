SPECIFICATION FairSpec
CONSTANTS
  MinEvidenceQuality = 5
  EvidenceLookback = 3
  EvidenceLimit = 3
  Worker = {w1}
  LateWorker = {}
  Observation <- ClashObservations
  FaultKinds = {"api-link"}
  MaxRequests = 3
  MaxQueued = 6
  MaxFaults = 1
INVARIANT AcceptedIsNotLost
PROPERTY QueuedIsNoticed
CHECK_DEADLOCK FALSE
