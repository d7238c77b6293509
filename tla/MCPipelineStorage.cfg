SPECIFICATION Spec
CONSTANTS
  MinEvidenceQuality = 5
  EvidenceLookback = 3
  EvidenceLimit = 1
  Worker = {w1, w2}
  LateWorker = {}
  Observation <- MixedObservations
  FaultKinds = {"api-crash", "broker", "storage"}
  MaxRequests = 2
  MaxQueued = 1
  MaxFaults = 1
SYMMETRY Symmetry
INVARIANTS
  IInv
  IndicatorNeverCollides
PROPERTY LedgerSpec
CHECK_DEADLOCK FALSE
