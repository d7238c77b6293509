SPECIFICATION Spec
CONSTANTS
  MinEvidenceQuality = 5
  EvidenceLookback = 3
  EvidenceLimit = 2
  Worker = {w1, w2}
  LateWorker = {w2}
  Observation <- ClashObservations
  FaultKinds = {"api-link", "worker-link", "worker-crash"}
  MaxRequests = 2
  MaxQueued = 2
  MaxFaults = 1
INVARIANTS
  AcceptedOnce
  RowsAreLogged
  NoticeIsDurable
  MeetingPairIsFused
  AckedIsAccepted
CHECK_DEADLOCK FALSE
