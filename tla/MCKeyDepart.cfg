SPECIFICATION Spec
CONSTANTS
  k1 = k1
  k2 = k2
  k3 = k3
  KeyId <- Keys
  FirstKey = k1
  MaxEpoch = 3
  MaxEnvelopes = 1
  Starts = {"stale"}
SYMMETRY Symmetry
INVARIANTS
  RotationIsNotRefused
  NoRollback
CHECK_DEADLOCK FALSE
