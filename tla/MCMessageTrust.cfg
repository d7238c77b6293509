SPECIFICATION Spec
CONSTANTS
  post = post
  phone = phone
  b1 = b1
  b2 = b2
  b3 = b3
  group = group
  Device = {post, phone}
  Distress = {post}
  KeysOf <- MCKeysOf
  ValidUntil <- MCValidUntil
  BootId = {b1, b2, b3}
  Forgetful = {phone}
  Revocable = {phone}
  Ttl = 0
  MaxTime = 1
  MaxSequence = 1
  MaxSent = 3
  MaxLives = 2
SYMMETRY MCSymmetry
CHECK_DEADLOCK FALSE
INVARIANTS AcceptanceAdvances ReplayIsBounded LossIsExplained
