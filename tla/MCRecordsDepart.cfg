SPECIFICATION RecordsSpec
CONSTANTS
  Client = {c1, c2}
  Input <- MCInput
  ReadCall <- MCReadCall
  DeleteCall <- MCDeleteCall
  Retention = 2
  AcceptedAt = 1
  MaxCalls = 7
  SosEvent <- SosEvents
  MaxArrived = 4
  Cells = 1
  ConflictCount = 1
  Extra <- Claims
  MaxDelivered = 5
  Source <- Seen
  Authorization <- Authorizations
  Material <- Materials
  Time = {0, 2, 3}
  MaxBreakGlass = 2
  MaxLogged = 3
  Line <- RfLines
  Cases = {"c1", "c2", "c3"}
  OwnFleet = {"own"}
  Companions <- DeclaredCompanions
  ProfileOf <- Profiles
  Window = 3
  Modalities <- Signals
  CsiCases <- Rooms
  MaxLines = 4
  Node <- Nodes
  Zone = {"z1", "z2"}
  ZoneOf <- ZoneMap
  Nominal <- QualityOf
  Strikes <- EveryStrike
  Recorded <- Recordings
  Foreign <- Elsewhere
  Received = 5
  MaxBundle = 2
  MaxLog = 3
INVARIANTS
  PassedIsDeterministic
  ExpiredPublishesNothing
  LossDegradesCoverage
  EndsWithReceipt
CHECK_DEADLOCK FALSE
