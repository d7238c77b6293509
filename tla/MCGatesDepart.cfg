SPECIFICATION GatesSpec
CONSTANTS
  Runner = {"all", "p0-all"}
  Plan <- MCPlan
  MaxRuns = 2
  MaxEdits = 2
  Sets = {"core", "addon"}
  Version = {"v1", "v2"}
  Targets <- Trees
  MaxSchemaEdits = 3
  Priority = {0, 1}
  MaxTraffic = 4
  Fault = {"mobility", "carry"}
  Penalty = {0, 1, 500}
  Success = {10000, 7200, 400}
  Slope = {0, 9}
  Scale = {12, 40, 100}
  CampaignGates <- Components
  FileOf <- CampaignFile
  Read <- Projected
  DomainOf <- CampaignDomain
  MaxCampaignEdits = 2
  AssetCategory = {"radio", "battery"}
  Firmware = {"radio"}
  Authorization <- Records
  Manifest <- Manifests
  MaxRecords = 2
  MaxFiles = 2
  PhysicalTask = {1, 2}
  SpecTask = {1, 2}
  Residual = {"r1", "r2"}
  Functionality = {"f1"}
  Category = {"c1", "c2", "c3"}
  Name = {"c1", "c2", "c3", "c4"}
  MinResiduals = 1
  MinCategories = 2
  MaxDocumentEdits = 4
INVARIANTS
  EntriesAreTrue
  EverySosLeads
  PassRanOnFrozen
  DegradationIsNoFailure
  NeverCrashes
  ShortlistIsGoverned
  LaneNeverBlocks
CHECK_DEADLOCK FALSE
