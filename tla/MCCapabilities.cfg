CONSTANTS
  PlanNames = {p1}
  PlanKeys = {k1, k2, k3}
  ReviewIds = {x1, x2}
  Contents <- MCContents
  PlanMaxVersion = 4
  PlanMaxSent = 4
  PlanMaxBoots = 1
  NoReceipt = NoReceipt
  Reminders = {r1}
  ReminderKeys = {k1, k2, k3}
  Runs = {x1, x2}
  Cooldown = 2
  ReviewAt = 1
  DeliveryBudget = 2
  MaxClock = 3
  MaxRuleVersion = 3
  NoRule = NoRule
  Stocks = {x1, x2}
  Groups = {g1}
  ImportKeys = {ik1, ik2}
  SuggestionKeys = {sk1}
  Sources = {i1, i2}
  ParsedRows <- MCParsedRows
  MaxRows = 2
  MaxClassified = 2
  MaxSnapshots = 1
  NoStock = NoStock
  NoImport = NoImport
  Drafts <- MCDrafts
  PublishKeys = {q1}
  MaxStrategyVersion = 1
  NoDraft = NoDraft
  Models = {"m1", "m2"}
  Tasks = {"t"}
  Securities = {1, 2}
  Inputs <- MCInputs
  Candidates <- MCCandidates
  Output <- MCOutput
  ScanLimit = 1
  InferenceLimit = 0
  MinProbability = 1
  Weight = 2
  MinQuality = 2
  MaxCalibration = 1
  Baseline <- MCBaseline
  MaxScans = 1
  MaxRuns = 2
  MaxDecisions = 1
  Callers = {k1, k2, k3}
  Endpoints = 2
  MaxAttempts = 1
  ConcurrencyLimit = 2
  Budget = 2
  MaxCost = 2
  MaxRepairs = 1
  Nodes = {x1, x2}
  NodeMaxAttempts = 2
  MaxEffects = 4
  Owners = {"u", "v"}
  ToolKeys = {"k"}
  ToolCallers = {x1, x2}
  ToolRequests <- MCToolRequests
  MaxToolEffects = 3
  NoOwner = NoOwner
  NoKey = NoKey
  NoRequest = NoRequest
  EvidenceInputs <- MCEvidenceInputs
  EvidenceTypes = {"quote", "news"}
  Providers = {"p1", "p2", "p3"}
  Sections = {"risks", "fundamentals"}
  Thresholds <- MCThresholds
  AllowedProviders <- MCAllowed
  RequireFresh = {"quote"}
  Tolerances <- MCTolerances
  RequiredSections = {"fundamentals"}
  ConfidenceLimits <- MCLimits
  ResearchClaims <- MCClaims
  MaxClaims = 2
  MaxEvidence = 3
  MaxArtifacts = 1
  Unknown = Unknown
SPECIFICATION Spec
SYMMETRY Symmetry
CHECK_DEADLOCK FALSE
INVARIANTS
  CapabilitiesTypeOK
  OneCommandPerVersion
  ActivatedAsApproved
  ReviewsAgree
  AlertsSpaced
  OneRunPerTrigger
  MembersAreImports
  RunsAgree
  BudgetHeld
  SameResult
  WritesAuthorised
  ClaimsSupported
