SPECIFICATION FlowSpec
CONSTANTS
  DefaultLimit = 8
  CounterModulus = 2
  NPins = 2
  Owned = {0, 1}
  OpenDrain = {0}
  Width = 2
  MaxContexts = 2
  Images <- MCImages
  Far = 12
  Refused <- FirstEdit
  TooDeep <- FirstEdit
  MaxRevisions = 1
  MaxCampaigns = 2
  Content <- Candidates
  Netlists <- SmallNetlists
  Sums = {"good", "none"}
  Arguments <- CommandLines
  Controls <- SmallCases
  Blindness = {"nothing", "gold0", "clock"}
  MaxChecks = 2
  MaxToolFaults = 1
  MaxRewrites = 1
  Runs = {"r1", "r2"}
  Shells = {"a", "b"}
  Matrix <- TwoShells
  Flags = {""}
  MaxJobs = 2
  MaxEdits = 1
  MaxFaults = 1
  Budgets = {4, 5, 7}
  Sizes <- OneSize
INVARIANTS Tracked CertifiedIsProved EqPassProved OneClock CapHolds RunsOnce
PROPERTIES PeriodsHold ContractsHold
CHECK_DEADLOCK FALSE
