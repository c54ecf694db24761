\* One configuration from its trial to a verdict.
SPECIFICATION FairSpec
CONSTANTS
  k1 = k1
  k2 = k2
  k3 = k3
  Keys = {k1}
  BadKeys = {}
  Legacy = {}
  MaxTrials = 1
  NJobs = 7
  MaxPromos = 1
  Slots = 1
  MAX_ATTEMPTS = 2
  MAX_PROMOS_IN_FLIGHT = 1
  BUDGET_RUNS = 2
  PROMO_RESERVE = 1
  SIGNOFF = {"gl", "eq"}
  CheckerRuns <- MCCheckerRuns
  MaxFaults = 1
  MaxCrashes = 1
ACTION_CONSTRAINT Observed
INVARIANTS
  PassIsSignedOff
PROPERTIES
  VerdictFinal
  SubmittedEnds
CHECK_DEADLOCK FALSE
