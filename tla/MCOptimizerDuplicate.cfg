\* Two numbers of the study with one configuration, and a driver stopped between
\* the two events that record the second as a duplicate of the first.
SPECIFICATION Spec
CONSTANTS
  k1 = k1
  k2 = k2
  k3 = k3
  Keys = {k1}
  BadKeys = {}
  Legacy = {}
  MaxTrials = 2
  NJobs = 2
  MaxPromos = 0
  Slots = 2
  MAX_ATTEMPTS = 1
  MAX_PROMOS_IN_FLIGHT = 1
  BUDGET_RUNS = 4
  PROMO_RESERVE = 0
  SIGNOFF = {"eq"}
  CheckerRuns <- MCCheckerRuns
  MaxFaults = 0
  MaxCrashes = 1
INVARIANT OneRunPerConfig
CHECK_DEADLOCK FALSE
