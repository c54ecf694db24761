\* Trials of one track, with a configuration that runs and may be imported at any
\* time, and one that is refused; one fault of the cluster and one stop.
SPECIFICATION Spec
CONSTANTS
  k1 = k1
  k2 = k2
  k3 = k3
  Keys = {k1, k2}
  BadKeys = {k2}
  Legacy = {k1}
  MaxTrials = 3
  NJobs = 2
  MaxPromos = 0
  Slots = 2
  MAX_ATTEMPTS = 2
  MAX_PROMOS_IN_FLIGHT = 1
  BUDGET_RUNS = 4
  PROMO_RESERVE = 1
  SIGNOFF = {"eq"}
  CheckerRuns <- MCCheckerRuns
  MaxFaults = 1
  MaxCrashes = 1
ACTION_CONSTRAINT Observed
INVARIANTS
  ResultOfItsJob
  StudyAgrees
  ImportedOnce
  OneRunUnlessStopped
CHECK_DEADLOCK FALSE
