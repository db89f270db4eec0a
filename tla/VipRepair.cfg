SPECIFICATION FairSpec
CONSTANTS
  Customers = {c1}
  Criteria = {k1}
  LastDay = 2
  Thresholds = {1}
  Movements <- Deposits
  MaxMetric = 1
  Evaluators = {e1}
  Requests = {q1}
  Nightly = n
  MaxFailures = 1
  None = None
INVARIANTS TypeOK ListFollowsLedger
PROPERTIES NightlyRepairs KeepsList
