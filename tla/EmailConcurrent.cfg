SPECIFICATION Spec
CONSTANTS
  Campaigns = {m1}
  Customers = {c1, c2}
  Instances = {i1, i2}
  Requests = {q1}
  Outcomes <- AllOutcomes
  BatchSize = 1
  OptOuts = {}
  MaxFailures = 1
  None = None
SYMMETRY Symmetry
INVARIANTS TypeOK CopiesWithinAttempts
CHECK_DEADLOCK FALSE
