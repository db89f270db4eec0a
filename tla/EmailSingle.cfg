SPECIFICATION FairSpec
CONSTANTS
  Campaigns = {m1}
  Customers = {c1, c2}
  Instances = {i1}
  Requests = {q1}
  Outcomes <- ConfirmedOutcomes
  BatchSize = 2
  OptOuts = {c1}
  MaxFailures = 2
  None = None
INVARIANTS OneCopyPlusCrashes CountersMatchRows FinishedIsDone
PROPERTIES SentIsFinal CancelledStays QueuedIsFinished
CHECK_DEADLOCK FALSE
