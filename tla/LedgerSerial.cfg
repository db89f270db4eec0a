SPECIFICATION Spec
CONSTANTS
  Customers = {c1}
  Entries = {t1, t2, t3, t4}
  Requests = {q1}
  Types <- DebitsAndCredits
  Amounts <- Units
  None = None
SYMMETRY Symmetry
INVARIANTS CorrectionsWithinParent NoOrphanCorrection FullyCorrectedIsReversed BalanceAgreesForDeposits
PROPERTIES HistoryKept KeepsBook
CHECK_DEADLOCK FALSE
