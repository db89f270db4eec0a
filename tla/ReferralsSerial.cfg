SPECIFICATION Spec
CONSTANTS
  Customers = {a, b, c}
  Programs = {p}
  Evaluators = {e1}
  Terms <- CappedTerms
  UseLimits <- Unlimited
  Amounts <- OneUnit
  Corrections <- NoCorrections
  MaxDeposit = 1
  MaxPending = 1
  MaxFailures = 0
  None = None
SYMMETRY Symmetry
INVARIANTS NoReferralCycle CapRespected
CHECK_DEADLOCK FALSE
