SPECIFICATION FairSpec
CONSTANTS
  Customers = {a, b}
  Programs = {p}
  Evaluators = {e1}
  Terms <- ShareTerms
  UseLimits <- OneUse
  Amounts <- Units
  Corrections <- OneUnit
  MaxDeposit = 2
  MaxPending = 1
  MaxFailures = 0
  None = None
PROPERTIES QualifiedIsSettled
CHECK_DEADLOCK FALSE
