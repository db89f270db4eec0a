SPECIFICATION Spec
CONSTANTS
  Customers = {a, b}
  Programs = {p}
  Evaluators = {e1, e2}
  Terms <- EditableTerms
  UseLimits <- Unlimited
  Amounts <- OneUnit
  Corrections <- NoCorrections
  MaxDeposit = 2
  MaxPending = 1
  MaxFailures = 1
  None = None
SYMMETRY Symmetry
INVARIANTS TypeOK PaidIffRewarded BonusBalanceMatchesLedger UsesMatchRedemptions
PROPERTIES SettledIsFinal PaysOnce
CHECK_DEADLOCK FALSE
