SPECIFICATION FairSpinSpec
CONSTANTS
  Customers = {c1}
  Criteria = {k1}
  LastDay = 2
  Thresholds = {1}
  Events = {v1}
  Calls = {q1, q2}
  NoRow = NoRow
INVARIANTS SpinTypeOK WinnersWereListed
PROPERTIES EventFollowsWindow
