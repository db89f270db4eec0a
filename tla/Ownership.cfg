SPECIFICATION Spec
CONSTANTS
  Managers = {m1, m2}
  Stores = {s1}
  Customers = {c1}
  Requests = {q1, q2}
  None = None
SYMMETRY Symmetry
INVARIANTS ManagerFollowsStore NoOrphanStore
PROPERTIES ReactivatedOnPurpose
CHECK_DEADLOCK FALSE
