SPECIFICATION Spec
CONSTANTS
  Threads = {d1, d2}
  TeamThreads = {d2}
  Staff = {v1, v2}
  Customer = Customer
  Messages = {m1, m2}
  Requests = {q1, q2}
  PageSize = 1
  MaxClock = 5
  None = None
SYMMETRY Symmetry
INVARIANTS CountMatchesThread ReadIsShown InboxAgrees
CHECK_DEADLOCK FALSE
