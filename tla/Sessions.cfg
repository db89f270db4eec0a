SPECIFICATION Spec
CONSTANTS
  Requests = {q1, q2}
  Passwords = {p1, p2}
  MaxSessions = 2
  None = None
SYMMETRY Symmetry
INVARIANTS SurvivorsOverlapped
CHECK_DEADLOCK FALSE
