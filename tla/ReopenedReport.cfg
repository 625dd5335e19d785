SPECIFICATION Spec
SYMMETRY Symmetry
CONSTANTS
  Threads = {t1, t2}
  Users = {rep, u1}
  ServiceUsers = {rep}
  Requests = {r1, r2}
  MaxUnanswered = 3
  Nobody = nobody
INVARIANT
  ClosedReportsStayClosed
CHECK_DEADLOCK FALSE
