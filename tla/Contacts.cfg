SPECIFICATION EitherSpec
CONSTRAINT Load
SYMMETRY Symmetry
CONSTANTS
  Threads = {t1, t2}
  Users = {rep, u1}
  ServiceUsers = {rep}
  Requests = {r1, r2}
  MaxUnanswered = 2
  Nobody = nobody
  Ids = {s1, s2}
  Moderators = {adm, mod}
  Admins = {adm}
  SelfAppliers = {mod}
  Authors = {mod}
  Bot = bot
  Entries = {e1}
  Lists = {"attributes"}
INVARIANTS
  OneClosingReply
  SecondReviewer
PROPERTIES
  DisputeEndsWithItsReport
  DecidesOnce
CHECK_DEADLOCK FALSE
