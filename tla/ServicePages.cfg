SPECIFICATION PagesSpec
SYMMETRY Symmetry
CONSTANTS
  Slots = {r1, r2}
  Events = {e1}
  Services = {s1, s2}
  CaseService = s1
  MaxIncidents = 3
  Purged = Purged
  Users = {u1}
  Staff = staff
  Exhibits = {v1}
  Images = {}
  Slugs = {a, b}
  Visibilities = {"PUBLIC", "HIDDEN"}
  Patterns = {q1, q2}
  Checks = {p1}
  None = None
  CaseUpdates = {n1}
  MaxCaseStamps = 3
  Bodies = {"order", "words"}
  Findings = {"ORDER_FOUND", "UNABLE_TO_CHECK", "INCONSISTENT"}
  MaxEvidence = 2
  MaxRequests = 2
  MaxTime = 2
  RequestDays = 1
  Gone = Gone
  Authors = {a, b}
  Newcomers = {b}
  Sentiments = {"POSITIVE", "NEGATIVE"}
  MaxPosts = 3
  MinimumVerdictPosts = 1
  MinimumCheckedBasis = 1
  Updates = {u1, u2}
  MaxStamps = 4
  Rows <- MCRows
  Attributes <- MCAttributes
  Days = {0, 20, 400}
  EventKinds = {"WARNING", "INCIDENT"}
  Severities = {"CRITICAL"}
  Overrides = {None}
  Closings = {"FUNDS_LOST"}
  MinVisible = 0
INVARIANTS
  IncidentsAreFiled
  
  EditsSettle
  SqlMirrorsPage
  
  
  AnswersAreShown

  
CHECK_DEADLOCK FALSE
