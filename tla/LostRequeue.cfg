SPECIFICATION Spec
CONSTANTS
  Attributes = {a1}
  Points <- MCPoints
  Listing <- MCListing
  Changes <- MCChanges
  StatusChoices = {"VERIFICATION_FAILED"}
  Admins = {}
  Worker = worker
  NoOne = none
INVARIANTS
  PointsReachScores
CHECK_DEADLOCK FALSE
