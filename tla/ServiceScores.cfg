SPECIFICATION Spec
SYMMETRY Symmetry
CONSTANTS
  Attributes = {a1, a2}
  Points <- MCPoints
  Listing <- MCListing
  Changes <- MCChanges
  StatusChoices = {"VERIFICATION_FAILED"}
  Admins = {m1, m2}
  Worker = worker
  NoOne = none
INVARIANTS
  ScoreIsCurrent
CHECK_DEADLOCK FALSE
