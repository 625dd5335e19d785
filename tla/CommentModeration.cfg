SPECIFICATION Spec
SYMMETRY Symmetry
CONSTANTS
  Texts = {detailA, detailB, plain, empty}
  Sensitive = {detailA, detailB}
  plain = plain
  EmptyText = empty
  Redacted <- MCRedacted
  Reporters = {r1}
  MaxEdits = 2
  MaxVersion = 2
INVARIANTS
  PendingNeverInvisible
  
  RedactionSticks
  RestoreReviewsAgain
  ClaimsAreVouchedFor
PROPERTIES
  HumanDecisionStands
  VerdictMatchesText
CHECK_DEADLOCK FALSE
