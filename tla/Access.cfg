SPECIFICATION AccessSpec
SYMMETRY Symmetry
CONSTANTS
  Users = {u1}
  Managers = {u1}
  KeyUsers = {u1}
  Verified = {}
  Slots = {r1, r2}
  Nobody = Nobody
  Root = root
  Browsers = {b1, b2}
  Sessions = {s1, s2}
  Disguises = {d1}
  MaxGrants = 1
  Admin = admin
  Services = {x1}
  MaxRows = 2
  MaxKeys = 1
  Author = author
  Owner = owner
  Moderator = moderator
  PageSize = 1
  PreviewSize = 1
  None = none
INVARIANTS
  OthersLetYouIn
  ThreadsAreRightlyShown
PROPERTIES
  ActsForWhoSignedIn
  RevokedForCause
