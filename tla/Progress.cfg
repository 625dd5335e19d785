SPECIFICATION Spec
CONSTANTS
  Attributes = {a1}
  StatusChoices = {"VERIFICATION_FAILED"}
  Admins = {m1, m2}
  Worker = worker
  NoOne = none
  Files = {f1, f2}
  Broken = {f1}
  Cleanups = {c1, c2}
  Take = 1
  MaxAttempts = 3
  MaxFaults = 2
INVARIANTS
  FilesFollowProof
PROPERTIES
  QueueDrains
  NoFileIsHeldBack
CHECK_DEADLOCK FALSE
