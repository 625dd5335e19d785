SPECIFICATION Spec
CONSTANTS
  Tabs = {t1, t2}
  Browsers = {b1, b2}
  MaxForms = 2
PROPERTY
  TakenResultsAreShown
CHECK_DEADLOCK FALSE
