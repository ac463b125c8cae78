SPECIFICATION Spec
CHECK_DEADLOCK FALSE
CONSTANTS
  Downloads = {d1}
  Titles = {t1}
  Cap = 1
  MaxCrashes = 0
  None = None
PROPERTY CancelledIsNotImported
