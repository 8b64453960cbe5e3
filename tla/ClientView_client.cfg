SPECIFICATION Spec
CONSTANTS
  None = None
  ReplayMax = 1
  MaxEdits = 2
  MaxChanges = 1
  MaxDrops = 1
  MaxFails = 1
INVARIANT CaughtUpIsCurrent
INVARIANT EditLands
INVARIANT DeletedStaysGone
CHECK_DEADLOCK FALSE
