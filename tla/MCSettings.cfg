SPECIFICATION Spec

CONSTANTS
  MaxEdits = 2
  MaxBoots = 1

PROPERTY OldNameWorks
CHECK_DEADLOCK FALSE
