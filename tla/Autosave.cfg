SPECIFICATION UndoSpec
CONSTANTS
  State = {"blank", "a", "broken"}
  Blank = "blank"
  Broken = "broken"
  NoState = "none"
  Length <- MCLength
  Buffered = {}
  MaxBuffer = 2
  MaxToSave = 2
INVARIANT FileIsState
CHECK_DEADLOCK FALSE
