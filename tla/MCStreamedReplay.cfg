SPECIFICATION Spec
CONSTANTS
  None = None
  NotText = NotText
  Plan <- Plans
  Model = "model"
CHECK_DEADLOCK FALSE
INVARIANT StreamedMessagesReplay
