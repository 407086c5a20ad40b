SPECIFICATION Spec
CONSTANTS
  Handlers = {h1}
  MaxSteers = 1
  NativeAnswers = TRUE
  Faults = FALSE
PROPERTIES
  StopIsNotFailure
CHECK_DEADLOCK FALSE
