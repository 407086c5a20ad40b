SPECIFICATION FairSpec
CONSTANTS
  Handlers = {h1, h2}
  MaxSteers = 3
  NativeAnswers = FALSE
  Faults = TRUE
INVARIANTS
  AnswersSound
PROPERTIES
  
  
  ImplementsLifecycle
  ControlTakesEffect
CHECK_DEADLOCK FALSE
