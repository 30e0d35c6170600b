CONSTANTS
  Digits = 1
  MaxInput = 5
SPECIFICATION Spec
INVARIANT OneKeyPerSubscriber
CHECK_DEADLOCK FALSE
