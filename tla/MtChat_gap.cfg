SPECIFICATION Spec
CONSTANTS
  MaxBuffer = 2
  MaxClients = 2
  MaxTyped = 3
  FirstData <- Zero
INVARIANT AllReached
CHECK_DEADLOCK FALSE
