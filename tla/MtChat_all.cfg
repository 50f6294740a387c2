SPECIFICATION Spec
CONSTANTS
  MaxBuffer = 2
  MaxClients = 3
  MaxTyped = 3
  FirstData <- AnyContents
INVARIANTS TypeOK RingSound WakerAtHand SlotsOpen AllHear
PROPERTY Drains
CHECK_DEADLOCK FALSE
