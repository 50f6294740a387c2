SPECIFICATION Spec
CONSTANTS
  Client = Client
  Server = Server
  MaxPackets <- Talk
  WindowCapacity = 2
  QueueCapacity = 1
  SocketSize = 1
  MaxFaults = 2
  SetUps <- AnyOutcome
  Started <- Nobody
  ServerWaits = FALSE
INVARIANTS TypeOK Accounted InOrder OnlyLastByteSlips 
PROPERTY Settles
