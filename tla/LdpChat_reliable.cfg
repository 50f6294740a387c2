SPECIFICATION Spec
CONSTANTS
  Client = Client
  Server = Server
  MaxPackets <- Monologue
  WindowCapacity = 2
  QueueCapacity = 1
  SocketSize = 3
  MaxFaults = 1
  SetUps <- Smooth
  Started <- Endpoints
  ServerWaits = FALSE
PROPERTY Reliable
