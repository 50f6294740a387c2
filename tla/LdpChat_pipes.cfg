SPECIFICATION Spec
CONSTANTS
  Client = Client
  Server = Server
  MaxPackets <- Dialogue
  WindowCapacity = 2
  QueueCapacity = 1
  SocketSize = 3
  MaxFaults = 0
  SetUps <- Smooth
  Started <- Endpoints
  ServerWaits = TRUE
PROPERTIES ClientPipe ServerPipe
