SPECIFICATION Spec
CONSTANTS
  Contents <- TwoContents
  c1 = c1
  c2 = c2
  Capacity = 2
  Nothing = Nothing
  SocketSize = 2
  MaxArrivals = 5
INVARIANTS TypeOK QueueSafe PermitsAccounted InOrder ReceiverStaysUp
PROPERTIES ReceiverReturns PipeSpec
