SPECIFICATION Spec
CONSTANTS
  Lengths <- AllLengths
  Capacity = 2
  MaxReads = 2
INVARIANTS TypeOK DequeSafe PermitsAccounted InOrder
PROPERTIES SendReturns PipeSpec
