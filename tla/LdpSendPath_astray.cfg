SPECIFICATION Spec
CONSTANTS
  Lengths <- FewLengths
  Capacity = 2
  MaxReads = 1
INVARIANT NoPacketAstray
