CONSTANTS
  Width = 4
  ByteBits = 2
  Poly <- MCPoly
  Pairs <- MCPairs
SPECIFICATION Spec
INVARIANTS
  IsRemainder
  BurstsDetected
CHECK_DEADLOCK FALSE
