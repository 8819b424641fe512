CONSTANTS
  U16Max = 3
  U32Max = 5
  EocdMinLen = 2
  CdHeaderFixedLen = 1
  Lengths <- MCLengths
SPECIFICATION Spec
INVARIANTS
  TypeOK
  ScanIsExact
  HeadersInDirectory
  WindowsDisjoint
PROPERTY ReachesVerdict
CHECK_DEADLOCK FALSE
