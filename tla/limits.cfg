CONSTANTS
  U16Max = 4
  U32Max = 12
  DescriptorSig = 4
  ManifestPath = "manifest"
  Names <- MCNames
  NonUtf8Names <- MCNonUtf8
  DotNames <- MCDots
  Payloads <- MCPayloads
  CdHeaderLen <- MCCdHeaderLen
  Crc <- MCCrc
  Inputs <- RebuildInputs
SPECIFICATION RebuildSpec
INVARIANTS
  RebuildTypeOK
  OffsetsLocateCopies
PROPERTIES
  CallsAreAtomic
  CallsReturn
  EocdIsExact
  StaysEditable
