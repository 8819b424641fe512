CONSTANTS
  U16Max = 3
  U32Max = 99
  DescriptorSig = 4
  ManifestPath = "manifest"
  Names <- MCNames
  NonUtf8Names <- MCNonUtf8
  DotNames <- MCDots
  Payloads <- MCPayloads
  CdHeaderLen <- MCCdHeaderLen
  Crc <- MCCrc
  Inputs <- LimitInputs
SPECIFICATION Spec
PROPERTIES
  EmbedReadsBack
