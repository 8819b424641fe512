CONSTANTS
  U16Max = 9
  U32Max = 99
  DescriptorSig = 4
  ManifestPath = "manifest"
  Names <- MCNames
  NonUtf8Names <- MCNonUtf8
  DotNames <- MCDots
  Payloads <- TwoPayloads
  CdHeaderLen <- MCCdHeaderLen
  Crc <- MCCrc
  Inputs <- TrailingInputs
SPECIFICATION Spec
PROPERTIES
  EmbedReadsBack
