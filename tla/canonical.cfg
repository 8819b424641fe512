CONSTANTS
  U16Max = 9
  U32Max = 99
  DescriptorSig = 4
  ManifestPath = "manifest"
  Names <- MCNames
  NonUtf8Names <- MCNonUtf8
  DotNames <- MCDots
  Payloads <- MCPayloads
  CdHeaderLen <- MCCdHeaderLen
  Crc <- MCCrc
  Inputs <- CanonicalInputs
SPECIFICATION Spec
INVARIANTS
  TypeOK
  EmbedIsReversible
  CommentsTolerated
PROPERTIES
  KeepsPromise
  FillKeepsDirectoryHash
