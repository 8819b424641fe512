CONSTANTS
  U16Max = 9
  U32Max = 99
  DescriptorSig = 4
  ManifestPath = "manifest"
  Names <- MCNames
  NonUtf8Names <- MCNonUtf8
  DotNames <- MCDots
  Payloads <- SigningPayloads
  CdHeaderLen <- MCCdHeaderLen
  Crc <- MCCrc
  Inputs <- SigningInputs
  Zero <- MCZero
  Sizes <- MCSizes
  Stores <- MCStores
  Edits <- MCEdits
  MaxEdits = 1
SPECIFICATION SigningSpec
INVARIANTS
  SigningTypeOK
  SignedStaysBindable
  LateHashValidates
  ChangesNoticed
PROPERTY SigningCompletes
CHECK_DEADLOCK FALSE
