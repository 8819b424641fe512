CONSTANTS
  Base = 7
  EOCD_SIG <- MCEocdSig
  CD_HEADER_SIG <- MCCdSig
  LOCAL_HEADER_SIG <- MCLocalSig
  DATA_DESCRIPTOR_SIG <- MCDescriptorSig
  ZIP_MANIFEST_PATH <- MCManifestPath
  NonUtf8Names <- MCNonUtf8
  DotNames <- MCDots
  Crc32 <- MCCrc32
  Inputs <- MCInputs
  Stores <- MCStores
  FileNames <- MCFileNames
SPECIFICATION Spec
INVARIANTS
  ByteTypeOK
  HashedOnce
  AbsenceIsNoError
PROPERTIES
  CellsAreFaithful
  MembersKeepBytes
