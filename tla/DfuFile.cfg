SPECIFICATION Spec
CONSTANTS
  Crc <- MCCrc
  Files <- MCFiles
  Fresh <- MCFresh
  Addresses <- MCAddresses
  Ids <- MCIds
  Cuts = {10, 19, 35}
  MaxCalls = 4
CHECK_DEADLOCK FALSE
INVARIANTS
  TypeOK
  PartsFit
  SuffixMeansWhole
  NothingLeftOver
  ReadBack
