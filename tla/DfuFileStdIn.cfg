SPECIFICATION Spec
CONSTANTS
  Crc <- MCCrc
  Files <- FewFiles
  Fresh <- MCFresh
  Addresses <- OneAddress
  Ids <- OneId
  Cuts = {0, 10}
  MaxCalls = 3
INVARIANT FileInMemory
CHECK_DEADLOCK FALSE
