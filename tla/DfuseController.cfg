SPECIFICATION FairSpec
CONSTANTS
  Jobs <- MCJobs
  PageSize = 8
  ImageNumbers = 4
  AddressSpace = 16777216
INVARIANTS
  TypeOK
  ErasedFirst
  RememberedPage
  LeavesComplete
PROPERTIES
  ImplementsFlash
  NeverRefused
  MapAsNamed
  Terminates
CHECK_DEADLOCK FALSE
