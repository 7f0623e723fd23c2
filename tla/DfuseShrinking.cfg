SPECIFICATION FairSpec
CONSTANTS
  Jobs <- ShrinkingJobs
  PageSize = 64
  ImageNumbers = 4
  AddressSpace = 16777216
INVARIANT
  ErasedFirst
CHECK_DEADLOCK FALSE
