SPECIFICATION FairSpec
CONSTANTS
  Jobs <- MCJobs
  PageSize = 3
  BlockNums = 2
INVARIANTS
  TypeOK
  Delivery
  BlockNumbered
  BlockFits
PROPERTIES
  ImplementsStream
  NeverRefused
  ProgressMonotone
  Terminates
CHECK_DEADLOCK FALSE
