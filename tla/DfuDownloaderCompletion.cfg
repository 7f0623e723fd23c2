SPECIFICATION FairSpec
CONSTANTS
  Setups <- OneSetup
  Jobs <- OneJob
  PageSize = 4
  BlockNums = 65536
INVARIANT
  OneCompletion
CHECK_DEADLOCK FALSE
