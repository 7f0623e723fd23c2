SPECIFICATION FairSpec
CONSTANTS
  Setups <- WrongDevice
  Jobs <- OneJob
  PageSize = 4
  BlockNums = 65536
INVARIANT
  FileIdChecked
CHECK_DEADLOCK FALSE
