SPECIFICATION FairSpec
CONSTANTS
  Jobs <- OneJob
  PageSize = 3
  BlockNums = 65536
PROPERTY
  NotDoneFromError
CHECK_DEADLOCK FALSE
