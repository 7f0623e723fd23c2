SPECIFICATION FairSpec
CONSTANTS
  Setups <- MCSetups
  Jobs <- MCJobs
  PageSize = 4
  BlockNums = 2
INVARIANTS
  TypeOK
  HandleDiscipline
  HandsOver
  Standing
  ControllerSound
  SuccessDelivers
  RightUnit
PROPERTY
  Terminates
CHECK_DEADLOCK FALSE
