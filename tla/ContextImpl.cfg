SPECIFICATION FairSpec
CONSTANTS
  Threads = {t1, t2}
  NoThread = NoThread
  Handlers = {h1}
  Empty = Empty
  Levels <- MCLevels
  Calls <- MCCalls
  MaxCalls = 2
INVARIANTS
  TypeOK
  LockBalance
  OneContext
  DebugAgrees
PROPERTIES
  NotReplacedInUse
  Returns
CHECK_DEADLOCK FALSE
