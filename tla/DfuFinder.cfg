SPECIFICATION FairSpec
CONSTANTS
  Searches <- MCSearches
  Names <- MCNames
INVARIANTS
  TypeOK
  NothingHeld
  FindsAll
  OwnDescriptor
PROPERTY
  Terminates
CHECK_DEADLOCK FALSE
