SPECIFICATION FairSpec
CONSTANTS
  Jobs <- NoMultiplierJobs
  PageSize = 64
  ImageNumbers = 4
  AddressSpace = 16777216
PROPERTY
  MapAsNamed
CHECK_DEADLOCK FALSE
