SPECIFICATION Spec
CONSTANTS
  Env <- BothEnvironments
  First = 13
  MaxMissing = 0
  MaxStored = 2
  MaxFailures = 0
PROPERTIES
  UploadedStaysInItsEnvironment
CHECK_DEADLOCK FALSE
