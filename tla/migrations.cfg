SPECIFICATION Spec
CONSTANTS
  Env <- OneEnvironment
  First = 11
  MaxMissing = 1
  MaxStored = 2
  MaxFailures = 1
INVARIANTS
  TypeOK
  SchemaIsHistory
  RevertApplies
  RunApplies
PROPERTIES
  StoredStaysWhole
CHECK_DEADLOCK FALSE
