SPECIFICATION Spec
CONSTANTS
  Request = {r1}
  MaxCrashes = 0
INVARIANTS
  BpAdminIsSaved
CHECK_DEADLOCK FALSE
