SPECIFICATION FairSpec
CONSTANTS
  Request = {r1, r2}
  MaxCrashes = 2
INVARIANTS
  TypeOK
  BehindOnlyByRaceOrCrash
PROPERTIES
  KeepsLog
  AnsweredIsRecorded
CHECK_DEADLOCK FALSE
