SPECIFICATION FairSpec
CONSTANTS
    c1 = c1
    c2 = c2
    Call <- SmallCall
    Channels = {"ncpSms", "nhnSms", "ncpAlimtalk", "slackMrD", "slack"}
    retryCount = 1
INVARIANTS
  TypeOK
  JobsAccounted
  CancelHolds
  SlackInOrder
PROPERTIES
  Settles
CHECK_DEADLOCK FALSE
