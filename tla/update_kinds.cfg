SPECIFICATION FairSpec
CONSTANTS
  s1 = s1
  s2 = s2
  h1 = h1
  h2 = h2
  h3 = h3
  Request = {r1, r2}
  Subscription <- TwoSubscriptions
  HkRequest <- ThreeRequests
  Subscribed <- SubscribedOnes
  Existing <- ExistingOnes
  NoItem = NoItem
  Endpoints <- AllKinds
  MaxCrashes = 1
INVARIANTS
  TypeOK
  ChangedIsLogged
  PendingExplained
  ClosedRowBracketsTheWrite
  OnlyUnloggedUpdatesEndTheProcess
PROPERTIES
  KeepsLog
  AnsweredIsClosed
CHECK_DEADLOCK FALSE
