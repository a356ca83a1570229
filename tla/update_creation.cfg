SPECIFICATION Spec
CONSTANTS
  s1 = s1
  s2 = s2
  h1 = h1
  h2 = h2
  h3 = h3
  Request = {r1}
  Subscription <- TwoSubscriptions
  HkRequest <- ThreeRequests
  Subscribed <- SubscribedOnes
  Existing <- NewSubscription
  NoItem = NoItem
  Endpoints <- Creations
  MaxCrashes = 0
INVARIANTS
  CreationSavesNewValue
CHECK_DEADLOCK FALSE
