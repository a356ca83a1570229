SPECIFICATION FairSpec
CONSTANTS
  Instance = {i1, i2}
  Msg = {m1, m2}
  NoMsg = NoMsg
  Segment <- Segments
  Queue <- OneQueue
  Deployments <- Rolling
  Routes <- SentRoute
  Payloads <- ObjectsAndText
  MaxBoots = 2
PROPERTIES
  ServedIsDeleted
  StopDrains
CHECK_DEADLOCK FALSE
