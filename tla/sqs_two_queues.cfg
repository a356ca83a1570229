SPECIFICATION ScheduledSpec
CONSTANTS
  Instance = {i1}
  Msg = {m1, m2}
  NoMsg = NoMsg
  Segment <- Segments
  Queue <- BothQueues
  Deployments <- TwoQueues
  Routes <- QueueRoutes
  Payloads <- ScheduledPayloads
  MaxBoots = 2
  ScheduleName = {n1}
  MinutesAfter <- SomeMinutes
  SpecificTimes <- SomeTimes
  SeoulOffset = 1
  ServerOffset = 0
  TargetQueue <- Orders
  MaxTime = 2
INVARIANTS
  ScheduleTypeOK
  OverdueIsExcused
PROPERTIES
  KeepsPromise
  NeverEarly
  TakenIsSent
CHECK_DEADLOCK FALSE
