SPECIFICATION Spec
CONSTANTS
  Instance = {i1, i2}
  Msg = {m1, m2}
  NoMsg = NoMsg
  Segment <- Segments
  Queue <- OneQueue
  Deployments <- RollingAndFaulty
  Routes <- SentAndSlash
  Payloads <- AllPayloads
  MaxBoots = 3
SYMMETRY Symmetry
INVARIANTS
  UpServesEveryHandler
  TypeOK
  DeletedWasHandled
  OnlyTheNamedHandler
PROPERTIES
  NothingStartsAfterStop
CHECK_DEADLOCK FALSE
