SPECIFICATION FairSpec
CONSTANTS
  c1 = c1
  c2 = c2
  Component = {c1, c2}
  Wrappers <- SomeWrappers
  Caller = {k1, k2}
  Calls <- SomeCalls
INVARIANTS
  BuiltIsFound
  SameForAll
PROPERTIES
  CallsComeBack
CHECK_DEADLOCK FALSE
