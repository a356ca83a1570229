SPECIFICATION Spec
CONSTANTS
  Call = {c1, c2, c3}
  Gateways = {"portone", "toss"}
  Payment = {p1}
  Amounts = {1, 2}
SYMMETRY Symmetry
INVARIANTS
  TypeOK
  RefundsBracketed
PROPERTIES
  KeepsOutcome
CHECK_DEADLOCK FALSE
