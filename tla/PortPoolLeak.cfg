SPECIFICATION Spec
CONSTANTS
  MaxUint16 = 8
  b1 = b1
  b2 = b2
  p1 = p1
  p2 = p2
  l1 = l1
  l2 = l2
  Bindings = {b1, b2}
  Pools = {p1, p2}
  LBs = {l1, l2}
  Members <- MCMembers
  PoolSpec <- PlainPoolSpec
  PortSpec <- PlainPortSpec
  LbsReturn = FALSE
INVARIANT
  NothingAbandoned
CONSTRAINT OneDisturbance
CHECK_DEADLOCK FALSE
