SPECIFICATION FairSpec
CONSTANTS
  MaxUint16 = 7
  b1 = b1
  b2 = b2
  p1 = p1
  p2 = p2
  l1 = l1
  l2 = l2
  Bindings = {b1, b2}
  Pools = {p1, p2}
  LBs = {l1, l2}
  Members <- MCMembers
  PoolSpec <- MCPoolSpec
  PortSpec <- EndlessPortSpec
  LbsReturn = FALSE
PROPERTY
  ReconcilesEnd
CONSTRAINT OnlyP2Disturbed
CHECK_DEADLOCK FALSE
