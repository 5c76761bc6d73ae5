SPECIFICATION FairSpec
CONSTANTS
  l1 = l1
  l2 = l2
  o1 = o1
  o2 = o2
  o3 = o3
  t1 = t1
  None = None
  Calls <- MCCalls
  LBs = {l1, l2}
  Ports = {1, 2, 3, 4}
  Old = {o1, o2, o3}
  Targets = {t1}
  Kind <- MCKind
  Lb <- MCLb
  Port <- MCPort
  Listener <- MCListener
  Target <- MCTarget
  Group <- MCGroup
  Mixes <- MCMixes
  Capacity <- One
  MaxAccumulatedTask = 2
  MaxTaskOneBatch <- Two
  MaxPortsPerCreate = 1
  InOperatingRetryMax = 1
INVARIANTS
  TypeOK
  Placed
  OneWriter
PROPERTIES
  ImplementsCalls
  EveryCallReturns
CHECK_DEADLOCK FALSE
