SPECIFICATION Spec
CONSTANTS
  b1 = b1
  b2 = b2
  Bindings = {b1, b2}
  CloudQuota = 2
  Capacity = 1
  MaxLoadBalancers = 2
  Faults = {"restart", "write", "pool", "creation", "load balancer", "binding"}
  MaxFaults = 1
INVARIANTS
  TypeOK
  RequestSeen
  CreatedRecorded
SYMMETRY Symmetry
CHECK_DEADLOCK FALSE
