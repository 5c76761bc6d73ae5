SPECIFICATION Spec
CONSTANTS
  b1 = b1
  b2 = b2
  Bindings = {b1, b2}
  CloudQuota = 2
  Capacity = 1
  MaxLoadBalancers = 1
  Faults = {}
  MaxFaults = 0
INVARIANT
  WithinLimit
CHECK_DEADLOCK FALSE
