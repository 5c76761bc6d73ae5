SPECIFICATION Spec
CONSTANTS
  b1 = b1
  b2 = b2
  Bindings = {b1, b2}
  CloudQuota = 2
  Capacity = 1
  MaxLoadBalancers = 2
  Faults = {"restart"}
  MaxFaults = 1
INVARIANT
  Exclusive
CHECK_DEADLOCK FALSE
