SPECIFICATION FairSpec
CONSTANTS
  b1 = b1
  b2 = b2
  Bindings = {b1, b2}
  Ports = {1}
  IPs = {1, 2}
  MaxIds = 5
  Foreign = {1}
  Retained = {b2}
  Scenarios <- MCScenarios
INVARIANTS
  TypeOK
  HeldIsAllocated
  OneHolder
  NoLeak
  
  BoundIsServed
PROPERTIES
  DeletedByOwner
  PodsServed
  PodsForgotten
CHECK_DEADLOCK FALSE
