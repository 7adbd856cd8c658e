SPECIFICATION Spec
CONSTANTS
  i1 = i1
  i2 = i2
  w1 = w1
  w2 = w2
  l1 = l1
  l2 = l2
  b1 = b1
  b2 = b2
  Absent = Absent
  NoIngress = NoIngress
  RoutingWorker = RoutingWorker
  Ingress = {i1, i2}
  Worker = {w1, w2}
  Listener = {l1}
  BackendSet = {b1}
  Details = {1}
  Backends = {1}
  Config = {1}
  Specs <- Shared
  MaxChanges = 2
  MaxFaults = 0
  MaxEvents = 2
SYMMETRY WorkerSymmetry
INVARIANT
  ServedAtRest
