SPECIFICATION FairSpec
CONSTANTS
  i1 = i1
  i2 = i2
  w1 = w1
  w2 = w2
  l1 = l1
  l2 = l2
  b1 = b1
  b2 = b2
  Absent = Absent
  NoIngress = NoIngress
  RoutingWorker = RoutingWorker
  Ingress = {i1, i2}
  Worker = {w1}
  Listener = {l1, l2}
  BackendSet = {b1, b2}
  Details = {1}
  Backends = {1}
  Config = {1}
  Specs <- Separate
  MaxChanges = 1
  MaxFaults = 1
  MaxEvents = 1
PROPERTIES
  DeletionCompletes
  PathsRouted
