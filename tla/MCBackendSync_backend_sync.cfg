SPECIFICATION FairSpec
CONSTANTS
  i1 = i1
  i2 = i2
  s1 = s1
  s2 = s2
  p1 = p1
  p2 = p2
  p3 = p3
  n1 = n1
  n2 = n2
  None = None
  DefaultSet = DefaultSet
  Ingress = {i1, i2}
  Service = {s1, s2}
  Pod = {p1, p2, p3}
  Node = {n1, n2}
  Local = {s1}
  MaxUid = 2
  ServiceOf <- MCServiceOf
  PodService <- MCPodService
  NodeOf <- MCNodeOf
  Instances <- MCInstances
INVARIANTS
  TypeOK
PROPERTIES
  ReadyWasServed
  BackendsFollow
  DefaultFollows
  GatesAnswered
\* At rest with the bounds used up, nothing is left to happen.
CHECK_DEADLOCK FALSE
