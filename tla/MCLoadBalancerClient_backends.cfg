SPECIFICATION Spec
CONSTANTS
  w1 = w1
  w2 = w2
  b1 = b1
  b2 = b2
  l1 = l1
  d1 = d1
  d2 = d2
  e1 = e1
  e2 = e2
  c1 = c1
  c2 = c2
  Absent = Absent
  None = None
  Worker = {w1, w2}
  BackendSet = {b1}
  Listener = {l1}
  Details = {d1, d2}
  Backends = {e1, e2}
  Config = {c1, c2}
  Calls <- BackendSetCalls
  InitialDocuments <- BackendSetDocuments
  MaxRequests = 2
SYMMETRY WorkerSymmetry
INVARIANTS
  TypeOK
  SnapshotsGenuine
  NilMeansAchieved
PROPERTY
  ImplementsStore
