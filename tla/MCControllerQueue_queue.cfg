SPECIFICATION FairSpec
CONSTANTS
  k1 = k1
  k2 = k2
  w1 = w1
  w2 = w2
  Key = {k1, k2}
  Worker = {w1, w2}
  Watched = {k1}
  Pushed = {k2}
  NotReadyKeys = {k2}
  NoKey = NoKey
  MaxRequeues = 1
  ChannelCapacity = 1
INVARIANTS
  TypeOK
  OneWorkerPerKey
  NoChangeForgotten
  NoRetryForgotten
PROPERTIES
  ImplementsPendingKeys
  ChangesAreRead
