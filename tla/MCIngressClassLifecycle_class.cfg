SPECIFICATION FairSpec
CONSTANTS
  dflt = dflt
  own = own
  g1 = g1
  p1 = p1
  p2 = p2
  small = small
  large = large
  Tag = {dflt, own}
  DefaultTags = {dflt}
  Shape = {small, large}
  Nsg = {g1}
  NoCopy = NoCopy
  NoLb = NoLb
  Policy = {p1, p2}
  NoPolicy = NoPolicy
  NoFirewall = NoFirewall
  MaxFirewalls = 2
  Starts <- MCStarts
  MaxLbs = 2
  MaxEdits = 1
  MaxFaults = 1
INVARIANTS
  TypeOK
  NoneForgotten
  DefaultTagsKept
  ProtectedStays
  DeletionAsked
PROPERTY
  Converges
CHECK_DEADLOCK FALSE
