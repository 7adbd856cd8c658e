SPECIFICATION Spec
CONSTANTS
  l1 = l1
  l2 = l2
  b1 = b1
  b2 = b2
  s1 = s1
  s2 = s2
  c1 = c1
  c2 = c2
  Unset = Unset
  Invalid = Invalid
  DefaultIngress = DefaultIngress
  DefaultChecker = DefaultChecker
  DefaultPolicy = DefaultPolicy
  Listener = {l1, l2}
  BackendSet = {b1, b2}
  Group <- MCGroup
INVARIANTS
  TypeOK
  SettingsHonoured
  RefusedForAReason
  CookieDecided
  NamesClosed
CHECK_DEADLOCK FALSE
