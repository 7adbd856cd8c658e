SPECIFICATION FairSpec
CONSTANTS
  i1 = i1
  i2 = i2
  None = None
  Ingress = {i1, i2}
  MaxUid = 2
  MaxVersion = 2
  Instances <- MCInstances
INVARIANTS
  TypeOK
  OldSecretRead
  RenewedUnlessMisled
  RestoredUnlessMisled
PROPERTIES
  UnusedGoes
  SyncsEnd
\* At rest with the bounds used up, nothing is left to happen.
CHECK_DEADLOCK FALSE
