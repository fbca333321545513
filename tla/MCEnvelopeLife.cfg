SPECIFICATION Spec
CONSTANTS
  SupportedSV = 1
  SkewTolerance = 1
  MalformedKey = MalformedKey
  WireSet <- MCWireSet
  TrustStores <- MCTrustStores
  KeyIDs = {"k1", "k2"}
  Keys = {"K1"}
  HostEnvironment = "prod"
  MaxNow = 7
INVARIANTS
  TypeOK
  AcceptedIsGenuine
  CacheForgivesOnlyExpiry
  SignatureComesFirst
PROPERTIES
  WindowIsOneInterval
  RotationOnlyWidens
\* The clock stops at MaxNow.
CHECK_DEADLOCK FALSE
