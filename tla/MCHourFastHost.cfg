SPECIFICATION Spec
CONSTANTS
  SupportedSV = 1
  SkewTolerance = 5
  MalformedKey = MalformedKey
  WireSet <- MCHourFastWires
  TrustStores <- MCHourFastTrustStores
  KeyIDs = {}
  Keys = {}
  HostEnvironment = "prod"
  MaxNow = 60
INVARIANT HourFastHostKeepsUpdates
CHECK_DEADLOCK FALSE
