SPECIFICATION Spec
CONSTANTS
  MaxResponseBytes = 3
  NoBody = 0
  NoETag = NoETag
  BackoffBase = 5
  BackoffCap = 10
  MaxDuration = 100
  MaxEnvironmentLength = 3
  MinimumPollInterval = 5
  DefaultPollInterval = 10
  DefaultHTTPTimeout = 1
  ErrMalformedKey = ErrMalformedKey
  Givens <- MCGivens
  Releases <- MCReleases
  Failures <- MCFailures
  MaxFailures = 3
  MaxSteady = 25
  NoGiven = NoGiven
  NoReply = NoReply
INVARIANTS
  TypeOK
  NotModifiedMeansCurrent
  AcceptedFitsTheCache
  StalenessIsBounded
PROPERTIES
  DelaysArePolite
  KeysMeanWhatWasMinted
CHECK_DEADLOCK FALSE
