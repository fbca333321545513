SPECIFICATION Spec
CONSTANTS
  SupportedSV = 1
  SkewTolerance = 0
  MalformedKey = MalformedKey
  NoBytes = NoBytes
  NoETag = NoETag
  NoValue = NoValue
  Answers <- MCAnswers
  Starters = {s1, s2}
  Closers = {c1, c2}
  Getters = {}
  FlagKeys = {}
  Wires <- OneWire
  ETags = {"e1"}
  Outcomes <- LifeOutcomes
  Configurations <- LifeConfigurations
  MaxNow = 0
  MaxFailures = 1
SYMMETRY Symmetric
INVARIANTS
  NoPanic
  CloseWaits
  StartTellsTheTruth
  CacheStateIsTrue
  NobodyWaitsInVain
