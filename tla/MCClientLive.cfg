SPECIFICATION FairSpec
CONSTANTS
  SupportedSV = 1
  SkewTolerance = 0
  MalformedKey = MalformedKey
  NoBytes = NoBytes
  NoETag = NoETag
  NoValue = NoValue
  Answers <- MCAnswers
  Starters = {s1}
  Closers = {c1, c2}
  Getters = {}
  FlagKeys = {}
  Wires <- OneWire
  ETags = {"e1"}
  Outcomes <- LifeOutcomes
  Configurations <- OneConfiguration
  MaxNow = 0
  MaxFailures = 1
PROPERTIES
  StartReturns
  CloseReturns
  PollingGoesOn
