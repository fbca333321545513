SPECIFICATION Spec
CONSTANTS
  SupportedSV = 1
  SkewTolerance = 0
  MalformedKey = MalformedKey
  NoBytes = NoBytes
  NoETag = NoETag
  NoValue = NoValue
  Answers <- MCAnswers
  Starters = {s1}
  Closers = {}
  Getters = {}
  FlagKeys = {}
  Wires <- OneWire
  ETags = {"e1"}
  Outcomes <- LifeOutcomes
  Configurations <- OneConfiguration
  MaxNow = 0
  MaxFailures = 1
INVARIANT TimedOutSawNoRuleset
