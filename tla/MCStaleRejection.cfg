SPECIFICATION Spec
CONSTANTS
  SupportedSV = 1
  SkewTolerance = 0
  MalformedKey = MalformedKey
  NoBytes = NoBytes
  NoETag = NoETag
  NoValue = NoValue
  Answers <- MCAnswers
  Starters = {s1}
  Closers = {}
  Getters = {}
  FlagKeys = {}
  Wires <- TwoWires
  ETags = {"e1"}
  Outcomes <- AllKinds
  Configurations <- OneConfiguration
  MaxNow = 0
  MaxFailures = 1
INVARIANT LastRejectionIsCurrent
