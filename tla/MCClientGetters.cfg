SPECIFICATION Spec
CONSTANTS
  SupportedSV = 1
  SkewTolerance = 0
  MalformedKey = MalformedKey
  NoBytes = NoBytes
  NoETag = NoETag
  NoValue = NoValue
  Answers <- MCAnswers
  Starters = {s1}
  Closers = {}
  Getters = {g1}
  FlagKeys = {"f", "g"}
  Wires <- TwoVersions
  ETags = {"e1", "e2"}
  Outcomes <- VersionOutcomes
  Configurations <- OneConfiguration
  MaxNow = 1
  MaxFailures = 1
INVARIANTS
  TypeOK
  AnswersComeFromOneRuleset
