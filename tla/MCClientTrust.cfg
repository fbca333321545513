SPECIFICATION Spec
CONSTANTS
  SupportedSV = 1
  SkewTolerance = 0
  MalformedKey = MalformedKey
  NoBytes = NoBytes
  NoETag = NoETag
  NoValue = NoValue
  Answers <- MCAnswers
  Starters = {s1}
  Closers = {}
  Getters = {}
  FlagKeys = {}
  Wires <- MCWires
  ETags = {"e1", "e2", "e3", "e4"}
  Outcomes <- MCOutcomes
  Configurations <- MCConfigurations
  MaxNow = 2
  MaxFailures = 1
INVARIANTS
  NothingUntrustedServed
  ETagDescribesTheSnapshot
  DiagnosticsCoherent
PROPERTIES
  SourceNeverRegresses
  ImplementsServedRuleset
