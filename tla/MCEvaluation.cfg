SPECIFICATION Spec
CONSTANTS
  NoRollout = NoRollout
  NoValue = NoValue
  BucketCount = 3
  MaxDigits = 2
  Rules <- MCRules
  Configs <- MCConfigs
  TagSets <- MCTagSets
  Substrings <- MCSubstrings
INVARIANTS
  TypeOK
  FirstServingRuleWins
  AnswersFollowTheKind
  SemverMeansWhatItSays
CHECK_DEADLOCK FALSE
