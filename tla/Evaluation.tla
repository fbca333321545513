----------------------------- MODULE Evaluation -----------------------------
(***************************************************************************)
(* Local evaluation (evaluate.go, ruleset.go, semver.go): the walk over a  *)
(* flag's rules, one step per iteration of its loop.                       *)
(*                                                                         *)
(*   config    = [kind, default, rules]                                    *)
(*   rule      = [conditions, serve, rolloutPercentage]                    *)
(*   condition = [tagKey, operator, value]                                 *)
(*   a raw value is [shape, of]: "absent", "null", the kind it decodes to, *)
(*   or "other" for JSON of no kind (an object, a number out of range)     *)
(*   a text, of a tag or a condition, is the sequence of its parts between *)
(*   dots: [digits, len, n], n its number or, of other text, its name      *)
(***************************************************************************)
EXTENDS Integers, Sequences

CONSTANTS
  Rules,         \* the rules flags are built from
  Configs,       \* the flag configs an accepted payload may carry
  TagSets,       \* the tags a caller may pass: functions from keys to texts
  Substrings,    \* <<text, value>> where text contains value
  BucketCount,   \* 100
  MaxDigits,     \* maxVersionComponentDigits
  NoRollout,     \* a rule without rolloutPercentage
  NoValue        \* (nil, false)

Raw(shape, of) == [shape |-> shape, of |-> of]

IsText(text) == text \in Seq([digits : BOOLEAN, len : Nat, n : Nat])

ASSUME EvaluationAssumption ==
  /\ BucketCount \in Nat \ {0} /\ MaxDigits \in Nat
  /\ \A config \in Configs : config.rules \in Seq(Rules)
  /\ \A rule \in Rules :
       /\ rule.rolloutPercentage # NoRollout => rule.rolloutPercentage \in Int
       /\ rule.serve # NoValue
       /\ \A i \in DOMAIN rule.conditions : IsText(rule.conditions[i].value)
  /\ \A given \in TagSets : \A key \in DOMAIN given : IsText(given[key])

VARIABLES
  config, tags,   \* the flag and the context it is evaluated for
  place,          \* what bucket answers for this context key and flag key
  next,           \* the rule the loop is at
  contextBucket,  \* -1 until a matching rule carries a gate
  pc,             \* "walking", then "done"
  value           \* what evaluateFlag returned

vars == <<config, tags, place, next, contextBucket, pc, value>>

Init ==
  /\ config \in Configs
  /\ tags \in TagSets
  /\ place \in 0..(BucketCount - 1)
  /\ next = 1
  /\ contextBucket = -1
  /\ pc = "walking"
  /\ value = NoValue

-----------------------------------------------------------------------------
(* Versions                                                                *)

ParsesAsVersion(text) ==
  \A i \in DOMAIN text :
    text[i].len > 0 /\ text[i].len <= MaxDigits /\ text[i].digits

Component(text, i) == IF i <= Len(text) THEN text[i].n ELSE 0

\* Mutant: components are compared up to the shorter version's length.
MutantShortest(a, b) ==
  LET n == IF Len(a) < Len(b) THEN Len(a) ELSE Len(b)
      differ == {i \in 1..n : a[i].n # b[i].n}
  IN IF differ = {} THEN 0
     ELSE LET i == CHOOSE i \in differ : \A j \in differ : i <= j
          IN IF a[i].n < b[i].n THEN -1 ELSE 1

\* The first position at which two versions differ decides.
CompareVersions(a, b) ==
  LET n == IF Len(b) > Len(a) THEN Len(b) ELSE Len(a)
      differ == {i \in 1..n : Component(a, i) # Component(b, i)}
  IN IF differ = {} THEN 0
     ELSE LET i == CHOOSE i \in differ : \A j \in differ : i <= j
          IN IF Component(a, i) < Component(b, i) THEN -1 ELSE 1

SemverOperators ==
  {"semver_eq", "semver_gt", "semver_gte", "semver_lt", "semver_lte"}

ConditionHolds(condition, tagValue) ==
  LET cmp == CompareVersions(tagValue, condition.value) IN
  \/ condition.operator = "eq" /\ tagValue = condition.value
  \/ condition.operator = "neq" /\ tagValue # condition.value
  \/ condition.operator = "contains"
       /\ <<tagValue, condition.value>> \in Substrings
  \/ /\ condition.operator \in SemverOperators
     /\ ParsesAsVersion(tagValue) /\ ParsesAsVersion(condition.value)
     /\ \/ condition.operator = "semver_eq" /\ cmp = 0
        \/ condition.operator = "semver_gt" /\ cmp > 0
        \/ condition.operator = "semver_gte" /\ cmp >= 0
        \/ condition.operator = "semver_lt" /\ cmp < 0
        \/ condition.operator = "semver_lte" /\ cmp <= 0

-----------------------------------------------------------------------------
(* The walk                                                                *)

RuleMatches(rule) ==
  \A i \in DOMAIN rule.conditions :
    LET condition == rule.conditions[i] IN
    condition.tagKey \in DOMAIN tags
      /\ ConditionHolds(condition, tags[condition.tagKey])

\* Mutant: null is left to json.Unmarshal, which makes it a zero value.
MutantNullIsZero(raw) ==
  IF raw.shape = config.kind THEN raw
  ELSE IF raw.shape = "null" THEN Raw(config.kind, "zero") ELSE NoValue

\* decodeValue by the flag's kind. Only the three known kinds are shapes that
\* decode, so a kind this binary does not know decodes nothing.
DecodeValue(raw) ==
  IF raw.shape = config.kind /\ config.kind \in {"boolean", "string", "number"}
  THEN raw ELSE NoValue

HasGate(rule) == rule.rolloutPercentage # NoRollout

\* Mutant: buckets are counted from 1.
MutantOneBased == IF contextBucket < 0 THEN place + 1 ELSE contextBucket

\* bucket, computed at most once per evaluation.
Bucket == IF contextBucket < 0 THEN place ELSE contextBucket

\* Mutant: the percentage itself is still let in.
MutantGateInclusive(rule) == Bucket > rule.rolloutPercentage

GatedOut(rule) == Bucket >= rule.rolloutPercentage

Return(v) == pc' = "done" /\ value' = v /\ UNCHANGED next
Continue  == next' = next + 1 /\ UNCHANGED <<pc, value>>

AtRule == pc = "walking" /\ next <= Len(config.rules)

\* The rule does not match: nothing is hashed, even when it carries a gate.
SkipRule ==
  /\ AtRule
  /\ ~RuleMatches(config.rules[next])
  /\ Continue
  /\ UNCHANGED <<config, tags, place, contextBucket>>

\* The rule matches and its gate does not admit the bucket.
GateOut ==
  /\ AtRule
  /\ LET rule == config.rules[next] IN
       RuleMatches(rule) /\ HasGate(rule) /\ GatedOut(rule)
  /\ contextBucket' = Bucket
  /\ Continue
  /\ UNCHANGED <<config, tags, place>>

\* The rule matches and its gate, if any, admits the bucket: it serves, unless
\* its value does not follow the flag's kind.
MatchRule ==
  /\ AtRule
  /\ LET rule == config.rules[next] IN
       /\ RuleMatches(rule)
       /\ HasGate(rule) => ~GatedOut(rule)
       /\ contextBucket' = IF HasGate(rule) THEN Bucket ELSE contextBucket
       /\ IF DecodeValue(rule.serve) # NoValue
          THEN Return(DecodeValue(rule.serve))
          ELSE Continue
  /\ UNCHANGED <<config, tags, place>>

ServeDefault ==
  /\ pc = "walking"
  /\ next > Len(config.rules)
  /\ Return(DecodeValue(config.default))
  /\ UNCHANGED <<config, tags, place, contextBucket>>

Next == SkipRule \/ GateOut \/ MatchRule \/ ServeDefault

Spec == Init /\ [][Next]_vars

-----------------------------------------------------------------------------
(* Properties                                                              *)

TypeOK ==
  /\ config.rules \in Seq(Rules)
  /\ tags \in TagSets
  /\ place \in 0..(BucketCount - 1)
  /\ next \in 1..(Len(config.rules) + 1)
  /\ contextBucket \in {-1, place}
  /\ pc \in {"walking", "done"}

\* A rule serves this context: all of its conditions hold, its rollout covers
\* the context's bucket and its value is of the flag's kind.
Usable(raw) ==
  raw.shape = config.kind /\ raw.shape \in {"boolean", "string", "number"}

Serves(rule) ==
  /\ RuleMatches(rule)
  /\ HasGate(rule) => place \in 0..(rule.rolloutPercentage - 1)
  /\ Usable(rule.serve)

\* The contract of evaluateFlag: the first rule that serves the context
\* decides, whatever gates and ill-typed values the walk fell through before
\* it; with none, the default, and with no usable default no value.
FirstServingRuleWins ==
  LET serving == {i \in DOMAIN config.rules : Serves(config.rules[i])} IN
  pc = "done" =>
    IF serving = {}
    THEN value = IF Usable(config.default) THEN config.default ELSE NoValue
    ELSE \E i \in serving : /\ \A j \in serving : i <= j
                            /\ value = config.rules[i].serve

\* A raw value served was in the payload and decodes by the flag's kind: an
\* absent or null field never turns into a zero value.
AnswersFollowTheKind ==
  value # NoValue =>
    /\ value.shape = config.kind
    /\ \/ value = config.default
       \/ \E i \in DOMAIN config.rules : value = config.rules[i].serve

\* A version of up to three components is the number they write in this base.
Number(version, base) ==
  (Component(version, 1) * base + Component(version, 2)) * base
    + Component(version, 3)

\* The components of both versions are digits of this base.
BaseOf(a, b) ==
  1 + Component(a, 1) + Component(a, 2) + Component(a, 3)
    + Component(b, 1) + Component(b, 2) + Component(b, 3)

\* What the operator should say of a tag and a condition's version, by numbers:
\* nothing holds of a text that is no version, and "major.minor.patch", with
\* what is missing counted as 0, is a number in any base that has its digits.
ReadsAsNumbers(operator, tag, text, holds) ==
  LET IsVersion(t) ==
        \A i \in DOMAIN t : t[i].digits /\ t[i].len \in 1..MaxDigits
      a == Number(tag, BaseOf(tag, text))
      b == Number(text, BaseOf(tag, text))
  IN /\ holds => IsVersion(tag) /\ IsVersion(text)
     /\ IsVersion(tag) /\ IsVersion(text) /\ Len(tag) <= 3 /\ Len(text) <= 3
          => (holds <=> \/ operator = "semver_eq" /\ a = b
                        \/ operator = "semver_gt" /\ a > b
                        \/ operator = "semver_gte" /\ a >= b
                        \/ operator = "semver_lt" /\ a < b
                        \/ operator = "semver_lte" /\ a <= b)

\* The five semver operators order versions as these numbers are ordered, and
\* a text that is no version makes all five, semver_eq included, not hold:
\* "2" is "2.0", 2.10 comes after 2.9, "v2" and "" are no version at all.
SemverMeansWhatItSays ==
  \A i \in DOMAIN config.rules :
    \A j \in DOMAIN config.rules[i].conditions :
      LET condition == config.rules[i].conditions[j]
          tag == tags[condition.tagKey]
      IN condition.operator \in SemverOperators
         /\ condition.tagKey \in DOMAIN tags
           => ReadsAsNumbers(condition.operator, tag, condition.value,
                             ConditionHolds(condition, tag))
=============================================================================
