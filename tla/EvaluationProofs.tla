-------------------------- MODULE EvaluationProofs --------------------------
(***************************************************************************)
(* The walk of evaluateFlag finds the first rule that serves, for flags of *)
(* any number of rules, any rollout percentages and any texts, and the     *)
(* semver operators order versions of any length totally.                  *)
(***************************************************************************)
EXTENDS Evaluation, SequenceTheorems, WellFoundedInduction, TLAPS

\* What has to hold for every iteration to decide its rule rightly: the bucket
\* remembered is the context's, and no rule already passed serves.
Passed ==
  \A i \in DOMAIN config.rules : i < next => ~Serves(config.rules[i])

Walk ==
  /\ TypeOK
  /\ Passed
  /\ FirstServingRuleWins
  /\ AnswersFollowTheKind
  /\ pc = "walking" => value = NoValue

\* The lazily computed bucket is the one a fresh hash would give, so the gate
\* of a rule admits the context exactly when the rollout covers its place.
LEMMA GateIsExact ==
  ASSUME TypeOK, NEW rule \in Rules, HasGate(rule)
  PROVE  ~GatedOut(rule) <=> place \in 0..(rule.rolloutPercentage - 1)
<1>1. place \in 0..(BucketCount - 1) /\ contextBucket \in {-1, place}
  BY DEF TypeOK
<1>2. BucketCount \in Nat /\ rule.rolloutPercentage \in Int
  BY EvaluationAssumption DEF EvaluationAssumption, HasGate
<1>3. Bucket = place
  BY <1>1, <1>2 DEF Bucket
<1> QED
  BY <1>1, <1>2, <1>3 DEF GatedOut

\* A raw value decodes exactly when it is of the flag's kind, and to itself.
LEMMA DecodingIsExact ==
  ASSUME NEW raw, raw # NoValue
  PROVE  /\ DecodeValue(raw) # NoValue <=> Usable(raw)
         /\ Usable(raw) => DecodeValue(raw) = raw
BY DEF DecodeValue, Usable

\* Every step keeps the context, the flag and the types.
LEMMA WalkTypes ==
  ASSUME TypeOK, Next
  PROVE  TypeOK'
<1> USE DEF TypeOK
<1>1. Len(config.rules) \in Nat
  OBVIOUS
<1>2. Bucket \in {-1, place}
  BY DEF Bucket
<1>3. CASE SkipRule
  BY <1>1, <1>3 DEF SkipRule, AtRule, Continue
<1>4. CASE GateOut
  BY <1>1, <1>2, <1>4 DEF GateOut, AtRule, Continue
<1>5. CASE MatchRule
  <2>1. /\ config' = config /\ tags' = tags /\ place' = place
        /\ pc = "walking" /\ next <= Len(config.rules)
    BY <1>5 DEF MatchRule, AtRule
  <2>2. contextBucket' \in {-1, place}
    BY <1>2, <1>5 DEF MatchRule
  <2>3. \/ next' = next + 1 /\ pc' = pc
        \/ next' = next /\ pc' = "done"
    BY <1>5 DEF MatchRule, Continue, Return
  <2> QED
    BY <1>1, <2>1, <2>2, <2>3
<1>6. CASE ServeDefault
  BY <1>6 DEF ServeDefault, Return
<1> QED
  BY <1>3, <1>4, <1>5, <1>6 DEF Next

\* An iteration that goes on leaves a rule behind that does not serve.
LEMMA PassingARule ==
  ASSUME Walk, AtRule, Continue, UNCHANGED <<config, tags, place>>,
         ~Serves(config.rules[next])
  PROVE  /\ Passed' /\ FirstServingRuleWins' /\ AnswersFollowTheKind'
         /\ (pc = "walking" => value = NoValue)'
<1>1. next \in Nat /\ next' = next + 1 /\ pc' = "walking" /\ value' = NoValue
  BY DEF Walk, TypeOK, AtRule, Continue
<1>2. \A rule : Serves(rule)' <=> Serves(rule)
  BY DEF Serves, RuleMatches, Usable
<1>3. DOMAIN config.rules \subseteq Nat
  BY DEF Walk, TypeOK
<1>4. Passed'
  <2> SUFFICES ASSUME NEW i \in DOMAIN config.rules, i < next + 1
               PROVE  ~Serves(config.rules[i])
    BY <1>1, <1>2 DEF Passed
  <2>1. i < next \/ i = next
    BY <1>1, <1>3
  <2> QED
    BY <2>1 DEF Walk, Passed
<1> QED
  BY <1>1, <1>4 DEF FirstServingRuleWins, AnswersFollowTheKind

\* The walk's invariant is inductive.
LEMMA WalkStep ==
  ASSUME Walk, Next
  PROVE  Walk'
<1> DEFINE rule == config.rules[next]
<1>1. TypeOK'
  BY WalkTypes DEF Walk
<1>2. /\ Len(config.rules) \in Nat
      /\ DOMAIN config.rules = 1..Len(config.rules)
      /\ next \in Nat \ {0}
  BY DEF Walk, TypeOK
<1>3. ASSUME AtRule
      PROVE  /\ next \in DOMAIN config.rules /\ rule \in Rules
             /\ rule.serve # NoValue
  <2>1. next \in DOMAIN config.rules
    BY <1>2, <1>3 DEF AtRule
  <2>2. rule \in Rules
    BY <2>1 DEF Walk, TypeOK
  <2> QED
    BY <2>1, <2>2, EvaluationAssumption DEF EvaluationAssumption
<1>4. CASE SkipRule
  <2>1. AtRule /\ Continue /\ UNCHANGED <<config, tags, place>>
    BY <1>4 DEF SkipRule
  <2>2. ~Serves(rule)
    BY <1>4 DEF SkipRule, Serves
  <2> QED
    BY <1>1, <2>1, <2>2, PassingARule DEF Walk
<1>5. CASE GateOut
  <2>1. AtRule /\ Continue /\ UNCHANGED <<config, tags, place>>
    BY <1>5 DEF GateOut
  <2>2. HasGate(rule) /\ GatedOut(rule)
    BY <1>5 DEF GateOut
  <2>3. ~Serves(rule)
    BY <1>3, <2>1, <2>2, GateIsExact DEF Walk, Serves
  <2> QED
    BY <1>1, <2>1, <2>3, PassingARule DEF Walk
<1>6. CASE MatchRule
  <2>1. AtRule /\ UNCHANGED <<config, tags, place>>
    BY <1>6 DEF MatchRule
  <2>2. RuleMatches(rule) /\ (HasGate(rule) => ~GatedOut(rule))
    BY <1>6 DEF MatchRule
  <2>3. Serves(rule) <=> DecodeValue(rule.serve) # NoValue
    <3>1. HasGate(rule) => place \in 0..(rule.rolloutPercentage - 1)
      BY <1>3, <2>1, <2>2, GateIsExact DEF Walk
    <3> QED
      BY <1>3, <2>1, <2>2, <3>1, DecodingIsExact DEF Serves
  <2>4. CASE DecodeValue(rule.serve) = NoValue
    <3>1. Continue
      BY <1>6, <2>4 DEF MatchRule
    <3> QED
      BY <1>1, <2>1, <2>3, <2>4, <3>1, PassingARule DEF Walk
  <2>5. CASE DecodeValue(rule.serve) # NoValue
    <3>1. Return(DecodeValue(rule.serve))
      BY <1>6, <2>5 DEF MatchRule
    <3>2. Serves(rule) /\ Usable(rule.serve)
      BY <2>3, <2>5 DEF Serves
    <3>3. value' = rule.serve /\ pc' = "done" /\ next' = next
      BY <1>3, <2>1, <3>1, <3>2, DecodingIsExact DEF Return
    <3>4. \A r : Serves(r)' <=> Serves(r)
      BY <2>1 DEF Serves, RuleMatches, Usable
    <3>5. \A i \in DOMAIN config.rules : Serves(config.rules[i]) => next <= i
      <4> SUFFICES ASSUME NEW i \in DOMAIN config.rules,
                          Serves(config.rules[i])
                   PROVE  next <= i
        OBVIOUS
      <4>1. ~(i < next)
        BY DEF Walk, Passed
      <4> QED
        BY <1>2, <4>1
    <3>6. FirstServingRuleWins'
      BY <1>3, <2>1, <3>2, <3>3, <3>4, <3>5 DEF FirstServingRuleWins
    <3>7. AnswersFollowTheKind'
      BY <1>3, <2>1, <3>2, <3>3 DEF AnswersFollowTheKind, Usable
    <3>8. Passed'
      BY <2>1, <3>3, <3>4 DEF Walk, Passed
    <3> QED
      BY <1>1, <3>3, <3>6, <3>7, <3>8 DEF Walk
  <2> QED
    BY <2>4, <2>5
<1>7. CASE ServeDefault
  <2>1. /\ Return(DecodeValue(config.default))
        /\ UNCHANGED <<config, tags, place>> /\ next > Len(config.rules)
    BY <1>7 DEF ServeDefault
  <2>2. /\ pc' = "done" /\ next' = next
        /\ value' = DecodeValue(config.default)
    BY <2>1 DEF Return
  <2>3. DecodeValue(config.default) =
          IF Usable(config.default) THEN config.default ELSE NoValue
    BY DEF DecodeValue, Usable
  <2>4. \A r : Serves(r)' <=> Serves(r)
    BY <2>1 DEF Serves, RuleMatches, Usable
  <2>5. \A i \in DOMAIN config.rules : ~Serves(config.rules[i])
    <3> SUFFICES ASSUME NEW i \in DOMAIN config.rules
                 PROVE  ~Serves(config.rules[i])
      OBVIOUS
    <3>1. i < next
      BY <1>2, <2>1
    <3> QED
      BY <3>1 DEF Walk, Passed
  <2>6. \A r : Usable(r)' <=> Usable(r)
    BY <2>1 DEF Usable
  <2>7. FirstServingRuleWins'
    BY <2>1, <2>2, <2>3, <2>4, <2>5, <2>6 DEF FirstServingRuleWins
  <2>8. AnswersFollowTheKind'
    BY <2>1, <2>2, <2>3 DEF AnswersFollowTheKind, Usable
  <2>9. Passed'
    BY <2>1, <2>2, <2>4 DEF Walk, Passed
  <2> QED
    BY <1>1, <2>2, <2>7, <2>8, <2>9 DEF Walk
<1> QED
  BY <1>4, <1>5, <1>6, <1>7 DEF Next

\* The walk's invariant holds of every evaluation.
LEMMA WalkAlways == Spec => []Walk
<1>1. Init => Walk
  <2> SUFFICES ASSUME Init PROVE Walk
    OBVIOUS
  <2>1. config.rules \in Seq(Rules) /\ BucketCount \in Nat \ {0}
    BY EvaluationAssumption DEF Init, EvaluationAssumption
  <2>2. TypeOK
    BY <2>1 DEF Init, TypeOK
  <2>3. Passed
    BY <2>1 DEF Init, Passed
  <2> QED
    BY <2>2, <2>3
    DEF Init, Walk, FirstServingRuleWins, AnswersFollowTheKind
<1>2. Walk /\ [Next]_vars => Walk'
  <2> SUFFICES ASSUME Walk, [Next]_vars PROVE Walk'
    OBVIOUS
  <2>1. CASE Next
    BY <2>1, WalkStep
  <2>2. CASE UNCHANGED vars
    BY <2>2
    DEF vars, Walk, TypeOK, Passed, FirstServingRuleWins,
        AnswersFollowTheKind, Serves, RuleMatches, Usable
  <2> QED
    BY <2>1, <2>2
<1> QED
  BY <1>1, <1>2, PTL DEF Spec

\* Whatever the flag's rules, gates and ill-typed values, and wherever the
\* context's bucket lies, evaluateFlag answers with the first rule that serves
\* the context, else with the usable default, else with no value.
THEOREM FirstServingRuleAlwaysWins == Spec => []FirstServingRuleWins
BY WalkAlways, PTL DEF Walk

\* An answer is always a value of the payload and of the flag's kind: nothing
\* absent, null or ill-typed is ever turned into a value.
THEOREM AnswersAlwaysFollowTheKind == Spec => []AnswersFollowTheKind
BY WalkAlways, PTL DEF Walk

\* The loop stays within the rules and hashes at most to one bucket.
THEOREM EvaluationTypeCorrect == Spec => []TypeOK
BY WalkAlways, PTL DEF Walk

-----------------------------------------------------------------------------
(* Versions                                                                *)

\* What parseVersion accepts.
Versions == Seq([digits : {TRUE}, len : 1..MaxDigits, n : Nat])

Positions == Nat \ {0}

\* The first position at which two versions differ.
Decides(a, b, i) ==
  /\ i \in Positions
  /\ Component(a, i) # Component(b, i)
  /\ \A j \in 1..(i - 1) : Component(a, j) = Component(b, j)

Alike(a, b) == \A i \in Positions : Component(a, i) = Component(b, i)

\* The induction versions of any length need: a set of numbers has a least
\* element.
LEMMA LeastNumber ==
  ASSUME NEW T \in SUBSET Nat, T # {}
  PROVE  \E x \in T : \A y \in T : x <= y
<1> DEFINE below == {ss \in Nat \X Nat : ss[1] < ss[2]}
<1>1. IsWellFoundedOn(below, Nat)
  BY NatLessThanWellFounded, Zenon DEF OpToRel
<1>2. PICK x \in T : \A y \in T : ~(<<y, x>> \in below)
  BY <1>1, WFMin, Zenon
<1>3. \A y \in T : x <= y
  <2> SUFFICES ASSUME NEW y \in T
               PROVE  x <= y
    OBVIOUS
  <2>1. x \in Nat /\ y \in Nat
    OBVIOUS
  <2>2. ~(y < x)
    BY <1>2, <2>1
  <2> QED
    BY <2>1, <2>2
<1> QED
  BY <1>3

\* A component is a number, 0 behind the last one.
LEMMA ComponentIs ==
  ASSUME NEW a \in Versions
  PROVE  /\ Len(a) \in Nat
         /\ \A i \in Positions : Component(a, i) \in Nat
         /\ \A i \in Positions : ~(i <= Len(a)) => Component(a, i) = 0
<1> DEFINE Part == [digits : {TRUE}, len : 1..MaxDigits, n : Nat]
<1>1. Len(a) \in Nat
  BY LenProperties DEF Versions
<1>2. \A l \in Nat : \A i \in Positions : i <= l => i \in 1..l
  BY DEF Positions
<1>3. \A i \in 1..Len(a) : a[i] \in Part
  BY ElementOfSeq, Zenon DEF Versions
<1>4. \A part \in Part : part.n \in Nat
  OBVIOUS
<1> HIDE DEF Part
<1>5. \A i \in Positions : i <= Len(a) => a[i].n \in Nat
  BY <1>1, <1>2, <1>3, <1>4, Zenon
<1>6. 0 \in Nat
  OBVIOUS
<1>7. \A i \in Positions : Component(a, i) \in Nat
  BY <1>5, <1>6, Zenon DEF Component
<1>8. \A i \in Positions : ~(i <= Len(a)) => Component(a, i) = 0
  BY Zenon DEF Component
<1> QED
  BY <1>1, <1>7, <1>8

\* Versions that are not alike have a position that decides.
LEMMA FirstDifference ==
  ASSUME NEW a, NEW b
  PROVE  Alike(a, b) \/ \E i \in Positions : Decides(a, b, i)
<1> SUFFICES ASSUME ~Alike(a, b)
             PROVE  \E i \in Positions : Decides(a, b, i)
  OBVIOUS
<1> DEFINE differ == {i \in Positions : Component(a, i) # Component(b, i)}
<1>1. differ \in SUBSET Nat /\ differ # {}
  BY DEF Positions, Alike
<1>2. PICK i \in differ : \A j \in differ : i <= j
  BY <1>1, LeastNumber, Zenon
<1>3. \A k \in Positions : \A j \in 1..(k - 1) : j \in Positions /\ ~(k <= j)
  BY DEF Positions
<1> QED
  BY <1>2, <1>3, Zenon DEF Decides

\* Beyond the longer version nothing differs, so the positions compared are
\* enough.
LEMMA AlikeIsZero ==
  ASSUME NEW a \in Versions, NEW b \in Versions, Alike(a, b)
  PROVE  CompareVersions(a, b) = 0
<1> DEFINE last == IF Len(b) > Len(a) THEN Len(b) ELSE Len(a)
           differ == {i \in 1..last : Component(a, i) # Component(b, i)}
<1>1. last \in Nat
  BY ComponentIs
<1>2. \A l \in Nat : \A i \in 1..l : i \in Positions
  BY DEF Positions
<1> HIDE DEF last
<1>3. differ = {}
  BY <1>1, <1>2, Zenon DEF Alike
<1> QED
  BY <1>3 DEF CompareVersions, last

\* The loop answers by the first position that differs.
LEMMA DeciderDecides ==
  ASSUME NEW a \in Versions, NEW b \in Versions,
         NEW i \in Positions, Decides(a, b, i)
  PROVE  CompareVersions(a, b) =
           IF Component(a, i) < Component(b, i) THEN -1 ELSE 1
<1> DEFINE last == IF Len(b) > Len(a) THEN Len(b) ELSE Len(a)
           differ == {j \in 1..last : Component(a, j) # Component(b, j)}
           IsFirst(j) == \A k \in differ : j <= k
<1>1. last \in Nat /\ Len(a) \in Nat /\ Len(b) \in Nat
      /\ Len(a) <= last /\ Len(b) <= last
  BY ComponentIs
<1>2. i <= Len(a) \/ i <= Len(b)
  BY ComponentIs, Zenon DEF Decides
<1> HIDE DEF last
<1>3. i \in 1..last
  BY <1>1, <1>2 DEF Positions
<1>4. i \in differ
  BY <1>3, Zenon DEF Decides
<1>5. \A j \in 1..last : j \in 1..(i - 1) \/ i <= j
  BY <1>1, <1>3
<1>6. IsFirst(i)
  BY <1>5, Zenon DEF Decides
<1>7. \A j \in differ : IsFirst(j) => j = i
  <2>1. \A j \in 1..last : j <= i /\ i <= j => j = i
    BY <1>1, <1>3
  <2> QED
    BY <1>4, <1>6, <2>1, Zenon
<1> HIDE DEF IsFirst
<1>8. (CHOOSE j \in differ : IsFirst(j)) = i
  BY <1>4, <1>6, <1>7, Zenon
<1> HIDE DEF differ
<1>9. differ # {}
  BY <1>4
<1> QED
  BY <1>8, <1>9, Zenon DEF CompareVersions, last, differ, IsFirst

\* Of two deciding positions the first one decides the outer comparison.
LEMMA EarlierDecides ==
  ASSUME NEW a, NEW b, NEW c, NEW i \in Positions, NEW k \in Positions,
         Decides(a, b, i), Decides(b, c, k)
  PROVE  /\ i < k => Decides(a, c, i) /\ Component(b, i) = Component(c, i)
         /\ k < i => Decides(a, c, k) /\ Component(a, k) = Component(b, k)
         /\ \A j \in 1..(i - 1) : i = k => Component(a, j) = Component(c, j)
<1>1. \A m, n \in Positions : m < n => /\ m \in 1..(n - 1)
                                       /\ 1..(m - 1) \subseteq 1..(n - 1)
  BY DEF Positions
<1>2. i < k => Decides(a, c, i) /\ Component(b, i) = Component(c, i)
  BY <1>1, Zenon DEF Decides
<1>3. k < i => Decides(a, c, k) /\ Component(a, k) = Component(b, k)
  BY <1>1, Zenon DEF Decides
<1>4. \A j \in 1..(i - 1) : i = k => Component(a, j) = Component(c, j)
  BY Zenon DEF Decides
<1> QED
  BY <1>2, <1>3, <1>4

LEMMA OrderIsTransitive ==
  ASSUME NEW a \in Versions, NEW b \in Versions, NEW c \in Versions,
         CompareVersions(a, b) <= 0, CompareVersions(b, c) <= 0
  PROVE  CompareVersions(a, c) <= 0
<1>1. \A v \in Versions, i \in Positions : Component(v, i) \in Nat
  BY ComponentIs
<1>2. \A v, w \in Versions, i \in Positions :
        Decides(v, w, i) =>
          (CompareVersions(v, w) <= 0 <=> Component(v, i) < Component(w, i))
  <2> SUFFICES ASSUME NEW v \in Versions, NEW w \in Versions,
                      NEW i \in Positions, Decides(v, w, i)
               PROVE  CompareVersions(v, w) <= 0
                        <=> Component(v, i) < Component(w, i)
    BY Zenon
  <2>1. CompareVersions(v, w) =
          IF Component(v, i) < Component(w, i) THEN -1 ELSE 1
    BY DeciderDecides
  <2> QED
    BY <2>1
<1>3. CASE Alike(a, c)
  BY <1>3, AlikeIsZero
<1>4. CASE Alike(a, b) /\ ~Alike(a, c)
  <2>1. PICK i \in Positions : Decides(a, c, i)
    BY <1>4, FirstDifference
  <2>2. Decides(b, c, i) /\ Component(a, i) = Component(b, i)
    <3>1. \A j \in 1..(i - 1) : j \in Positions
      BY DEF Positions
    <3> QED
      BY <1>4, <2>1, <3>1, Zenon DEF Alike, Decides
  <2> QED
    BY <1>2, <2>1, <2>2, Zenon
<1>5. CASE Alike(b, c) /\ ~Alike(a, c)
  <2>1. PICK i \in Positions : Decides(a, c, i)
    BY <1>5, FirstDifference
  <2>2. Decides(a, b, i) /\ Component(b, i) = Component(c, i)
    <3>1. \A j \in 1..(i - 1) : j \in Positions
      BY DEF Positions
    <3> QED
      BY <1>5, <2>1, <3>1, Zenon DEF Alike, Decides
  <2> QED
    BY <1>2, <2>1, <2>2, Zenon
<1>6. CASE ~Alike(a, b) /\ ~Alike(b, c)
  <2>1. PICK i \in Positions : Decides(a, b, i)
    BY <1>6, FirstDifference
  <2>2. PICK k \in Positions : Decides(b, c, k)
    BY <1>6, FirstDifference
  <2>3. /\ Component(a, i) < Component(b, i)
        /\ Component(b, k) < Component(c, k)
    BY <1>2, <2>1, <2>2, Zenon
  <2>4. CASE i < k
    <3>1. Decides(a, c, i) /\ Component(b, i) = Component(c, i)
      BY <2>1, <2>2, <2>4, EarlierDecides
    <3>2. Component(a, i) < Component(c, i)
      BY <2>3, <3>1
    <3> QED
      BY <1>2, <3>1, <3>2, Zenon
  <2>5. CASE k < i
    <3>1. Decides(a, c, k) /\ Component(a, k) = Component(b, k)
      BY <2>1, <2>2, <2>5, EarlierDecides
    <3>2. Component(a, k) < Component(c, k)
      BY <2>3, <3>1
    <3> QED
      BY <1>2, <3>1, <3>2, Zenon
  <2>6. CASE i = k
    <3>1. \A x, y, z \in Nat : x < y /\ y < z => x < z /\ x # z
      OBVIOUS
    <3>2. Component(a, i) < Component(c, i) /\ Component(a, i) # Component(c, i)
      BY <1>1, <2>3, <2>6, <3>1, Zenon
    <3>3. Decides(a, c, i)
      BY <2>1, <2>2, <2>6, <3>2, EarlierDecides, Zenon DEF Decides
    <3> QED
      BY <1>2, <3>2, <3>3, Zenon
  <2>7. i < k \/ k < i \/ i = k
    BY DEF Positions
  <2> QED
    BY <2>4, <2>5, <2>6, <2>7
<1> QED
  BY <1>3, <1>4, <1>5, <1>6

\* compareVersions (semver.go) orders versions of any length totally: two
\* versions are equal exactly when all components are, missing ones counted as
\* 0, swapping the sides swaps the answer, and the order is transitive.
THEOREM VersionsAreOrdered ==
  ASSUME NEW a \in Versions, NEW b \in Versions
  PROVE  /\ CompareVersions(a, b) \in {-1, 0, 1}
         /\ CompareVersions(a, b) = 0 <=> Alike(a, b)
         /\ CompareVersions(b, a) = -CompareVersions(a, b)
         /\ \A c \in Versions :
              CompareVersions(a, b) <= 0 /\ CompareVersions(b, c) <= 0
                => CompareVersions(a, c) <= 0
<1>1. CASE Alike(a, b)
  <2>1. Alike(b, a)
    BY <1>1, Zenon DEF Alike
  <2>2. CompareVersions(a, b) = 0 /\ CompareVersions(b, a) = 0
    BY <1>1, <2>1, AlikeIsZero
  <2>3. CompareVersions(b, a) = -CompareVersions(a, b)
    <3>1. 0 \in Int /\ \A x \in Int : x = 0 => -x = 0
      OBVIOUS
    <3> QED
      BY <2>2, <3>1, Zenon
  <2> QED
    BY <1>1, <2>2, <2>3, OrderIsTransitive
<1>2. CASE ~Alike(a, b)
  <2>1. PICK i \in Positions : Decides(a, b, i)
    BY <1>2, FirstDifference
  <2>2. Decides(b, a, i) /\ Component(a, i) # Component(b, i)
    BY <2>1, Zenon DEF Decides
  <2>3. Component(a, i) \in Nat /\ Component(b, i) \in Nat
    BY ComponentIs
  <2>4. CompareVersions(a, b) =
          IF Component(a, i) < Component(b, i) THEN -1 ELSE 1
    BY <2>1, DeciderDecides
  <2>5. CompareVersions(b, a) =
          IF Component(b, i) < Component(a, i) THEN -1 ELSE 1
    BY <2>2, DeciderDecides
  <2>6. /\ CompareVersions(a, b) \in {-1, 1}
        /\ CompareVersions(b, a) = -CompareVersions(a, b)
    BY <2>2, <2>3, <2>4, <2>5
  <2> QED
    BY <1>2, <2>6, OrderIsTransitive
<1> QED
  BY <1>1, <1>2

LEMMA VersionsParse ==
  ASSUME NEW a \in Versions
  PROVE  ParsesAsVersion(a)
<1> DEFINE Part == [digits : {TRUE}, len : 1..MaxDigits, n : Nat]
<1>1. DOMAIN a = 1..Len(a)
  BY LenProperties DEF Versions
<1>2. \A i \in 1..Len(a) : a[i] \in Part
  BY ElementOfSeq, Zenon DEF Versions
<1>3. \A part \in Part : part.len > 0 /\ part.len <= MaxDigits /\ part.digits
  <2>1. \A l \in 1..MaxDigits : l > 0 /\ l <= MaxDigits
    BY EvaluationAssumption DEF EvaluationAssumption
  <2>2. \A part \in Part : part.len \in 1..MaxDigits /\ part.digits = TRUE
    OBVIOUS
  <2> QED
    BY <2>1, <2>2, Zenon
<1> HIDE DEF Part
<1> QED
  BY <1>1, <1>2, <1>3, Zenon DEF ParsesAsVersion

\* What a condition with this operator and value says of a tag.
Holds(operator, tag, text) ==
  ConditionHolds([tagKey |-> "", operator |-> operator, value |-> text], tag)

\* The five semver operators (evaluate.go) speak of that order: gte, lt, lte
\* and gt are what their names say, a tag that is not the version is on one
\* side of it, and "2" equals "2.0".
THEOREM SemverOperatorsAgree ==
  ASSUME NEW tag \in Versions, NEW text \in Versions
  PROVE  /\ Holds("semver_eq", tag, text) <=> Alike(tag, text)
         /\ Holds("semver_gt", tag, text) <=> Holds("semver_lt", text, tag)
         /\ Holds("semver_gte", tag, text) <=> ~Holds("semver_lt", tag, text)
         /\ Holds("semver_lte", tag, text) <=> ~Holds("semver_gt", tag, text)
         /\ Holds("semver_gte", tag, text) /\ Holds("semver_lte", tag, text)
              <=> Holds("semver_eq", tag, text)
<1> DEFINE cmp(v, w) == CompareVersions(v, w)
<1>1. ASSUME NEW v \in Versions, NEW w \in Versions
      PROVE  /\ Holds("semver_eq", v, w) <=> cmp(v, w) = 0
             /\ Holds("semver_gt", v, w) <=> cmp(v, w) > 0
             /\ Holds("semver_gte", v, w) <=> cmp(v, w) >= 0
             /\ Holds("semver_lt", v, w) <=> cmp(v, w) < 0
             /\ Holds("semver_lte", v, w) <=> cmp(v, w) <= 0
  <2>1. ParsesAsVersion(v) /\ ParsesAsVersion(w)
    BY VersionsParse
  <2> QED
    BY <2>1 DEF Holds, ConditionHolds, SemverOperators
<1>2. /\ cmp(tag, text) \in {-1, 0, 1} /\ cmp(text, tag) = -cmp(tag, text)
      /\ cmp(tag, text) = 0 <=> Alike(tag, text)
  BY VersionsAreOrdered
<1> HIDE DEF cmp
<1>3. /\ cmp(tag, text) > 0 <=> cmp(text, tag) < 0
      /\ cmp(tag, text) >= 0 <=> ~(cmp(tag, text) < 0)
      /\ cmp(tag, text) <= 0 <=> ~(cmp(tag, text) > 0)
      /\ cmp(tag, text) >= 0 /\ cmp(tag, text) <= 0 <=> cmp(tag, text) = 0
  BY <1>2
<1> QED
  BY <1>1, <1>2, <1>3, Zenon
\* Number reads a version of at most three components.
Short(version) == Len(version) <= 3

\* One digit more: the higher digit decides, else the lower one.
LEMMA HigherDigitDecides ==
  ASSUME NEW base \in Nat, NEW x \in Nat, NEW y \in Nat,
         NEW c \in Nat, NEW d \in Nat, c < base, d < base
  PROVE  /\ x * base + c \in Nat /\ y * base + d \in Nat
         /\ x < y => x * base + c < y * base + d
         /\ x = y => (x * base + c < y * base + d <=> c < d)
<1>1. x * base \in Nat /\ y * base \in Nat
  OBVIOUS
<1>2. ASSUME x < y
      PROVE  x * base + c < y * base + d
  <2>1. PICK k \in Nat : y = x + 1 + k
    <3>1. y - x - 1 \in Nat /\ y = x + 1 + (y - x - 1)
      BY <1>2
    <3> QED
      BY <3>1
  <2>2. k * base \in Nat
    OBVIOUS
  <2>3. y * base = x * base + base + k * base
    BY <2>1
  <2> QED
    BY <1>1, <2>2, <2>3
<1>3. x = y => (x * base + c < y * base + d <=> c < d)
  BY <1>1
<1> QED
  BY <1>1, <1>2, <1>3

\* The first of three components to differ decides between two numbers.
LEMMA FirstDigitDecides ==
  ASSUME NEW a, NEW b, NEW base \in Nat,
         \A i \in {1, 2, 3} :
           /\ Component(a, i) \in Nat /\ Component(a, i) < base
           /\ Component(b, i) \in Nat /\ Component(b, i) < base
  PROVE  LET m == Number(a, base)
             n == Number(b, base)
             A(i) == Component(a, i)
             B(i) == Component(b, i)
         IN /\ m \in Nat /\ n \in Nat
            /\ A(1) # B(1) => m # n /\ (m < n <=> A(1) < B(1))
            /\ A(1) = B(1) /\ A(2) # B(2) => m # n /\ (m < n <=> A(2) < B(2))
            /\ A(1) = B(1) /\ A(2) = B(2) /\ A(3) # B(3)
                 => m # n /\ (m < n <=> A(3) < B(3))
<1> DEFINE a1 == Component(a, 1) a2 == Component(a, 2) a3 == Component(a, 3)
           b1 == Component(b, 1) b2 == Component(b, 2) b3 == Component(b, 3)
           p == a1 * base + a2
           q == b1 * base + b2
           m == p * base + a3
           n == q * base + b3
<1>1. /\ a1 \in Nat /\ a2 \in Nat /\ a3 \in Nat
      /\ b1 \in Nat /\ b2 \in Nat /\ b3 \in Nat
      /\ a2 < base /\ a3 < base /\ b2 < base /\ b3 < base
  OBVIOUS
<1>2. m = Number(a, base) /\ n = Number(b, base)
  BY Zenon DEF Number
<1> HIDE DEF a1, a2, a3, b1, b2, b3
<1>3. /\ p \in Nat /\ q \in Nat
      /\ a1 < b1 => p < q
      /\ b1 < a1 => q < p
      /\ a1 = b1 => (p < q <=> a2 < b2)
      /\ a1 = b1 => (q < p <=> b2 < a2)
  BY <1>1, HigherDigitDecides
<1>4. a1 = b1 /\ a2 = b2 => p = q
  BY Zenon
<1> HIDE DEF p, q
<1>5. /\ m \in Nat /\ n \in Nat
      /\ p < q => m < n
      /\ q < p => n < m
      /\ p = q => (m < n <=> a3 < b3)
      /\ p = q => (n < m <=> b3 < a3)
  BY <1>1, <1>3, HigherDigitDecides
<1> HIDE DEF m, n
<1>6. \A x, y \in Nat : /\ x < y => x # y /\ ~(y < x)
                        /\ x # y => x < y \/ y < x
  OBVIOUS
<1>7. a1 # b1 => m # n /\ (m < n <=> a1 < b1)
  BY <1>1, <1>3, <1>5, <1>6, Zenon
<1>8. a1 = b1 /\ a2 # b2 => m # n /\ (m < n <=> a2 < b2)
  BY <1>1, <1>3, <1>5, <1>6, Zenon
<1>9. a1 = b1 /\ a2 = b2 /\ a3 # b3 => m # n /\ (m < n <=> a3 < b3)
  BY <1>1, <1>4, <1>5, <1>6, Zenon
<1> QED
  BY <1>2, <1>5, <1>7, <1>8, <1>9, Zenon DEF a1, a2, a3, b1, b2, b3

\* Versions that differ do so within the longer one.
LEMMA ShortDifference ==
  ASSUME NEW a \in Versions, NEW b \in Versions, Short(a), Short(b),
         NEW i \in Positions, Decides(a, b, i)
  PROVE  i \in {1, 2, 3}
<1>1. i <= Len(a) \/ i <= Len(b)
  BY ComponentIs, Zenon DEF Decides
<1>2. Len(a) \in Nat /\ Len(b) \in Nat /\ Len(a) <= 3 /\ Len(b) <= 3
  BY ComponentIs DEF Short
<1>3. i <= 3
  BY <1>1, <1>2 DEF Positions
<1> QED
  BY <1>3 DEF Positions

\* Read in a base greater than all components, two versions of at most three
\* components compare as numbers.
LEMMA NumbersCompare ==
  ASSUME NEW a \in Versions, NEW b \in Versions, Short(a), Short(b)
  PROVE  LET m == Number(a, BaseOf(a, b))
             n == Number(b, BaseOf(a, b))
         IN /\ m \in Nat /\ n \in Nat
            /\ CompareVersions(a, b) = IF m = n THEN 0 ELSE
                                       IF m < n THEN -1 ELSE 1
<1> DEFINE base == BaseOf(a, b)
           m == Number(a, base)
           n == Number(b, base)
           A(i) == Component(a, i)
           B(i) == Component(b, i)
<1>1. 1 \in Positions /\ 2 \in Positions /\ 3 \in Positions
  BY DEF Positions
<1>2. /\ A(1) \in Nat /\ A(2) \in Nat /\ A(3) \in Nat
      /\ B(1) \in Nat /\ B(2) \in Nat /\ B(3) \in Nat
  BY <1>1, ComponentIs
<1>3. base = 1 + A(1) + A(2) + A(3) + B(1) + B(2) + B(3)
  BY DEF BaseOf
<1>4. A(1) = B(1) /\ A(2) = B(2) /\ A(3) = B(3) => m = n
  BY Zenon DEF Number
<1> HIDE DEF base
<1>5. base \in Nat /\ \A i \in {1, 2, 3} : A(i) < base /\ B(i) < base
  <2> HIDE DEF A, B
  <2> QED
    BY <1>2, <1>3
<1>6. /\ m \in Nat /\ n \in Nat
      /\ A(1) # B(1) => m # n /\ (m < n <=> A(1) < B(1))
      /\ A(1) = B(1) /\ A(2) # B(2) => m # n /\ (m < n <=> A(2) < B(2))
      /\ A(1) = B(1) /\ A(2) = B(2) /\ A(3) # B(3)
           => m # n /\ (m < n <=> A(3) < B(3))
  <2>1. \A i \in {1, 2, 3} :
          /\ Component(a, i) \in Nat /\ Component(a, i) < base
          /\ Component(b, i) \in Nat /\ Component(b, i) < base
    BY <1>2, <1>5
  <2>2. base \in Nat
    BY <1>5
  <2> QED
    BY <2>1, <2>2, FirstDigitDecides, Zenon
<1> HIDE DEF m, n, A, B
<1>7. CASE Alike(a, b)
  <2>1. A(1) = B(1) /\ A(2) = B(2) /\ A(3) = B(3)
    BY <1>1, <1>7, Zenon DEF Alike, A, B
  <2>2. m = n
    BY <1>4, <2>1, Zenon
  <2>3. CompareVersions(a, b) = 0
    BY <1>7, AlikeIsZero
  <2> QED
    BY <1>6, <2>2, <2>3 DEF m, n, base
<1>8. CASE ~Alike(a, b)
  <2>1. PICK i \in Positions : Decides(a, b, i)
    BY <1>8, FirstDifference
  <2>2. CompareVersions(a, b) = IF A(i) < B(i) THEN -1 ELSE 1
    BY <2>1, DeciderDecides DEF A, B
  <2>3. A(i) # B(i) /\ \A j \in 1..(i - 1) : A(j) = B(j)
    BY <2>1, Zenon DEF Decides, A, B
  <2>4. i \in {1, 2, 3}
    BY <2>1, ShortDifference
  <2>5. /\ i = 2 => 1 \in 1..(i - 1)
        /\ i = 3 => 1 \in 1..(i - 1) /\ 2 \in 1..(i - 1)
    OBVIOUS
  <2>6. m # n /\ (m < n <=> A(i) < B(i))
    <3>1. CASE i = 1
      BY <1>6, <2>3, <3>1, Zenon
    <3>2. CASE i = 2
      BY <1>6, <2>3, <2>5, <3>2, Zenon
    <3>3. CASE i = 3
      BY <1>6, <2>3, <2>5, <3>3, Zenon
    <3> QED
      BY <2>4, <3>1, <3>2, <3>3
  <2> QED
    BY <1>6, <2>2, <2>6, Zenon DEF m, n, base
<1> QED
  BY <1>7, <1>8

\* A text that reads as a version is one.
LEMMA TextIsVersion ==
  ASSUME NEW text, IsText(text),
         \A i \in DOMAIN text : text[i].digits /\ text[i].len \in 1..MaxDigits
  PROVE  text \in Versions
<1> DEFINE Part == [digits : BOOLEAN, len : Nat, n : Nat]
           Digits == [digits : {TRUE}, len : 1..MaxDigits, n : Nat]
<1>1. /\ Len(text) \in Nat /\ DOMAIN text = 1..Len(text)
      /\ text \in [1..Len(text) -> Part]
  BY LenProperties DEF IsText
<1>2. \A part \in Part :
        part.digits /\ part.len \in 1..MaxDigits => part \in Digits
  OBVIOUS
<1> HIDE DEF Part, Digits
<1>3. text \in [1..Len(text) -> Digits]
  BY <1>1, <1>2
<1>4. text \in Seq(Digits)
  BY <1>1, <1>3, SeqDef
<1> QED
  BY <1>4 DEF Versions, Digits

\* What a semver operator says of a text and a version is what the numbers
\* say.
LEMMA ConditionReadsAsNumbers ==
  ASSUME NEW condition, NEW tag, IsText(tag), IsText(condition.value),
         condition.operator \in SemverOperators
  PROVE  ReadsAsNumbers(condition.operator, tag, condition.value,
                        ConditionHolds(condition, tag))
<1> DEFINE text == condition.value
           operator == condition.operator
           IsVersion(t) ==
             \A i \in DOMAIN t : t[i].digits /\ t[i].len \in 1..MaxDigits
           m == Number(tag, BaseOf(tag, text))
           n == Number(text, BaseOf(tag, text))
           cmp == CompareVersions(tag, text)
           Says(x, y) == \/ operator = "semver_eq" /\ x = y
                         \/ operator = "semver_gt" /\ x > y
                         \/ operator = "semver_gte" /\ x >= y
                         \/ operator = "semver_lt" /\ x < y
                         \/ operator = "semver_lte" /\ x <= y
<1>1. ASSUME NEW t, IsText(t)
      PROVE  ParsesAsVersion(t) <=> IsVersion(t)
  <2>1. DOMAIN t = 1..Len(t) /\ \A i \in 1..Len(t) : t[i].len \in Nat
    <3>1. DOMAIN t = 1..Len(t)
      BY <1>1, LenProperties DEF IsText
    <3>2. \A i \in 1..Len(t) : t[i] \in [digits : BOOLEAN, len : Nat, n : Nat]
      BY <1>1, ElementOfSeq, Zenon DEF IsText
    <3> QED
      BY <3>1, <3>2
  <2>2. \A l \in Nat : l \in 1..MaxDigits <=> l > 0 /\ l <= MaxDigits
    BY EvaluationAssumption DEF EvaluationAssumption
  <2> QED
    BY <2>1, <2>2, Zenon DEF ParsesAsVersion
<1>2. /\ operator \in {"semver_eq", "semver_gt", "semver_gte", "semver_lt",
                       "semver_lte"}
      /\ ConditionHolds(condition, tag) <=>
           ParsesAsVersion(tag) /\ ParsesAsVersion(text) /\ Says(cmp, 0)
  BY DEF SemverOperators, ConditionHolds
<1>3. ASSUME IsVersion(tag), IsVersion(text), Len(tag) <= 3, Len(text) <= 3
      PROVE  Says(cmp, 0) <=> Says(m, n)
  <2>1. tag \in Versions /\ text \in Versions
    BY <1>3, TextIsVersion
  <2>2. /\ m \in Nat /\ n \in Nat
        /\ cmp = IF m = n THEN 0 ELSE IF m < n THEN -1 ELSE 1
    BY <1>3, <2>1, NumbersCompare DEF Short
  <2> HIDE DEF cmp, m, n, operator
  <2>3. /\ cmp = 0 <=> m = n
        /\ cmp > 0 <=> m > n
        /\ cmp >= 0 <=> m >= n
        /\ cmp < 0 <=> m < n
        /\ cmp <= 0 <=> m <= n
    BY <2>2
  <2> QED
    BY <2>3, Zenon
<1>4. IsVersion(tag) /\ IsVersion(text) /\ Len(tag) <= 3 /\ Len(text) <= 3
        => (ConditionHolds(condition, tag) <=> Says(m, n))
  BY <1>1, <1>2, <1>3, Zenon
<1>5. ConditionHolds(condition, tag) => IsVersion(tag) /\ IsVersion(text)
  BY <1>1, <1>2, Zenon
<1> QED
  BY <1>4, <1>5, Zenon DEF ReadsAsNumbers

\* Whatever versions a flag's conditions and a context's tags carry, the five
\* semver operators compare them as the numbers that "major.minor.patch"
\* suggests, in any base with their components for digits, and none of the
\* five holds of a text that is no version.
THEOREM SemverAlwaysMeansWhatItSays == Spec => []SemverMeansWhatItSays
<1>1. TypeOK => SemverMeansWhatItSays
  <2> SUFFICES ASSUME TypeOK,
                      NEW i \in DOMAIN config.rules,
                      NEW j \in DOMAIN config.rules[i].conditions,
                      LET condition == config.rules[i].conditions[j]
                      IN condition.operator \in SemverOperators
                         /\ condition.tagKey \in DOMAIN tags
               PROVE  LET condition == config.rules[i].conditions[j]
                          tag == tags[condition.tagKey]
                      IN ReadsAsNumbers(condition.operator, tag,
                           condition.value, ConditionHolds(condition, tag))
    BY Zenon DEF SemverMeansWhatItSays
  <2> DEFINE condition == config.rules[i].conditions[j]
             tag == tags[condition.tagKey]
  <2>1. config.rules[i] \in Rules /\ tags \in TagSets
    <3>1. DOMAIN config.rules = 1..Len(config.rules)
      BY LenProperties DEF TypeOK
    <3> QED
      BY <3>1, ElementOfSeq, Zenon DEF TypeOK
  <2>2. IsText(condition.value) /\ IsText(tag)
    BY <2>1, EvaluationAssumption, Zenon DEF EvaluationAssumption
  <2> QED
    BY <2>2, ConditionReadsAsNumbers
<1> QED
  BY <1>1, EvaluationTypeCorrect, PTL
=============================================================================
