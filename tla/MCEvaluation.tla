---------------------------- MODULE MCEvaluation ----------------------------
(***************************************************************************)
(* Flags for the run of Evaluation: every operator against every pair of a *)
(* few texts, and every walk over at most two rules of a few, in buckets   *)
(* before, at and behind the gates (BucketCount is 3, MaxDigits 2).        *)
(***************************************************************************)
EXTENDS Evaluation

Part(n) == [digits |-> TRUE, len |-> IF n > 9 THEN 2 ELSE 1, n |-> n]
Word(n) == [digits |-> FALSE, len |-> 2, n |-> n]

Empty == <<[digits |-> TRUE, len |-> 0, n |-> 0]>>
Zeros == [digits |-> TRUE, len |-> 2, n |-> 2]     \* "02"
Long  == [digits |-> TRUE, len |-> 3, n |-> 2]     \* "002"

\* "", "2", "2.0", "2.0.1", "10", "2.10", "1.9.9", "02", "002", "v2", "2.v2"
Texts ==
  {Empty, <<Part(2)>>, <<Part(2), Part(0)>>, <<Part(2), Part(0), Part(1)>>,
   <<Part(10)>>, <<Part(2), Part(10)>>, <<Part(1), Part(9), Part(9)>>,
   <<Zeros>>, <<Long>>, <<Word(1)>>, <<Part(2), Word(1)>>}

\* strings.Contains on these texts: a run of whole parts, or the parts that
\* contain another one.
MCSubstrings ==
  {<<text, part>> \in Texts \X Texts :
     part = Empty \/ \E i, j \in DOMAIN text : SubSeq(text, i, j) = part}
    \cup {<<<<Zeros>>, <<Part(2)>>>>, <<<<Long>>, <<Part(2)>>>>,
          <<<<Long>>, <<Zeros>>>>, <<<<Word(1)>>, <<Part(2)>>>>}

Condition(key, operator, v) ==
  [tagKey |-> key, operator |-> operator, value |-> v]

Rule(conditions, serve, percentage) ==
  [conditions |-> conditions, serve |-> serve,
   rolloutPercentage |-> percentage]

On  == Raw("boolean", "true")
Off == Raw("boolean", "false")

Operators == SemverOperators \cup {"eq", "neq", "contains", "matches"}

OneCondition ==
  {Rule(<<Condition("k", operator, v)>>, On, NoRollout) :
     operator \in Operators, v \in Texts}

Hit  == Condition("k", "eq", <<Part(2)>>)
Miss == Condition("absent", "neq", <<Part(2)>>)

Serving ==
  {Rule(conditions, serve, percentage) :
     conditions \in {<<>>, <<Hit>>, <<Hit, Miss>>},
     serve \in {On, Raw("string", "buy"), Raw("null", "none")},
     percentage \in {NoRollout, 0, 1, 3}}

Second ==
  {rule \in Serving : rule.serve.shape # "null" /\ rule.conditions # <<Hit, Miss>>
                        /\ rule.rolloutPercentage \notin {0, 3}}

MCRules == OneCondition \cup Serving

Flag(kind, default, rules) ==
  [kind |-> kind, default |-> default, rules |-> rules]

MCConfigs ==
  {Flag("boolean", Off, <<rule>>) : rule \in OneCondition}
    \cup {Flag(kind, default, <<rule, then>>) :
            kind \in {"boolean", "string"},
            default \in {Off, Raw("absent", "none")},
            rule \in Serving, then \in Second}
    \cup {Flag("json", Raw("other", "{}"), <<rule>>) : rule \in Serving}

MCTagSets == {[key \in {} |-> Empty]} \cup [{"k"} -> Texts]
=============================================================================
