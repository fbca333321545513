--------------------------- MODULE Configuration ---------------------------
(***************************************************************************)
(* What New makes of the host's Configuration (configuration.go). A key is *)
(* a sequence of characters, of which only "_", "-", the prefix "ffs"      *)
(* (here one character), letters and digits that may name an environment   *)
(* ("a") and all others ("A") are told apart. BaseURL and CachePath are    *)
(* carried over unread and left out.                                       *)
(***************************************************************************)
EXTENDS Integers, Sequences

CONSTANTS
  MaxEnvironmentLength,   \* 32
  MinimumPollInterval, DefaultPollInterval,
  DefaultHTTPTimeout,
  ErrMalformedKey

Characters == {"ffs", "_", "-", "a", "A"}

ASSUME ConfigurationAssumption ==
  /\ MaxEnvironmentLength \in Nat
  /\ MinimumPollInterval \in Nat /\ DefaultPollInterval \in Nat
  /\ DefaultHTTPTimeout \in Nat \ {0}
  /\ ErrMalformedKey \notin Seq(Characters)

HasUnderscore(s) == \E i \in DOMAIN s : s[i] = "_"

FirstUnderscore(s) ==
  CHOOSE i \in DOMAIN s : s[i] = "_" /\ \A j \in 1..(i - 1) : s[j] # "_"

Before(s) == SubSeq(s, 1, FirstUnderscore(s) - 1)
After(s)  == SubSeq(s, FirstUnderscore(s) + 1, Len(s))

\* Mutant: strings.Split, which cuts at the secret's underscores too.
MutantSplit(raw) ==
  IF ~HasUnderscore(raw) THEN <<raw>>
  ELSE LET rest == After(raw) IN
       IF ~HasUnderscore(rest) THEN <<Before(raw), rest>>
       ELSE IF ~HasUnderscore(After(rest))
       THEN <<Before(raw), Before(rest), After(rest)>>
       ELSE <<Before(raw), Before(rest), Before(After(rest)),
              After(After(rest))>>

\* strings.SplitN(raw, "_", 3)
SplitN(raw) ==
  IF ~HasUnderscore(raw) THEN <<raw>>
  ELSE LET rest == After(raw) IN
       IF HasUnderscore(rest) THEN <<Before(raw), Before(rest), After(rest)>>
                              ELSE <<Before(raw), rest>>

ValidEnvironmentKey(key) ==
  /\ Len(key) \in 2..MaxEnvironmentLength
  /\ \A i \in DOMAIN key :
       key[i] = "a" \/ (key[i] = "-" /\ i # 1 /\ i # Len(key))

\* The environment the key claims.
ParseKey(raw) ==
  LET parts == SplitN(raw) IN
  IF /\ Len(parts) = 3
     /\ parts[1] = <<"ffs">>
     /\ parts[3] # << >>
     /\ ValidEnvironmentKey(parts[2])
  THEN parts[2] ELSE ErrMalformedKey

\* Mutant: the contract's floor is not enforced.
MutantNoFloor(pollInterval) ==
  IF pollInterval = 0 THEN DefaultPollInterval ELSE pollInterval

ResolveInterval(pollInterval) ==
  LET interval == IF pollInterval = 0 THEN DefaultPollInterval
                                      ELSE pollInterval
  IN IF interval < MinimumPollInterval THEN MinimumPollInterval ELSE interval

ResolveTimeout(httpTimeout) ==
  IF httpTimeout <= 0 THEN DefaultHTTPTimeout ELSE httpTimeout

\* The zero value of a SignaturePolicy means required, not disabled.
ResolveSignature(signature) == ~signature.explicit \/ signature.required

ResolveConfiguration(given) ==
  LET environment == ParseKey(given.key) IN
  IF environment = ErrMalformedKey THEN ErrMalformedKey
  ELSE [environment |-> environment,
        interval |-> ResolveInterval(given.pollInterval),
        httpTimeout |-> ResolveTimeout(given.httpTimeout),
        required |-> ResolveSignature(given.signature)]
=============================================================================
