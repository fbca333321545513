------------------------------ MODULE MCClient ------------------------------
(***************************************************************************)
(* Envelopes, outcomes and configurations for the runs of Client. The      *)
(* clock shows 0, 1 or 2 and SkewTolerance is 0, so that an envelope can   *)
(* be from the future, current and expired within one behaviour.           *)
(***************************************************************************)
EXTENDS ClientProperties, TLC

Time(at) == [form |-> "rfc3339", at |-> at]

Flag(kind, answer) == [kind |-> kind, answer |-> answer]

\* Version 1 has a boolean flag "f"; in version 2 "f" changed its kind, and
\* "g" came, which has no usable value. Version 3 is another environment's.
Payload1 ==
  [json |-> TRUE, sv |-> 1, environment |-> "prod", issuedAt |-> Time(0),
   expiresAt |-> Time(1), flags |-> [key \in {"f"} |-> Flag("boolean", "on")]]

Payload2 ==
  [Payload1 EXCEPT !.issuedAt = Time(1), !.expiresAt = Time(2),
     !.flags = [key \in {"f", "g"} |->
                  IF key = "f" THEN Flag("string", "buy-now")
                               ELSE Flag("boolean", NoValue)]]

Payload3 == [Payload1 EXCEPT !.environment = "dev", !.expiresAt = Time(2)]

Sig(by, over) ==
  [present |-> TRUE, separated |-> TRUE, algorithm |-> "ed25519",
   keyID |-> "k1", encoding |-> "base64url", by |-> by, over |-> over]

Wire(sig, payload) == [wellFormed |-> TRUE, sig |-> sig, payload |-> payload]

Wire1  == Wire(Sig("K1", Payload1), Payload1)
Wire2  == Wire(Sig("K1", Payload2), Payload2)
Wire3  == Wire(Sig("K1", Payload3), Payload3)
Forged == Wire(Sig("rogue", Payload1), Payload1)

MCWires   == {Wire1, Wire2, Wire3, Forged}
OneWire   == {Wire1}
TwoWires  == {Wire1, Forged}

TwoVersions == {Wire1, Wire2}

MCAnswers == {"on", "buy-now", NoValue}

Success(wire, etag) == [kind |-> "success", wire |-> wire, etag |-> etag]
Bare(kind) == [kind |-> kind, wire |-> NoBytes, etag |-> NoETag]

\* Every envelope comes with a validator of its own.
MCOutcomes ==
  {Success(Wire1, "e1"), Success(Wire2, "e2"), Success(Wire3, "e3"),
   Success(Forged, "e4"), Bare("notModified"), Bare("unauthorized")}

VersionOutcomes ==
  {Success(Wire1, "e1"), Success(Wire2, "e2"), Bare("transportError")}

LifeOutcomes == {Success(Wire1, "e1"), Bare("unauthorized")}

AllKinds ==
  {Success(Wire1, "e1"), Success(Forged, NoETag)}
    \cup {Bare(kind) : kind \in OutcomeKinds \ {"success"}}

Required == [required |-> TRUE, trustedKeys |-> [id \in {"k1"} |-> "K1"]]
Disabled == [required |-> FALSE, trustedKeys |-> [id \in {} |-> MalformedKey]]

Configuration(environment, policy, cachePath) ==
  [environment |-> environment, policy |-> policy, cachePath |-> cachePath]

MCConfigurations ==
  {Configuration("prod", Required, TRUE), Configuration("prod", Disabled, TRUE),
   Configuration("dev", Required, TRUE), Configuration("prod", Required, FALSE)}

LifeConfigurations ==
  {Configuration("prod", Required, TRUE), Configuration("prod", Required, FALSE)}

OneConfiguration == {Configuration("prod", Required, TRUE)}

\* Goroutines that make the same calls are alike.
Symmetric == Permutations(Starters) \cup Permutations(Closers)
=============================================================================
