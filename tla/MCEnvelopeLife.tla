--------------------------- MODULE MCEnvelopeLife ---------------------------
(***************************************************************************)
(* The envelopes and trust stores of the EnvelopeLife run: each check of   *)
(* the verifier has an envelope that only it rejects, and several that     *)
(* would fail more than one, so that the order of the checks shows.        *)
(***************************************************************************)
EXTENDS EnvelopeLife

Time(at) == [form |-> "rfc3339", at |-> at]
Absent   == [form |-> "absent",  at |-> 0]
Garbage  == [form |-> "garbage", at |-> 0]

Payload(json, sv, environment, issuedAt, expiresAt, kind) ==
  [json |-> json, sv |-> sv, environment |-> environment,
   issuedAt |-> issuedAt, expiresAt |-> expiresAt,
   flags |-> [flag \in {"f"} |-> [kind |-> kind]]]

Good == Payload(TRUE, 1, "prod", Time(3), Time(5), "boolean")

MCPayloads ==
  {Good}
  \cup {Payload(TRUE, sv, environment, issuedAt, Time(5), kind) :
          sv \in {1, 2}, environment \in {"prod", "dev"},
          issuedAt \in {Time(3), Garbage}, kind \in {"boolean", "object"}}
  \cup {Payload(TRUE, 1, "prod", Time(3), expiresAt, "string") :
          expiresAt \in {Time(1), Time(4), Absent, Garbage}}
  \cup {Payload(TRUE, 1, "prod", Absent, Time(5), "string"),
        Payload(TRUE, 1, "", Time(3), Time(5), "string"),
        Payload(FALSE, 0, "", Absent, Absent, "boolean")}

Sig(keyID, by, over) ==
  [present |-> TRUE, separated |-> TRUE, algorithm |-> "ed25519",
   keyID |-> keyID, encoding |-> "base64url", by |-> by, over |-> over]

Tampered == Payload(TRUE, 1, "prod", Time(2), Time(6), "boolean")

\* A signature by the named key over the payload or over another one, and one
\* that fails each earlier check. They all name a key rotation may publish.
MCSigs(payload) ==
  {Sig("k1", "K1", payload), Sig("k2", "K1", payload),
   Sig("k1", "rogue", payload), Sig("k1", "K1", Tampered)}
  \cup {[Sig("k1", "K1", payload) EXCEPT !.present = FALSE],
        [Sig("k1", "K1", payload) EXCEPT !.separated = FALSE],
        [Sig("k1", "K1", payload) EXCEPT !.algorithm = "rsa"],
        [Sig("k1", "K1", payload) EXCEPT !.encoding = "invalid"],
        [Sig("k1", "K1", payload) EXCEPT !.encoding = "empty"]}

MCWireSet ==
  UNION {{[wellFormed |-> TRUE, sig |-> sig, payload |-> payload] :
            sig \in MCSigs(payload)} : payload \in MCPayloads}
  \cup {[wellFormed |-> FALSE, sig |-> Sig("k1", "K1", Good),
         payload |-> Good]}

MCTrustStores ==
  {[id \in {} |-> MalformedKey], [id \in {"k1"} |-> "K1"],
   [id \in {"k1"} |-> MalformedKey]}

\* The envelope of the hour-fast host: issued at 0, good for 30 minutes
\* (as in testsupport_test.go), signed and about this environment.
MCHourFastWire ==
  LET payload == Payload(TRUE, 1, "prod", Time(0), Time(30), "boolean")
  IN [wellFormed |-> TRUE, sig |-> Sig("k1", "K1", payload),
      payload |-> payload]

MCHourFastWires       == {MCHourFastWire}
MCHourFastTrustStores == {[id \in {"k1"} |-> "K1"]}
=============================================================================
