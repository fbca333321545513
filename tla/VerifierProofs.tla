--------------------------- MODULE VerifierProofs ---------------------------
(***************************************************************************)
(* What verifyEnvelope's verdict says, for every envelope, policy and      *)
(* expectation.                                                            *)
(***************************************************************************)
EXTENDS Verifier, TLAPS

\* checkSignature answers one of the enumerated rejections, or accepts.
LEMMA SignatureVerdictType ==
  ASSUME NEW wire, NEW policy
  PROVE  SignatureVerdict(wire, policy) \in Rejections \cup {Accepted}
BY DEF SignatureVerdict, CheckSignature, Rejections, Accepted

\* So do the checks on the payload.
LEMMA PayloadVerdictType ==
  ASSUME NEW payload, NEW expect
  PROVE  PayloadVerdict(payload, expect) \in Rejections \cup {Accepted}
BY DEF PayloadVerdict, WindowVerdict, Rejections, Accepted

\* And so does verifyEnvelope.
LEMMA VerdictType ==
  ASSUME NEW wire, NEW policy, NEW expect
  PROVE  VerifyEnvelope(wire, policy, expect) \in Rejections \cup {Accepted}
BY SignatureVerdictType, PayloadVerdictType DEF VerifyEnvelope, Rejections

\* A signature that passes was made over these bytes by a well-formed key of
\* the trust store.
LEMMA AcceptedSignature ==
  ASSUME NEW wire, NEW policy, SignatureVerdict(wire, policy) = Accepted
  PROVE  Signed(wire, policy)
<1>1. CASE ~policy.required
  BY <1>1 DEF Signed
<1>2. CASE policy.required
  <2>1. CheckSignature(wire.sig, wire.payload, policy) = Accepted
    BY <1>2 DEF SignatureVerdict
  <2>2. /\ wire.sig.keyID \in DOMAIN policy.trustedKeys
        /\ policy.trustedKeys[wire.sig.keyID] # MalformedKey
        /\ Ed25519Verify(policy.trustedKeys[wire.sig.keyID], wire.payload,
                         wire.sig)
    BY <2>1 DEF CheckSignature, Accepted
  <2>3. QED
    BY <2>2 DEF Signed, Ed25519Verify
<1>3. QED
  BY <1>1, <1>2

\* A payload that passes is in a version and of kinds this binary speaks, for
\* the expected environment, and within its window.
LEMMA AcceptedPayload ==
  ASSUME NEW payload, NEW expect, PayloadVerdict(payload, expect) = Accepted
  PROVE  /\ payload.sv = SupportedSV
         /\ payload.environment = expect.environment
         /\ \A flag \in DOMAIN payload.flags : payload.flags[flag].kind \in Kinds
         /\ ~(payload.issuedAt.at - expect.now > SkewTolerance)
         /\ expect.enforceExpiry =>
              ~(expect.now - payload.expiresAt.at > SkewTolerance)
<1>1. /\ ParsePayload(payload)
      /\ payload.sv = SupportedSV
      /\ payload.environment = expect.environment
      /\ WindowVerdict(payload, expect) = Accepted
  BY DEF PayloadVerdict, Accepted
<1>2. QED
  BY <1>1 DEF ParsePayload, WindowVerdict, Accepted

\* verifyEnvelope accepts nothing but the genuine, on either path, and what it
\* accepts is within the window that path enforces.
THEOREM AcceptanceIsSound ==
  ASSUME NEW wire, NEW policy, NEW expect,
         VerifyEnvelope(wire, policy, expect) = Accepted
  PROVE  /\ Genuine(wire, policy, expect.environment)
         /\ ~(wire.payload.issuedAt.at - expect.now > SkewTolerance)
         /\ expect.enforceExpiry =>
              ~(expect.now - wire.payload.expiresAt.at > SkewTolerance)
<1>1. /\ wire.wellFormed
      /\ SignatureVerdict(wire, policy) = Accepted
      /\ PayloadVerdict(wire.payload, expect) = Accepted
  BY DEF VerifyEnvelope, Accepted
<1>2. Signed(wire, policy)
  BY <1>1, AcceptedSignature
<1>3. QED
  BY <1>1, <1>2, AcceptedPayload DEF Genuine
\* Only the window depends on the clock: an envelope accepted at one reading
\* of it, live, meets another reading with the verdict of its window.
LEMMA OnlyTheWindowAges ==
  ASSUME NEW wire, NEW policy, NEW environment, NEW then, NEW later,
         NEW enforced \in BOOLEAN,
         VerifyEnvelope(wire, policy, [environment |-> environment,
           now |-> then, enforceExpiry |-> TRUE]) = Accepted
  PROVE  LET expect == [environment |-> environment, now |-> later,
                        enforceExpiry |-> enforced]
         IN VerifyEnvelope(wire, policy, expect) =
              WindowVerdict(wire.payload, expect)
<1> DEFINE before == [environment |-> environment, now |-> then,
                      enforceExpiry |-> TRUE]
           after == [environment |-> environment, now |-> later,
                     enforceExpiry |-> enforced]
<1>1. /\ wire.wellFormed
      /\ SignatureVerdict(wire, policy) = Accepted
      /\ PayloadVerdict(wire.payload, before) = Accepted
  BY DEF VerifyEnvelope, Accepted
<1>2. /\ ParsePayload(wire.payload)
      /\ wire.payload.sv = SupportedSV
      /\ wire.payload.environment = environment
      /\ ParseWireTime(wire.payload.issuedAt)
      /\ ParseWireTime(wire.payload.expiresAt)
  BY <1>1 DEF PayloadVerdict, Accepted
<1>3. PayloadVerdict(wire.payload, after) = WindowVerdict(wire.payload, after)
  BY <1>2 DEF PayloadVerdict
<1> QED
  BY <1>1, <1>3 DEF VerifyEnvelope

\* The tolerance, exactly (clockSkewTolerance): an envelope good for lifetime,
\* acceptable when and where it was issued, is accepted live by a host whose
\* clock is off by error (fast, or slow if negative) if and only if the host is
\* slow by at most the tolerance and fast by at most the lifetime and the
\* tolerance. A cached one only minds a clock that is slow.
THEOREM ToleranceIsExact ==
  ASSUME NEW wire, NEW policy, NEW environment,
         NEW issued \in Int, NEW lifetime \in Int, NEW error \in Int,
         wire.payload.issuedAt.at = issued,
         wire.payload.expiresAt.at = issued + lifetime,
         VerifyEnvelope(wire, policy, [environment |-> environment,
           now |-> issued, enforceExpiry |-> TRUE]) = Accepted
  PROVE  LET Verdict(enforced) ==
               VerifyEnvelope(wire, policy, [environment |-> environment,
                 now |-> issued + error, enforceExpiry |-> enforced])
         IN /\ Verdict(TRUE) = Accepted <=>
                 -SkewTolerance <= error /\ error <= lifetime + SkewTolerance
            /\ Verdict(FALSE) = Accepted <=> -SkewTolerance <= error
<1> DEFINE At(enforced) == [environment |-> environment, now |-> issued + error,
                            enforceExpiry |-> enforced]
<1>1. \A enforced \in BOOLEAN :
        VerifyEnvelope(wire, policy, At(enforced)) =
          WindowVerdict(wire.payload, At(enforced))
  BY OnlyTheWindowAges
<1>2. /\ issued - (issued + error) > SkewTolerance <=> ~(-SkewTolerance <= error)
      /\ (issued + error) - (issued + lifetime) > SkewTolerance <=>
           ~(error <= lifetime + SkewTolerance)
  BY SkewAssumption DEF SkewAssumption
<1>3. /\ WindowVerdict(wire.payload, At(TRUE)) = Accepted <=>
           -SkewTolerance <= error /\ error <= lifetime + SkewTolerance
      /\ WindowVerdict(wire.payload, At(FALSE)) = Accepted <=>
           -SkewTolerance <= error
  BY <1>2 DEF WindowVerdict, Accepted
<1> QED
  BY <1>1, <1>3, Zenon
=============================================================================
