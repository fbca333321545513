------------------------- MODULE EnvelopeLifeProofs -------------------------
(***************************************************************************)
(* The verifier's properties for every envelope, trust store and clock.    *)
(* The first three hold in every state, whatever led to it; the fourth is  *)
(* about a step, and holds of every step.                                  *)
(***************************************************************************)
EXTENDS EnvelopeLife, VerifierProofs

\* On both paths verifyEnvelope accepts only genuine envelopes.
THEOREM AcceptedIsGenuineAlways == Spec => []AcceptedIsGenuine
<1>1. AcceptedIsGenuine
  <2>1. ASSUME Accepted \in {LiveVerdict, CacheVerdict}
        PROVE  Genuine(wire, policy, HostEnvironment)
    <3>1. PICK enforce \in BOOLEAN :
            VerifyEnvelope(wire, policy, Expect(enforce)) = Accepted
      BY <2>1 DEF LiveVerdict, CacheVerdict
    <3>2. Expect(enforce).environment = HostEnvironment
      BY DEF Expect
    <3>3. QED
      BY <3>1, <3>2, AcceptanceIsSound
  <2>2. QED
    BY <2>1 DEF AcceptedIsGenuine
<1>2. QED
  BY <1>1, PTL

\* The cache path differs from the live one on expired envelopes only.
THEOREM CacheForgivesOnlyExpiryAlways == Spec => []CacheForgivesOnlyExpiry
<1>1. CacheForgivesOnlyExpiry
  <2>1. ASSUME NEW payload
        PROVE  \/ PayloadVerdict(payload, Expect(TRUE))
                    = PayloadVerdict(payload, Expect(FALSE))
               \/ /\ PayloadVerdict(payload, Expect(TRUE)) = "expired"
                  /\ PayloadVerdict(payload, Expect(FALSE)) = Accepted
    BY DEF PayloadVerdict, WindowVerdict, Expect
  <2>2. QED
    BY <2>1 DEF CacheForgivesOnlyExpiry, LiveVerdict, CacheVerdict,
                VerifyEnvelope, Accepted
<1>2. QED
  BY <1>1, PTL

\* A rejection that speaks of the payload is given for signed bytes only.
THEOREM SignatureComesFirstAlways == Spec => []SignatureComesFirst
<1>1. SignatureComesFirst
  <2>1. SUFFICES ASSUME LiveVerdict \in
                   {"malformedPayload", "unsupportedContractVersion",
                    "environmentMismatch", "issuedInTheFuture", "expired"}
                 PROVE  Signed(wire, policy)
    BY DEF SignatureComesFirst
  <2>2. SignatureVerdict(wire, policy) \in
          {"missingSignature", "malformedSignature", "badSignature",
           "unsupportedSignatureAlgorithm", "unknownKeyId", Accepted}
    BY DEF SignatureVerdict, CheckSignature
  <2>3. SignatureVerdict(wire, policy) = Accepted
    BY <2>1, <2>2 DEF LiveVerdict, VerifyEnvelope, Accepted
  <2>4. QED
    BY <2>3, AcceptedSignature
<1>2. QED
  BY <1>1, PTL

\* A trust store that knows more accepts what the smaller one accepted.
LEMMA RotationKeepsSignatures ==
  ASSUME NEW id, NEW key, Rotate(id, key),
         SignatureVerdict(wire, policy) = Accepted
  PROVE  SignatureVerdict(wire, policy') = Accepted
<1>1. /\ policy.required
      /\ id \notin DOMAIN policy.trustedKeys
      /\ policy' = SignatureRequired(
           [known \in DOMAIN policy.trustedKeys \cup {id} |->
              IF known = id THEN key ELSE policy.trustedKeys[known]])
  BY DEF Rotate
<1>2. CheckSignature(wire.sig, wire.payload, policy) = Accepted
  BY <1>1 DEF SignatureVerdict
<1>3. /\ wire.sig.keyID \in DOMAIN policy.trustedKeys
      /\ wire.sig.keyID # id
  BY <1>1, <1>2 DEF CheckSignature, Accepted
<1>4. /\ policy'.required
      /\ wire.sig.keyID \in DOMAIN policy'.trustedKeys
      /\ policy'.trustedKeys[wire.sig.keyID]
           = policy.trustedKeys[wire.sig.keyID]
  BY <1>1, <1>3 DEF SignatureRequired
<1>5. CheckSignature(wire.sig, wire.payload, policy') = Accepted
  BY <1>2, <1>4 DEF CheckSignature, Accepted
<1>6. QED
  BY <1>4, <1>5 DEF SignatureVerdict

\* Adding a key to the trust store, a malformed one included, never turns an
\* accepted envelope into a rejected one, live or from the cache.
THEOREM RotationOnlyWidensAlways == Spec => RotationOnlyWidens
<1>1. ASSUME [Next]_vars, now' = now
      PROVE  /\ LiveVerdict = Accepted => LiveVerdict' = Accepted
             /\ CacheVerdict = Accepted => CacheVerdict' = Accepted
  <2>1. CASE UNCHANGED vars
    BY <2>1 DEF vars, LiveVerdict, CacheVerdict, Expect
  <2>2. ASSUME NEW id, NEW key, Rotate(id, key)
        PROVE  /\ LiveVerdict = Accepted => LiveVerdict' = Accepted
               /\ CacheVerdict = Accepted => CacheVerdict' = Accepted
    <3>1. wire' = wire /\ now' = now
      BY <2>2 DEF Rotate
    <3>2. ASSUME NEW enforce,
                 VerifyEnvelope(wire, policy, Expect(enforce)) = Accepted
          PROVE  VerifyEnvelope(wire, policy', Expect(enforce)) = Accepted
      <4>1. SignatureVerdict(wire, policy) = Accepted
        BY <3>2 DEF VerifyEnvelope, Accepted
      <4>2. SignatureVerdict(wire, policy') = Accepted
        BY <2>2, <4>1, RotationKeepsSignatures
      <4>3. QED
        BY <3>2, <4>1, <4>2 DEF VerifyEnvelope
    <3>3. QED
      BY <3>1, <3>2 DEF LiveVerdict, CacheVerdict, Expect
  <2>3. Tick => UNCHANGED vars
    BY <1>1 DEF Tick, vars
  <2>4. QED
    BY <1>1, <2>1, <2>2, <2>3 DEF Next
<1>2. QED
  BY <1>1, PTL DEF Spec, RotationOnlyWidens

\* A process runs under one of the two policies the package can build, rotated
\* or not.
THEOREM EnvelopeTypeCorrect == Spec => []TypeOK
<1>1. Init => TypeOK
  <2> SUFFICES ASSUME Init PROVE TypeOK
    OBVIOUS
  <2>1. wire \in WireSet /\ now \in 0..MaxNow
    BY EnvelopeLifeAssumption DEF Init
  <2>2. CASE policy = SignatureDisabled
    BY <2>1, <2>2 DEF TypeOK, SignatureDisabled
  <2>3. ASSUME NEW trusted, policy = SignatureRequired(trusted) PROVE TypeOK
    BY <2>1, <2>3 DEF TypeOK, SignatureRequired
  <2> QED
    BY <2>2, <2>3 DEF Init
<1>2. TypeOK /\ [Next]_vars => TypeOK'
  <2> SUFFICES ASSUME TypeOK, [Next]_vars PROVE TypeOK'
    OBVIOUS
  <2>1. CASE Tick
    BY <2>1, EnvelopeLifeAssumption DEF Tick, TypeOK
  <2>2. ASSUME NEW id, NEW key, Rotate(id, key) PROVE TypeOK'
    <3>1. /\ DOMAIN policy' = {"required", "trustedKeys"}
          /\ policy'.required = TRUE
      BY <2>2 DEF Rotate, SignatureRequired
    <3> QED
      BY <2>2, <3>1 DEF Rotate, TypeOK
  <2>3. CASE UNCHANGED vars
    BY <2>3 DEF vars, TypeOK
  <2> QED
    BY <2>1, <2>2, <2>3 DEF Next
<1> QED
  BY <1>1, <1>2, PTL DEF Spec

\* Later is stricter at the end of the window and laxer at its start, and
\* nothing else of the verdict looks at the clock.
LEMMA PayloadAges ==
  ASSUME NEW payload, NEW early \in Int, NEW late \in Int, late > early,
         NEW environment, NEW enforce \in BOOLEAN,
         \A time \in {payload.issuedAt, payload.expiresAt} :
           time.form = "rfc3339" => time.at \in Int
  PROVE  LET Verdict(at) ==
               PayloadVerdict(payload, [environment |-> environment,
                                        now |-> at, enforceExpiry |-> enforce])
         IN /\ Verdict(early) = Accepted =>
                 \/ Verdict(late) = Accepted
                 \/ enforce /\ Verdict(late) = "expired"
            /\ Verdict(early) = "expired" => Verdict(late) = "expired"
<1> DEFINE Expected(at) == [environment |-> environment, now |-> at,
                            enforceExpiry |-> enforce]
           Window(at) == WindowVerdict(payload, Expected(at))
<1>1. CASE /\ ParseWireTime(payload.issuedAt)
           /\ ParseWireTime(payload.expiresAt)
  <2>1. /\ payload.issuedAt.at \in Int /\ payload.expiresAt.at \in Int
        /\ SkewTolerance \in Int
    BY <1>1, SkewAssumption DEF ParseWireTime
  <2>2. /\ Window(early) = Accepted =>
             Window(late) = Accepted \/ (enforce /\ Window(late) = "expired")
        /\ Window(early) = "expired" => Window(late) = "expired"
    BY <2>1 DEF WindowVerdict, Accepted
  <2> HIDE DEF Window
  <2>3. ASSUME NEW at
        PROVE  PayloadVerdict(payload, Expected(at)) =
                 IF ~ParsePayload(payload) THEN "malformedPayload"
                 ELSE IF payload.sv # SupportedSV
                      THEN "unsupportedContractVersion"
                 ELSE IF payload.environment # environment
                      THEN "environmentMismatch"
                 ELSE Window(at)
    BY <1>1 DEF PayloadVerdict, Window
  <2> HIDE DEF Expected
  <2>4. /\ PayloadVerdict(payload, Expected(early)) = Accepted =>
             \/ PayloadVerdict(payload, Expected(late)) = Accepted
             \/ enforce /\ PayloadVerdict(payload, Expected(late)) = "expired"
        /\ PayloadVerdict(payload, Expected(early)) = "expired" =>
             PayloadVerdict(payload, Expected(late)) = "expired"
    BY <2>2, <2>3 DEF Accepted
  <2> QED
    BY <2>4 DEF Expected
<1>2. CASE ~(/\ ParseWireTime(payload.issuedAt)
             /\ ParseWireTime(payload.expiresAt))
  BY <1>2 DEF PayloadVerdict, Accepted
<1> QED
  BY <1>1, <1>2

\* As the clock advances, a verdict goes from the future to accepted to expired
\* and never back, and what the cache accepts it accepts for ever.
THEOREM WindowIsAlwaysOneInterval == Spec => WindowIsOneInterval
<1>1. ASSUME TypeOK, [Next]_vars, now' > now
      PROVE  /\ LiveVerdict = "expired" => LiveVerdict' = "expired"
             /\ LiveVerdict = Accepted => LiveVerdict' \in {Accepted, "expired"}
             /\ CacheVerdict = Accepted => CacheVerdict' = Accepted
  <2>1. now \in Int /\ wire \in WireSet
    BY <1>1, EnvelopeLifeAssumption DEF TypeOK
  <2>2. Tick
    <3>1. ~UNCHANGED now
      BY <1>1, <2>1
    <3> QED
      BY <1>1, <3>1 DEF Next, Rotate, vars
  <2>3. wire' = wire /\ policy' = policy /\ now' \in Int
    BY <2>1, <2>2 DEF Tick
  <2>4. \A time \in {wire.payload.issuedAt, wire.payload.expiresAt} :
          time.form = "rfc3339" => time.at \in Int
    BY <2>1, EnvelopeLifeAssumption
  <2> DEFINE Later(enforce) == [environment |-> HostEnvironment, now |-> now',
                                enforceExpiry |-> enforce]
  <2>5. \A enforce \in BOOLEAN :
          LET before == PayloadVerdict(wire.payload, Expect(enforce))
              after == PayloadVerdict(wire.payload, Later(enforce))
          IN /\ before = Accepted =>
                  after = Accepted \/ (enforce /\ after = "expired")
             /\ before = "expired" => after = "expired"
    BY <1>1, <2>1, <2>3, <2>4, PayloadAges DEF Expect
  <2>6. SignatureVerdict(wire, policy) # "expired"
    BY DEF SignatureVerdict, CheckSignature, Accepted
  <2>7. /\ LiveVerdict' = VerifyEnvelope(wire, policy, Later(TRUE))
        /\ CacheVerdict' = VerifyEnvelope(wire, policy, Later(FALSE))
    BY <2>3 DEF LiveVerdict, CacheVerdict, Expect
  <2>8. /\ LiveVerdict = VerifyEnvelope(wire, policy, Expect(TRUE))
        /\ CacheVerdict = VerifyEnvelope(wire, policy, Expect(FALSE))
    BY DEF LiveVerdict, CacheVerdict
  <2> HIDE DEF Later
  <2> QED
    BY <2>5, <2>6, <2>7, <2>8
    DEF VerifyEnvelope, Accepted
<1> QED
  BY <1>1, EnvelopeTypeCorrect, PTL DEF Spec, WindowIsOneInterval
=============================================================================
