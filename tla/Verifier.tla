------------------------------ MODULE Verifier ------------------------------
(***************************************************************************)
(* Envelope verification (verifier.go, envelope.go): is this payload from  *)
(* FortressFlag (signature policy), about us (environment) and now         *)
(* (issuedAt, expiresAt)?                                                  *)
(*                                                                         *)
(* Wire bytes are abstracted to what the checks tell apart:                *)
(*   wire    = [wellFormed, sig, payload]                                  *)
(*   sig     = [present, separated, algorithm, keyID, encoding, by, over]  *)
(*             present:   the sig field is there and is not ""             *)
(*             separated: it holds at least two colons                     *)
(*             encoding:  "empty", "invalid" or "base64url"                *)
(*             by, over:  who signed the third part, and which payload     *)
(*   payload = [json, sv, environment, issuedAt, expiresAt, flags]         *)
(*   a wire time is [form, at], form "absent", "garbage" or "rfc3339"      *)
(*   flags maps the keys of the payload's flags to [kind, ...]             *)
(***************************************************************************)
EXTENDS Integers

CONSTANTS
  SupportedSV,    \* supportedServerContractVersion
  SkewTolerance,  \* clockSkewTolerance, in the units of the clock
  MalformedKey    \* a trusted key that is not 32 bytes long

ASSUME SkewAssumption == SkewTolerance \in Nat

Kinds == {"boolean", "string", "number"}

\* The empty rejectionCode.
Accepted == ""

Rejections ==
  {"malformedEnvelope", "missingSignature", "malformedSignature",
   "unsupportedSignatureAlgorithm", "unknownKeyId", "badSignature",
   "malformedPayload", "unsupportedContractVersion", "environmentMismatch",
   "expired", "issuedInTheFuture"}

\* What ed25519.Verify decides: the signature is the one this key made over
\* this very payload.
Ed25519Verify(key, payload, sig) == sig.by = key /\ sig.over = payload

\* Mutant: one malformed entry disables the whole trust store.
MutantBadEntryPoisons(sig, payload, policy) ==
  IF ~sig.present THEN "missingSignature"
  ELSE IF \/ sig.keyID \notin DOMAIN policy.trustedKeys
          \/ \E id \in DOMAIN policy.trustedKeys :
               policy.trustedKeys[id] = MalformedKey THEN "unknownKeyId"
  ELSE IF ~Ed25519Verify(policy.trustedKeys[sig.keyID], payload, sig)
       THEN "badSignature"
  ELSE Accepted

CheckSignature(sig, payload, policy) ==
  IF ~sig.present THEN "missingSignature"
  ELSE IF ~sig.separated THEN "malformedSignature"
  ELSE IF sig.algorithm # "ed25519" THEN "unsupportedSignatureAlgorithm"
  ELSE IF sig.encoding # "base64url" THEN "malformedSignature"
  ELSE IF \/ sig.keyID \notin DOMAIN policy.trustedKeys
          \/ policy.trustedKeys[sig.keyID] = MalformedKey THEN "unknownKeyId"
  ELSE IF ~Ed25519Verify(policy.trustedKeys[sig.keyID], payload, sig)
       THEN "badSignature"
  ELSE Accepted

\* Mutant: the loop over the flag kinds is gone.
MutantKindsUnchecked(payload) ==
  /\ payload.json
  /\ payload.environment # ""
  /\ payload.issuedAt.form # "absent"
  /\ payload.expiresAt.form # "absent"

\* parsePayload: one unknown kind rejects the payload whole. A payload without
\* flags has an empty map of them.
ParsePayload(payload) ==
  /\ payload.json
  /\ payload.environment # ""
  /\ payload.issuedAt.form # "absent"
  /\ payload.expiresAt.form # "absent"
  /\ \A flag \in DOMAIN payload.flags : payload.flags[flag].kind \in Kinds

ParseWireTime(time) == time.form = "rfc3339"

SignatureVerdict(wire, policy) ==
  IF policy.required THEN CheckSignature(wire.sig, wire.payload, policy)
                     ELSE Accepted

\* Mutant: enforceExpiry guards the whole window, not only its end.
MutantCacheSkipsWindow(payload, expect) ==
  IF ~expect.enforceExpiry THEN Accepted
  ELSE IF payload.issuedAt.at - expect.now > SkewTolerance
       THEN "issuedInTheFuture"
  ELSE IF expect.now - payload.expiresAt.at > SkewTolerance THEN "expired"
  ELSE Accepted

\* Mutant: the operands of the expiry's Sub are swapped.
MutantExpirySwapped(payload, expect) ==
  IF payload.issuedAt.at - expect.now > SkewTolerance
  THEN "issuedInTheFuture"
  ELSE IF /\ expect.enforceExpiry
          /\ payload.expiresAt.at - expect.now > SkewTolerance THEN "expired"
  ELSE Accepted

\* expect is [environment, now, enforceExpiry].
WindowVerdict(payload, expect) ==
  IF payload.issuedAt.at - expect.now > SkewTolerance
  THEN "issuedInTheFuture"
  ELSE IF /\ expect.enforceExpiry
          /\ expect.now - payload.expiresAt.at > SkewTolerance THEN "expired"
  ELSE Accepted

PayloadVerdict(payload, expect) ==
  IF ~ParsePayload(payload) THEN "malformedPayload"
  ELSE IF payload.sv # SupportedSV THEN "unsupportedContractVersion"
  ELSE IF payload.environment # expect.environment THEN "environmentMismatch"
  ELSE IF \/ ~ParseWireTime(payload.issuedAt)
          \/ ~ParseWireTime(payload.expiresAt) THEN "malformedPayload"
  ELSE WindowVerdict(payload, expect)

\* Mutant: the payload is interpreted before its signature is checked.
MutantPayloadFirst(wire, policy, expect) ==
  IF ~wire.wellFormed THEN "malformedEnvelope"
  ELSE IF PayloadVerdict(wire.payload, expect) # Accepted
       THEN PayloadVerdict(wire.payload, expect)
  ELSE SignatureVerdict(wire, policy)

\* The rejection code of wire, or Accepted.
VerifyEnvelope(wire, policy, expect) ==
  IF ~wire.wellFormed THEN "malformedEnvelope"
  ELSE IF SignatureVerdict(wire, policy) # Accepted
       THEN SignatureVerdict(wire, policy)
  ELSE PayloadVerdict(wire.payload, expect)

-----------------------------------------------------------------------------
(* What acceptance is supposed to mean, stated without the order of checks. *)

\* Under a required policy some well-formed trusted key signed these bytes.
Signed(wire, policy) ==
  policy.required =>
    \E id \in DOMAIN policy.trustedKeys :
      /\ policy.trustedKeys[id] # MalformedKey
      /\ wire.sig.keyID = id
      /\ wire.sig.by = policy.trustedKeys[id]
      /\ wire.sig.over = wire.payload

\* The part of the verdict no clock can change: signed by someone trusted,
\* in a contract version and with flag kinds this binary speaks, for this
\* environment.
Genuine(wire, policy, environment) ==
  /\ wire.wellFormed
  /\ Signed(wire, policy)
  /\ wire.payload.sv = SupportedSV
  /\ wire.payload.environment = environment
  /\ \A flag \in DOMAIN wire.payload.flags :
       wire.payload.flags[flag].kind \in Kinds
=============================================================================
