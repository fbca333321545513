---------------------------- MODULE EnvelopeLife ----------------------------
(***************************************************************************)
(* One envelope meeting one host: it is presented to the verifier over and *)
(* over, as a live response and as a cached file, while the host's clock   *)
(* advances and later processes are built with ever more trusted keys.     *)
(***************************************************************************)
EXTENDS Verifier

CONSTANTS
  WireSet,          \* the envelopes that may be presented
  TrustStores,      \* the trusted keys the host may start with
  KeyIDs, Keys,     \* what rotation may add to the trust store
  HostEnvironment,  \* the environment the server key names
  MaxNow            \* bound on the clock

\* A time that parsed is a number of the clock's units.
ASSUME EnvelopeLifeAssumption ==
  /\ MaxNow \in Nat
  /\ \A wire \in WireSet :
       LET payload == wire.payload IN
       \A time \in {payload.issuedAt, payload.expiresAt} :
         time.form = "rfc3339" => time.at \in Int

VARIABLES wire, policy, now

vars == <<wire, policy, now>>

Expect(enforce) ==
  [environment |-> HostEnvironment, now |-> now, enforceExpiry |-> enforce]

\* The same bytes as a live response, and as the CachePath file.
LiveVerdict  == VerifyEnvelope(wire, policy, Expect(TRUE))
CacheVerdict == VerifyEnvelope(wire, policy, Expect(FALSE))

\* The zero trust store of the explicit opt-out.
SignatureDisabled ==
  [required |-> FALSE, trustedKeys |-> [id \in {} |-> MalformedKey]]

\* Mutant: the policy built from a trust store does not ask for a signature.
MutantRequiredUnset(trusted) == [required |-> FALSE, trustedKeys |-> trusted]

SignatureRequired(trusted) == [required |-> TRUE, trustedKeys |-> trusted]

Init ==
  /\ wire \in WireSet
  /\ policy \in {SignatureDisabled}
                 \cup {SignatureRequired(trusted) : trusted \in TrustStores}
  /\ now = 0

Tick ==
  /\ now < MaxNow
  /\ now' = now + 1
  /\ UNCHANGED <<wire, policy>>

\* A policy copies its trust store when it is built, so a rotation reaches the
\* verifier as a later process whose store has one entry more.
Rotate(id, key) ==
  LET trusted == policy.trustedKeys IN
  /\ policy.required
  /\ id \notin DOMAIN trusted
  /\ policy' = SignatureRequired(
       [known \in DOMAIN trusted \cup {id} |->
          IF known = id THEN key ELSE trusted[known]])
  /\ UNCHANGED <<wire, now>>

Next ==
  \/ Tick
  \/ \E id \in KeyIDs, key \in Keys \cup {MalformedKey} : Rotate(id, key)

Spec == Init /\ [][Next]_vars

-----------------------------------------------------------------------------

\* The envelope and clock stay in their bounds, and the policy is one of the
\* two the package can build: a trust store always comes with the demand that
\* it be used (SignatureRequired, SignatureDisabled).
TypeOK ==
  /\ wire \in WireSet
  /\ DOMAIN policy = {"required", "trustedKeys"}
  /\ policy.required \in BOOLEAN
  /\ DOMAIN policy.trustedKeys # {} => policy.required
  /\ now \in 0..MaxNow

\* Whatever the path, an accepted envelope is genuine: no order of checks and
\* no early return lets a foreign, tampered, misdirected or half-understood
\* payload through (verifyEnvelope, live and on loadCache).
AcceptedIsGenuine ==
  Accepted \in {LiveVerdict, CacheVerdict} =>
    Genuine(wire, policy, HostEnvironment)

\* The expiry asymmetry (expectations.enforceExpiry): the cache path forgives
\* an expired envelope and nothing else. In particular it does not forgive an
\* envelope from the future, and both paths name every other rejection alike.
CacheForgivesOnlyExpiry ==
  LiveVerdict # CacheVerdict =>
    LiveVerdict = "expired" /\ CacheVerdict = Accepted

\* Under a required policy nothing of the payload is interpreted before its
\* signature: a rejection that speaks of the payload's content is only ever
\* given for bytes that a trusted key signed.
SignatureComesFirst ==
  LiveVerdict \in {"malformedPayload", "unsupportedContractVersion",
                   "environmentMismatch", "issuedInTheFuture", "expired"}
    => Signed(wire, policy)

\* The replay window is one interval of the host's clock: as time passes an
\* envelope goes from the future to accepted to expired and never back, and
\* one the cache accepts stays loadable for ever.
WindowIsOneInterval ==
  [][now' > now =>
       /\ LiveVerdict = "expired" => LiveVerdict' = "expired"
       /\ LiveVerdict = Accepted => LiveVerdict' \in {Accepted, "expired"}
       /\ CacheVerdict = Accepted => CacheVerdict' = Accepted]_vars

\* Rotation never costs an update: adding a trusted key, a malformed one
\* included, rejects no envelope that was accepted before ("one bad entry does
\* not disable a rotation set").
RotationOnlyWidens ==
  [][now' = now =>
       /\ LiveVerdict = Accepted => LiveVerdict' = Accepted
       /\ CacheVerdict = Accepted => CacheVerdict' = Accepted]_vars

\* "A host an hour fast should not lose flag updates" (clockSkewTolerance):
\* an envelope that is genuine, whose two times parse, and that reaches the
\* host the moment it is issued, is accepted live although the host's clock
\* shows up to an hour more. The clock of the run counts minutes.
HourFastHostKeepsUpdates ==
  /\ Genuine(wire, policy, HostEnvironment)
  /\ ParsePayload(wire.payload)
  /\ ParseWireTime(wire.payload.issuedAt)
  /\ ParseWireTime(wire.payload.expiresAt)
  /\ now - wire.payload.issuedAt.at \in 0..60
  => LiveVerdict = Accepted

=============================================================================
