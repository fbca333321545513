-------------------------- MODULE PollSystemProofs --------------------------
(***************************************************************************)
(* A 304 means what the client takes it to mean, an accepted ruleset fits  *)
(* the cache, the poller is polite, and what it serves is stale for a      *)
(* bounded time, for any releases, failures, configurations and bounds;    *)
(* and New takes exactly the keys that were minted.                        *)
(***************************************************************************)
EXTENDS PollSystem, SequenceTheorems, WellFoundedInduction, TLAPS

\* The validator belongs to the live ruleset, or there is none.
ValidatorIsTheSnapshots ==
  IF snapshot.source = "network"
  THEN /\ snapshot.release \in DOMAIN Releases
       /\ etag = Releases[snapshot.release].etag
       /\ file = snapshot.release
  ELSE etag = NoETag

\* A success in hand is a release within the cap, with its own validator.
ReplyIsARelease ==
  poller = "answered" /\ reply.kind = "success" =>
    /\ reply.body \in DOMAIN Releases
    /\ reply.etag = Releases[reply.body].etag
    /\ ~(Releases[reply.body].length > MaxResponseBytes)

\* A process that has not fetched yet serves nothing live.
LiveOnlyOnceFetched ==
  poller \in {"unborn", "refused", "idle"} => snapshot.source # "network"

Inv ==
  /\ release \in DOMAIN Releases
  /\ file \in {NoBody} \cup DOMAIN Releases
  /\ snapshot \in [source : {"none", "cache", "network"},
                   release : {NoBody} \cup DOMAIN Releases]
  /\ LiveOnlyOnceFetched
  /\ ValidatorIsTheSnapshots
  /\ ReplyIsARelease
  /\ NotModifiedMeansCurrent

\* The transport reports success only for a whole 200 within the cap, and not
\* modified only for a 304.
LEMMA FetchSays ==
  ASSUME NEW response, NEW outcome, outcome = FetchRuleset(response)
  PROVE  /\ outcome.kind = "success" =>
              /\ response.status = 200 /\ ~response.broken
              /\ ~(response.length > MaxResponseBytes)
              /\ outcome.body = response.body /\ outcome.etag = response.etag
         /\ outcome.kind = "notModified" => response.status = 304
<1> DEFINE status == response.status
<1>1. CASE ~response.arrived \/ RefusedRedirect(response)
  <2>1. outcome = Outcome("transportError")
    BY <1>1 DEF FetchRuleset
  <2> QED
    BY <2>1 DEF Outcome
<1>2. CASE /\ response.arrived /\ ~RefusedRedirect(response)
           /\ status = 200
  <2>1. outcome = ReadBody(response)
    BY <1>2 DEF FetchRuleset
  <2>2. CASE response.broken
    BY <2>1, <2>2 DEF ReadBody, Outcome
  <2>3. CASE ~response.broken /\ TooLarge(response.length)
    BY <2>1, <2>3 DEF ReadBody, Outcome
  <2>4. CASE ~response.broken /\ ~TooLarge(response.length)
    <3>1. outcome = [Outcome("success") EXCEPT !.body = response.body,
                                               !.etag = response.etag]
      BY <2>1, <2>4 DEF ReadBody
    <3> QED
      BY <1>2, <2>4, <3>1 DEF Outcome, TooLarge
  <2> QED
    BY <2>2, <2>3, <2>4
<1>3. CASE /\ response.arrived /\ ~RefusedRedirect(response)
           /\ status # 200 /\ status # 304
  <2>1. CASE status = 429
    BY <1>3, <2>1 DEF FetchRuleset, Outcome
  <2>2. CASE status # 429
    BY <1>3, <2>2 DEF FetchRuleset, Outcome
  <2> QED
    BY <2>1, <2>2
<1>4. CASE /\ response.arrived /\ ~RefusedRedirect(response)
           /\ status = 304
  BY <1>4 DEF FetchRuleset, Outcome
<1> QED
  BY <1>1, <1>2, <1>3, <1>4

\* The exporter's 304 is about the client's live ruleset: that ruleset and the
\* current release have one validator, and no two releases share one.
LEMMA AnswerStep ==
  ASSUME Inv, Answer
  PROVE  Inv'
<1>1. PICK response \in (IF up THEN {Export} ELSE Failures) :
        reply' = FetchRuleset(response)
  BY DEF Answer
<1>2. /\ UNCHANGED <<release, snapshot, etag, file>>
      /\ poller' = "answered" /\ asOf' = release
  BY DEF Answer, server, client
<1>3. CASE up
  <2>1. /\ response.status =
             IF etag # NoETag /\ etag = Current.etag THEN 304 ELSE 200
        /\ response.body = release /\ response.etag = Current.etag
        /\ response.length = Current.length
    <3>1. response = Export
      BY <1>1, <1>3
    <3>2. NoResponse = [arrived |-> FALSE, status |-> 0, location |-> FALSE,
                        length |-> 0, broken |-> FALSE, body |-> NoBody,
                        etag |-> NoETag, retryAfter |-> NoHeader]
      BY DEF NoResponse
    <3>3. /\ Export.status =
               IF etag # NoETag /\ etag = Current.etag THEN 304 ELSE 200
          /\ Export.body = release /\ Export.etag = Current.etag
          /\ Export.length = Current.length
      BY <3>2, ZenonT(30) DEF Export
    <3> QED
      BY <3>1, <3>3
  <2>2. ReplyIsARelease'
    BY <1>1, <1>2, <2>1, FetchSays DEF ReplyIsARelease, Current, Inv
  <2>3. NotModifiedMeansCurrent'
    <3> SUFFICES ASSUME reply'.kind = "notModified"
                 PROVE  snapshot = [source |-> "network", release |-> release]
      BY <1>2 DEF NotModifiedMeansCurrent
    <3>1. etag # NoETag /\ etag = Releases[release].etag
      BY <1>1, <2>1, FetchSays DEF Current
    <3>2. /\ snapshot.source = "network"
          /\ snapshot.release \in DOMAIN Releases
          /\ Releases[snapshot.release].etag = Releases[release].etag
      BY <3>1 DEF Inv, ValidatorIsTheSnapshots
    <3>3. snapshot.release = release
      BY <3>1, <3>2, PollSystemAssumption DEF PollSystemAssumption, Inv
    <3>4. snapshot = [source |-> snapshot.source,
                      release |-> snapshot.release]
      BY DEF Inv
    <3> QED
      BY <3>2, <3>3, <3>4
  <2> QED
    BY <1>2, <2>2, <2>3
    DEF Inv, ValidatorIsTheSnapshots, LiveOnlyOnceFetched
<1>4. CASE ~up
  <2>1. response.status # 304 /\ WholeOrBroken(response)
    BY <1>1, <1>4, PollSystemAssumption DEF PollSystemAssumption
  <2>2. ReplyIsARelease'
    BY <1>1, <1>2, <2>1, FetchSays DEF ReplyIsARelease, WholeOrBroken
  <2>3. NotModifiedMeansCurrent'
    BY <1>1, <2>1, FetchSays DEF NotModifiedMeansCurrent
  <2> QED
    BY <1>2, <2>2, <2>3
    DEF Inv, ValidatorIsTheSnapshots, LiveOnlyOnceFetched
<1> QED
  BY <1>3, <1>4

\* The server numbers its releases, and the next one exists.
LEMMA ReleasesAreNumbered ==
  /\ 1 \in DOMAIN Releases
  /\ \A i \in DOMAIN Releases : i < Len(Releases) => i + 1 \in DOMAIN Releases
<1> DEFINE All == {Releases[i] : i \in DOMAIN Releases}
<1>1. Releases \in Seq(All) /\ Releases # << >>
  BY PollSystemAssumption DEF PollSystemAssumption
<1> HIDE DEF All
<1>2. Len(Releases) \in Nat \ {0} /\ DOMAIN Releases = 1..Len(Releases)
  BY <1>1
<1> QED
  BY <1>2

LEMMA InitHolds ==
  ASSUME Init
  PROVE  Inv
BY ReleasesAreNumbered
DEF Init, Inv, LiveOnlyOnceFetched, ValidatorIsTheSnapshots, ReplyIsARelease,
    NotModifiedMeansCurrent

\* What record does with an outcome keeps the validator, the ruleset and the
\* file together: all three move, in RecordAccepted, or none does.
LEMMA RecordStep ==
  ASSUME Inv, Record
  PROVE  Inv'
<1>1. poller' = "waiting" /\ UNCHANGED release
  BY DEF Record, RecordAccepted, RecordRejected, RecordNotModified,
         RecordFailed, Wait, server
<1>2. (LiveOnlyOnceFetched /\ ReplyIsARelease /\ NotModifiedMeansCurrent)'
  BY <1>1 DEF LiveOnlyOnceFetched, ReplyIsARelease, NotModifiedMeansCurrent
<1>3. CASE RecordAccepted
  <2>1. /\ reply.body \in DOMAIN Releases
        /\ reply.etag = Releases[reply.body].etag
        /\ ~(Releases[reply.body].length > MaxResponseBytes)
    BY <1>3 DEF RecordAccepted, Recording, Inv, ReplyIsARelease
  <2>2. /\ snapshot' = [source |-> "network", release |-> reply.body]
        /\ etag' = reply.etag /\ file' = reply.body
    BY <1>3, <2>1 DEF RecordAccepted
  <2> QED
    BY <1>1, <1>2, <2>1, <2>2 DEF Inv, ValidatorIsTheSnapshots
<1>4. CASE ~RecordAccepted
  <2>1. UNCHANGED <<snapshot, etag, file>>
    BY <1>4 DEF Record, RecordRejected, RecordNotModified, RecordFailed
  <2> QED
    BY <1>1, <1>2, <2>1 DEF Inv, ValidatorIsTheSnapshots
<1> QED
  BY <1>3, <1>4

\* Start's cached ruleset has no validator, and a new process has neither.
LEMMA LifeStep ==
  ASSUME Inv, New \/ Start \/ TimerFires \/ Restart
  PROVE  Inv'
<1>1. poller' # "answered" /\ UNCHANGED <<release, file>>
  BY DEF New, Start, TimerFires, Restart, Fetch, server, client
<1>2. (ReplyIsARelease /\ NotModifiedMeansCurrent)'
  BY <1>1 DEF ReplyIsARelease, NotModifiedMeansCurrent
<1>3. CASE New
  <2>1. UNCHANGED <<snapshot, etag>> /\ poller = "unborn"
    BY <1>3 DEF New, client
  <2> QED
    BY <1>1, <1>2, <2>1
    DEF Inv, ValidatorIsTheSnapshots, LiveOnlyOnceFetched
<1>4. CASE Start
  <2>1. /\ poller = "idle" /\ poller' = "fetching" /\ UNCHANGED etag
        /\ \/ snapshot' = [source |-> "cache", release |-> file]
           \/ snapshot' = snapshot
    BY <1>4 DEF Start, Fetch
  <2>2. etag = NoETag /\ snapshot.source # "network"
    BY <2>1 DEF Inv, ValidatorIsTheSnapshots, LiveOnlyOnceFetched
  <2> QED
    BY <1>1, <1>2, <2>1, <2>2
    DEF Inv, ValidatorIsTheSnapshots, LiveOnlyOnceFetched
<1>5. CASE TimerFires
  <2>1. UNCHANGED <<snapshot, etag>> /\ poller' = "fetching"
    BY <1>5 DEF TimerFires, Fetch, client
  <2> QED
    BY <1>1, <1>2, <2>1
    DEF Inv, ValidatorIsTheSnapshots, LiveOnlyOnceFetched
<1>6. CASE Restart
  <2>1. /\ snapshot' = [source |-> "none", release |-> NoBody]
        /\ etag' = NoETag
    BY <1>6 DEF Restart
  <2> QED
    BY <1>1, <1>2, <2>1
    DEF Inv, ValidatorIsTheSnapshots, LiveOnlyOnceFetched
<1> QED
  BY <1>3, <1>4, <1>5, <1>6

\* A timeout is no answer at all.
LEMMA TimesOutStep ==
  ASSUME Inv, TimesOut
  PROVE  Inv'
<1>1. /\ UNCHANGED <<release, snapshot, etag, file>>
      /\ poller' = "answered"
      /\ reply' = FetchRuleset(NoResponse)
  BY DEF TimesOut, server, client
<1>2. ~NoResponse.arrived
  BY DEF NoResponse
<1>3. reply' = Outcome("transportError")
  BY <1>1, <1>2 DEF FetchRuleset
<1>4. reply'.kind = "transportError"
  BY <1>3 DEF Outcome
<1> QED
  BY <1>1, <1>4
  DEF Inv, ValidatorIsTheSnapshots, LiveOnlyOnceFetched, ReplyIsARelease,
      NotModifiedMeansCurrent

\* The server and the clock do not touch the client, and what was current
\* when it answered stays on record.
LEMMA WorldStep ==
  ASSUME Inv, Publish \/ Fail \/ Recover \/ Tick \/ UNCHANGED vars
  PROVE  Inv'
<1>1. UNCHANGED <<snapshot, etag, file, poller, reply, asOf>>
  BY DEF Publish, Fail, Recover, Tick, client, vars
<1>2. release' \in DOMAIN Releases
  <2>1. release \in DOMAIN Releases
    BY DEF Inv
  <2>2. CASE Publish
    BY <2>1, <2>2, ReleasesAreNumbered DEF Publish
  <2>3. CASE ~Publish
    BY <2>1, <2>3 DEF Fail, Recover, Tick, server, vars
  <2> QED
    BY <2>2, <2>3
<1> QED
  BY <1>1, <1>2
  DEF Inv, ValidatorIsTheSnapshots, LiveOnlyOnceFetched, ReplyIsARelease,
      NotModifiedMeansCurrent

LEMMA InvHolds == Spec => []Inv
<1>1. Inv /\ [Next]_vars => Inv'
  BY RecordStep, LifeStep, AnswerStep, TimesOutStep, WorldStep DEF Next
<1> QED
  BY InitHolds, <1>1, PTL DEF Spec

\* A 304 tells the truth (record, client.go): when it arrives, the client
\* serves the release that was current when the server sent it.
THEOREM NotModifiedAlwaysMeansCurrent == Spec => []NotModifiedMeansCurrent
<1>1. Inv => NotModifiedMeansCurrent
  BY DEF Inv
<1> QED
  BY InvHolds, <1>1, PTL

\* The cap of the transport is not above the cap of the cache, and no byte off
\* it: what is served live is what a restart finds in the file.
THEOREM AcceptedAlwaysFitsTheCache == Spec => []AcceptedFitsTheCache
<1>1. Inv => AcceptedFitsTheCache
  BY DEF Inv, ValidatorIsTheSnapshots, AcceptedFitsTheCache
<1> QED
  BY InvHolds, <1>1, PTL

-----------------------------------------------------------------------------
(* Ranges and delays                                                       *)

\* What every outcome has, whatever the response.
LEMMA OutcomeIsTyped ==
  ASSUME NEW response, NEW outcome, outcome = FetchRuleset(response),
         response.retryAfter.seconds \in Int
  PROVE  outcome.kind \in OutcomeKinds /\ outcome.retryAfterSeconds \in Nat
<1> DEFINE hint == ParseRetryAfterSeconds(response.retryAfter)
           status == response.status
<1>1. hint \in Nat
  BY DEF ParseRetryAfterSeconds
<1>2. \A kind \in OutcomeKinds :
        /\ Outcome(kind).kind \in OutcomeKinds
        /\ Outcome(kind).retryAfterSeconds \in Nat
  BY DEF Outcome
<1>3. /\ ReadBody(response).kind \in OutcomeKinds
      /\ ReadBody(response).retryAfterSeconds \in Nat
  BY DEF ReadBody, Outcome, OutcomeKinds
<1>4. CASE /\ response.arrived /\ ~RefusedRedirect(response)
           /\ status # 304 /\ status # 200 /\ status \notin {401, 403}
           /\ status = 429
  <2>1. outcome = [Outcome("rateLimited") EXCEPT !.retryAfterSeconds = hint]
    BY <1>4 DEF FetchRuleset
  <2> QED
    BY <1>1, <2>1 DEF Outcome, OutcomeKinds
<1>5. CASE /\ response.arrived /\ ~RefusedRedirect(response)
           /\ status = 200
  BY <1>3, <1>5 DEF FetchRuleset
<1>6. CASE ~(/\ response.arrived /\ ~RefusedRedirect(response)
             /\ status \in {200, 429})
  <2>1. \E kind \in OutcomeKinds : outcome = Outcome(kind)
    BY <1>6 DEF FetchRuleset, OutcomeKinds
  <2> QED
    BY <1>2, <2>1
<1> QED
  BY <1>4, <1>5, <1>6

\* Twice as long after each failure, and never less than the base.
LEMMA PowersOfTwo == \A e \in 0..32 : 2 ^ e \in Nat \ {0}
<1> SUFFICES ASSUME NEW e \in 0..32
             PROVE  2 ^ e \in Nat \ {0}
  OBVIOUS
<1>1.
      \/ e = 0 \/ e = 1 \/ e = 2 \/ e = 3 \/ e = 4 \/ e = 5
      \/ e = 6 \/ e = 7 \/ e = 8 \/ e = 9 \/ e = 10 \/ e = 11
      \/ e = 12 \/ e = 13 \/ e = 14 \/ e = 15 \/ e = 16 \/ e = 17
      \/ e = 18 \/ e = 19 \/ e = 20 \/ e = 21 \/ e = 22 \/ e = 23
      \/ e = 24 \/ e = 25 \/ e = 26 \/ e = 27 \/ e = 28 \/ e = 29
      \/ e = 30 \/ e = 31 \/ e = 32
  OBVIOUS
<1>2.
      /\ 2 ^ 0 \in Nat \ {0} /\ 2 ^ 1 \in Nat \ {0} /\ 2 ^ 2 \in Nat \ {0}
      /\ 2 ^ 3 \in Nat \ {0} /\ 2 ^ 4 \in Nat \ {0} /\ 2 ^ 5 \in Nat \ {0}
      /\ 2 ^ 6 \in Nat \ {0} /\ 2 ^ 7 \in Nat \ {0} /\ 2 ^ 8 \in Nat \ {0}
      /\ 2 ^ 9 \in Nat \ {0} /\ 2 ^ 10 \in Nat \ {0} /\ 2 ^ 11 \in Nat \ {0}
      /\ 2 ^ 12 \in Nat \ {0} /\ 2 ^ 13 \in Nat \ {0} /\ 2 ^ 14 \in Nat \ {0}
      /\ 2 ^ 15 \in Nat \ {0} /\ 2 ^ 16 \in Nat \ {0} /\ 2 ^ 17 \in Nat \ {0}
      /\ 2 ^ 18 \in Nat \ {0} /\ 2 ^ 19 \in Nat \ {0} /\ 2 ^ 20 \in Nat \ {0}
      /\ 2 ^ 21 \in Nat \ {0} /\ 2 ^ 22 \in Nat \ {0} /\ 2 ^ 23 \in Nat \ {0}
      /\ 2 ^ 24 \in Nat \ {0} /\ 2 ^ 25 \in Nat \ {0} /\ 2 ^ 26 \in Nat \ {0}
      /\ 2 ^ 27 \in Nat \ {0} /\ 2 ^ 28 \in Nat \ {0} /\ 2 ^ 29 \in Nat \ {0}
      /\ 2 ^ 30 \in Nat \ {0} /\ 2 ^ 31 \in Nat \ {0} /\ 2 ^ 32 \in Nat \ {0}
  OBVIOUS
<1> QED
  BY <1>1, <1>2, ZenonT(30)

\* Jitter moves a delay by a fifth at most, and down only so far unless the
\* result does not fit a Duration.
LEMMA JitterBounds ==
  ASSUME NEW seconds \in Nat, NEW delay \in Jittered(seconds)
  PROVE  /\ delay \in Int
         /\ delay <= seconds + seconds \div 5
         /\ seconds + seconds \div 5 <= MaxDuration => 5 * delay >= 4 * seconds
<1> DEFINE spread == seconds \div 5
<1>1. PICK s \in RandomInRange(seconds - spread, seconds + spread) :
        delay \in Duration(s)
  BY DEF Jittered
<1>2. spread \in Nat /\ 5 * spread <= seconds
  OBVIOUS
<1> HIDE DEF spread
<1>3. s \in Int /\ seconds - spread <= s /\ s <= seconds + spread
  BY <1>1, <1>2 DEF RandomInRange
<1>4. \/ delay = s /\ s <= MaxDuration
      \/ ~(s <= MaxDuration) /\ delay \in {-MaxDuration, MaxDuration}
  BY <1>1 DEF Duration
<1>5. MaxDuration \in Nat
  BY BackoffAssumption DEF BackoffAssumption
<1>6. delay \in Int /\ delay <= seconds + spread
  BY <1>2, <1>3, <1>4, <1>5
<1>7. seconds + spread <= MaxDuration => delay = s
  BY <1>2, <1>3, <1>4, <1>5
<1>8. seconds + spread <= MaxDuration => 5 * delay >= 4 * seconds
  BY <1>2, <1>3, <1>7
<1> QED
  BY <1>6, <1>8 DEF spread

\* A retry's delay, jitter included, is between the base and the cap.
LEMMA RetryBounds ==
  ASSUME NEW count \in Nat \ {0}, NEW delay \in RetryDelay(count)
  PROVE  /\ delay \in Int
         /\ delay <= BackoffCap + BackoffCap \div 5
         /\ 5 * delay >= 4 * BackoffBase
<1> DEFINE exponent == Least(count - 1, 32)
           factor == 2 ^ exponent
           seconds == Least(BackoffBase * factor, BackoffCap)
<1>1. delay \in Jittered(seconds)
  BY DEF RetryDelay
<1>2. exponent \in 0..32
  BY DEF Least
<1>3. factor \in Nat \ {0}
  BY <1>2, PowersOfTwo
<1> HIDE DEF exponent, factor
<1>4. /\ BackoffBase \in Nat /\ BackoffCap \in Nat /\ MaxDuration \in Nat
      /\ BackoffBase <= BackoffCap
      /\ BackoffCap + BackoffCap \div 5 <= MaxDuration
  BY BackoffAssumption DEF BackoffAssumption
<1>5. BackoffBase * factor \in Nat /\ BackoffBase <= BackoffBase * factor
  BY <1>3, <1>4
<1>6. seconds \in Nat /\ BackoffBase <= seconds /\ seconds <= BackoffCap
  BY <1>4, <1>5 DEF Least
<1> HIDE DEF seconds
<1>7. /\ delay \in Int
      /\ delay <= seconds + seconds \div 5
      /\ seconds + seconds \div 5 <= MaxDuration => 5 * delay >= 4 * seconds
  BY <1>1, <1>6, JitterBounds
<1>8. /\ seconds \div 5 \in Nat /\ BackoffCap \div 5 \in Nat
      /\ seconds \div 5 <= BackoffCap \div 5
  BY <1>4, <1>6
<1> QED
  BY <1>4, <1>6, <1>7, <1>8

\* The delay before jitter.
Nominal(count) == Least(BackoffBase * 2 ^ Least(count - 1, 32), BackoffCap)

LEMMA PowersDouble == \A e \in 0..31 : 2 ^ (e + 1) = 2 * 2 ^ e
<1> SUFFICES ASSUME NEW e \in 0..31
             PROVE  2 ^ (e + 1) = 2 * 2 ^ e
  OBVIOUS
<1>1.
      \/ e = 0 \/ e = 1 \/ e = 2 \/ e = 3 \/ e = 4 \/ e = 5
      \/ e = 6 \/ e = 7 \/ e = 8 \/ e = 9 \/ e = 10 \/ e = 11
      \/ e = 12 \/ e = 13 \/ e = 14 \/ e = 15 \/ e = 16 \/ e = 17
      \/ e = 18 \/ e = 19 \/ e = 20 \/ e = 21 \/ e = 22 \/ e = 23
      \/ e = 24 \/ e = 25 \/ e = 26 \/ e = 27 \/ e = 28 \/ e = 29
      \/ e = 30 \/ e = 31
  OBVIOUS
<1>2.
      /\ 2 ^ (0 + 1) = 2 * 2 ^ 0 /\ 2 ^ (1 + 1) = 2 * 2 ^ 1
      /\ 2 ^ (2 + 1) = 2 * 2 ^ 2 /\ 2 ^ (3 + 1) = 2 * 2 ^ 3
      /\ 2 ^ (4 + 1) = 2 * 2 ^ 4 /\ 2 ^ (5 + 1) = 2 * 2 ^ 5
      /\ 2 ^ (6 + 1) = 2 * 2 ^ 6 /\ 2 ^ (7 + 1) = 2 * 2 ^ 7
      /\ 2 ^ (8 + 1) = 2 * 2 ^ 8 /\ 2 ^ (9 + 1) = 2 * 2 ^ 9
      /\ 2 ^ (10 + 1) = 2 * 2 ^ 10 /\ 2 ^ (11 + 1) = 2 * 2 ^ 11
      /\ 2 ^ (12 + 1) = 2 * 2 ^ 12 /\ 2 ^ (13 + 1) = 2 * 2 ^ 13
      /\ 2 ^ (14 + 1) = 2 * 2 ^ 14 /\ 2 ^ (15 + 1) = 2 * 2 ^ 15
      /\ 2 ^ (16 + 1) = 2 * 2 ^ 16 /\ 2 ^ (17 + 1) = 2 * 2 ^ 17
      /\ 2 ^ (18 + 1) = 2 * 2 ^ 18 /\ 2 ^ (19 + 1) = 2 * 2 ^ 19
      /\ 2 ^ (20 + 1) = 2 * 2 ^ 20 /\ 2 ^ (21 + 1) = 2 * 2 ^ 21
      /\ 2 ^ (22 + 1) = 2 * 2 ^ 22 /\ 2 ^ (23 + 1) = 2 * 2 ^ 23
      /\ 2 ^ (24 + 1) = 2 * 2 ^ 24 /\ 2 ^ (25 + 1) = 2 * 2 ^ 25
      /\ 2 ^ (26 + 1) = 2 * 2 ^ 26 /\ 2 ^ (27 + 1) = 2 * 2 ^ 27
      /\ 2 ^ (28 + 1) = 2 * 2 ^ 28 /\ 2 ^ (29 + 1) = 2 * 2 ^ 29
      /\ 2 ^ (30 + 1) = 2 * 2 ^ 30 /\ 2 ^ (31 + 1) = 2 * 2 ^ 31
  OBVIOUS
<1> QED
  BY <1>1, <1>2, ZenonT(30)

LEMMA NominalDoubles ==
  ASSUME NEW count \in Nat \ {0}
  PROVE  /\ Nominal(count) \in Nat /\ Nominal(count + 1) \in Nat
         /\ BackoffBase <= Nominal(count)
         /\ Nominal(count) <= Nominal(count + 1)
         /\ Nominal(count + 1) <= BackoffCap
         /\ count <= 32 =>
              Nominal(count + 1) = Least(2 * Nominal(count), BackoffCap)
<1> DEFINE here == Least(count - 1, 32)
           there == Least((count + 1) - 1, 32)
           x == 2 ^ here
           y == 2 ^ there
<1>1. /\ here \in 0..32 /\ there \in 0..32
      /\ IF count <= 32 THEN here \in 0..31 /\ there = here + 1
                        ELSE there = here
  BY DEF Least
<1>2. Nominal(count) = Least(BackoffBase * x, BackoffCap)
      /\ Nominal(count + 1) = Least(BackoffBase * y, BackoffCap)
  BY Zenon DEF Nominal
<1> HIDE DEF here, there
<1>3. /\ x \in Nat \ {0} /\ y \in Nat \ {0}
      /\ IF count <= 32 THEN y = 2 * x ELSE y = x
  <2>1. x \in Nat \ {0} /\ y \in Nat \ {0}
    BY <1>1, PowersOfTwo, Zenon
  <2>2. count <= 32 => y = 2 * x
    BY <1>1, PowersDouble, Zenon
  <2>3. ~(count <= 32) => y = x
    BY <1>1, Zenon
  <2> QED
    BY <2>1, <2>2, <2>3, Zenon
<1> HIDE DEF x, y
<1>4. /\ BackoffBase \in Nat /\ BackoffCap \in Nat
      /\ BackoffBase <= BackoffCap
  BY BackoffAssumption DEF BackoffAssumption
<1> DEFINE p == BackoffBase * x
           q == BackoffBase * y
<1>5. /\ p \in Nat /\ q \in Nat /\ BackoffBase <= p
      /\ IF count <= 32 THEN q = 2 * p ELSE q = p
  <2>1. p \in Nat /\ q \in Nat /\ BackoffBase <= p
    BY <1>3, <1>4
  <2>2. CASE count <= 32
    BY <1>3, <1>4, <2>1, <2>2
  <2>3. CASE ~(count <= 32)
    BY <1>3, <1>4, <2>1, <2>3
  <2> QED
    BY <2>1, <2>2, <2>3
<1> HIDE DEF p, q
<1> QED
  BY <1>2, <1>4, <1>5 DEF Least, p, q

\* Retries back off whatever the dice say (retryDelay): while the next delay
\* before jitter is within the cap, every delay drawn for it is longer than
\* every one that was drawn for this, since a fifth up and a fifth down do
\* not undo a doubling; and at the cap no delay is less than 2/3 of the last.
THEOREM RetriesBackOff ==
  ASSUME NEW count \in Nat \ {0},
         NEW delay \in RetryDelay(count), NEW following \in RetryDelay(count + 1)
  PROVE  /\ 2 * delay <= 3 * following
         /\ BackoffBase > 0 /\ count <= 32 /\ 2 * Nominal(count) <= BackoffCap
              => delay < following
<1> DEFINE s == Nominal(count)
           t == Nominal(count + 1)
<1>1. /\ s \in Nat /\ t \in Nat /\ BackoffBase <= s /\ s <= t
      /\ t <= BackoffCap
      /\ count <= 32 => t = Least(2 * s, BackoffCap)
  BY NominalDoubles
<1>2. delay \in Jittered(s) /\ following \in Jittered(t)
  BY DEF RetryDelay, Nominal
<1> HIDE DEF s, t
<1>3. /\ BackoffBase \in Nat /\ BackoffCap \in Nat /\ MaxDuration \in Nat
      /\ BackoffCap + BackoffCap \div 5 <= MaxDuration
  BY BackoffAssumption DEF BackoffAssumption
<1>4. /\ delay \in Int /\ delay <= s + s \div 5
      /\ following \in Int
      /\ t + t \div 5 <= MaxDuration => 5 * following >= 4 * t
  BY <1>1, <1>2, JitterBounds
<1>5. t + t \div 5 <= MaxDuration
  BY <1>1, <1>3
<1>6. 5 * delay <= 6 * s
  BY <1>1, <1>4
<1>7. 2 * delay <= 3 * following
  BY <1>1, <1>4, <1>5, <1>6
<1>8. ASSUME BackoffBase > 0, count <= 32, 2 * s <= BackoffCap
      PROVE  delay < following
  <2>1. t = 2 * s /\ s > 0
    BY <1>1, <1>3, <1>8 DEF Least
  <2> QED
    BY <1>1, <1>4, <1>5, <1>6, <2>1
<1> QED
  BY <1>7, <1>8 DEF s

LEMMA LongestBounds ==
  ASSUME resolved.interval \in Nat
  PROVE  /\ Longest \in Nat
         /\ resolved.interval + resolved.interval \div 5 <= Longest
         /\ BackoffCap + BackoffCap \div 5 <= Longest
         /\ BackoffCap <= Longest
<1>1. BackoffCap \in Nat /\ BackoffCap \div 5 \in Nat
  BY BackoffAssumption DEF BackoffAssumption
<1>2. resolved.interval \div 5 \in Nat
  OBVIOUS
<1> QED
  BY <1>1, <1>2 DEF Longest

\* How long poll waits, whatever the outcome: never beyond Longest, and as
\* long as politeness asks.
LEMMA WaitBounds ==
  ASSUME resolved.interval \in Nat, reply.retryAfterSeconds \in Nat,
         failures' \in Nat, Wait
  PROVE  /\ left' \in Nat /\ left' <= Longest
         /\ failures' = 0 /\ resolved.interval + resolved.interval \div 5
                               <= MaxDuration
              => 5 * left' >= 4 * resolved.interval
         /\ failures' # 0 =>
              IF reply.retryAfterSeconds > 0
              THEN left' >= Least(reply.retryAfterSeconds, BackoffCap)
              ELSE 5 * left' >= 4 * BackoffBase
<1>1. BackoffCap \in Nat /\ BackoffBase \in Nat
  BY BackoffAssumption DEF BackoffAssumption
<1>2. CASE failures' = 0
  <2>1. PICK delay \in Jittered(resolved.interval) :
          left' = IF delay > 0 THEN delay ELSE 0
    BY <1>2 DEF Wait, TimerRange, PollDelay
  <2>2. /\ delay \in Int
        /\ delay <= resolved.interval + resolved.interval \div 5
        /\ resolved.interval + resolved.interval \div 5 <= MaxDuration
             => 5 * delay >= 4 * resolved.interval
    BY <2>1, JitterBounds
  <2>3. left' \in Nat /\ left' >= delay /\ left' <= Longest
    BY <2>1, <2>2, LongestBounds
  <2> QED
    BY <1>2, <2>2, <2>3
<1>3. CASE failures' # 0 /\ reply.retryAfterSeconds > 0
  <2> DEFINE hint == Least(reply.retryAfterSeconds, BackoffCap)
  <2>1. left' = IF hint > 0 THEN hint ELSE 0
    BY <1>3 DEF Wait, TimerRange, RetryDelayWithServerHint
  <2>2. hint \in Nat /\ hint <= BackoffCap
    BY <1>1 DEF Least
  <2> HIDE DEF hint
  <2>3. left' = hint
    BY <2>1, <2>2
  <2>4. left' <= Longest
    BY <1>1, <2>2, <2>3, LongestBounds
  <2> QED
    BY <1>3, <2>2, <2>3, <2>4 DEF hint
<1>4. CASE failures' # 0 /\ ~(reply.retryAfterSeconds > 0)
  <2>1. PICK delay \in RetryDelay(failures') :
          left' = IF delay > 0 THEN delay ELSE 0
    BY <1>4 DEF Wait, TimerRange, RetryDelayWithServerHint
  <2>2. /\ delay \in Int /\ delay <= BackoffCap + BackoffCap \div 5
        /\ 5 * delay >= 4 * BackoffBase
    BY <1>4, <2>1, RetryBounds
  <2>3. left' \in Nat /\ left' >= delay /\ left' <= Longest
    BY <1>1, <2>1, <2>2, LongestBounds
  <2>4. \A d \in Int, l, b \in Nat : 5 * d >= 4 * b /\ l >= d => 5 * l >= 4 * b
    OBVIOUS
  <2>5. 5 * left' >= 4 * BackoffBase
    BY <1>1, <2>2, <2>3, <2>4, Zenon
  <2> QED
    BY <1>4, <2>3, <2>5
<1> QED
  BY <1>2, <1>3, <1>4

\* The client's half of TypeOK, and that a success in hand is a release.
ClientTyped ==
  /\ snapshot \in [source : {"none", "cache", "network"},
                   release : {NoBody} \cup DOMAIN Releases]
  /\ file \in {NoBody} \cup DOMAIN Releases
  /\ failures \in 0..MaxFailures
  /\ poller \in {"unborn", "refused", "idle", "fetching", "answered", "waiting"}
  /\ poller # "answered" => reply = NoReply
  /\ poller = "answered" =>
       /\ reply.kind \in OutcomeKinds /\ reply.retryAfterSeconds \in Nat
       /\ reply.kind = "success" => reply.body \in DOMAIN Releases

\* What New resolves is positive, whatever the host wrote.
ResolvedIsSane ==
  /\ poller = "unborn" => given \in Givens
  /\ poller \notin {"unborn", "refused"} =>
       /\ resolved.httpTimeout \in Nat \ {0}
       /\ resolved.interval \in Nat
       /\ resolved.interval >= MinimumPollInterval

ClockTyped ==
  /\ release \in DOMAIN Releases
  /\ up \in BOOLEAN /\ lost \in BOOLEAN
  /\ left \in Nat
  /\ steady \in 0..MaxSteady
  /\ ~up => steady = 0

\* Every deadline is within what the resolved configuration allows.
DeadlinesAreNear ==
  /\ poller = "fetching" => left <= resolved.httpTimeout
  /\ poller = "waiting" => left <= Longest

Shape == ClientTyped /\ ResolvedIsSane /\ ClockTyped /\ DeadlinesAreNear

LEMMA InitShape ==
  ASSUME Init
  PROVE  Shape
<1>1. MaxFailures \in Nat /\ MaxSteady \in Nat
  BY PollSystemAssumption DEF PollSystemAssumption
<1>2. ClientTyped
  BY <1>1, ReleasesAreNumbered DEF Init, ClientTyped
<1>3. ResolvedIsSane
  BY DEF Init, ResolvedIsSane
<1>4. ClockTyped
  <2>1. /\ release = 1 /\ up \in BOOLEAN /\ lost \in BOOLEAN
        /\ left = 0 /\ steady = 0
    BY DEF Init
  <2>2. release \in DOMAIN Releases /\ left \in Nat /\ steady \in 0..MaxSteady
    BY <1>1, <2>1, ReleasesAreNumbered
  <2> QED
    BY <2>1, <2>2 DEF ClockTyped
<1>5. DeadlinesAreNear
  BY DEF Init, DeadlinesAreNear
<1> QED
  BY <1>2, <1>3, <1>4, <1>5 DEF Shape

\* New resolves an interval at the contract's floor or above, and a timeout
\* that is positive.
LEMMA NewShape ==
  ASSUME Shape, New
  PROVE  Shape'
<1>1. /\ poller = "unborn" /\ resolved' = ResolveConfiguration(given)
      /\ poller' = IF ParseKey(given.key) = ErrMalformedKey THEN "refused"
                                                            ELSE "idle"
      /\ UNCHANGED <<snapshot, file, failures, reply, release, up, lost, left,
                     steady>>
  BY DEF New, client, server
<1>2. ClientTyped'
  BY <1>1 DEF Shape, ClientTyped
<1>3. ResolvedIsSane'
  <2>1. CASE ParseKey(given.key) = ErrMalformedKey
    BY <1>1, <2>1 DEF ResolvedIsSane
  <2>2. CASE ParseKey(given.key) # ErrMalformedKey
    <3>1. /\ resolved'.interval = ResolveInterval(given.pollInterval)
          /\ resolved'.httpTimeout = ResolveTimeout(given.httpTimeout)
      BY <1>1, <2>2 DEF ResolveConfiguration
    <3>2. given.pollInterval \in Int /\ given.httpTimeout \in Int
      BY <1>1, GivensAssumption DEF GivensAssumption, Shape, ResolvedIsSane
    <3>3. /\ ResolveInterval(given.pollInterval) \in Nat
          /\ ResolveInterval(given.pollInterval) >= MinimumPollInterval
      BY <3>2, ConfigurationAssumption
      DEF ConfigurationAssumption, ResolveInterval
    <3>4. ResolveTimeout(given.httpTimeout) \in Nat \ {0}
      BY <3>2, ConfigurationAssumption
      DEF ConfigurationAssumption, ResolveTimeout
    <3> QED
      BY <1>1, <3>1, <3>3, <3>4 DEF ResolvedIsSane
  <2> QED
    BY <2>1, <2>2
<1>4. ClockTyped'
  BY <1>1 DEF Shape, ClockTyped
<1>5. DeadlinesAreNear'
  BY <1>1 DEF DeadlinesAreNear
<1> QED
  BY <1>2, <1>3, <1>4, <1>5 DEF Shape

LEMMA FetchingShape ==
  ASSUME Shape, Start \/ TimerFires
  PROVE  Shape'
<1>1. /\ poller \in {"idle", "waiting"} /\ poller' = "fetching"
      /\ left' = resolved.httpTimeout /\ lost' = ~up /\ reply' = NoReply
      /\ steady' \in {0, steady}
      /\ UNCHANGED <<given, resolved, release, up, file, failures>>
  BY DEF Start, TimerFires, Fetch, server, client
<1>2. \/ snapshot' = [source |-> "cache", release |-> file]
      \/ snapshot' = snapshot
  BY DEF Start, TimerFires, client
<1>3. ClientTyped'
  BY <1>1, <1>2 DEF Shape, ClientTyped
<1>4. ResolvedIsSane'
  BY <1>1 DEF Shape, ResolvedIsSane
<1>5. ClockTyped'
  BY <1>1, <1>4, PollSystemAssumption
  DEF Shape, ClockTyped, ResolvedIsSane, PollSystemAssumption
<1>6. DeadlinesAreNear'
  BY <1>1, <1>4 DEF DeadlinesAreNear, ResolvedIsSane
<1> QED
  BY <1>3, <1>4, <1>5, <1>6 DEF Shape

\* Every branch of record counts within bounds, and Wait sets a timer that is
\* never beyond Longest.
LEMMA RecordShape ==
  ASSUME Shape, Record
  PROVE  Shape'
<1>1. /\ poller = "answered" /\ poller' = "waiting" /\ Wait /\ reply' = NoReply
      /\ UNCHANGED <<given, resolved, release, up, lost, steady>>
  BY DEF Record, RecordAccepted, RecordRejected, RecordNotModified,
         RecordFailed, Recording, Wait, server
<1>2. reply.kind = "success" => reply.body \in DOMAIN Releases
  BY <1>1 DEF Shape, ClientTyped
<1>3. failures' \in 0..MaxFailures
  <2>1. failures' = 0 \/ Failed
    BY DEF Record, RecordAccepted, RecordRejected, RecordNotModified,
           RecordFailed
  <2> QED
    BY <2>1, PollSystemAssumption
    DEF Failed, Least, Shape, ClientTyped, PollSystemAssumption
<1>4. /\ snapshot' \in [source : {"none", "cache", "network"},
                        release : {NoBody} \cup DOMAIN Releases]
      /\ file' \in {NoBody} \cup DOMAIN Releases
  <2>1. CASE RecordAccepted
    <3>1. /\ snapshot' = [source |-> "network", release |-> reply.body]
          /\ file' \in {file, reply.body} /\ reply.body \in DOMAIN Releases
      BY <1>2, <2>1 DEF RecordAccepted, Recording
    <3> QED
      BY <3>1 DEF Shape, ClientTyped
  <2>2. CASE ~RecordAccepted
    BY <2>2 DEF Record, RecordRejected, RecordNotModified, RecordFailed,
                Shape, ClientTyped
  <2> QED
    BY <2>1, <2>2
<1>5. ClientTyped'
  BY <1>1, <1>3, <1>4 DEF ClientTyped
<1>6. ResolvedIsSane'
  BY <1>1 DEF Shape, ResolvedIsSane
<1>7. ClockTyped' /\ DeadlinesAreNear'
  <2>1. left' \in Nat /\ left' <= Longest
    <3>1. /\ resolved.interval \in Nat /\ reply.retryAfterSeconds \in Nat
          /\ failures' \in Nat
      BY <1>1, <1>3, PollSystemAssumption
      DEF Shape, ClientTyped, ResolvedIsSane, PollSystemAssumption
    <3> QED
      BY <1>1, <3>1, WaitBounds
  <2>2. Longest' = Longest
    BY <1>1 DEF Longest
  <2> QED
    BY <1>1, <2>1, <2>2 DEF Shape, ClockTyped, DeadlinesAreNear
<1> QED
  BY <1>5, <1>6, <1>7 DEF Shape

LEMMA RestartShape ==
  ASSUME Shape, Restart
  PROVE  Shape'
<1>1. /\ snapshot' = [source |-> "none", release |-> NoBody] /\ failures' = 0
      /\ poller \notin {"unborn", "refused"}
      /\ poller' = "idle" /\ reply' = NoReply
      /\ left' = 0 /\ lost' = FALSE /\ steady' = 0
      /\ UNCHANGED <<given, resolved, release, up, file>>
  BY DEF Restart, server
<1>2. 0 \in 0..MaxFailures /\ 0 \in 0..MaxSteady
  BY PollSystemAssumption DEF PollSystemAssumption
<1>3. ClientTyped'
  BY <1>1, <1>2 DEF Shape, ClientTyped
<1>4. ResolvedIsSane'
  BY <1>1 DEF Shape, ResolvedIsSane
<1>5. ClockTyped'
  BY <1>1, <1>2 DEF Shape, ClockTyped
<1>6. DeadlinesAreNear'
  BY <1>1 DEF DeadlinesAreNear
<1> QED
  BY <1>3, <1>4, <1>5, <1>6 DEF Shape

\* Whatever answers, the outcome is one of the transport's, and a body that
\* came whole is a release.
LEMMA AnsweredShape ==
  ASSUME Shape, Answer \/ TimesOut
  PROVE  Shape'
<1>1. PICK response : /\ response \in {Export, NoResponse} \cup Failures
                      /\ reply' = FetchRuleset(response)
  BY DEF Answer, TimesOut
<1>2. /\ poller = "fetching" /\ poller' = "answered"
      /\ left' \in {0, left} /\ lost' \in BOOLEAN
      /\ UNCHANGED <<given, resolved, release, up, snapshot, file, failures,
                     steady>>
  BY DEF Answer, TimesOut, server, client
<1>3. NoResponse = [arrived |-> FALSE, status |-> 0, location |-> FALSE,
                    length |-> 0, broken |-> FALSE, body |-> NoBody,
                    etag |-> NoETag, retryAfter |-> [form |-> "absent",
                                                     seconds |-> 0]]
  BY DEF NoResponse, NoHeader
<1>4. /\ Export.body = release /\ NoResponse.status = 0
      /\ Export.retryAfter.seconds = 0 /\ NoResponse.retryAfter.seconds = 0
  BY <1>3, ZenonT(30) DEF Export
<1>5. response.retryAfter.seconds \in Int
  BY <1>1, <1>4, PollSystemAssumption DEF PollSystemAssumption
<1>6. reply'.kind \in OutcomeKinds /\ reply'.retryAfterSeconds \in Nat
  BY <1>1, <1>5, OutcomeIsTyped
<1>7. reply'.kind = "success" => reply'.body \in DOMAIN Releases
  <2> SUFFICES ASSUME reply'.kind = "success"
               PROVE  response.body \in DOMAIN Releases
    BY <1>1, FetchSays
  <2>1. response.status = 200 /\ ~response.broken
    BY <1>1, FetchSays
  <2>2. CASE response = Export
    BY <1>4, <2>2 DEF Shape, ClockTyped
  <2>3. CASE response = NoResponse
    BY <1>4, <2>1, <2>3
  <2>4. CASE response \in Failures
    BY <2>1, <2>4, PollSystemAssumption
    DEF PollSystemAssumption, WholeOrBroken
  <2> QED
    BY <1>1, <2>2, <2>3, <2>4
<1>8. ClientTyped'
  BY <1>2, <1>6, <1>7 DEF Shape, ClientTyped
<1>9. ResolvedIsSane'
  BY <1>2 DEF Shape, ResolvedIsSane
<1>10. ClockTyped'
  <2>1. left' \in Nat
    BY <1>2 DEF Shape, ClockTyped
  <2> QED
    BY <1>2, <2>1 DEF Shape, ClockTyped
<1>11. DeadlinesAreNear'
  BY <1>2 DEF DeadlinesAreNear
<1> QED
  BY <1>8, <1>9, <1>10, <1>11 DEF Shape

\* The server and the clock: no deadline moves away from the client.
LEMMA WorldShape ==
  ASSUME Shape, Publish \/ Fail \/ Recover \/ Tick \/ UNCHANGED vars
  PROVE  Shape'
<1>1. UNCHANGED <<given, resolved, snapshot, file, failures, poller, reply>>
  BY DEF Publish, Fail, Recover, Tick, client, vars
<1>2. ClientTyped' /\ ResolvedIsSane' /\ Longest' = Longest
  BY <1>1 DEF Shape, ClientTyped, ResolvedIsSane, Longest
<1>3. 0 \in 0..MaxSteady /\ MaxSteady \in Nat
  BY PollSystemAssumption DEF PollSystemAssumption
<1>4. CASE Publish
  <2>1. release' \in DOMAIN Releases
    BY <1>4, ReleasesAreNumbered DEF Publish, Shape, ClockTyped
  <2>2. steady' = 0 /\ UNCHANGED <<up, lost, left>>
    BY <1>4 DEF Publish
  <2> QED
    BY <1>1, <1>2, <1>3, <2>1, <2>2 DEF Shape, ClockTyped, DeadlinesAreNear
<1>5. CASE Fail \/ Recover
  <2>1. /\ UNCHANGED <<release, left>> /\ steady' = 0
        /\ up' \in BOOLEAN /\ lost' \in BOOLEAN
    BY <1>5 DEF Fail, Recover, Shape, ClockTyped
  <2> QED
    BY <1>1, <1>2, <1>3, <2>1 DEF Shape, ClockTyped, DeadlinesAreNear
<1>6. CASE Tick
  <2>1. /\ left > 0 /\ left' = left - 1 /\ UNCHANGED <<release, up, lost>>
        /\ steady' = IF up THEN Least(steady + 1, MaxSteady) ELSE 0
    BY <1>6 DEF Tick, server
  <2>2. steady' \in 0..MaxSteady
    BY <1>3, <2>1 DEF Least, Shape, ClockTyped
  <2>3. left' \in Nat /\ left' <= left
    BY <2>1 DEF Shape, ClockTyped
  <2>4. /\ poller = "fetching" => left' <= resolved.httpTimeout
        /\ poller = "waiting" => left' <= Longest
    <3>1. poller = "waiting" => Longest \in Nat
      BY LongestBounds DEF Shape, ResolvedIsSane
    <3> QED
      BY <2>3, <3>1 DEF Shape, ClockTyped, DeadlinesAreNear, ResolvedIsSane
  <2> QED
    BY <1>1, <1>2, <2>1, <2>2, <2>3, <2>4 DEF Shape, ClockTyped, DeadlinesAreNear
<1>7. CASE UNCHANGED vars
  BY <1>1, <1>2, <1>7 DEF Shape, ClockTyped, DeadlinesAreNear, vars, server
<1> QED
  BY <1>4, <1>5, <1>6, <1>7

LEMMA ShapeHolds == Spec => []Shape
<1>1. Shape /\ [Next]_vars => Shape'
  BY NewShape, FetchingShape, RecordShape, RestartShape, AnsweredShape,
     WorldShape DEF Next
<1> QED
  BY InitShape, <1>1, PTL DEF Spec

\* Nothing the client computes leaves its range, the failures it counts and the
\* deadlines it sets included, whatever the host wrote (poll, client.go).
THEOREM PollerIsTyped == Spec => []TypeOK
<1>1. Shape => TypeOK
  BY DEF Shape, ClientTyped, ClockTyped, TypeOK
<1> QED
  BY ShapeHolds, <1>1, PTL

\* poll is polite for any configuration and any Retry-After: no wait is shorter
\* than 4/5 of the floor, of the base, or of what the server asked for.
THEOREM DelaysAreAlwaysPolite == Spec => DelaysArePolite
<1> DEFINE Polite ==
      /\ failures' = 0 /\ resolved.interval + resolved.interval \div 5
                            <= MaxDuration
           => 5 * left' >= 4 * MinimumPollInterval
      /\ failures' # 0 =>
           IF reply.retryAfterSeconds > 0
           THEN left' >= Least(reply.retryAfterSeconds, BackoffCap)
           ELSE 5 * left' >= 4 * BackoffBase
<1>1. ASSUME Shape, Shape', Next, poller = "answered", poller' = "waiting"
      PROVE  Polite
  <2>1. Wait
    BY <1>1 DEF Next, New, Start, Fetch, Record, RecordAccepted,
                RecordRejected, RecordNotModified, RecordFailed, TimerFires,
                Restart, Answer, TimesOut, Publish, Fail, Recover, Tick
  <2>2. /\ resolved.interval \in Nat
        /\ resolved.interval >= MinimumPollInterval
        /\ reply.retryAfterSeconds \in Nat /\ failures' \in Nat
    BY <1>1, PollSystemAssumption
    DEF Shape, ResolvedIsSane, ClientTyped, PollSystemAssumption
  <2>3. MinimumPollInterval \in Nat
    BY ConfigurationAssumption DEF ConfigurationAssumption
  <2>4. /\ left' \in Nat
        /\ failures' = 0 /\ resolved.interval + resolved.interval \div 5
                              <= MaxDuration
             => 5 * left' >= 4 * resolved.interval
        /\ failures' # 0 =>
             IF reply.retryAfterSeconds > 0
             THEN left' >= Least(reply.retryAfterSeconds, BackoffCap)
             ELSE 5 * left' >= 4 * BackoffBase
    BY <2>1, <2>2, WaitBounds
  <2>5. \A l, i, m \in Nat : i >= m /\ 5 * l >= 4 * i => 5 * l >= 4 * m
    OBVIOUS
  <2>6. 5 * left' >= 4 * resolved.interval
          => 5 * left' >= 4 * MinimumPollInterval
    BY <2>2, <2>3, <2>4, <2>5, Zenon
  <2> QED
    BY <2>4, <2>6
<1>2. Shape /\ Shape' /\ [Next]_vars
        => [poller = "answered" /\ poller' = "waiting" => Polite]_vars
  BY <1>1
<1> QED
  BY ShapeHolds, <1>2, PTL DEF Spec, DelaysArePolite

-----------------------------------------------------------------------------
(* Staleness                                                               *)

\* The release the server exports is one the client takes and serves.
Acceptable == Verified(release) /\ Current.length <= MaxResponseBytes

Served == snapshot = [source |-> "network", release |-> release]

\* The outcome in hand is about that release.
Fresh ==
  \/ reply.kind = "notModified" /\ asOf = release
  \/ reply.kind = "success" /\ reply.body = release

\* A request from the outage that is still in flight ends within its timeout.
OrphanIsShort ==
  up /\ lost /\ poller = "fetching" => steady + left <= resolved.httpTimeout

\* An outcome that is not about the current release is from before it, or of
\* such a request.
StaleOutcomeIsEarly ==
  poller = "answered" /\ Acceptable /\ ~Fresh => steady <= resolved.httpTimeout

\* While the current release is not served the clock has a bound in each phase
\* of the poll.
UnservedIsRecent ==
  Acceptable /\ ~Served =>
    /\ poller = "waiting" => steady + left <= resolved.httpTimeout + Longest
    /\ poller = "fetching" => steady + left <= 2 * resolved.httpTimeout + Longest
    /\ poller = "answered" => steady <= 2 * resolved.httpTimeout + Longest

Timely == OrphanIsShort /\ StaleOutcomeIsEarly /\ UnservedIsRecent

LEMMA Numbers ==
  ASSUME Shape, poller \in {"fetching", "answered", "waiting"}
  PROVE  /\ resolved.httpTimeout \in Nat /\ Longest \in Nat
         /\ left \in Nat /\ steady \in Nat
<1>1. resolved.httpTimeout \in Nat /\ resolved.interval \in Nat
  BY DEF Shape, ResolvedIsSane
<1>2. left \in Nat /\ steady \in Nat
  BY PollSystemAssumption DEF Shape, ClockTyped, PollSystemAssumption
<1> QED
  BY <1>1, <1>2, LongestBounds

\* Whatever resets steady starts from deadlines that are near.
LEMMA ZeroIsTimely == Shape /\ steady = 0 => Timely
<1> SUFFICES ASSUME Shape, steady = 0
             PROVE  Timely
  OBVIOUS
<1>1. CASE poller \in {"fetching", "answered", "waiting"}
  <2>1. /\ resolved.httpTimeout \in Nat /\ Longest \in Nat /\ left \in Nat
        /\ poller = "fetching" => left <= resolved.httpTimeout
        /\ poller = "waiting" => left <= Longest
    BY <1>1, Numbers DEF Shape, DeadlinesAreNear
  <2>2. OrphanIsShort
    BY <2>1 DEF OrphanIsShort
  <2>3. StaleOutcomeIsEarly
    BY <2>1 DEF StaleOutcomeIsEarly
  <2>4. UnservedIsRecent
    BY <2>1 DEF UnservedIsRecent
  <2> QED
    BY <2>2, <2>3, <2>4 DEF Timely
<1>2. CASE poller \notin {"fetching", "answered", "waiting"}
  BY <1>2 DEF Timely, OrphanIsShort, StaleOutcomeIsEarly, UnservedIsRecent
<1> QED
  BY <1>1, <1>2

LEMMA ResetIsTimely ==
  ASSUME Shape', steady' = 0
  PROVE  Timely'
<1>1. (Shape /\ steady = 0 => Timely)'
  BY ZeroIsTimely, PTL
<1> QED
  BY <1>1

\* What is acceptable and what the bounds are changes with New and Publish
\* only.
LEMMA Frame ==
  ASSUME UNCHANGED <<release, resolved>>
  PROVE  /\ Acceptable' = Acceptable /\ Longest' = Longest
         /\ resolved.httpTimeout' = resolved.httpTimeout
BY DEF Acceptable, Verified, Current, Longest

LEMMA TimerTimely ==
  ASSUME Shape, Timely, TimerFires
  PROVE  Timely'
<1>1. /\ poller = "waiting" /\ left = 0 /\ poller' = "fetching"
      /\ left' = resolved.httpTimeout /\ lost' = ~up
      /\ UNCHANGED <<release, resolved, up, snapshot, steady>>
  BY DEF TimerFires, Fetch, server, client
<1>2. /\ resolved.httpTimeout \in Nat /\ Longest \in Nat /\ steady \in Nat
  BY <1>1, Numbers
<1>3. Acceptable' = Acceptable /\ Longest' = Longest /\ Served' = Served
  BY <1>1, Frame DEF Served
<1>4. OrphanIsShort' /\ StaleOutcomeIsEarly'
  BY <1>1 DEF OrphanIsShort, StaleOutcomeIsEarly
<1>5. UnservedIsRecent'
  <2> SUFFICES ASSUME Acceptable, ~Served
               PROVE  steady + resolved.httpTimeout
                        <= 2 * resolved.httpTimeout + Longest
    BY <1>1, <1>3 DEF UnservedIsRecent
  <2>1. steady <= resolved.httpTimeout + Longest
    BY <1>1, <1>2 DEF Timely, UnservedIsRecent
  <2> QED
    BY <1>2, <2>1
<1> QED
  BY <1>4, <1>5 DEF Timely

\* The server that is up answers with its current release, or with a 304 for
\* it.
LEMMA AnswerIsFresh ==
  ASSUME Answer, up, Acceptable, release \in DOMAIN Releases
  PROVE  Fresh'
<1>1. reply' = FetchRuleset(Export) /\ asOf' = release /\ release' = release
  BY DEF Answer, server
<1>2. NoResponse = [arrived |-> FALSE, status |-> 0, location |-> FALSE,
                    length |-> 0, broken |-> FALSE, body |-> NoBody,
                    etag |-> NoETag, retryAfter |-> NoHeader]
  BY DEF NoResponse
<1>3. /\ Export.arrived /\ ~Export.broken /\ Export.body = release
      /\ Export.status \in {200, 304} /\ Export.length = Current.length
  BY <1>2, ZenonT(30) DEF Export
<1>4. ~RefusedRedirect(Export)
  BY <1>3 DEF RefusedRedirect
<1>5. CASE Export.status = 304
  <2>1. reply' = Outcome("notModified")
    BY <1>1, <1>3, <1>4, <1>5 DEF FetchRuleset
  <2> QED
    BY <1>1, <2>1 DEF Fresh, Outcome
<1>6. CASE Export.status = 200
  <2>1. reply' = ReadBody(Export)
    BY <1>1, <1>3, <1>4, <1>6 DEF FetchRuleset
  <2>2. ~TooLarge(Export.length)
    <3>1. Current.length \in Nat /\ MaxResponseBytes \in Nat
      BY PollSystemAssumption DEF Current, PollSystemAssumption
    <3> QED
      BY <1>3, <3>1 DEF TooLarge, Acceptable
  <2>3. reply' = [Outcome("success") EXCEPT !.body = Export.body,
                                            !.etag = Export.etag]
    BY <1>3, <2>1, <2>2 DEF ReadBody
  <2> QED
    BY <1>1, <1>3, <2>3 DEF Fresh, Outcome
<1> QED
  BY <1>3, <1>5, <1>6

\* A timeout with the server up is that of a request from the outage.
LEMMA AnswerTimely ==
  ASSUME Shape, Shape', Timely, Answer \/ TimesOut
  PROVE  Timely'
<1>1. /\ poller = "fetching" /\ poller' = "answered"
      /\ UNCHANGED <<release, resolved, up, snapshot, steady>>
  BY DEF Answer, TimesOut, server, client
<1>2. CASE ~up
  <2>1. steady' = 0
    BY <1>1, <1>2 DEF Shape, ClockTyped
  <2> QED
    BY <2>1, ResetIsTimely
<1>3. CASE up
  <2>1. /\ resolved.httpTimeout \in Nat /\ Longest \in Nat
        /\ left \in Nat /\ steady \in Nat
    BY <1>1, Numbers
  <2>2. Acceptable' = Acceptable /\ Longest' = Longest /\ Served' = Served
    BY <1>1, Frame DEF Served
  <2>3. OrphanIsShort'
    BY <1>1 DEF OrphanIsShort
  <2>4. StaleOutcomeIsEarly'
    <3>1. CASE Answer
      <4>1. Acceptable => Fresh'
        BY <1>3, <3>1, AnswerIsFresh DEF Shape, ClockTyped
      <4> QED
        BY <2>2, <4>1 DEF StaleOutcomeIsEarly
    <3>2. CASE TimesOut
      <4>1. lost
        BY <3>2 DEF TimesOut
      <4>2. steady + left <= resolved.httpTimeout
        BY <1>1, <1>3, <4>1 DEF Timely, OrphanIsShort
      <4>3. steady <= resolved.httpTimeout
        BY <2>1, <4>2
      <4> QED
        BY <1>1, <4>3 DEF StaleOutcomeIsEarly
    <3> QED
      BY <3>1, <3>2
  <2>5. UnservedIsRecent'
    <3> SUFFICES ASSUME Acceptable, ~Served
                 PROVE  steady <= 2 * resolved.httpTimeout + Longest
      BY <1>1, <2>2 DEF UnservedIsRecent
    <3>1. steady + left <= 2 * resolved.httpTimeout + Longest
      BY <1>1 DEF Timely, UnservedIsRecent
    <3> QED
      BY <2>1, <3>1
  <2> QED
    BY <2>3, <2>4, <2>5 DEF Timely
<1> QED
  BY <1>2, <1>3

\* Recording an outcome about the current release serves that release.
LEMMA RecordServes ==
  ASSUME Shape, NotModifiedMeansCurrent, Record, Acceptable, Fresh
  PROVE  Served'
<1>1. poller = "answered" /\ UNCHANGED release
  BY DEF Record, RecordAccepted, RecordRejected, RecordNotModified,
         RecordFailed, Recording, Wait, server
<1>2. CASE reply.kind = "notModified" /\ asOf = release
  <2>1. snapshot' = snapshot
    BY <1>2 DEF Record, RecordAccepted, RecordRejected, RecordNotModified,
                RecordFailed, Recording
  <2> QED
    BY <1>1, <1>2, <2>1 DEF NotModifiedMeansCurrent, Served
<1>3. CASE reply.kind = "success" /\ reply.body = release
  <2>1. RecordAccepted
    BY <1>3 DEF Record, RecordRejected, RecordNotModified, RecordFailed,
                Recording, Acceptable
  <2>2. snapshot' = [source |-> "network", release |-> reply.body]
    BY <2>1 DEF RecordAccepted
  <2> QED
    BY <1>1, <1>3, <2>2 DEF Served
<1> QED
  BY <1>2, <1>3 DEF Fresh

LEMMA RecordTimely ==
  ASSUME Shape, Shape', Timely, NotModifiedMeansCurrent, Record
  PROVE  Timely'
<1>1. /\ poller = "answered" /\ poller' = "waiting"
      /\ UNCHANGED <<release, resolved, up, steady>>
  BY DEF Record, RecordAccepted, RecordRejected, RecordNotModified,
         RecordFailed, Recording, Wait, server
<1>2. /\ resolved.httpTimeout \in Nat /\ Longest \in Nat /\ steady \in Nat
  BY <1>1, Numbers
<1>3. Acceptable' = Acceptable /\ Longest' = Longest
  BY <1>1, Frame
<1>4. left' \in Nat /\ left' <= Longest
  BY <1>1, <1>3 DEF Shape, ClockTyped, DeadlinesAreNear
<1>5. OrphanIsShort' /\ StaleOutcomeIsEarly'
  BY <1>1 DEF OrphanIsShort, StaleOutcomeIsEarly
<1>6. UnservedIsRecent'
  <2> SUFFICES ASSUME Acceptable, ~Served'
               PROVE  steady + left' <= resolved.httpTimeout + Longest
    BY <1>1, <1>3 DEF UnservedIsRecent
  <2>1. ~Fresh
    BY RecordServes
  <2>2. steady <= resolved.httpTimeout
    BY <1>1, <2>1 DEF Timely, StaleOutcomeIsEarly
  <2> QED
    BY <1>2, <1>4, <2>2
<1> QED
  BY <1>5, <1>6 DEF Timely

\* What the clock adds to steady it takes from the deadline.
LEMMA TickTimely ==
  ASSUME Shape, Shape', Timely, Tick
  PROVE  Timely'
<1>1. /\ poller \in {"fetching", "waiting"} /\ left > 0 /\ left' = left - 1
      /\ steady' = IF up THEN Least(steady + 1, MaxSteady) ELSE 0
      /\ UNCHANGED <<release, resolved, up, lost, snapshot, poller, reply, asOf>>
  BY DEF Tick, server, client
<1>2. CASE ~up
  <2>1. steady' = 0
    BY <1>1, <1>2
  <2> QED
    BY <2>1, ResetIsTimely
<1>3. CASE up
  <2>1. /\ resolved.httpTimeout \in Nat /\ Longest \in Nat
        /\ left \in Nat /\ steady \in Nat
    BY <1>1, Numbers
  <2>2. /\ Acceptable' = Acceptable /\ Longest' = Longest /\ Served' = Served
        /\ UNCHANGED resolved.httpTimeout
    BY <1>1, Frame DEF Served
  <2>3. steady' \in Nat /\ left' \in Nat /\ steady' + left' <= steady + left
    BY <1>1, <1>3, <2>1, PollSystemAssumption DEF Least, PollSystemAssumption
  <2>4. OrphanIsShort'
    BY <1>1, <2>1, <2>2, <2>3 DEF Timely, OrphanIsShort
  <2>5. StaleOutcomeIsEarly'
    BY <1>1 DEF StaleOutcomeIsEarly
  <2>6. UnservedIsRecent'
    <3> SUFFICES ASSUME Acceptable, ~Served
                 PROVE  /\ poller = "waiting" =>
                             steady' + left' <= resolved.httpTimeout + Longest
                        /\ poller = "fetching" =>
                             steady' + left' <= 2 * resolved.httpTimeout + Longest
      BY <1>1, <2>2 DEF UnservedIsRecent
    <3>1. /\ poller = "waiting" =>
               steady + left <= resolved.httpTimeout + Longest
          /\ poller = "fetching" =>
               steady + left <= 2 * resolved.httpTimeout + Longest
      BY DEF Timely, UnservedIsRecent
    <3>2. \A a, b \in Nat : a + b \in Nat
      OBVIOUS
    <3>3. steady' + left' \in Nat
      BY <2>3, <3>2, Zenon
    <3>4. /\ steady + left \in Nat
          /\ resolved.httpTimeout + Longest \in Nat
          /\ 2 * resolved.httpTimeout + Longest \in Nat
      BY <2>1
    <3>5. \A a, b, c \in Nat : a <= b /\ b <= c => a <= c
      OBVIOUS
    <3> QED
      BY <2>3, <3>1, <3>3, <3>4, <3>5, Zenon
  <2> QED
    BY <2>4, <2>5, <2>6 DEF Timely
<1> QED
  BY <1>2, <1>3

\* Everything else has no poll under way or starts the count again.
LEMMA OtherTimely ==
  ASSUME Shape', Timely,
         New \/ Start \/ Restart \/ Publish \/ Fail \/ Recover \/ UNCHANGED vars
  PROVE  Timely'
<1>1. CASE New
  <2>1. poller' \in {"refused", "idle"}
    BY <1>1 DEF New
  <2> QED
    BY <2>1 DEF Timely, OrphanIsShort, StaleOutcomeIsEarly, UnservedIsRecent
<1>2. CASE Start \/ Restart \/ Publish \/ Fail \/ Recover
  <2>1. steady' = 0
    BY <1>2 DEF Start, Restart, Publish, Fail, Recover
  <2> QED
    BY <2>1, ResetIsTimely
<1>3. CASE UNCHANGED vars
  BY <1>3 DEF Timely, OrphanIsShort, StaleOutcomeIsEarly, UnservedIsRecent,
              Acceptable, Served, Fresh, Verified, Current, Longest, vars,
              server, client
<1> QED
  BY <1>1, <1>2, <1>3

LEMMA TimelyHolds == Spec => []Timely
<1>1. Init => Timely
  BY DEF Init, Timely, OrphanIsShort, StaleOutcomeIsEarly, UnservedIsRecent
<1>2. /\ Shape /\ Shape' /\ NotModifiedMeansCurrent /\ Timely /\ [Next]_vars
      => Timely'
  BY TimerTimely, AnswerTimely, RecordTimely, TickTimely, OtherTimely DEF Next
<1> QED
  BY <1>1, <1>2, ShapeHolds, NotModifiedAlwaysMeansCurrent, PTL DEF Spec

\* Once the server answers again the current release is served within two
\* request timeouts and one delay (poll, client.go), whatever the outage, the
\* failures and their Retry-After were.
THEOREM StalenessIsAlwaysBounded == Spec => []StalenessIsBounded
<1>1. ASSUME Shape, Timely
      PROVE  StalenessIsBounded
  <2> SUFFICES ASSUME poller \in {"fetching", "answered", "waiting"},
                      steady > 2 * resolved.httpTimeout + Longest,
                      Acceptable, ~Served
               PROVE  FALSE
    BY DEF StalenessIsBounded, Acceptable, Served
  <2>1. /\ resolved.httpTimeout \in Nat /\ Longest \in Nat
        /\ left \in Nat /\ steady \in Nat
    BY <1>1, Numbers
  <2>2. /\ poller = "waiting" =>
             steady + left <= resolved.httpTimeout + Longest
        /\ poller = "fetching" =>
             steady + left <= 2 * resolved.httpTimeout + Longest
        /\ poller = "answered" =>
             steady <= 2 * resolved.httpTimeout + Longest
    BY <1>1 DEF Timely, UnservedIsRecent
  <2> QED
    BY <2>1, <2>2
<1> QED
  BY <1>1, ShapeHolds, TimelyHolds, PTL

-----------------------------------------------------------------------------
(* Keys                                                                    *)

\* The induction the keys need: a set of numbers has a least element.
LEMMA LeastNumber ==
  ASSUME NEW T \in SUBSET Nat, T # {}
  PROVE  \E x \in T : \A y \in T : x <= y
<1> DEFINE below == {ss \in Nat \X Nat : ss[1] < ss[2]}
<1>1. IsWellFoundedOn(below, Nat)
  BY NatLessThanWellFounded, Zenon DEF OpToRel
<1>2. PICK x \in T : \A y \in T : ~(<<y, x>> \in below)
  BY <1>1, WFMin, Zenon
<1>3. \A y \in T : x <= y
  <2> SUFFICES ASSUME NEW y \in T
               PROVE  x <= y
    OBVIOUS
  <2>1. x \in Nat /\ y \in Nat
    OBVIOUS
  <2>2. ~(y < x)
    BY <1>2, <2>1
  <2> QED
    BY <2>1, <2>2
<1> QED
  BY <1>3

LEMMA Trichotomy ==
  \A len \in Nat : \A i, j \in 1..len :
    i = j \/ i \in 1..(j - 1) \/ j \in 1..(i - 1)
OBVIOUS

LEMMA BelowLeast ==
  \A len \in Nat : \A n \in 1..len :
    n \in Nat /\ \A j \in 1..(n - 1) : j \in 1..len /\ ~(n <= j)
OBVIOUS

\* There is one first mark at most, and one if there is a mark.
LEMMA FirstIsUnique ==
  ASSUME NEW s, NEW len \in Nat, NEW n \in 1..len, NEW i \in 1..len,
         s[n] = "_", \A j \in 1..(n - 1) : s[j] # "_",
         s[i] = "_", \A j \in 1..(i - 1) : s[j] # "_"
  PROVE  i = n
BY Trichotomy, Zenon

LEMMA FirstExists ==
  ASSUME NEW s, NEW len \in Nat, NEW m \in 1..len, s[m] = "_"
  PROVE  \E n \in 1..len : s[n] = "_" /\ \A j \in 1..(n - 1) : s[j] # "_"
<1> DEFINE marks == {i \in 1..len : s[i] = "_"}
<1>1. 1..len \subseteq Nat
  BY BelowLeast, Zenon
<1>2. marks \in SUBSET Nat /\ marks # {}
  BY <1>1, Zenon
<1>3. PICK n \in marks : \A i \in marks : n <= i
  BY <1>2, LeastNumber, Zenon
<1>4. \A j \in 1..(n - 1) : s[j] # "_"
  BY <1>3, BelowLeast, Zenon
<1> QED
  BY <1>3, <1>4, Zenon

\* CHOOSE finds the one index of the first underscore.
LEMMA FirstUnderscoreIs ==
  ASSUME NEW s \in Seq(Characters), NEW n \in 1..Len(s), s[n] = "_",
         \A j \in 1..(n - 1) : s[j] # "_"
  PROVE  FirstUnderscore(s) = n
<1> DEFINE IsFirst(i) == s[i] = "_" /\ \A j \in 1..(i - 1) : s[j] # "_"
<1>1. DOMAIN s = 1..Len(s) /\ Len(s) \in Nat
  BY LenProperties
<1>2. n \in DOMAIN s /\ IsFirst(n)
  BY <1>1
<1>3. \A i \in DOMAIN s : IsFirst(i) => i = n
  BY <1>1, FirstIsUnique, Zenon
<1>4. FirstUnderscore(s) = CHOOSE i \in DOMAIN s : IsFirst(i)
  BY Zenon DEF FirstUnderscore
<1> HIDE DEF IsFirst
<1> QED
  BY <1>2, <1>3, <1>4, Zenon

LEMMA FirstUnderscoreExists ==
  ASSUME NEW s \in Seq(Characters), HasUnderscore(s)
  PROVE  /\ FirstUnderscore(s) \in 1..Len(s)
         /\ s[FirstUnderscore(s)] = "_"
         /\ \A j \in 1..(FirstUnderscore(s) - 1) : s[j] # "_"
<1>1. DOMAIN s = 1..Len(s) /\ Len(s) \in Nat
  BY LenProperties
<1>2. \E n \in 1..Len(s) :
        s[n] = "_" /\ \A j \in 1..(n - 1) : s[j] # "_"
  BY <1>1, FirstExists, Zenon DEF HasUnderscore
<1> QED
  BY <1>2, FirstUnderscoreIs, Zenon

LEMMA CutBefore ==
  ASSUME NEW s \in Seq(Characters), HasUnderscore(s)
  PROVE  /\ Before(s) \in Seq(Characters)
         /\ Len(Before(s)) = FirstUnderscore(s) - 1
         /\ \A i \in 1..(FirstUnderscore(s) - 1) : Before(s)[i] = s[i]
<1> DEFINE first == FirstUnderscore(s)
<1>1. first \in 1..Len(s) /\ Len(s) \in Nat
  BY FirstUnderscoreExists, LenProperties
<1>2. \A i \in 1..(first - 1) : s[i] \in Characters
  BY <1>1, ElementOfSeq
<1> HIDE DEF first
<1> QED
  BY <1>1, <1>2, SubSeqProperties DEF Before, first

LEMMA CutAfter ==
  ASSUME NEW s \in Seq(Characters), HasUnderscore(s)
  PROVE  /\ After(s) \in Seq(Characters)
         /\ Len(After(s)) = Len(s) - FirstUnderscore(s)
         /\ \A i \in 1..(Len(s) - FirstUnderscore(s)) :
              After(s)[i] = s[FirstUnderscore(s) + i]
<1> DEFINE first == FirstUnderscore(s)
<1>1. first \in 1..Len(s) /\ Len(s) \in Nat
  BY FirstUnderscoreExists, LenProperties
<1> HIDE DEF first
<1>2. \A i \in (first + 1)..Len(s) : s[i] \in Characters
  BY <1>1, ElementOfSeq
<1>3. /\ SubSeq(s, first + 1, Len(s)) \in Seq(Characters)
      /\ Len(SubSeq(s, first + 1, Len(s))) =
           IF first + 1 <= Len(s) THEN Len(s) - (first + 1) + 1 ELSE 0
      /\ \A i \in 1..(Len(s) - (first + 1) + 1) :
           SubSeq(s, first + 1, Len(s))[i] = s[first + 1 + i - 1]
  BY <1>1, <1>2, SubSeqProperties
<1>4. After(s) = SubSeq(s, first + 1, Len(s))
  BY DEF After, first
<1>5. Len(After(s)) = Len(s) - first
  BY <1>1, <1>3, <1>4
<1>6. \A i \in 1..(Len(s) - first) : After(s)[i] = s[first + i]
  BY <1>1, <1>3, <1>4
<1> QED
  BY <1>3, <1>4, <1>5, <1>6 DEF first

LEMMA PairIsSeq ==
  ASSUME NEW S, NEW a \in S, NEW b \in S
  PROVE  <<a, b>> \in Seq(S)
OBVIOUS

LEMMA PrefixIs ==
  ASSUME NEW key \in Seq(Characters), Len(key) >= 2
  PROVE  SubSeq(key, 1, 2) = <<"ffs", "_">> <=> key[1] = "ffs" /\ key[2] = "_"
<1>1. Len(key) \in Nat
  BY LenProperties
<1>2. \A i \in 1..2 : key[i] \in Characters
  BY <1>1, ElementOfSeq
<1>3. /\ SubSeq(key, 1, 2) \in Seq(Characters)
      /\ Len(SubSeq(key, 1, 2)) = 2
      /\ SubSeq(key, 1, 2)[1] = key[1] /\ SubSeq(key, 1, 2)[2] = key[2]
  BY <1>2, SubSeqProperties
<1>4. /\ Len(<<"ffs", "_">>) = 2
      /\ <<"ffs", "_">>[1] = "ffs" /\ <<"ffs", "_">>[2] = "_"
  OBVIOUS
<1>5. "ffs" \in Characters /\ "_" \in Characters
  BY DEF Characters
<1>6. <<"ffs", "_">> \in Seq(Characters)
  BY <1>5, PairIsSeq
<1>7. ASSUME key[1] = "ffs", key[2] = "_"
      PROVE  SubSeq(key, 1, 2) = <<"ffs", "_">>
  <2>1. \A i \in 1..2 : i = 1 \/ i = 2
    OBVIOUS
  <2>2. \A i \in 1..2 : SubSeq(key, 1, 2)[i] = <<"ffs", "_">>[i]
    BY <1>3, <1>4, <1>7, <2>1, Zenon
  <2> QED
    BY <1>3, <1>4, <1>6, <2>2, SeqEqual, Zenon
<1> QED
  BY <1>3, <1>4, <1>7, Zenon

LEMMA SingleIsSeq ==
  ASSUME NEW S, NEW a \in S
  PROVE  <<a>> \in Seq(S) /\ Len(<<a>>) = 1 /\ <<a>>[1] = a
OBVIOUS

\* A minted key is cut at its first two underscores, whatever its secret.
LEMMA MintedParses ==
  ASSUME NEW key \in Seq(Characters), NEW n \in Nat, Minted(key, n)
  PROVE  /\ ParseKey(key) = SubSeq(key, 3, n + 2)
         /\ ParseKey(key) # ErrMalformedKey
<1> DEFINE len == Len(key)
           rest == After(key)
<1>1. /\ len \in Nat /\ DOMAIN key = 1..len
      /\ n >= 2 /\ n <= MaxEnvironmentLength /\ n + 3 < len
  <2>1. n \in 2..MaxEnvironmentLength /\ n + 3 < len
    BY Zenon DEF Minted
  <2>2. len \in Nat /\ DOMAIN key = 1..len
    BY LenProperties, Zenon
  <2>3. \A i \in 2..MaxEnvironmentLength : i >= 2 /\ i <= MaxEnvironmentLength
    BY ConfigurationAssumption DEF ConfigurationAssumption
  <2> QED
    BY <2>1, <2>2, <2>3, Zenon
<1>2. key[1] = "ffs" /\ key[2] = "_"
  <2>1. len >= 2
    BY <1>1
  <2> QED
    BY <2>1, PrefixIs, Zenon DEF Minted
<1>3. 1 \in 1..len /\ 2 \in 1..len /\ \A j \in 1..(2 - 1) : j = 1
  BY <1>1
<1>4. HasUnderscore(key) /\ FirstUnderscore(key) = 2
  <2>1. HasUnderscore(key)
    BY <1>1, <1>2, <1>3, Zenon DEF HasUnderscore
  <2>2. "ffs" # "_"
    OBVIOUS
  <2>3. \A j \in 1..(2 - 1) : key[j] # "_"
    BY <1>2, <1>3, <2>2, Zenon
  <2> QED
    BY <1>2, <1>3, <2>1, <2>3, FirstUnderscoreIs, Zenon
<1>5. /\ rest \in Seq(Characters) /\ Len(rest) = len - 2
      /\ \A i \in 1..(len - 2) : rest[i] = key[2 + i]
  BY <1>4, CutAfter, Zenon
<1>6. Before(key) = <<"ffs">>
  <2>1. "ffs" \in Characters
    BY DEF Characters
  <2>2. /\ Before(key) \in Seq(Characters) /\ Len(Before(key)) = 2 - 1
        /\ \A i \in 1..(2 - 1) : Before(key)[i] = key[i]
    BY <1>4, CutBefore, Zenon
  <2>3. 2 - 1 = 1 /\ 1 \in 1..1 /\ \A i \in 1..1 : i = 1
    OBVIOUS
  <2>4. <<"ffs">> \in Seq(Characters) /\ Len(<<"ffs">>) = 1 /\ <<"ffs">>[1] = "ffs"
    BY <2>1, SingleIsSeq
  <2>5. Len(Before(key)) = 1 /\ \A i \in 1..1 : Before(key)[i] = <<"ffs">>[i]
    BY <1>2, <2>2, <2>3, <2>4, Zenon
  <2> QED
    BY <2>2, <2>4, <2>5, SeqEqual, Zenon
<1> HIDE DEF rest, len
<1>7. /\ n + 1 \in 1..(len - 2) /\ 2 + (n + 1) = n + 3 /\ (n + 1) - 1 = n
      /\ \A j \in 1..n : j \in 1..(len - 2) /\ 2 + j \in 3..(n + 2)
  BY <1>1
<1>8. rest[n + 1] = "_" /\ \A j \in 1..n : rest[j] \in {"a", "-"}
  BY <1>5, <1>7, Zenon DEF Minted
<1>9. HasUnderscore(rest) /\ FirstUnderscore(rest) = n + 1
  <2>1. "a" # "_" /\ "-" # "_"
    OBVIOUS
  <2>2. \A j \in 1..((n + 1) - 1) : rest[j] # "_"
    BY <1>7, <1>8, <2>1, Zenon
  <2>3. n + 1 \in 1..Len(rest) /\ DOMAIN rest = 1..Len(rest)
    BY <1>5, <1>7, LenProperties, Zenon
  <2> QED
    BY <1>5, <1>8, <2>2, <2>3, FirstUnderscoreIs, Zenon DEF HasUnderscore
<1>10. /\ Before(rest) \in Seq(Characters) /\ Len(Before(rest)) = n
       /\ \A i \in 1..n : Before(rest)[i] = rest[i]
  BY <1>5, <1>7, <1>9, CutBefore, Zenon
<1>11. Before(rest) = SubSeq(key, 3, n + 2)
  <2>1. /\ 3 \in Int /\ n + 2 \in Int /\ 3 <= n + 2 /\ (n + 2) - 3 + 1 = n
        /\ \A i \in 3..(n + 2) : i \in 1..len
        /\ \A i \in 1..n : 3 + i - 1 = 2 + i
    BY <1>1
  <2>2. \A i \in 3..(n + 2) : key[i] \in Characters
    BY <2>1, ElementOfSeq, Zenon DEF len
  <2>3. /\ SubSeq(key, 3, n + 2) \in Seq(Characters)
        /\ Len(SubSeq(key, 3, n + 2)) = n
        /\ \A i \in 1..n : SubSeq(key, 3, n + 2)[i] = key[3 + i - 1]
    <3> DEFINE last == n + 2
    <3>1. last \in Int /\ \A i \in 3..last : key[i] \in Characters
      BY <2>1, <2>2, Zenon
    <3>2. 3 <= last /\ last - 3 + 1 = n
      BY <2>1, Zenon
    <3> HIDE DEF last
    <3>3. /\ SubSeq(key, 3, last) \in Seq(Characters)
          /\ Len(SubSeq(key, 3, last)) = last - 3 + 1
          /\ \A i \in 1..(last - 3 + 1) :
               SubSeq(key, 3, last)[i] = key[3 + i - 1]
      BY <2>1, <3>1, <3>2, SubSeqProperties
    <3> QED
      BY <3>2, <3>3, Zenon DEF last
  <2>4. \A i \in 1..n : Before(rest)[i] = SubSeq(key, 3, n + 2)[i]
    BY <1>5, <1>7, <1>10, <2>1, <2>3, Zenon
  <2> QED
    BY <1>10, <2>3, <2>4, SeqEqual, Zenon
<1>12. After(rest) # << >>
  <2>1. Len(After(rest)) = (len - 2) - (n + 1)
    BY <1>5, <1>9, CutAfter, Zenon
  <2>2. (len - 2) - (n + 1) # 0
    BY <1>1
  <2>3. Len(<< >>) = 0
    OBVIOUS
  <2> QED
    BY <2>1, <2>2, <2>3, Zenon
<1>13. ValidEnvironmentKey(Before(rest))
  <2>1. n \in 2..MaxEnvironmentLength
    BY DEF Minted
  <2>2. \A i \in 1..n : Before(rest)[i] \in {"a", "-"}
    BY <1>8, <1>10, Zenon
  <2>3. Before(rest)[1] = "a" /\ Before(rest)[n] = "a"
    <3>1. 1 \in 1..n /\ n \in 1..n /\ 2 + 1 = 3 /\ 2 + n = n + 2
      BY <1>1
    <3> QED
      BY <1>5, <1>7, <1>10, <3>1, Zenon DEF Minted
  <2>4. \A i \in 1..n :
          Before(rest)[i] = "a" \/ (Before(rest)[i] = "-" /\ i # 1 /\ i # n)
    <3>1. "a" # "-"
      OBVIOUS
    <3> QED
      BY <2>2, <2>3, <3>1, Zenon
  <2>5. DOMAIN Before(rest) = 1..n
    BY <1>10, LenProperties, Zenon
  <2> QED
    BY <1>10, <2>1, <2>4, <2>5, Zenon DEF ValidEnvironmentKey
<1>14. SplitN(key) = <<Before(key), Before(rest), After(rest)>>
  BY <1>4, <1>9, Zenon DEF SplitN, rest
<1>15. ParseKey(key) = Before(rest)
  <2> DEFINE before == Before(key)
             environment == Before(rest)
             secret == After(rest)
  <2> HIDE DEF before, environment, secret
  <2>1. /\ Len(<<before, environment, secret>>) = 3
        /\ <<before, environment, secret>>[1] = before
        /\ <<before, environment, secret>>[2] = environment
        /\ <<before, environment, secret>>[3] = secret
    OBVIOUS
  <2>2. /\ Len(SplitN(key)) = 3 /\ SplitN(key)[1] = Before(key)
        /\ SplitN(key)[2] = Before(rest) /\ SplitN(key)[3] = After(rest)
    BY <1>14, <2>1, Zenon DEF before, environment, secret
  <2> QED
    BY <1>6, <1>12, <1>13, <2>2, Zenon DEF ParseKey
<1>16. ErrMalformedKey \notin Seq(Characters)
  BY ConfigurationAssumption DEF ConfigurationAssumption
<1> QED
  BY <1>10, <1>11, <1>15, <1>16, Zenon

\* No other text is taken for a key.
LEMMA ParsedWasMinted ==
  ASSUME NEW key \in Seq(Characters), ParseKey(key) # ErrMalformedKey
  PROVE  \E n \in 1..Len(key) : Minted(key, n)
<1> DEFINE len == Len(key)
           rest == After(key)
           second == FirstUnderscore(rest)
           n == second - 1
<1>1. /\ Len(SplitN(key)) = 3 /\ SplitN(key)[1] = <<"ffs">>
      /\ SplitN(key)[3] # << >> /\ ValidEnvironmentKey(SplitN(key)[2])
  BY Zenon DEF ParseKey
<1>2. /\ \A a : Len(<<a>>) # 3
      /\ \A a, b : Len(<<a, b>>) # 3
  OBVIOUS
<1>3. HasUnderscore(key) /\ HasUnderscore(rest)
  BY <1>1, <1>2, Zenon DEF SplitN
<1>4. /\ Before(key) = <<"ffs">> /\ After(rest) # << >>
      /\ ValidEnvironmentKey(Before(rest))
  <2>1. SplitN(key) = <<Before(key), Before(rest), After(rest)>>
    BY <1>3, Zenon DEF SplitN
  <2> DEFINE before == Before(key)
             environment == Before(rest)
             secret == After(rest)
  <2> HIDE DEF before, environment, secret
  <2>2. /\ <<before, environment, secret>>[1] = before
        /\ <<before, environment, secret>>[2] = environment
        /\ <<before, environment, secret>>[3] = secret
    OBVIOUS
  <2>3. /\ SplitN(key)[1] = Before(key) /\ SplitN(key)[2] = Before(rest)
        /\ SplitN(key)[3] = After(rest)
    BY <2>1, <2>2, Zenon DEF before, environment, secret
  <2> QED
    BY <1>1, <2>3, Zenon
<1>5. FirstUnderscore(key) = 2 /\ key[1] = "ffs" /\ key[2] = "_"
  <2> DEFINE first == FirstUnderscore(key)
  <2>1. /\ first \in 1..len /\ len \in Nat /\ key[first] = "_"
        /\ Len(Before(key)) = first - 1
        /\ \A i \in 1..(first - 1) : Before(key)[i] = key[i]
    BY <1>3, FirstUnderscoreExists, CutBefore, LenProperties, Zenon
  <2>2. Len(<<"ffs">>) = 1 /\ <<"ffs">>[1] = "ffs"
    OBVIOUS
  <2>3. first - 1 = 1
    BY <1>4, <2>1, <2>2, Zenon
  <2> HIDE DEF first
  <2>4. first = 2
    <3>1. \A l \in Nat : \A i \in 1..l : i - 1 = 1 => i = 2
      OBVIOUS
    <3> QED
      BY <2>1, <2>3, <3>1, Zenon
  <2>5. 1 \in 1..1
    OBVIOUS
  <2> QED
    BY <1>4, <2>1, <2>2, <2>3, <2>4, <2>5, Zenon DEF first
<1>6. /\ len \in Nat /\ rest \in Seq(Characters) /\ Len(rest) = len - 2
      /\ \A i \in 1..(len - 2) : rest[i] = key[2 + i]
  BY <1>3, <1>5, CutAfter, LenProperties, Zenon
<1> HIDE DEF rest, len
<1>7. /\ second \in 1..(len - 2) /\ rest[second] = "_"
      /\ Before(rest) \in Seq(Characters)
      /\ Len(Before(rest)) = second - 1
      /\ \A i \in 1..(second - 1) : Before(rest)[i] = rest[i]
      /\ After(rest) \in Seq(Characters)
      /\ Len(After(rest)) = (len - 2) - second
  BY <1>3, <1>6, FirstUnderscoreExists, CutBefore, CutAfter, Zenon
<1>8. Len(After(rest)) \in Nat \ {0}
  BY <1>4, <1>7, EmptySeq, Zenon
<1> HIDE DEF second
<1>9. /\ n \in 2..MaxEnvironmentLength
      /\ \A i \in 1..n :
           Before(rest)[i] = "a" \/ (Before(rest)[i] = "-" /\ i # 1 /\ i # n)
  <2>1. DOMAIN Before(rest) = 1..n
    BY <1>7, LenProperties, Zenon
  <2> QED
    BY <1>4, <1>7, <2>1, Zenon DEF ValidEnvironmentKey
<1>10. /\ n \in Nat /\ n >= 2 /\ n + 3 < len /\ n \in 1..len /\ n + 3 = 2 + second
       /\ 1 \in 1..n /\ n \in 1..n /\ 2 + 1 = 3 /\ 2 + n = n + 2
       /\ \A i \in 1..n : i \in 1..(len - 2)
       /\ \A i \in 3..(n + 2) : i - 2 \in 1..n /\ 2 + (i - 2) = i
  <2>1. second \in 1..(len - 2) /\ (len - 2) - second \in Nat \ {0}
    BY <1>7, <1>8, Zenon
  <2>2. n \in 2..MaxEnvironmentLength /\ MaxEnvironmentLength \in Nat
    BY <1>9, ConfigurationAssumption, Zenon DEF ConfigurationAssumption
  <2> QED
    BY <1>6, <2>1, <2>2
<1>11. \A i \in 1..n : Before(rest)[i] = key[2 + i]
  BY <1>6, <1>7, <1>10, Zenon
<1> HIDE DEF n
<1>12. \A i \in 3..(n + 2) : key[i] \in {"a", "-"}
  <2> SUFFICES ASSUME NEW i \in 3..(n + 2)
               PROVE  key[i] = "a" \/ key[i] = "-"
    BY Zenon
  <2>1. i - 2 \in 1..n /\ 2 + (i - 2) = i
    BY <1>10, Zenon
  <2>2. Before(rest)[i - 2] = "a" \/ Before(rest)[i - 2] = "-"
    BY <1>9, <2>1, Zenon
  <2>3. Before(rest)[i - 2] = key[2 + (i - 2)]
    BY <1>11, <2>1, Zenon
  <2> QED
    BY <2>1, <2>2, <2>3, Zenon
<1>13. key[3] = "a" /\ key[n + 2] = "a"
  <2>1. Before(rest)[1] = "a" /\ Before(rest)[n] = "a"
    BY <1>9, <1>10, Zenon
  <2> QED
    BY <1>10, <1>11, <2>1, Zenon
<1>14. key[n + 3] = "_"
  BY <1>6, <1>7, <1>10, Zenon
<1>15. SubSeq(key, 1, 2) = <<"ffs", "_">>
  <2>1. Len(key) >= 2
    BY <1>10 DEF len
  <2> QED
    BY <1>5, <2>1, PrefixIs, Zenon
<1> QED
  BY <1>9, <1>10, <1>12, <1>13, <1>14, <1>15, Zenon DEF Minted, len

\* parseKey (configuration.go) takes a key for the environment it was minted
\* for, and no other text for a key, for keys and secrets of any length.
THEOREM KeysAlwaysMeanWhatWasMinted == Spec => KeysMeanWhatWasMinted
<1> DEFINE Means ==
      IF \E n \in 1..Len(given.key) : Minted(given.key, n)
      THEN \E n \in 1..Len(given.key) :
             /\ Minted(given.key, n) /\ poller' = "idle"
             /\ resolved'.environment = SubSeq(given.key, 3, n + 2)
      ELSE poller' = "refused"
<1>1. ASSUME given \in Givens, New
      PROVE  Means
  <2>1. given.key \in Seq(Characters)
    BY <1>1, GivensAssumption DEF GivensAssumption
  <2>2. /\ resolved' = ResolveConfiguration(given)
        /\ poller' = IF ParseKey(given.key) = ErrMalformedKey THEN "refused"
                                                              ELSE "idle"
    BY <1>1, Zenon DEF New
  <2>3. CASE \E n \in 1..Len(given.key) : Minted(given.key, n)
    <3>1. PICK n \in 1..Len(given.key) : Minted(given.key, n)
      BY <2>3
    <3>2. n \in Nat
      <4>1. Len(given.key) \in Nat
        BY <2>1, LenProperties, Zenon
      <4>2. \A l \in Nat : \A i \in 1..l : i \in Nat
        OBVIOUS
      <4> QED
        BY <4>1, <4>2, Zenon
    <3>3. /\ ParseKey(given.key) = SubSeq(given.key, 3, n + 2)
          /\ ParseKey(given.key) # ErrMalformedKey
      BY <2>1, <3>1, <3>2, MintedParses, Zenon
    <3>4. poller' = "idle"
      BY <2>2, <3>3, Zenon
    <3>5. resolved'.environment = ParseKey(given.key)
      BY <2>2, <3>3 DEF ResolveConfiguration
    <3> QED
      BY <2>3, <3>1, <3>3, <3>4, <3>5, Zenon
  <2>4. CASE ~ \E n \in 1..Len(given.key) : Minted(given.key, n)
    <3>1. ParseKey(given.key) = ErrMalformedKey
      BY <2>1, <2>4, ParsedWasMinted, Zenon
    <3> QED
      BY <2>2, <2>4, <3>1, Zenon
  <2> QED
    BY <2>3, <2>4
<1>2. ASSUME Shape, Next, poller = "unborn", poller' # "unborn"
      PROVE  Means
  <2>1. New
    BY <1>2 DEF Next, New, Start, Fetch, Record, RecordAccepted,
                RecordRejected, RecordNotModified, RecordFailed, Recording,
                TimerFires, Restart, Answer, TimesOut, Publish, Fail, Recover,
                Tick
  <2>2. given \in Givens
    BY <1>2 DEF Shape, ResolvedIsSane
  <2> QED
    BY <1>1, <2>1, <2>2
<1>3. Shape /\ [Next]_vars
        => [poller = "unborn" /\ poller' # "unborn" => Means]_vars
  BY <1>2
<1> QED
  BY ShapeHolds, <1>3, PTL DEF Spec, KeysMeanWhatWasMinted
=============================================================================
