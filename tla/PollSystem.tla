----------------------------- MODULE PollSystem -----------------------------
(***************************************************************************)
(* One client polling one server over time: the configuration New resolves *)
(* (Configuration), what the transport makes of each response (Transport), *)
(* what record and poll do with it (client.go), how long they wait         *)
(* (Backoff), and the server of which src/ knows what it answers: releases *)
(* with validators, 304 for the current one's, and failures of all kinds.  *)
(*                                                                         *)
(* Time passes in seconds. A timer or a request deadline that is due stops *)
(* the clock until it is dealt with; everything else takes no time. The    *)
(* poller's races with Start, Close and the getters are Client's subject.  *)
(***************************************************************************)
EXTENDS Transport, Backoff, Configuration

CONSTANTS
  Givens,       \* the Configurations a host may write
  Releases,     \* a sequence of [environment, signed, length, etag]
  Failures,     \* the responses of a failing server
  MaxFailures,  \* consecutiveFailures is counted up to here
  MaxSteady,    \* steady is counted up to here
  NoGiven, NoReply

\* Whatever else is wrong with it, a body comes whole or its read fails, and
\* with the validator it was exported with.
WholeOrBroken(response) ==
  response.status = 200 /\ ~response.broken =>
    /\ response.body \in DOMAIN Releases
    /\ response.etag = Releases[response.body].etag
    /\ response.length = Releases[response.body].length

\* What a host may write: an interval and a timeout may well be negative.
ASSUME GivensAssumption ==
  Givens \subseteq
    [key : Seq(Characters), pollInterval : Int, httpTimeout : Int,
     signature : [explicit : BOOLEAN, required : BOOLEAN]]

ASSUME PollSystemAssumption ==
  /\ NoBody = 0
  /\ MaxResponseBytes \in Nat
  /\ MaxFailures \in Nat \ {0} /\ MaxSteady \in Nat
  /\ \A i \in DOMAIN Releases : Releases[i].length \in Nat
  /\ \A response \in Failures : response.retryAfter.seconds \in Int
  /\ Releases \in Seq({Releases[i] : i \in DOMAIN Releases})
  /\ Releases # << >>
  /\ \A i, j \in DOMAIN Releases :
       Releases[i].etag = Releases[j].etag /\ Releases[i].etag # NoETag => i = j
  /\ \A response \in Failures : response.status # 304 /\ WholeOrBroken(response)

VARIABLES
  given,     \* what the host passes to New, until it has
  resolved,  \* what New made of it
  release,   \* the release the server exports
  up,        \* the server answers as it should
  lost,      \* the request in flight may stay without an answer
  snapshot,  \* [source, release], release NoBody for the nil pointer
  etag, failures,  \* clientState's etag and consecutiveFailures
  file,      \* the release in the CachePath file, or NoBody
  poller,    \* "unborn", "refused", "idle", "fetching", "answered", "waiting"
  reply,     \* the outcome of the fetch
  asOf,      \* the release that was current when the server answered
  left,      \* until the deadline of the request or the timer
  steady     \* for how long the server has been up with one release, and
             \* the poller running

server == <<release, up>>
client == <<snapshot, etag, failures, file>>
vars == <<given, resolved, server, lost, client, poller, reply, asOf, left,
          steady>>

Init ==
  /\ given \in Givens /\ resolved = NoGiven
  /\ release = 1 /\ up = TRUE /\ lost = FALSE
  /\ snapshot = [source |-> "none", release |-> NoBody]
  /\ etag = NoETag /\ failures = 0
  /\ file \in {NoBody, 1}
  /\ poller = "unborn" /\ reply = NoReply /\ asOf = NoBody
  /\ left = 0 /\ steady = 0

-----------------------------------------------------------------------------
(* The client                                                              *)

\* verifyEnvelope, as far as a release may fail it.
Verified(body) ==
  /\ body # NoBody
  /\ Releases[body].environment = resolved.environment
  /\ resolved.required => Releases[body].signed

New ==
  /\ poller = "unborn"
  /\ given' = NoGiven
  /\ resolved' = ResolveConfiguration(given)
  /\ poller' = IF ParseKey(given.key) = ErrMalformedKey THEN "refused"
                                                        ELSE "idle"
  /\ UNCHANGED <<server, lost, client, reply, asOf, left, steady>>

Fetch ==
  /\ poller' = "fetching"
  /\ left' = resolved.httpTimeout
  /\ lost' = ~up
  /\ reply' = NoReply /\ asOf' = NoBody

\* loadCache, then the first fetch.
Start ==
  /\ poller = "idle"
  /\ snapshot' = IF Verified(file) THEN [source |-> "cache", release |-> file]
                                   ELSE snapshot
  /\ steady' = 0
  /\ Fetch
  /\ UNCHANGED <<given, resolved, server, etag, failures, file>>

\* poll computes the delay from the outcome just recorded and sets the timer.
Wait ==
  /\ poller' = "waiting"
  /\ left' \in TimerRange(IF failures' = 0 THEN PollDelay(resolved.interval)
       ELSE RetryDelayWithServerHint(reply.retryAfterSeconds, failures'))
  /\ reply' = NoReply /\ asOf' = NoBody
  /\ UNCHANGED <<given, resolved, server, lost, steady>>

Recording(kinds) == poller = "answered" /\ reply.kind \in kinds

Failed == failures' = Least(failures + 1, MaxFailures)

RecordAccepted ==
  /\ Recording({"success"})
  /\ Verified(reply.body)
  /\ snapshot' = [source |-> "network", release |-> reply.body]
  /\ etag' = reply.etag
  /\ failures' = 0
  /\ file' = IF Releases[reply.body].length > MaxResponseBytes THEN file
                                                               ELSE reply.body
  /\ Wait

\* Mutant: the validator is kept although its envelope was rejected.
MutantRejectedETagKept ==
  /\ Recording({"success"})
  /\ ~Verified(reply.body)
  /\ etag' = reply.etag
  /\ Failed
  /\ UNCHANGED <<snapshot, file>>
  /\ Wait

RecordRejected ==
  /\ Recording({"success"})
  /\ ~Verified(reply.body)
  /\ Failed
  /\ UNCHANGED <<snapshot, etag, file>>
  /\ Wait

RecordNotModified ==
  /\ Recording({"notModified"})
  /\ failures' = 0
  /\ UNCHANGED <<snapshot, etag, file>>
  /\ Wait

RecordFailed ==
  /\ poller = "answered" /\ reply.kind \notin {"success", "notModified"}
  /\ Failed
  /\ UNCHANGED <<snapshot, etag, file>>
  /\ Wait

TimerFires ==
  /\ poller = "waiting" /\ left = 0
  /\ Fetch
  /\ UNCHANGED <<given, resolved, server, client, steady>>

\* The process ends; the next one finds the file.
Restart ==
  /\ poller \in {"fetching", "answered", "waiting"}
  /\ snapshot' = [source |-> "none", release |-> NoBody]
  /\ etag' = NoETag /\ failures' = 0
  /\ poller' = "idle" /\ reply' = NoReply /\ asOf' = NoBody
  /\ left' = 0 /\ lost' = FALSE /\ steady' = 0
  /\ UNCHANGED <<given, resolved, server, file>>

-----------------------------------------------------------------------------
(* The server and the network                                              *)

Current == Releases[release]

\* The validator sent is the client's; the exporter answers 304 when it is
\* that of the current release.
Export ==
  [NoResponse EXCEPT !.arrived = TRUE, !.etag = Current.etag,
     !.status = IF etag # NoETag /\ etag = Current.etag THEN 304 ELSE 200,
     !.body = release, !.length = Current.length]

Answer ==
  /\ poller = "fetching"
  /\ \E response \in IF up THEN {Export} ELSE Failures :
       reply' = FetchRuleset(response)
  /\ poller' = "answered" /\ asOf' = release
  /\ left' = 0 /\ lost' = FALSE
  /\ UNCHANGED <<given, resolved, server, client, steady>>

\* The http.Client's Timeout.
TimesOut ==
  /\ poller = "fetching" /\ left = 0 /\ lost
  /\ reply' = FetchRuleset(NoResponse)
  /\ poller' = "answered" /\ asOf' = release
  /\ lost' = FALSE
  /\ UNCHANGED <<given, resolved, server, client, left, steady>>

Publish ==
  /\ release < Len(Releases)
  /\ release' = release + 1
  /\ steady' = 0
  /\ UNCHANGED <<given, resolved, up, lost, client, poller, reply, asOf, left>>

Fail ==
  /\ up
  /\ up' = FALSE
  /\ lost' = (poller = "fetching")
  /\ steady' = 0
  /\ UNCHANGED <<given, resolved, release, client, poller, reply, asOf, left>>

Recover ==
  /\ ~up
  /\ up' = TRUE
  /\ steady' = 0
  /\ UNCHANGED <<given, resolved, release, lost, client, poller, reply, asOf,
                 left>>

Tick ==
  /\ poller \in {"fetching", "waiting"} /\ left > 0
  /\ left' = left - 1
  /\ steady' = IF up THEN Least(steady + 1, MaxSteady) ELSE 0
  /\ UNCHANGED <<given, resolved, server, lost, client, poller, reply, asOf>>

Record == \/ RecordAccepted \/ RecordRejected \/ RecordNotModified
          \/ RecordFailed

Next == \/ New \/ Start \/ Record \/ TimerFires \/ Restart
        \/ Answer \/ TimesOut \/ Publish \/ Fail \/ Recover \/ Tick

Spec == Init /\ [][Next]_vars

-----------------------------------------------------------------------------
(* Properties                                                              *)

OutcomeKinds ==
  {"success", "notModified", "unauthorized", "rateLimited", "serverError",
   "responseTooLarge", "unexpectedStatus", "transportError"}

TypeOK ==
  /\ release \in DOMAIN Releases
  /\ up \in BOOLEAN /\ lost \in BOOLEAN
  /\ snapshot \in [source : {"none", "cache", "network"},
                   release : {NoBody} \cup DOMAIN Releases]
  /\ failures \in 0..MaxFailures
  /\ file \in {NoBody} \cup DOMAIN Releases
  /\ poller \in {"unborn", "refused", "idle", "fetching", "answered", "waiting"}
  /\ poller # "answered" => reply = NoReply
  /\ poller = "answered" =>
       reply.kind \in OutcomeKinds /\ reply.retryAfterSeconds \in Nat
  /\ left \in Nat
  /\ steady \in 0..MaxSteady

\* A 304 is believed although it carries nothing. When the client takes one
\* for a success it does serve, live, the release that was current when the
\* server answered, whatever was rejected, lost or restarted before.
NotModifiedMeansCurrent ==
  poller = "answered" /\ reply.kind = "notModified" =>
    snapshot = [source |-> "network", release |-> asOf]

\* What passed the transport's cap passes the cache's: with a working disk a
\* live ruleset, one of exactly the cap's size included, survives a restart.
AcceptedFitsTheCache ==
  snapshot.source = "network" => file = snapshot.release

Longest == LET routine == resolved.interval + resolved.interval \div 5
               retry == BackoffCap + BackoffCap \div 5
           IN IF routine < retry THEN retry ELSE routine

\* Once the server is up and its release acceptable, the client serves that
\* release after at most one request timeout, one delay and one more timeout,
\* however long the outage was and whatever Retry-After said in it.
StalenessIsBounded ==
  /\ poller \in {"fetching", "answered", "waiting"}
  /\ steady > 2 * resolved.httpTimeout + Longest
  /\ Verified(release) /\ Current.length <= MaxResponseBytes
  => snapshot = [source |-> "network", release |-> release]

\* The client is polite: after a success it waits for at least 4/5 of the
\* contract's floor whatever PollInterval says, after a failure for at least
\* 4/5 of the base, or for as long as the server asked up to the cap. This is
\* so unless 6/5 of the interval does not fit a Duration.
DelaysArePolite ==
  [][ poller = "answered" /\ poller' = "waiting" =>
        /\ failures' = 0 /\ resolved.interval + resolved.interval \div 5
                              <= MaxDuration
             => 5 * left' >= 4 * MinimumPollInterval
        /\ failures' # 0 =>
             IF reply.retryAfterSeconds > 0
             THEN left' >= Least(reply.retryAfterSeconds, BackoffCap)
             ELSE 5 * left' >= 4 * BackoffBase ]_vars

\* key is one that was minted for the environment of its n characters between
\* the prefix and the second underscore.
Minted(key, n) ==
  /\ n \in 2..MaxEnvironmentLength /\ n + 3 < Len(key)
  /\ SubSeq(key, 1, 2) = <<"ffs", "_">>
  /\ key[n + 3] = "_"
  /\ \A i \in 3..(n + 2) : key[i] \in {"a", "-"}
  /\ key[3] = "a" /\ key[n + 2] = "a"

\* Whatever the secret contains, underscores at its ends and in a row
\* included, New takes the key for the environment it was minted for, and it
\* takes no other text for a key.
KeysMeanWhatWasMinted ==
  [][ poller = "unborn" /\ poller' # "unborn" =>
        IF \E n \in 1..Len(given.key) : Minted(given.key, n)
        THEN \E n \in 1..Len(given.key) :
               /\ Minted(given.key, n) /\ poller' = "idle"
               /\ resolved'.environment = SubSeq(given.key, 3, n + 2)
        ELSE poller' = "refused" ]_vars
=============================================================================
