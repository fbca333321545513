# A TLA+ development of the FortressFlag Go SDK

This directory specifies the server SDK in `src/` (package `fortressflag`):
TLA+ modules translated from its source, TLC configurations that check them on
small instances, and TLAPS proofs of the properties that matter most, for any
number of goroutines, envelopes and configurations.

    tlc -workers 2 -config MCClientLife.cfg MCClient     # one run
    tlapm ClientProofs.tla                               # one proof module

## 1. Inventory

A host process builds one `Client` with `New`, calls `Start` once or more, asks
for flag values from any goroutine, and may call `Close`. One poller goroutine
fetches signed ruleset envelopes; a file named by `CachePath` keeps the last
accepted one across processes.

| Component | State it keeps | Operations | What makes it correct |
|---|---|---|---|
| **Verifier and envelope** (`verifier.go`, `envelope.go`) | none | `verifyEnvelope`, `checkSignature`, `parseEnvelope`, `parsePayload`, `parseWireTime` | what is accepted is signed, about this environment, in a contract this binary speaks, and timely; nothing unsigned is interpreted; the cache path forgives expiry and nothing else |
| **Trust policy** (`configuration.go`) | the keys copied when the policy was built | `SignatureRequired`, `SignatureDisabled` | a malformed entry costs nobody else; adding keys rejects nothing |
| **Poller** (`client.go`: `poll`, `record`) | `snapshot` (atomic pointer), `state` under a mutex, `first`, the cache file | fetch, record one of eight kinds of outcome, publish, store, announce, wait | a rejected or failed response never dislodges the served ruleset; the validator is that of the served ruleset; polling never ends but by `Close` |
| **Start and Close** (`client.go`) | `startOnce`, `closeOnce`, `c.stop`, the channels `firstAttempt`, `networkReady`, `done` | `start`, `loadCache`, `close` | one cache load and one poller; no channel closed twice; both return; what `Start` reports is true |
| **Getters** (`fortressflag.go`, `value`) | counters | `Bool`, `String`, `Number` | a value comes from one ruleset, for the key and the kind asked |
| **Diagnostics** (`client.go`) | none | `diagnostics` | one read tells one coherent story |
| **File cache** (`cache.go`) | one file, and temp files | `load`, `store` | the file is always a whole envelope, verified when written and verified again when read |
| **Transport** (`transport.go`) | none | `fetchRuleset` | every response is one of the outcomes; redirects are refused; bounded body; it returns |
| **Configuration** (`configuration.go`) | none | `resolveConfiguration`, `parseKey` | keys with underscores in the secret parse; floors and defaults |
| **Evaluation** (`evaluate.go`, `ruleset.go`, `bucket.go`, `semver.go`) | none | `evaluateFlag`, `conditionHolds`, `decodeValue`, `bucket`, `compareVersions` | first match wins with fall-through; sticky buckets; a value of the flag's kind or none |
| **Backoff** (`backoff.go`) | none | `retryDelay`, `pollDelay`, `retryDelayWithServerHint` | bounds, monotone growth, no overflow |
| Example and vectors (`cmd/`, `internal/`) | none | | not modelled |

How they interact: `Start` runs `loadCache` (file cache, then verifier) inside
`startOnce` and launches `poll`; `poll` calls the transport, then `record`,
which calls the verifier, swaps the snapshot pointer, writes the cache and
closes `networkReady`, all but the pointer swap under the state mutex. Getters
read the pointer and nothing else. `Close` cancels the poller's context, and
with it a fetch in flight, and waits for `done`. The process may end at any
step; only the file survives it.

What is hard here: the getters race the swap; `Start` waits on three channels
closed at different moments of one `record`; `close` reads `c.stop` without a
lock while `start` assigns it; three channels are closed from five places; the
published snapshot, the validator, the diagnostics and the file are four
records of one fact, updated at different steps; and the next process may have
another configuration, clock or trust store than the one that wrote the file.
`PROJECT.json` lists each hazard at its line with the properties that cover it.

## 2. Modules

| Module | What it is |
|---|---|
| `Verifier` | the verifier as operators over abstract envelopes, in the code's order of checks; `Genuine` and `Signed` state what acceptance should mean without that order |
| `EnvelopeLife` | one envelope presented live and as a cached file while the clock advances and keys are added |
| `Client` | poller, `Start`, `Close`, getters, clock and restarts: one action per atomic step of the code |
| `ClientProperties` | the client's properties, and the statements of the repository's texts that the code does not keep |
| `ServedRuleset` | the abstract specification: a served ruleset and a durable one, and the five things that may happen to them |
| `Evaluation` | `evaluateFlag`, one step per iteration of its loop, with conditions, versions, gate and decoding |
| `AtomicFile` | the abstract specification of the durable cache: a file that is read and replaced whole |
| `FileCache` | `load` and `store` one system call at a time, for any number of processes on one path |
| `Transport`, `Backoff`, `Configuration` | the pure parts: what a response becomes, how long to wait, what `New` makes of a `Configuration` |
| `PollSystem` | composes those three with `record`, the wait and a server, over time |
| `MCEnvelopeLife`, `MCClient`, `MCEvaluation`, `MCFileCache`, `MCPollSystem` | the envelopes, outcomes, flags, files, keys and responses of the runs |
| `VerifierProofs`, `EnvelopeLifeProofs`, `ClientProofs`, `ClientRefinement`, `ClientCoherence`, `EvaluationProofs`, `FileCacheProofs`, `PollSystemProofs` | the proofs |

Two modules look at the client from two sides. `Client` has its goroutines:
every interleaving, no time, and the eight kinds of outcome in any order.
`PollSystem` has its time: one goroutine, whose steps other than waiting take
none, against a server that has releases, and outcomes that come from
responses. What each takes for granted of the other's subject is the code's own
interface: the fields of `fetchOutcome` and of `clientState`.

### Verifier

An envelope is `[wellFormed, sig, payload]`; bytes are reduced to what a check
can tell apart. A signature carries who made it (`by`) and over which payload
(`over`), so `Ed25519Verify` is equality of both: that a signature cannot be
made without the key is the one cryptographic assumption. `present`,
`separated`, `algorithm` and `encoding` are the early returns of
`checkSignature`, `json` and the `form` of a time those of `parsePayload` and
`parseWireTime`. A key that is not 32 bytes long is `MalformedKey`.
`tenant` and `project` are in the payload and compared by nothing, so they are
left out.

### Client

| Variable | In the code |
|---|---|
| `snapshot` | `Client.snapshot`: `source` is `"none"` for the nil pointer, else `fromCache`; `wire` stands for the flags and times taken from it |
| `state` | `clientState` without its mutex and `lastFetchAt` |
| `file` | what a reader of `CachePath` would find |
| `closed`, `panicked` | which of the three channels are closed; whether one was closed twice |
| `startOnce`, `closeOnce` | `sync.Once`: `fresh`, `running` (other callers wait), `done` |
| `stop`, `cancelled` | `c.stop != nil`; `ctx.Err() != nil` of the poller's context |
| `poller`, `first`, `outcome` | the poller's program counter and locals |
| `starter`, `closer`, `getter` | the program counters and locals of the host's goroutines |
| `configuration`, `now` | the resolved configuration; the wall clock |

Granularity. A step of the model is a step of the code between two
accesses to state that another goroutine can see or change. What is merged,
and why nothing is lost:

- `record`'s writes under the mutex are one step up to the next write
  visible without the mutex. That is why `RecordAccepted` (state and pointer
  swap), `StoreCache` (disk I/O) and `AnnounceNetwork` (`close(networkReady)`)
  are three: getters read the pointer and `start` reads pointer and channel
  without the mutex. Diagnostics sees the state only when `StateLocked` is
  false.
- The return of a fetch and the `ctx.Err()` test after it are one step
  (`DiscardFetch`, `KeepFetch`); nothing is written between them.
- `LaunchPoller` assigns `c.stop`, starts the goroutine and ends the Once.
  `ReadStop` sees either side of it. A read of the pointer while it is being
  written is a data race; on the platforms Go supports a pointer-sized word
  is read whole, so old and new value are its two outcomes. A `close` that
  falls between the assignment and the `go` statement cancels a context whose
  poller starts at once: the same as falling after it.
- `LoadCache` reads, verifies and publishes in one step; no poller exists
  yet, and other Starts wait for the Once.
- A sequence number of failures beyond `MaxFailures` is not told apart from it,
  and a resolution counter is the getter's `outcome`.

The file cache's `store` is one step that replaces the file or leaves it, and
`load` reads one whole file or nothing. That the system calls behind them are
worth that is what `FileCache` shows.

A file is initially any envelope at all or nothing: an operator, another
process or another version of the program may have written it. `ClockMoves`
goes either way, since hosts have their clocks set. `Restart` is a crash or an
orderly end between any two steps, followed by `New` with any configuration.

### ServedRuleset

Two variables, `served` and `durable`. `Recover` puts the durable ruleset into
service, when it is acceptable but for its age; `Adopt` serves one that
the network delivered and that is acceptable now; `Persist` makes the served
one durable; `ClockMoves`; `Restart` forgets the served one. `Client` is shown
to implement it with `served <- snapshot`, `durable <- file`.
So a ruleset is persisted only while it is the one served, recovered only
where nothing was served, and replaced only by a fresh one.

### Evaluation

`next` is the index of the loop, `contextBucket` the local of the same name
(-1 until a matching rule with a gate is met), `place` what `bucket` returns for
this context key and flag key. SHA-256 is external: a place is any number below
`BucketCount`, fixed for the evaluation. The branches of an iteration are its
actions: `SkipRule`, `GateOut`, `MatchRule` (which serves or, when the value is
not of the flag's kind, falls through) and `ServeDefault` behind the loop. A raw
JSON value is its shape (`absent`, `null`, the kind it decodes to, `other`). A
text is the sequence of its parts between dots, each with its length, whether it
is digits only, and its number: all that equality and `parseVersion` look at.
`strings.Contains` is a relation given as a constant.
`FirstServingRuleWins` states the contract without loop, gate or cache of the
bucket: the least index among the rules that serve the context.

### FileCache and AtomicFile

A file is an inode of `Blocks` blocks. `path` is the one linked under
`CachePath`, `temps` those under names of `os.CreateTemp`; an open file lives on
without a name, and only a free one is reused. `load` is `Open`, `ReadBlock`s
and `FinishLoad` (an empty or oversized file is none); `store` is `BeginStore`,
`CreateTemp`, `WriteBlock`s, `CloseTemp` and `Rename`, or after an error
`StoreStepFails` and `Remove`. Each may fail, and a write may fail half-way.
`Crash` ends a process at any step; nothing removes its temporary file, which
is what the code does. `mishaps` counts such files and those whose `Remove`
failed. The refinement maps a load to the file it opened and a store to its
rename.

The loss of power is not a step. `store` does not sync, so what a file system
keeps then is outside the code; an empty file is no file to `load`, and a
partial one is refused by the verifier.

### PollSystem

| Variable | In the code |
|---|---|
| `given`, `resolved` | the argument of `New`, and `resolvedConfiguration` |
| `snapshot`, `etag`, `failures`, `file` | the fields of `Client` and `clientState`, rulesets being releases |
| `poller`, `reply`, `left` | where `poll` is, the `fetchOutcome` in hand, the time left of the request or the timer |
| `release`, `up`, `lost` | the server: which release it exports, whether it answers as it should, whether the request in flight may stay unanswered |
| `asOf`, `steady` | history: what was current when the server answered; how long it has been up with one release |

A step of `Record` is `record` together with the delay `poll` computes from what
it wrote. The clock ticks in seconds and stops at a deadline until its step is
taken, which is what makes the bound of `StalenessIsBounded` meaningful. A
server that is up answers within the client's timeout. One that is down answers
with any of `Failures`, another release than the current included, or not at
all. `Transport` classifies a response in the order of `fetchRuleset`, body cap
and refused redirect included. `Backoff` is in whole seconds and its delays are
sets, the jitter being drawn; a delay that does not fit a `time.Duration` is
either end of it, since Go leaves that conversion to the platform (on amd64 it
is the least, and the timer fires at once). `Configuration` reads a key
character by character only as far as `parseKey` tells characters apart.

Verification is reduced to environment and signature, its expiry and every
other check being `EnvelopeLife`'s subject; the disk works, its failures being
`Client`'s and `FileCache`'s.

## 3. Runs

Passing runs (each finishes within about two minutes):

| Run | Bounds | Shows |
|---|---|---|
| `envelope_life` | 23 payloads x 9 signatures (two of which some trust store accepts), 4 policies, clock 0..7 with a window of 3..5 and a tolerance of 1, 2 key ids, good and malformed keys | `AcceptedIsGenuine`, `CacheForgivesOnlyExpiry`, `SignatureComesFirst`, `WindowIsOneInterval`, `RotationOnlyWidens`, `TypeOK` |
| `client_life` | 2 Starts, 2 Closes, repeated at will; success or 401; with and without a cache | `NoPanic`, `CloseWaits`, `StartTellsTheTruth`, `CacheStateIsTrue`, `NobodyWaitsInVain` |
| `client_trust` | 1 Start; 4 envelopes (two versions, another environment's, a forged one); 4 configurations across restarts; 304 and 401 between them; clock 0..2; a streak counted to 1 | `NothingUntrustedServed`, `ETagDescribesTheSnapshot`, `DiagnosticsCoherent`, `SourceNeverRegresses`, `ImplementsServedRuleset` |
| `client_getters` | 1 getter, 2 keys, 3 kinds; two versions that differ in presence, kind and value of the flags | `TypeOK`, `AnswersComeFromOneRuleset` |
| `evaluation` | one rule with each of the 8 operators and an unknown one on 11 x 11 texts, or two of 36 x 8 rules with gates at 0, 1 and 3 of 3 buckets, three value shapes, two kinds and an unknown one | `TypeOK`, `FirstServingRuleWins`, `AnswersFollowTheKind`, `SemverMeansWhatItSays` |
| `file_cache` | 2 processes, 4 files of 2 blocks, 2 envelopes and one over the cap, 1 mishap | `TypeOK`, `LoadsAreWhole`, `LitterOnlyFromMishaps`, `ImplementsAtomicFile` |
| `poll_system` | every key of up to 4 environment and 2 secret characters, five other texts; 4 releases (of exactly the cap, unsigned, without validator, over the cap); 12 failing responses; 3 intervals and the default | `TypeOK`, `NotModifiedMeansCurrent`, `AcceptedFitsTheCache`, `StalenessIsBounded`, `DelaysArePolite`, `KeysMeanWhatWasMinted` |
| `client_live` | 1 Start, 2 Closes, repeated at will; success or 401, every fetch failing among the behaviours; with fairness | `StartReturns`, `CloseReturns`, `PollingGoesOn` |

Why the bounds suffice. The two Onces tell apart only the first caller, a
caller that waits and a later one, and a goroutine may call again after it
returned, so two of each show every combination. Getters do not interact. Each
check of the verifier has an envelope only it rejects, and envelopes that fail
several. The clock reaches before, inside, at the end of and beyond every
window, tolerance included. Two versions of the ruleset suffice for a swap to
show in presence, kind and value. The kinds of failure are treated alike but
for the status they leave, so one of them stands for the six. `client_life` uses symmetry among callers of
one kind; it checks no liveness.

In `evaluation` two rules are enough for one to be fallen through in each of
the ways there are and the next to be met with the bucket computed or not; the
buckets are before, at and behind every gate. In `file_cache` two blocks make
a torn read or write visible, two processes every pair of a reader or writer
with a writer, four files one renamed over while it is read beside the new one,
a temporary one and one left behind; processes and files are symmetric, and no
liveness is checked. In `poll_system` the constants are scaled down and keep
their order: base 5 for 2 s, cap 10 for 1800 s (two failures reach it), floor 5
for 30 s, default interval 10 for 60 s, a cap of 3 bytes, timeouts of 1 and 2, hints
of 1 and 30 below and beyond the cap, an interval of 90 whose jittered delay
passes the greatest Duration of 100. `MaxSteady` (25) is greater than the
greatest bound `StalenessIsBounded` speaks of for the intervals 5, 10 and 15;
for 90 it is vacuous, and `DelaysArePolite` exempts that interval's routine
delay, which may overflow: there the run shows what survives a timer that fires
at once, which is everything else.

Runs that show a text and the code disagree. Each checks one sentence of the
repository and TLC finds a behaviour of the code that breaks it:

| Run | The sentence | What the code does |
|---|---|---|
| `stale_rejection` | `fortressflag.go:69`: `LastRejection` is "behind a rejectedEnvelope status, empty otherwise" | a later 304 or failure changes the status and leaves the rejection |
| `timed_out_while_serving` | `fortressflag.go:42`: `StartTimedOut` means "before any ruleset existed" | a `Start` whose ctx ends while the accepted ruleset is being stored finds it published but unannounced, and says timed out |
| `close_before_start` | `client.go:144`, `fortressflag.go:120`: "Close stops the poller", "Safe ... before start" | it spends the Once, and a poller launched later is stopped by nothing |
| `hour_fast_host` | `verifier.go:59`: "a host an hour fast should not lose flag updates" | the tolerance is 300 s in both directions; envelopes good for 30 minutes, the lifetime the tests use, arrive expired |

`timed_out_while_serving` judges a Start by what it itself loaded from the
pointer, so it does not rest on timing outside the call.

Two more texts are not what the code does, too plainly for a run. `Start`
"blocks until the first ruleset exists ... or ctx is done" by
`fortressflag.go:111`, while `client.go:109` and the code return after the first
fetch attempt, and with a ruleset loaded "from cache" still wait for it.
And `transport.go:46` counts "a refused redirect's 3xx" among the unexpected
statuses, while the refusal is an error of `Do` and so a transport error, as the
comment at `transport.go:88` says.

### Deadlock and fairness

`Restart` is always possible in `Client`, so TLC's deadlock check says nothing
there: `NobodyWaitsInVain` says in its place that whoever waits in a `Start`
or a `Close` has another goroutine on its way to end the wait, and `StartReturns`,
`CloseReturns` and `PollingGoesOn` that under fairness it gets there. `CHECK_DEADLOCK FALSE` stands where the system really may stop: in
`EnvelopeLife` the clock stops at its bound, an evaluation ends, a poll system
whose configuration `New` refused stays refused, and in `FileCache` the
processes may find no free file or mishap left within the bounds.

`FairSpec` assumes weak fairness of the poller, of each running `Start`, `Close`
and getter. The Go scheduler runs every runnable goroutine; a fetch returns,
because `newTransport` sets a client timeout and the request carries the
poller's context; a timer fires. Nothing is assumed of the host: not that it
calls anything, ends a ctx, restarts or sets a clock. Fairness is never
on one arm of a select: when two are ready, either may be taken for ever.
`poll` is sequential, so fairness of `Poll` as a whole is fairness of its
goroutine. A disk that hangs is outside it: `StoreCache` returns.
The liveness properties hold up to a `Restart`, which ends every call.

## 4. Proofs

TLAPS checks these for every value of the constants, under named assumptions:

- `SkewAssumption`: the tolerance is a natural number.
- `EnvelopeLifeAssumption`: a time that parsed is an integer, and the clock's
  bound a natural number.
- `ClientAssumption`: outcomes are of the eight kinds, a success carries an
  envelope, the bounds are naturals, and the placeholders for nothing are not
  envelopes or validators.
- `EvaluationAssumption`: there is a bucket, flags have sequences of rules, the
  limit on a component's digits is a natural number, a percentage is an integer
  (any; the server need not keep it within 0..100), and the values of conditions
  and tags are texts, that is, sequences of parts.
- `FileCacheAssumption`: a file has at least one block, and the placeholders
  are not files, envelopes or contents.
- `BackoffAssumption`: the base is not above the cap, and the cap with its
  jitter fits a `time.Duration` (2 s, 1800 s and 292 years in the code).
- `ConfigurationAssumption`: the contract's numbers are naturals, the default
  timeout is not 0, and the error is not a text.
- `GivensAssumption`: a host writes any text for a key, any integers for the
  interval and the timeout, and any signature policy.
- `PollSystemAssumption`: releases have distinct validators, if any; a failing
  server does not answer 304 and sends an integer in `Retry-After` if it sends a
  number; a whole 200 comes with the length and validator it was exported with;
  lengths and bounds are naturals. A 304 made up by a proxy is thereby excluded:
  against it the client has no defence, and the property would be false.

| Theorem | States |
|---|---|
| `AcceptanceIsSound` | an accepted envelope is genuine and within its window |
| `ToleranceIsExact` | how fast and how slow a host's clock may be, to the second |
| `AcceptedIsGenuineAlways`, `CacheForgivesOnlyExpiryAlways`, `SignatureComesFirstAlways`, `RotationOnlyWidensAlways`, `WindowIsAlwaysOneInterval`, `EnvelopeTypeCorrect` | the properties of `EnvelopeLife` |
| `TypeCorrect` | `TypeOK` of the client, with `Holding` |
| `NeverPanics` | `NoPanic`: no channel is closed twice |
| `CloseAlwaysWaits` | `CloseWaits` |
| `NobodyEverWaitsInVain` | `NobodyWaitsInVain`: no order of Starts, Closes and failures is a deadlock |
| `ImplementsServedRulesetAlways` | `Client` implements `ServedRuleset` |
| `SourceNeverRegressesAlways` | within a process, never back from the network's ruleset to the cache's |
| `NothingUntrustedServedAlways` | `NothingUntrustedServed` |
| `AnswersComeFromOneRulesetAlways` | `AnswersComeFromOneRuleset` |
| `ETagAlwaysDescribesTheSnapshot`, `DiagnosticsAlwaysCoherent`, `CacheStateIsAlwaysTrue`, `StartAlwaysTellsTheTruth` | the client's records of one fact agree: validator, diagnostics, cache state, outcome of `Start` |
| `EvaluationTypeCorrect`, `FirstServingRuleAlwaysWins`, `AnswersAlwaysFollowTheKind` | the walk computes the declarative first match |
| `SemverAlwaysMeansWhatItSays` | the semver operators compare versions of up to three components as the numbers they spell, and hold of no text that is no version |
| `VersionsAreOrdered`, `SemverOperatorsAgree` | `compareVersions` is a total order on versions of any length, and the semver operators are its comparisons |
| `FileCacheTypeCorrect`, `LoadsAreAlwaysWhole`, `LitterAlwaysFromMishaps`, `CacheImplementsAtomicFile` | the cache is an atomic file, for any number of processes, blocks and crashes |
| `NotModifiedAlwaysMeansCurrent`, `AcceptedAlwaysFitsTheCache` | the client's 304 and its cap, for any releases, failures, keys and delays |
| `PollerIsTyped` | `TypeOK` of `PollSystem` |
| `StalenessIsAlwaysBounded` | after an outage the current release is served within two timeouts and one delay |
| `RetriesBackOff` | every delay drawn for a retry is longer than every one drawn for the last, until the cap is near |
| `DelaysAreAlwaysPolite` | every wait is long enough, for any number of failures and any `Retry-After` |
| `KeysAlwaysMeanWhatWasMinted` | `New` takes exactly the minted keys, of any length |

The verifier's properties hold of every state, whatever led to it, but for
`WindowIsOneInterval`: `PayloadAges` compares a payload's verdict at two readings
of the clock. `ToleranceIsExact` is the arithmetic behind `hour_fast_host`: an
envelope good for `lifetime` is accepted live by a host that is fast by at most
`lifetime + SkewTolerance`, and 3600 is more than 1800 + 300.

The argument for the client rests on six strengthenings.

- `Holding`: a getter that evaluates holds a ruleset with the key it asked for,
  in the kind it asked for. `TypeOK` is not inductive without it, since the type
  of an answer is known only for flags that exist.
- `Life` = `StartLife /\ CloseLife /\ ChannelLife`: at most one goroutine is
  inside each Once; a poller exists exactly when the Start's Once is over and
  `c.stop` is set; the context is cancelled only by the one Close inside its
  Once, or after it; a channel is open whenever the goroutine about to close
  it gets there. `NoPanic` needs all of it: `done` has two owners, the
  poller's `defer` and a Close that found no poller, and they exclude each
  other because the second spends `closeOnce`, so that the poller
  it missed is never cancelled, hence never exits. (That the second half
  is also the defect shown by `close_before_start` is no accident.)
- `Wakers`: behind each Once that runs there is a caller inside it, a `Start`
  selects only when there is a poller, and a poller that is past its first
  attempt, or is on its way out, has closed `firstAttempt`, and when it is gone
  `done`. With `Life`
  this gives `NobodyWaitsInVain`, which is what `StartReturns` and `CloseReturns`
  need of the state; all they add is that a goroutine on its way arrives.
- `Carried`: while an accepted envelope is stored, the outcome recorded is the
  snapshot served, so the file only ever receives the served ruleset.
- `Coherent` (`ClientCoherence`): the validator's and the status's part hold also
  while `record` holds the mutex, `networkReady` is open only while it does or
  nothing live is served, and the cache state waits for the store to end. The
  properties are this story read when the mutex is free.
- `Truthful`: what a running `Start` may conclude from the evidence it has
  passed, before it reports. `EvidenceStays` is why its report stays
  true: within a process a live ruleset stays live and a channel closed.

`DataSteps` in `ClientRefinement` and `StateSteps` in `ClientCoherence` state
which actions touch `snapshot`, `file`, `now`, `configuration` or `state` at
all; the refinement and the properties about these split on few cases.

`Evaluation`: `Walk` adds to the properties that no rule already passed serves,
and that the remembered bucket is -1 or the context's. `GateIsExact` and
`DecodingIsExact` reduce a step to the declarative `Serves`.

`FileCache`: `Inv` says who owns which file. A storing process owns its
temporary file alone (`OneOwner`) and knows how much of it is written; the file
at the path, and one being read, is whole and no longer temporary, so nobody
writes to it. The refinement needs nothing else. The count of the litter rests
on `LitterStep`: only a crash or a failed `Remove` turns an owned file into one
nobody owns.

`PollSystem`: `Inv` says that the validator belongs to the live ruleset or is
none, that a success in hand is a whole release within the cap, and that
a process that has not fetched serves nothing live. So a 304 can only confirm
the release it was computed from. Four more arguments stand beside it.

- `Shape` adds to `TypeOK` what the resolved configuration is (a positive
  timeout, an interval not below the floor), that a request's deadline is within
  the timeout and a timer within `Longest`, and that `steady` is 0 while the
  server is down. `JitterBounds`, `RetryBounds` and `WaitBounds` bound every
  delay from both sides; `DelaysArePolite` is the lower bound.
- `Timely` is the clock's invariant behind `StalenessIsBounded`. With T the
  timeout, a request left over from the outage ends within T
  (`OrphanIsShort`); hence an outcome that is not about the current release is
  recorded by then (`StaleOutcomeIsEarly`); hence, as long as that release is
  not served, `steady` plus the time left is at most T + `Longest` while waiting
  and 2T + `Longest` while fetching (`UnservedIsRecent`). A fresh outcome is
  served when recorded (`RecordServes`), and for a 304 that is
  `NotModifiedMeansCurrent`.
  TLC checked `Shape` and `Timely` as invariants of the `poll_system` run before
  they were proved.
- `NominalDoubles`: before jitter a delay is twice the last one until the cap
  of the delay, or of the exponent, is reached. `RetriesBackOff` follows: 4/5 of
  the double is more than 6/5 of the single.
- `FirstUnderscoreExists` finds the first underscore of a text of any length;
  `MintedParses` and `ParsedWasMinted` are the two directions of the property.

`Evaluation`'s versions: of two that differ, the first position at which they do
(`Decides`) is within the longer one, and it is what the loop answers by
(`DeciderDecides`). Transitivity splits on which of two such positions is the
earlier one. `SemverMeansWhatItSays` says the same against a reference that
knows nothing of positions, the number the components spell to a base greater
than each of them. `HigherDigitDecides` is the fact about such numbers, and
`NumbersCompare` that the position the loop decides at is the number's highest
digit that differs. The number is spelled out for three components, since its
recursion over more would need an induction no prover here can do; longer
versions are `VersionsAreOrdered`'s.

Keys and versions have any length, so these proofs need induction. They get it
from `LeastNumber`, that a set of naturals has a least element, which follows
from the library's `WFMin` without an operator parameter.

Model-checked only: the three liveness properties, fairness being out of the
prover's reach, and that the four `violation` runs refute what they refute. Every
other property of a run is a theorem.

## 5. Not modelled

- The example program (`cmd/`) and the test vectors: no state of their own.
- Formatting: `StartOutcome.String`, `keyPrefix`, error texts. JSON and base64
  decoding beyond success, failure and shape. HTTP and TLS themselves, the
  request's headers but for the validator.
- SHA-256: that a bucket is uniform, and that it agrees with the other SDKs, is
  the vectors' matter; here it is a function of the two keys.
- `BaseURL` and `CachePath` are carried over unread, but for whether there is a
  cache.
- `LastFetchAt`, `SnapshotIssuedAt`, `FlagCount` and the resolution counters of
  Diagnostics: copies and counts nothing depends on.
- The loss of power, and a disk that hangs: `record` holds the state mutex
  across the store, so `Diagnostics` waits for the disk, which is the host's.
- That a failed store is not retried under 304s (`client.go:254`), that the
  cache does not forgive a clock set back, and that an older release that has
  not expired is accepted over a newer one: decisions of the code that the
  models contain and no property judges.
