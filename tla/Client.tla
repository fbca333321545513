------------------------------- MODULE Client -------------------------------
(***************************************************************************)
(* The client core (client.go): one poller goroutine feeding an atomic     *)
(* snapshot that lock-free getters read, while any number of goroutines of *)
(* the host call Start, Close and the getters, and the host's process may  *)
(* end at any step and come back with nothing but the CachePath file.      *)
(*                                                                         *)
(* The state mutex needs no variable of its own. Only the poller's record  *)
(* keeps it across a step, StateLocked says when, and what Diagnostics     *)
(* returns can be observed exactly when StateLocked is false.              *)
(***************************************************************************)
EXTENDS Verifier

CONSTANTS
  Starters, Closers, Getters,  \* goroutines of the host, by what they call
  FlagKeys,        \* the flag keys the host asks for
  Wires,           \* the envelopes the network or the cache file may hold
  NoBytes,         \* no envelope: an empty or unusable file, no body
  ETags, NoETag,   \* validators, and the empty one
  Outcomes,        \* what a fetch may produce
  Configurations,  \* the resolved configurations New may be given
  Answers,         \* what evaluateFlag may answer, NoValue included
  NoValue,         \* its answer when no usable one exists
  MaxNow,          \* bound on the clock
  MaxFailures      \* consecutiveFailures is counted up to here

FailureKinds == {"unauthorized", "rateLimited", "serverError",
                 "responseTooLarge", "unexpectedStatus", "transportError"}

OutcomeKinds == {"success", "notModified"} \cup FailureKinds

ASSUME ClientAssumption ==
  /\ NoBytes \notin Wires
  /\ NoETag \notin ETags
  /\ Outcomes \subseteq [kind : OutcomeKinds, wire : Wires \cup {NoBytes},
                         etag : ETags \cup {NoETag}]
  /\ \A o \in Outcomes : o.kind = "success" => o.wire \in Wires
  /\ \A wire \in Wires : \A key \in DOMAIN wire.payload.flags :
       wire.payload.flags[key].answer \in Answers
  /\ NoValue \in Answers
  /\ MaxNow \in Nat
  /\ MaxFailures \in Nat \ {0}

VARIABLES
  configuration,  \* [environment, policy, cachePath], cachePath a BOOLEAN
  now,            \* the host's wall clock
  file,           \* what the CachePath file holds; survives the process
  snapshot,       \* the published ruleset: [source, wire], source "none"
                  \* for the nil pointer
  state,          \* clientState, without its mutex and lastFetchAt
  closed,         \* the closed ones among firstAttempt, networkReady and done
  panicked,       \* some channel was closed twice
  startOnce, closeOnce,
  stop,           \* c.stop # nil
  cancelled,      \* the poll context is cancelled
  poller,         \* the poller's program counter
  first,          \* poll's local: no attempt has completed yet
  outcome,        \* poll's local: what the last fetch produced
  starter, closer, getter

core == <<snapshot, state, file>>
poll == <<poller, first, outcome>>
once == <<startOnce, closeOnce, stop, cancelled>>
chan == <<closed, panicked>>
host == <<starter, closer, getter>>
env  == <<configuration, now>>
vars == <<core, poll, once, chan, host, env>>

NoSnapshot == [source |-> "none", wire |-> NoBytes]
NoOutcome  == [kind |-> "none", wire |-> NoBytes, etag |-> NoETag]

\* Mutant: newClient leaves lastFetchStatus at its zero value.
MutantStatusUnset(cachePath) ==
  [lastFetchStatus |-> "", lastRejection |-> Accepted,
   etag |-> NoETag, consecutiveFailures |-> 0,
   cacheState |-> IF cachePath THEN "empty" ELSE "disabled"]

NewState(cachePath) ==
  [lastFetchStatus |-> "neverFetched", lastRejection |-> Accepted,
   etag |-> NoETag, consecutiveFailures |-> 0,
   cacheState |-> IF cachePath THEN "empty" ELSE "disabled"]

NewStarter == [pc |-> "idle", ctxDone |-> FALSE, saw |-> NoSnapshot,
               result |-> "none"]
NewGetter  == [pc |-> "idle", key |-> "none", kind |-> "none",
               held |-> NoSnapshot, outcome |-> "none", answer |-> NoValue]

\* New: any configuration, and whatever an earlier process or somebody else
\* left in the file.
Init ==
  /\ configuration \in Configurations
  /\ now \in 0..MaxNow
  /\ file \in Wires \cup {NoBytes}
  /\ snapshot = NoSnapshot
  /\ state = NewState(configuration.cachePath)
  /\ closed = {}
  /\ panicked = FALSE
  /\ startOnce = "fresh" /\ closeOnce = "fresh"
  /\ stop = FALSE /\ cancelled = FALSE
  /\ poller = "none" /\ first = TRUE /\ outcome = NoOutcome
  /\ starter = [s \in Starters |-> NewStarter]
  /\ closer = [c \in Closers |-> "idle"]
  /\ getter = [g \in Getters |-> NewGetter]

CloseChannel(channel) ==
  /\ closed' = closed \cup {channel}
  /\ panicked' = (panicked \/ channel \in closed)

\* Mutants: the cache file is believed, and no path enforces expiry.
MutantCacheBelieved(wire, enforceExpiry) ==
  IF ~enforceExpiry THEN Accepted
  ELSE VerifyEnvelope(wire, configuration.policy,
         [environment |-> configuration.environment, now |-> now,
          enforceExpiry |-> TRUE])

MutantReplayable(wire, enforceExpiry) ==
  VerifyEnvelope(wire, configuration.policy,
    [environment |-> configuration.environment, now |-> now,
     enforceExpiry |-> FALSE])

\* verifyEnvelope as record (TRUE) and loadCache (FALSE) call it.
Verdict(wire, enforceExpiry) ==
  VerifyEnvelope(wire, configuration.policy,
    [environment |-> configuration.environment, now |-> now,
     enforceExpiry |-> enforceExpiry])

-----------------------------------------------------------------------------
(* poll and record                                                         *)

\* record holds the state mutex from its first line to its last. What lies
\* between its steps is the cache's disk I/O.
StateLocked == poller \in {"storing", "announcing"}

Continue == poller' = "recorded"

\* Mutant: a cancelled first fetch leaves firstAttempt open.
MutantDiscardSilently ==
  /\ poller = "fetching"
  /\ cancelled
  /\ poller' = "exiting"
  /\ UNCHANGED <<core, first, outcome, once, chan, host, env>>

\* The fetch returned and ctx.Err() is set: the outcome is dropped.
DiscardFetch ==
  /\ poller = "fetching"
  /\ cancelled
  /\ poller' = "exiting"
  /\ IF first THEN CloseChannel("firstAttempt") ELSE UNCHANGED chan
  /\ UNCHANGED <<core, first, outcome, once, host, env>>

\* The fetch returned with o and ctx.Err() was nil. What happens to ctx
\* between here and the end of record no longer matters to record.
KeepFetch(o) ==
  /\ poller = "fetching"
  /\ ~cancelled
  /\ poller' = "recording"
  /\ outcome' = o
  /\ UNCHANGED <<core, first, once, chan, host, env>>

Failed(s, status) ==
  [s EXCEPT !.lastFetchStatus = status,
            !.consecutiveFailures =
              IF @ < MaxFailures THEN @ + 1 ELSE MaxFailures]

Recording(kinds) == poller = "recording" /\ outcome.kind \in kinds

RecordFailed ==
  /\ Recording(FailureKinds)
  /\ state' = Failed(state, outcome.kind)
  /\ Continue
  /\ UNCHANGED <<snapshot, file, first, outcome, once, chan, host, env>>

\* Mutant: a 304 does not end the streak.
MutantStreakSurvives304 ==
  /\ Recording({"notModified"})
  /\ state' = [state EXCEPT !.lastFetchStatus = "notModified"]
  /\ Continue
  /\ UNCHANGED <<snapshot, file, first, outcome, once, chan, host, env>>

RecordNotModified ==
  /\ Recording({"notModified"})
  /\ state' = [state EXCEPT !.lastFetchStatus = "notModified",
                            !.consecutiveFailures = 0]
  /\ Continue
  /\ UNCHANGED <<snapshot, file, first, outcome, once, chan, host, env>>

\* Mutant: the validator of a rejected response is kept.
MutantRejectedETagKept ==
  /\ Recording({"success"})
  /\ Verdict(outcome.wire, TRUE) # Accepted
  /\ state' = [Failed(state, "rejectedEnvelope") EXCEPT
                 !.lastRejection = Verdict(outcome.wire, TRUE),
                 !.etag = outcome.etag]
  /\ Continue
  /\ UNCHANGED <<snapshot, file, first, outcome, once, chan, host, env>>

RecordRejected ==
  /\ Recording({"success"})
  /\ Verdict(outcome.wire, TRUE) # Accepted
  /\ state' = [Failed(state, "rejectedEnvelope") EXCEPT
                 !.lastRejection = Verdict(outcome.wire, TRUE)]
  /\ Continue
  /\ UNCHANGED <<snapshot, file, first, outcome, once, chan, host, env>>

RecordAccepted ==
  /\ Recording({"success"})
  /\ Verdict(outcome.wire, TRUE) = Accepted
  /\ state' = [state EXCEPT !.lastFetchStatus = "fresh",
                            !.lastRejection = Accepted,
                            !.etag = outcome.etag,
                            !.consecutiveFailures = 0]
  /\ snapshot' = [source |-> "network", wire |-> outcome.wire]
  /\ poller' = IF configuration.cachePath THEN "storing" ELSE "announcing"
  /\ UNCHANGED <<file, first, outcome, once, chan, host, env>>

\* Mutant: the result of store is not looked at.
MutantStoreUnchecked ==
  /\ poller = "storing"
  /\ file' \in {outcome.wire, file}
  /\ state' = [state EXCEPT !.cacheState = "stored"]
  /\ poller' = "announcing"
  /\ UNCHANGED <<snapshot, first, outcome, once, chan, host, env>>

\* store replaces the file whole or, whatever fails, leaves it alone.
StoreCache ==
  /\ poller = "storing"
  /\ \/ /\ file' = outcome.wire
        /\ state' = [state EXCEPT !.cacheState = "stored"]
     \/ /\ file' = file
        /\ state' = [state EXCEPT !.cacheState = "storeFailed"]
  /\ poller' = "announcing"
  /\ UNCHANGED <<snapshot, first, outcome, once, chan, host, env>>

AnnounceNetwork ==
  /\ poller = "announcing"
  /\ IF "networkReady" \in closed THEN UNCHANGED chan
                                  ELSE CloseChannel("networkReady")
  /\ Continue
  /\ UNCHANGED <<core, first, outcome, once, host, env>>

\* Mutant: first stays true.
MutantFirstForever ==
  /\ poller = "recorded"
  /\ IF first THEN CloseChannel("firstAttempt") ELSE UNCHANGED chan
  /\ outcome' = NoOutcome
  /\ poller' = "waiting"
  /\ UNCHANGED <<core, first, once, host, env>>

\* record returned: the first attempt is complete, and the delay is computed
\* from the failures and the outcome. Both are spent after that.
CompleteAttempt ==
  /\ poller = "recorded"
  /\ IF first THEN CloseChannel("firstAttempt") ELSE UNCHANGED chan
  /\ first' = FALSE
  /\ outcome' = NoOutcome
  /\ poller' = "waiting"
  /\ UNCHANGED <<core, once, host, env>>

\* Mutant: a revoked key ends polling.
MutantRevokedStops ==
  /\ poller = "waiting"
  /\ state.lastFetchStatus # "unauthorized"
  /\ poller' = "fetching"
  /\ UNCHANGED <<core, first, outcome, once, chan, host, env>>

\* Both arms of the select may be ready; either is then taken.
TimerFires ==
  /\ poller = "waiting"
  /\ poller' = "fetching"
  /\ UNCHANGED <<core, first, outcome, once, chan, host, env>>

WaitCancelled ==
  /\ poller = "waiting"
  /\ cancelled
  /\ poller' = "exiting"
  /\ UNCHANGED <<core, first, outcome, once, chan, host, env>>

\* Mutant: done is not closed by the poller.
MutantExitSilently ==
  /\ poller = "exiting"
  /\ poller' = "exited"
  /\ UNCHANGED <<core, first, outcome, once, chan, host, env>>

\* The deferred close(c.done).
ExitPoll ==
  /\ poller = "exiting"
  /\ CloseChannel("done")
  /\ poller' = "exited"
  /\ UNCHANGED <<core, first, outcome, once, host, env>>

Poll ==
  \/ DiscardFetch
  \/ \E o \in Outcomes : KeepFetch(o)
  \/ RecordFailed \/ RecordNotModified \/ RecordRejected \/ RecordAccepted
  \/ StoreCache \/ AnnounceNetwork \/ CompleteAttempt
  \/ TimerFires \/ WaitCancelled \/ ExitPoll

-----------------------------------------------------------------------------
(* Start                                                                   *)

At(s, pc) == starter[s].pc = pc

GoTo(s, pc) == starter' = [starter EXCEPT ![s].pc = pc]

Return(s, result) ==
  starter' = [starter EXCEPT ![s] = [@ EXCEPT !.pc = "returned",
                                              !.result = result]]

\* A goroutine may call Start as often as it likes.
CallStart(s) ==
  /\ starter[s].pc \in {"idle", "returned"}
  /\ starter' = [starter EXCEPT ![s] = [NewStarter EXCEPT !.pc = "called"]]
  /\ UNCHANGED <<core, poll, once, chan, closer, getter, env>>

CtxDone(s) ==
  /\ starter[s].pc \notin {"idle", "returned"}
  /\ ~starter[s].ctxDone
  /\ starter' = [starter EXCEPT ![s].ctxDone = TRUE]
  /\ UNCHANGED <<core, poll, once, chan, closer, getter, env>>

\* Mutant: a later Start loads the cache again.
MutantStartReloads(s) ==
  /\ At(s, "called")
  /\ startOnce # "running"
  /\ startOnce' = "running"
  /\ GoTo(s, "loading")
  /\ UNCHANGED <<core, poll, closeOnce, stop, cancelled, chan, closer, getter,
                 env>>

\* startOnce.Do: the first caller runs the function, the callers that come
\* while it runs wait for it, later ones pass.
EnterStart(s) ==
  /\ At(s, "called")
  /\ \/ /\ startOnce = "fresh"
        /\ startOnce' = "running"
        /\ GoTo(s, "loading")
     \/ /\ startOnce = "done"
        /\ UNCHANGED startOnce
        /\ GoTo(s, "selecting")
  /\ UNCHANGED <<core, poll, closeOnce, stop, cancelled, chan, closer, getter,
                 env>>

\* loadCache without a cache, or with a file that cannot be used: missing,
\* unreadable, empty or over the size bound.
LoadNothing(s) ==
  /\ At(s, "loading")
  /\ GoTo(s, "launching")
  /\ UNCHANGED <<core, poll, once, chan, closer, getter, env>>

LoadCache(s) ==
  /\ At(s, "loading")
  /\ configuration.cachePath
  /\ file # NoBytes
  /\ IF Verdict(file, FALSE) = Accepted
     THEN /\ state' = [state EXCEPT !.cacheState = "loaded"]
          /\ snapshot' = [source |-> "cache", wire |-> file]
     ELSE /\ state' = [state EXCEPT !.cacheState = "loadFailed"]
          /\ UNCHANGED snapshot
  /\ GoTo(s, "launching")
  /\ UNCHANGED <<file, poll, once, chan, closer, getter, env>>

\* c.stop is assigned, the poller is started, and the Once is over.
LaunchPoller(s) ==
  /\ At(s, "launching")
  /\ stop' = TRUE
  /\ poller' = "fetching"
  /\ startOnce' = "done"
  /\ GoTo(s, "selecting")
  /\ UNCHANGED <<core, first, outcome, closeOnce, cancelled, chan, closer,
                 getter, env>>

\* The three arms of start's select. Any that is ready may be taken.
SelectReady(s) ==
  /\ At(s, "selecting")
  /\ "networkReady" \in closed
  /\ Return(s, "ready")
  /\ UNCHANGED <<core, poll, once, chan, closer, getter, env>>

SelectCtx(s) ==
  /\ At(s, "selecting")
  /\ starter[s].ctxDone
  /\ GoTo(s, "inspecting")
  /\ UNCHANGED <<core, poll, once, chan, closer, getter, env>>

\* Mutant: a completed first attempt is taken for a successful one.
MutantFirstIsReady(s) ==
  /\ At(s, "selecting")
  /\ "firstAttempt" \in closed
  /\ Return(s, "ready")
  /\ UNCHANGED <<core, poll, once, chan, closer, getter, env>>

SelectFirst(s) ==
  /\ At(s, "selecting")
  /\ "firstAttempt" \in closed
  /\ IF "networkReady" \in closed THEN Return(s, "ready")
                                  ELSE GoTo(s, "inspecting")
  /\ UNCHANGED <<core, poll, once, chan, closer, getter, env>>

\* c.snapshot.Load(), and the decision on what it returned.
InspectSnapshot(s) ==
  /\ At(s, "inspecting")
  /\ starter' = [starter EXCEPT ![s] =
       IF snapshot.source = "cache"
       THEN [@ EXCEPT !.pc = "returned", !.result = "cacheOnly",
                      !.saw = snapshot]
       ELSE [@ EXCEPT !.pc = "checking", !.saw = snapshot]]
  /\ UNCHANGED <<core, poll, once, chan, closer, getter, env>>

LastCheck(s) ==
  /\ At(s, "checking")
  /\ Return(s, IF "networkReady" \in closed THEN "ready" ELSE "timedOut")
  /\ UNCHANGED <<core, poll, once, chan, closer, getter, env>>

Start(s) ==
  \/ EnterStart(s) \/ LoadNothing(s) \/ LoadCache(s) \/ LaunchPoller(s)
  \/ SelectReady(s) \/ SelectCtx(s) \/ SelectFirst(s)
  \/ InspectSnapshot(s) \/ LastCheck(s)

-----------------------------------------------------------------------------
(* Close                                                                   *)

CallClose(c) ==
  /\ closer[c] \in {"idle", "returned"}
  /\ closer' = [closer EXCEPT ![c] = "called"]
  /\ UNCHANGED <<core, poll, once, chan, starter, getter, env>>

EnterClose(c) ==
  /\ closer[c] = "called"
  /\ \/ /\ closeOnce = "fresh"
        /\ closeOnce' = "running"
        /\ closer' = [closer EXCEPT ![c] = "reading"]
     \/ /\ closeOnce = "done"
        /\ UNCHANGED closeOnce
        /\ closer' = [closer EXCEPT ![c] = "returned"]
  /\ UNCHANGED <<core, poll, startOnce, stop, cancelled, chan, starter, getter,
                 env>>

\* The test of c.stop takes no lock: it may fall before or after LaunchPoller
\* assigns it, whatever else the two goroutines have done.
ReadStop(c) ==
  /\ closer[c] = "reading"
  /\ cancelled' = stop
  /\ closer' = [closer EXCEPT ![c] = IF stop THEN "awaiting" ELSE "closing"]
  /\ UNCHANGED <<core, poll, startOnce, closeOnce, stop, chan, starter, getter,
                 env>>

\* Mutant: Close does not wait for the poller.
MutantCloseHurries(c) ==
  /\ closer[c] = "awaiting"
  /\ closeOnce' = "done"
  /\ closer' = [closer EXCEPT ![c] = "returned"]
  /\ UNCHANGED <<core, poll, startOnce, stop, cancelled, chan, starter, getter,
                 env>>

\* <-c.done
AwaitDone(c) ==
  /\ closer[c] = "awaiting"
  /\ "done" \in closed
  /\ closeOnce' = "done"
  /\ closer' = [closer EXCEPT ![c] = "returned"]
  /\ UNCHANGED <<core, poll, startOnce, stop, cancelled, chan, starter, getter,
                 env>>

\* close(c.done), there being no poller to wait for.
CloseDone(c) ==
  /\ closer[c] = "closing"
  /\ CloseChannel("done")
  /\ closeOnce' = "done"
  /\ closer' = [closer EXCEPT ![c] = "returned"]
  /\ UNCHANGED <<core, poll, startOnce, stop, cancelled, starter, getter, env>>

Close(c) == EnterClose(c) \/ ReadStop(c) \/ AwaitDone(c) \/ CloseDone(c)

-----------------------------------------------------------------------------
(* The getters: Bool, String and Number through value                      *)

CallGetter(g, key, kind) ==
  /\ getter[g].pc \in {"idle", "answered"}
  /\ getter' = [getter EXCEPT ![g] =
       [NewGetter EXCEPT !.pc = "called", !.key = key, !.kind = kind]]
  /\ UNCHANGED <<core, poll, once, chan, starter, closer, env>>

Flags(snap) == snap.wire.payload.flags

\* The snapshot is loaded once, and decided on: either a fallback, counted by
\* its reason, or a config to evaluate.
LoadSnapshot(g) ==
  LET Fallback(reason) ==
        getter' = [getter EXCEPT ![g] = [@ EXCEPT !.pc = "answered",
                                                  !.outcome = reason]]
      key == getter[g].key
  IN
  /\ getter[g].pc = "called"
  /\ IF snapshot.source = "none" THEN Fallback("noSnapshot")
     ELSE IF key \notin DOMAIN Flags(snapshot) THEN Fallback("unknownFlag")
     ELSE IF Flags(snapshot)[key].kind # getter[g].kind
          THEN Fallback("kindMismatch")
     ELSE getter' = [getter EXCEPT ![g] = [@ EXCEPT !.pc = "evaluating",
                                                    !.held = snapshot]]
  /\ UNCHANGED <<core, poll, once, chan, starter, closer, env>>

\* Mutant: the snapshot is loaded again for the evaluation.
MutantAnswerReloads(g) ==
  IF getter[g].key \in DOMAIN Flags(snapshot)
  THEN Flags(snapshot)[getter[g].key].answer ELSE NoValue

\* evaluateFlag on the config held, for the caller's tags and context key: an
\* answer of the flag's kind, or none.
Answer(g) == Flags(getter[g].held)[getter[g].key].answer

Evaluate(g) ==
  /\ getter[g].pc = "evaluating"
  /\ getter' = [getter EXCEPT ![g] =
       [@ EXCEPT !.pc = "answered", !.answer = Answer(g),
                 !.outcome = IF Answer(g) = NoValue THEN "noValue"
                                                    ELSE "served"]]
  /\ UNCHANGED <<core, poll, once, chan, starter, closer, env>>

Value(g) == LoadSnapshot(g) \/ Evaluate(g)

-----------------------------------------------------------------------------
(* The host                                                                *)

\* The wall clock advances, and is set back when somebody sets it.
ClockMoves ==
  /\ now' \in (0..MaxNow) \ {now}
  /\ UNCHANGED <<core, poll, once, chan, host, configuration>>

\* The process ends, between any two steps, and New is called in another one.
Restart ==
  /\ configuration' \in Configurations
  /\ snapshot' = NoSnapshot
  /\ state' = NewState(configuration'.cachePath)
  /\ closed' = {} /\ panicked' = FALSE
  /\ startOnce' = "fresh" /\ closeOnce' = "fresh"
  /\ stop' = FALSE /\ cancelled' = FALSE
  /\ poller' = "none" /\ first' = TRUE /\ outcome' = NoOutcome
  /\ starter' = [s \in Starters |-> NewStarter]
  /\ closer' = [c \in Closers |-> "idle"]
  /\ getter' = [g \in Getters |-> NewGetter]
  /\ UNCHANGED <<file, now>>

\* diagnostics, which takes the state mutex: a caller gets this record in
\* states where StateLocked is false, and waits in the others.
Diagnostics ==
  [LastFetchStatus |-> state.lastFetchStatus,
   LastRejection |-> state.lastRejection,
   ETag |-> state.etag,
   ConsecutiveFailures |-> state.consecutiveFailures,
   CacheState |-> state.cacheState,
   SnapshotSource |-> snapshot.source]

-----------------------------------------------------------------------------

Next ==
  \/ Poll
  \/ \E s \in Starters : CallStart(s) \/ CtxDone(s) \/ Start(s)
  \/ \E c \in Closers : CallClose(c) \/ Close(c)
  \/ \E g \in Getters :
       \/ \E key \in FlagKeys, kind \in Kinds : CallGetter(g, key, kind)
       \/ Value(g)
  \/ ClockMoves
  \/ Restart

Spec == Init /\ [][Next]_vars

\* Goroutines that can run do run, and a fetch returns (the HTTP client has a
\* timeout, and a cancelled request returns too). Nothing makes the host call,
\* end a context, move its clock or restart.
FairSpec ==
  /\ Spec
  /\ WF_vars(Poll)
  /\ \A s \in Starters : WF_vars(Start(s))
  /\ \A c \in Closers : WF_vars(Close(c))
  /\ \A g \in Getters : WF_vars(Value(g))
=============================================================================
