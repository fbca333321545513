-------------------------- MODULE ClientProperties --------------------------
(***************************************************************************)
(* What must hold of the client, and what its texts say that does not.     *)
(***************************************************************************)
EXTENDS Client

Snapshots ==
  {NoSnapshot} \cup [source : {"cache", "network"}, wire : Wires]

Channels == {"firstAttempt", "networkReady", "done"}

States ==
  [lastFetchStatus : {"neverFetched", "fresh", "notModified",
                      "rejectedEnvelope"} \cup FailureKinds,
   lastRejection : Rejections \cup {Accepted},
   etag : ETags \cup {NoETag},
   consecutiveFailures : 0..MaxFailures,
   cacheState : {"disabled", "empty", "loaded", "loadFailed", "stored",
                 "storeFailed"}]

StarterStates ==
  [pc : {"idle", "called", "loading", "launching", "selecting", "inspecting",
         "checking", "returned"},
   ctxDone : BOOLEAN,
   saw : Snapshots,
   result : {"none", "ready", "cacheOnly", "timedOut"}]

GetterStates ==
  [pc : {"idle", "called", "evaluating", "answered"},
   key : FlagKeys \cup {"none"},
   kind : Kinds \cup {"none"},
   held : Snapshots,
   outcome : {"none", "noSnapshot", "unknownFlag", "kindMismatch", "noValue",
              "served"},
   answer : Answers]

TypeOK ==
  /\ configuration \in Configurations
  /\ now \in 0..MaxNow
  /\ file \in Wires \cup {NoBytes}
  /\ snapshot \in Snapshots
  /\ state \in States
  /\ closed \subseteq Channels
  /\ panicked \in BOOLEAN
  /\ startOnce \in {"fresh", "running", "done"}
  /\ closeOnce \in {"fresh", "running", "done"}
  /\ stop \in BOOLEAN /\ cancelled \in BOOLEAN
  /\ poller \in {"none", "fetching", "recording", "storing", "announcing",
                 "recorded", "waiting", "exiting", "exited"}
  /\ first \in BOOLEAN
  /\ outcome \in Outcomes \cup {NoOutcome}
  /\ starter \in [Starters -> StarterStates]
  /\ closer \in [Closers -> {"idle", "called", "reading", "awaiting",
                             "closing", "returned"}]
  /\ getter \in [Getters -> GetterStates]

\* "After New, no call panics": no interleaving of Start, Close, their
\* repetitions and the poller closes one of the three channels twice. done is
\* closed by two different owners, poll's defer and close itself.
NoPanic == ~panicked

\* Close waits for the poller it cancelled, and so does a Close that only
\* found the Once taken: once any of them has returned, the poller is gone.
CloseWaits ==
  \A c \in Closers :
    closer[c] = "returned" /\ cancelled => poller = "exited"

\* The poller is in its first attempt, at a step that no channel holds up.
FirstAttemptComes ==
  /\ first
  /\ poller \in {"fetching", "recording", "storing", "announcing", "recorded"}

\* Nobody waits in vain (start, close, poll): whatever a Start or a Close waits
\* for is there, or the goroutine that brings it is on its way and waits for
\* nobody but a timer. So no order of Starts, Closes and a cancelled first
\* fetch is a deadlock.
NobodyWaitsInVain ==
  /\ \A s \in Starters :
       /\ At(s, "called") /\ startOnce = "running" =>
            \E t \in Starters : At(t, "loading") \/ At(t, "launching")
       /\ At(s, "selecting") /\ ~starter[s].ctxDone =>
            \/ "networkReady" \in closed \/ "firstAttempt" \in closed
            \/ FirstAttemptComes
  /\ \A c \in Closers :
       /\ closer[c] = "called" /\ closeOnce = "running" =>
            \E d \in Closers : closer[d] \in {"reading", "awaiting", "closing"}
       /\ closer[c] = "awaiting" =>
            \/ "done" \in closed
            \/ cancelled /\ poller \notin {"none", "exited"}

\* What one Diagnostics read shows is one coherent story: the streak is zero
\* exactly after a success, a fresh status or a closed networkReady comes with
\* a live ruleset, a rejection is named.
DiagnosticsCoherent ==
  LET d == Diagnostics IN
  ~StateLocked =>
    /\ d.ConsecutiveFailures = 0 <=>
         d.LastFetchStatus \in {"neverFetched", "fresh", "notModified"}
    /\ d.LastFetchStatus = "fresh" =>
         d.SnapshotSource = "network" /\ d.LastRejection = Accepted
    /\ d.LastFetchStatus = "rejectedEnvelope" => d.LastRejection # Accepted
    /\ d.SnapshotSource = "network" <=> "networkReady" \in closed

\* The validator of the next conditional poll is the one that came with the
\* ruleset being served, however many responses were rejected or failed in
\* between. Otherwise a 304 would confirm a ruleset the client never accepted.
ETagDescribesTheSnapshot ==
  ~StateLocked =>
    IF snapshot.source = "network"
    THEN [kind |-> "success", wire |-> snapshot.wire, etag |-> state.etag]
           \in Outcomes
    ELSE state.etag = NoETag

\* CacheState tells what is on disk: "stored" and "loaded" promise that a
\* process that restarts now finds the very ruleset this one serves.
CacheStateIsTrue ==
  ~StateLocked =>
    /\ state.cacheState = "disabled" <=> ~configuration.cachePath
    /\ state.cacheState = "loaded" =>
         snapshot = [source |-> "cache", wire |-> file]
    /\ state.cacheState = "stored" =>
         snapshot = [source |-> "network", wire |-> file]
    /\ state.cacheState \in {"empty", "loadFailed"} => snapshot = NoSnapshot

\* Whatever path a ruleset took, and whatever the configuration of the process
\* that wrote the file, the published snapshot and every one a getter still
\* holds is genuine under the configuration of this process.
NothingUntrustedServed ==
  \A snap \in {snapshot} \cup {getter[g].held : g \in Getters} :
    snap.source # "none" =>
      Genuine(snap.wire, configuration.policy, configuration.environment)

\* A value served is the answer of one ruleset, for the key and of the kind
\* that were asked, even when the poller replaced the snapshot meanwhile.
AnswersComeFromOneRuleset ==
  \A g \in Getters :
    getter[g].outcome = "served" =>
      /\ getter[g].key \in DOMAIN Flags(getter[g].held)
      /\ LET config == Flags(getter[g].held)[getter[g].key] IN
           /\ config.kind = getter[g].kind
           /\ config.answer = getter[g].answer
           /\ config.answer # NoValue

\* What Start reports is so: ready with a live ruleset, cache-only with some
\* ruleset, and timed out only when it stopped waiting for a reason and saw
\* no cached ruleset.
StartTellsTheTruth ==
  \A s \in Starters :
    /\ starter[s].result = "ready" => snapshot.source = "network"
    /\ starter[s].result = "cacheOnly" => snapshot.source # "none"
    /\ starter[s].result = "timedOut" =>
         /\ starter[s].ctxDone \/ "firstAttempt" \in closed
         /\ starter[s].saw.source # "cache"

\* Within a process the served ruleset never goes back from the network's to
\* the cache's, nor from any to none, however often Start is called.
SourceNeverRegresses ==
  [][startOnce' # "fresh" =>
       /\ snapshot.source = "network" => snapshot'.source = "network"
       /\ snapshot.source = "cache" => snapshot'.source # "none"]_vars

\* The client implements ServedRuleset.
Served == INSTANCE ServedRuleset WITH served <- snapshot, durable <- file
ImplementsServedRuleset == Served!Spec

\* A Start returns although no fetch ever succeeds, and although Close ran
\* before it or races it (or its process ends).
StartReturns ==
  \A s \in Starters : At(s, "called") ~> starter[s].pc \in {"returned", "idle"}

\* A Close returns, whatever the poller and other Starts and Closes are doing.
CloseReturns ==
  \A c \in Closers : closer[c] = "called" ~> closer[c] \in {"returned", "idle"}

\* Nothing but Close ends polling: no outcome, rejection or failed store keeps
\* the poller from its next fetch.
PollingGoesOn ==
  poller # "none" ~> (poller \in {"fetching", "none"} \/ cancelled)

-----------------------------------------------------------------------------
(* What the repository says, and the code does otherwise                   *)

\* "LastRejection is the envelope-verification rejection behind a
\* rejectedEnvelope status, empty otherwise" (Diagnostics).
LastRejectionIsCurrent ==
  ~StateLocked /\ Diagnostics.LastFetchStatus # "rejectedEnvelope" =>
    Diagnostics.LastRejection = Accepted

\* "StartTimedOut means the context ended before any ruleset existed": a Start
\* that says so did not itself load a ruleset from the snapshot pointer.
TimedOutSawNoRuleset ==
  \A s \in Starters :
    starter[s].result = "timedOut" => starter[s].saw = NoSnapshot

\* "Close stops the poller and waits for it" (close: "and before start"): once
\* a Close has returned no poller runs.
CloseStopsThePoller ==
  \A c \in Closers : closer[c] = "returned" => poller \in {"none", "exited"}
=============================================================================
