-------------------------- MODULE ClientCoherence --------------------------
(***************************************************************************)
(* The records the client keeps of one fact - the ruleset served, its      *)
(* validator, the diagnostics, the cache state, what Start reported - tell *)
(* one story, for any number of goroutines and any outcomes.               *)
(***************************************************************************)
EXTENDS ClientRefinement

\* What holds of the state and the snapshot at every step, also while record
\* holds the mutex. The cache state waits for the store.
Story ==
  /\ IF snapshot.source = "network"
     THEN [kind |-> "success", wire |-> snapshot.wire, etag |-> state.etag]
            \in Outcomes
     ELSE state.etag = NoETag
  /\ state.consecutiveFailures = 0 <=>
       state.lastFetchStatus \in {"neverFetched", "fresh", "notModified"}
  /\ state.lastFetchStatus = "fresh" =>
       snapshot.source = "network" /\ state.lastRejection = Accepted
  /\ state.lastFetchStatus = "rejectedEnvelope" =>
       state.lastRejection # Accepted

Announced ==
  /\ "networkReady" \in closed => snapshot.source = "network"
  /\ snapshot.source = "network" => "networkReady" \in closed \/ StateLocked
  /\ StateLocked => snapshot.source = "network"

CacheStory ==
  /\ state.cacheState = "disabled" <=> ~configuration.cachePath
  /\ poller # "storing" =>
       /\ state.cacheState = "loaded" =>
            snapshot = [source |-> "cache", wire |-> file]
       /\ state.cacheState = "stored" =>
            snapshot = [source |-> "network", wire |-> file]
       /\ state.cacheState \in {"empty", "loadFailed"} => snapshot = NoSnapshot

Coherent == Story /\ Announced /\ CacheStory

\* The steps that write the state; all others leave it, and what it is about,
\* alone, and neither enter nor leave record.
LEMMA StateSteps ==
  ASSUME Life, [Next]_vars
  PROVE  \/ /\ UNCHANGED <<state, snapshot, file, configuration>>
            /\ "networkReady" \in closed' <=> "networkReady" \in closed
            /\ poller' = "storing" <=> poller = "storing"
            /\ poller' = "announcing" <=> poller = "announcing"
         \/ RecordFailed \/ RecordNotModified \/ RecordRejected
         \/ RecordAccepted \/ StoreCache \/ AnnounceNetwork
         \/ \E s \in Starters : LoadCache(s)
         \/ Restart
<1> DEFINE Aside ==
             /\ UNCHANGED <<state, snapshot, file, configuration>>
             /\ "networkReady" \in closed' <=> "networkReady" \in closed
             /\ poller' = "storing" <=> poller = "storing"
             /\ poller' = "announcing" <=> poller = "announcing"
<1> USE DEF core, poll, chan, env
<1>1. ASSUME DiscardFetch \/ CompleteAttempt \/ TimerFires \/ WaitCancelled
               \/ ExitPoll \/ \E o \in Outcomes : KeepFetch(o)
      PROVE  Aside
  BY <1>1 DEF DiscardFetch, CompleteAttempt, TimerFires, WaitCancelled,
              ExitPoll, KeepFetch, CloseChannel
<1>2. ASSUME NEW s \in Starters, CallStart(s) \/ CtxDone(s) \/ Start(s)
      PROVE  Aside \/ LoadCache(s)
  <2>1. CASE LaunchPoller(s)
    <3>1. poller = "none"
      BY <2>1 DEF LaunchPoller, At, Life, StartLife, InsideStartOnce
    <3> QED
      BY <2>1, <3>1 DEF LaunchPoller
  <2>2. CASE ~LaunchPoller(s)
    BY <1>2, <2>2 DEF CallStart, CtxDone, Start, EnterStart, LoadNothing,
       SelectReady, SelectCtx, SelectFirst, InspectSnapshot, LastCheck
  <2> QED
    BY <2>1, <2>2
<1>3. ASSUME NEW c \in Closers, CallClose(c) \/ Close(c)
      PROVE  Aside
  BY <1>3 DEF CallClose, Close, EnterClose, ReadStop, AwaitDone, CloseDone,
              CloseChannel
<1>4. ASSUME NEW g \in Getters, NEW key \in FlagKeys, NEW kind \in Kinds,
             CallGetter(g, key, kind)
      PROVE  Aside
  BY <1>4 DEF CallGetter
<1>5. ASSUME NEW g \in Getters, Value(g)
      PROVE  Aside
  BY <1>5 DEF Value, LoadSnapshot, Evaluate
<1>6. ASSUME ClockMoves \/ UNCHANGED vars
      PROVE  Aside
  BY <1>6 DEF ClockMoves, vars
<1> QED
  BY <1>1, <1>2, <1>3, <1>4, <1>5, <1>6 DEF Next, Poll

\* A step that writes none of it keeps the story.
LEMMA AsideKeeps ==
  ASSUME Coherent,
         UNCHANGED <<state, snapshot, file, configuration>>,
         "networkReady" \in closed' <=> "networkReady" \in closed,
         poller' = "storing" <=> poller = "storing",
         poller' = "announcing" <=> poller = "announcing"
  PROVE  Coherent'
BY DEF Coherent, Story, Announced, CacheStory, StateLocked

\* A failure is a streak of at least one.
LEMMA FailedSays ==
  ASSUME state \in States, NEW status
  PROVE  LET s == Failed(state, status) IN
         /\ s.lastFetchStatus = status
         /\ s.consecutiveFailures # 0
         /\ s.lastRejection = state.lastRejection
         /\ s.etag = state.etag /\ s.cacheState = state.cacheState
<1> DEFINE streak == IF state.consecutiveFailures < MaxFailures
                     THEN state.consecutiveFailures + 1 ELSE MaxFailures
<1>1. MaxFailures \in Nat \ {0} /\ state.consecutiveFailures \in 0..MaxFailures
  BY ClientAssumption DEF States
<1>2. streak # 0
  BY <1>1
<1> HIDE DEF streak
<1>3. LET s == [state EXCEPT !.lastFetchStatus = status,
                             !.consecutiveFailures = streak] IN
      /\ s.lastFetchStatus = status /\ s.consecutiveFailures = streak
      /\ s.lastRejection = state.lastRejection
      /\ s.etag = state.etag /\ s.cacheState = state.cacheState
  BY DEF States
<1> QED
  BY <1>2, <1>3 DEF Failed, streak

\* record, for the outcomes that leave the snapshot alone.
LEMMA RecordKeeps ==
  ASSUME TypeOK, Coherent,
         RecordFailed \/ RecordNotModified \/ RecordRejected
  PROVE  Coherent'
<1>1. /\ poller = "recording" /\ poller' = "recorded"
      /\ UNCHANGED <<snapshot, file, configuration, closed>>
  BY DEF RecordFailed, RecordNotModified, RecordRejected, Recording, Continue,
         chan, env
<1>2. /\ state'.etag = state.etag /\ state'.cacheState = state.cacheState
      /\ Story'
  <2>1. CASE RecordFailed
    <3>1. /\ state' = Failed(state, outcome.kind)
          /\ outcome.kind \in FailureKinds
      BY <2>1 DEF RecordFailed, Recording
    <3>2. state'.lastFetchStatus \in FailureKinds
      BY <3>1, FailedSays DEF TypeOK
    <3> QED
      BY <1>1, <3>1, <3>2, FailedSays
      DEF TypeOK, FailureKinds, Coherent, Story
  <2>2. CASE RecordNotModified
    <3>1. state' = [state EXCEPT !.lastFetchStatus = "notModified",
                                 !.consecutiveFailures = 0]
      BY <2>2 DEF RecordNotModified
    <3>2. /\ state'.lastFetchStatus = "notModified"
          /\ state'.consecutiveFailures = 0
          /\ state'.etag = state.etag /\ state'.cacheState = state.cacheState
      BY <3>1 DEF TypeOK, States
    <3> QED
      BY <1>1, <3>2 DEF Coherent, Story
  <2>3. CASE RecordRejected
    <3> DEFINE failed == Failed(state, "rejectedEnvelope")
               verdict == Verdict(outcome.wire, TRUE)
    <3>1. failed \in States
      BY FailedType DEF TypeOK
    <3>2. verdict # Accepted
          /\ state' = [failed EXCEPT !.lastRejection = verdict]
      BY <2>3 DEF RecordRejected
    <3>3. /\ failed.lastFetchStatus = "rejectedEnvelope"
          /\ failed.consecutiveFailures # 0
          /\ failed.etag = state.etag /\ failed.cacheState = state.cacheState
      BY FailedSays DEF TypeOK
    <3> HIDE DEF failed, verdict
    <3>4. /\ state'.lastFetchStatus = failed.lastFetchStatus
          /\ state'.lastRejection = verdict
          /\ state'.consecutiveFailures = failed.consecutiveFailures
          /\ state'.etag = failed.etag
          /\ state'.cacheState = failed.cacheState
      BY <3>1, <3>2 DEF States
    <3> QED
      BY <1>1, <3>2, <3>3, <3>4 DEF Coherent, Story
  <2> QED
    BY <2>1, <2>2, <2>3
<1>3. Announced'
  BY <1>1 DEF Coherent, Announced, StateLocked
<1>4. CacheStory'
  BY <1>1, <1>2 DEF Coherent, CacheStory
<1> QED
  BY <1>2, <1>3, <1>4 DEF Coherent

\* An accepted envelope brings its ruleset and its validator at once.
LEMMA AcceptedKeeps ==
  ASSUME TypeOK, Coherent, RecordAccepted
  PROVE  Coherent'
<1>1. /\ outcome.kind = "success" /\ outcome \in Outcomes
  BY DEF RecordAccepted, Recording, TypeOK, NoOutcome
<1>2. outcome = [kind |-> "success", wire |-> outcome.wire,
                 etag |-> outcome.etag]
  BY <1>1, ClientAssumption
<1>3. /\ snapshot' = [source |-> "network", wire |-> outcome.wire]
      /\ state'.lastFetchStatus = "fresh" /\ state'.lastRejection = Accepted
      /\ state'.etag = outcome.etag /\ state'.consecutiveFailures = 0
      /\ state'.cacheState = state.cacheState
  BY DEF RecordAccepted, TypeOK, States
<1>4. /\ poller = "recording"
      /\ poller' = IF configuration.cachePath THEN "storing" ELSE "announcing"
      /\ UNCHANGED <<file, configuration, closed>>
  BY DEF RecordAccepted, Recording, chan, env
<1>5. Story'
  BY <1>1, <1>2, <1>3 DEF Story
<1>6. Announced'
  BY <1>3, <1>4 DEF Announced, StateLocked
<1>7. CacheStory'
  BY <1>3, <1>4 DEF Coherent, CacheStory
<1> QED
  BY <1>5, <1>6, <1>7 DEF Coherent

\* The store reports what it did with the ruleset served.
LEMMA StoreKeeps ==
  ASSUME TypeOK, Carried, Coherent, StoreCache
  PROVE  Coherent'
<1>1. /\ snapshot = [source |-> "network", wire |-> outcome.wire]
      /\ configuration.cachePath
      /\ poller = "storing" /\ poller' = "announcing"
      /\ UNCHANGED <<snapshot, configuration, closed>>
  BY DEF StoreCache, Carried, chan, env
<1>2. \/ state'.cacheState = "stored" /\ file' = outcome.wire
      \/ state'.cacheState = "storeFailed"
  BY DEF StoreCache, TypeOK, States
<1>3. /\ state'.lastFetchStatus = state.lastFetchStatus
      /\ state'.lastRejection = state.lastRejection
      /\ state'.etag = state.etag
      /\ state'.consecutiveFailures = state.consecutiveFailures
  BY DEF StoreCache, TypeOK, States
<1> QED
  BY <1>1, <1>2, <1>3
  DEF Coherent, Story, Announced, CacheStory, StateLocked

\* networkReady is closed under the mutex, after the snapshot is there.
LEMMA AnnounceKeeps ==
  ASSUME Coherent, AnnounceNetwork
  PROVE  Coherent'
<1>1. /\ poller = "announcing" /\ poller' = "recorded"
      /\ UNCHANGED <<state, snapshot, file, configuration>>
      /\ "networkReady" \in closed'
  BY DEF AnnounceNetwork, Continue, CloseChannel, core, chan, env
<1> QED
  BY <1>1 DEF Coherent, Story, Announced, CacheStory, StateLocked

\* The one cache load finds no ruleset, no validator and no poller.
LEMMA LoadKeeps ==
  ASSUME TypeOK, Life, Carried, Coherent, NEW s \in Starters, LoadCache(s)
  PROVE  Coherent'
<1>1. /\ snapshot = NoSnapshot /\ poller = "none"
  BY DEF LoadCache, At, Carried, Life, StartLife, InsideStartOnce
<1>2. /\ UNCHANGED <<file, configuration, closed, poller>>
      /\ configuration.cachePath
  BY DEF LoadCache, poll, chan, env
<1>3. \/ /\ state'.cacheState = "loaded"
         /\ snapshot' = [source |-> "cache", wire |-> file]
      \/ state'.cacheState = "loadFailed" /\ snapshot' = snapshot
  BY DEF LoadCache, TypeOK, States
<1>4. /\ state'.lastFetchStatus = state.lastFetchStatus
      /\ state'.lastRejection = state.lastRejection
      /\ state'.etag = state.etag
      /\ state'.consecutiveFailures = state.consecutiveFailures
  BY DEF LoadCache, TypeOK, States
<1>5. snapshot.source = "none" /\ snapshot'.source # "network"
  BY <1>1, <1>3 DEF NoSnapshot
<1>6. Story'
  BY <1>4, <1>5 DEF Coherent, Story
<1>7. Announced'
  BY <1>1, <1>2, <1>5 DEF Coherent, Announced, StateLocked
<1>8. CacheStory'
  BY <1>1, <1>2, <1>3 DEF CacheStory
<1> QED
  BY <1>6, <1>7, <1>8 DEF Coherent

LEMMA NewCoherent ==
  ASSUME NEW cachePath
  PROVE  LET s == NewState(cachePath) IN
         /\ s.lastFetchStatus = "neverFetched" /\ s.etag = NoETag
         /\ s.consecutiveFailures = 0
         /\ s.cacheState = IF cachePath THEN "empty" ELSE "disabled"
BY DEF NewState

LEMMA CoherentAlways == Spec => []Coherent
<1>1. Init => Coherent
  BY NewCoherent
  DEF Init, Coherent, Story, Announced, CacheStory, StateLocked, NoSnapshot
<1>2. ASSUME Restart PROVE Coherent'
  BY <1>2, NewCoherent
  DEF Restart, Coherent, Story, Announced, CacheStory, StateLocked, NoSnapshot
<1>3. TypeOK /\ Life /\ Carried /\ Coherent /\ [Next]_vars => Coherent'
  BY <1>2, StateSteps, AsideKeeps, RecordKeeps, AcceptedKeeps, StoreKeeps,
     AnnounceKeeps, LoadKeeps
<1> QED
  BY <1>1, <1>3, TypeCorrect, LifeAlways, CarriedAlways, PTL DEF Spec

\* The validator sent is the served ruleset's (record, client.go:247).
THEOREM ETagAlwaysDescribesTheSnapshot == Spec => []ETagDescribesTheSnapshot
<1>1. Coherent => ETagDescribesTheSnapshot
  BY DEF Coherent, Story, ETagDescribesTheSnapshot
<1> QED
  BY <1>1, CoherentAlways, PTL

\* One read of Diagnostics tells one story (diagnostics, client.go).
THEOREM DiagnosticsAlwaysCoherent == Spec => []DiagnosticsCoherent
<1>1. Coherent => DiagnosticsCoherent
  BY DEF Coherent, Story, Announced, DiagnosticsCoherent, Diagnostics,
         StateLocked
<1> QED
  BY <1>1, CoherentAlways, PTL

\* The cache state is what a restart would find (record and loadCache).
THEOREM CacheStateIsAlwaysTrue == Spec => []CacheStateIsTrue
<1>1. Coherent => CacheStateIsTrue
  BY DEF Coherent, CacheStory, CacheStateIsTrue, StateLocked
<1> QED
  BY <1>1, CoherentAlways, PTL

-----------------------------------------------------------------------------
(* What Start reports                                                      *)

\* A Start's record r, with what it may still conclude from it, against the
\* snapshot and the closed channels.
Truthful(r, snap, shut) ==
  /\ r.pc # "returned" => r.result = "none"
  /\ r.pc \in {"inspecting", "checking"} =>
       r.ctxDone \/ "firstAttempt" \in shut
  /\ r.pc = "checking" => r.saw.source # "cache"
  /\ r.result = "ready" => snap.source = "network"
  /\ r.result = "cacheOnly" => snap.source # "none"
  /\ r.result = "timedOut" =>
       /\ r.ctxDone \/ "firstAttempt" \in shut
       /\ r.saw.source # "cache"

AllTruthful == \A s \in Starters : Truthful(starter[s], snapshot, closed)

\* Within a process a live ruleset stays live, any ruleset is followed by
\* one, and a closed channel stays closed.
LEMMA EvidenceStays ==
  ASSUME Life, Carried, [Next]_vars, ~Restart
  PROVE  /\ snapshot.source = "network" => snapshot'.source = "network"
         /\ snapshot.source # "none" => snapshot'.source # "none"
         /\ closed \subseteq closed'
<1>1. /\ snapshot.source = "network" => snapshot'.source = "network"
      /\ snapshot.source # "none" => snapshot'.source # "none"
  <2>1. ASSUME NEW s \in Starters, LoadCache(s) PROVE snapshot.source = "none"
    BY <2>1 DEF LoadCache, At, Carried, NoSnapshot
  <2>2. CASE UNCHANGED snapshot
    BY <2>2, Zenon
  <2>3. CASE RecordAccepted
    BY <2>3 DEF RecordAccepted
  <2> QED
    BY <2>1, <2>2, <2>3, DataSteps DEF StoreCache, ClockMoves, core
<1>2. closed \subseteq closed'
  <2>1. Poll => closed \subseteq closed'
    BY DEF Poll, DiscardFetch, KeepFetch, RecordFailed, RecordNotModified,
       RecordRejected, RecordAccepted, StoreCache, AnnounceNetwork,
       CompleteAttempt, TimerFires, WaitCancelled, ExitPoll, CloseChannel, chan
  <2>2. ASSUME NEW s \in Starters, CallStart(s) \/ CtxDone(s) \/ Start(s)
        PROVE  closed' = closed
    BY <2>2 DEF CallStart, CtxDone, Start, EnterStart, LoadNothing, LoadCache,
       LaunchPoller, SelectReady, SelectCtx, SelectFirst, InspectSnapshot,
       LastCheck, chan
  <2>3. ASSUME NEW c \in Closers, CallClose(c) \/ Close(c)
        PROVE  closed \subseteq closed'
    BY <2>3 DEF CallClose, Close, EnterClose, ReadStop, AwaitDone, CloseDone,
                CloseChannel, chan
  <2>4. ASSUME NEW g \in Getters, NEW key \in FlagKeys, NEW kind \in Kinds,
               CallGetter(g, key, kind) \/ Value(g)
        PROVE  closed' = closed
    BY <2>4 DEF CallGetter, Value, LoadSnapshot, Evaluate, chan
  <2>5. ASSUME NEW g \in Getters, Value(g) PROVE closed' = closed
    BY <2>5 DEF Value, LoadSnapshot, Evaluate, chan
  <2>6. ClockMoves \/ UNCHANGED vars => closed' = closed
    BY DEF ClockMoves, vars, chan
  <2> QED
    BY <2>1, <2>2, <2>3, <2>4, <2>5, <2>6 DEF Next
<1> QED
  BY <1>1, <1>2

\* Only a step of its own goroutine changes what a Start knows.
LEMMA StarterSteps ==
  ASSUME [Next]_vars, ~Restart
  PROVE  \/ UNCHANGED starter
         \/ \E s \in Starters : CallStart(s) \/ CtxDone(s) \/ Start(s)
<1>1. Poll => UNCHANGED starter
  BY DEF Poll, DiscardFetch, KeepFetch, RecordFailed, RecordNotModified,
     RecordRejected, RecordAccepted, StoreCache, AnnounceNetwork,
     CompleteAttempt, TimerFires, WaitCancelled, ExitPoll, host
<1>2. ASSUME NEW c \in Closers, CallClose(c) \/ Close(c)
      PROVE  UNCHANGED starter
  BY <1>2 DEF CallClose, Close, EnterClose, ReadStop, AwaitDone, CloseDone
<1>3. ASSUME NEW g \in Getters, NEW key \in FlagKeys, NEW kind \in Kinds,
             CallGetter(g, key, kind)
      PROVE  UNCHANGED starter
  BY <1>3 DEF CallGetter
<1>4. ASSUME NEW g \in Getters, Value(g) PROVE UNCHANGED starter
  BY <1>4 DEF Value, LoadSnapshot, Evaluate
<1>5. ClockMoves \/ UNCHANGED vars => UNCHANGED starter
  BY DEF ClockMoves, vars, host
<1> QED
  BY <1>1, <1>2, <1>3, <1>4, <1>5 DEF Next

\* What a Start concludes at each of its steps is so at that step.
LEMMA StartConcludes ==
  ASSUME TypeOK, Coherent, AllTruthful, NEW s \in Starters,
         CallStart(s) \/ CtxDone(s) \/ Start(s)
  PROVE  /\ \A t \in Starters \ {s} : starter'[t] = starter[t]
         /\ Truthful(starter'[s], snapshot, closed)
<1>1. /\ starter \in [Starters -> StarterStates]
      /\ Truthful(starter[s], snapshot, closed)
      /\ "networkReady" \in closed => snapshot.source = "network"
  BY DEF TypeOK, AllTruthful, Coherent, Announced
<1> DEFINE was == starter[s]
<1>2. ASSUME NEW pc \in {"loading", "launching", "selecting"}, GoTo(s, pc),
             was.pc # "returned"
      PROVE  Truthful(starter'[s], snapshot, closed)
  BY <1>1, <1>2 DEF GoTo, Truthful, StarterStates
<1>3. ASSUME GoTo(s, "inspecting"), was.pc = "selecting",
             was.ctxDone \/ "firstAttempt" \in closed
      PROVE  Truthful(starter'[s], snapshot, closed)
  BY <1>1, <1>3 DEF GoTo, Truthful, StarterStates
<1>4. ASSUME Return(s, "ready"), "networkReady" \in closed
      PROVE  Truthful(starter'[s], snapshot, closed)
  BY <1>1, <1>4 DEF Return, Truthful, StarterStates
<1>5. Truthful(starter'[s], snapshot, closed)
  <2>1. CASE CallStart(s)
    BY <1>1, <2>1 DEF CallStart, NewStarter, Truthful
  <2>2. CASE CtxDone(s)
    BY <1>1, <2>2 DEF CtxDone, Truthful, StarterStates
  <2>3. CASE EnterStart(s) \/ LoadNothing(s) \/ LoadCache(s)
               \/ LaunchPoller(s)
    BY <1>2, <2>3 DEF EnterStart, LoadNothing, LoadCache, LaunchPoller, At
  <2>4. CASE SelectReady(s)
    BY <1>4, <2>4 DEF SelectReady
  <2>5. CASE SelectCtx(s)
    BY <1>3, <2>5 DEF SelectCtx, At
  <2>6. CASE SelectFirst(s)
    BY <1>3, <1>4, <2>6 DEF SelectFirst, At
  <2>7. CASE InspectSnapshot(s)
    <3>1. CASE snapshot.source = "cache"
      <4>1. starter'[s] = [was EXCEPT !.pc = "returned", !.result = "cacheOnly",
                                      !.saw = snapshot]
        BY <1>1, <2>7, <3>1 DEF InspectSnapshot
      <4> QED
        BY <1>1, <3>1, <4>1 DEF Truthful, StarterStates
    <3>2. CASE snapshot.source # "cache"
      <4>1. /\ was.pc = "inspecting"
            /\ starter'[s] = [was EXCEPT !.pc = "checking", !.saw = snapshot]
        BY <1>1, <2>7, <3>2 DEF InspectSnapshot, At
      <4> QED
        BY <1>1, <3>2, <4>1 DEF Truthful, StarterStates
    <3> QED
      BY <3>1, <3>2
  <2>8. CASE LastCheck(s)
    <3>1. CASE "networkReady" \in closed
      BY <1>4, <2>8, <3>1 DEF LastCheck
    <3>2. CASE "networkReady" \notin closed
      BY <1>1, <2>8, <3>2 DEF LastCheck, Return, At, Truthful, StarterStates
    <3> QED
      BY <3>1, <3>2
  <2> QED
    BY <2>1, <2>2, <2>3, <2>4, <2>5, <2>6, <2>7, <2>8 DEF Start
<1>6. \A t \in Starters \ {s} : starter'[t] = starter[t]
  BY <1>1 DEF CallStart, CtxDone, Start, EnterStart, LoadNothing, LoadCache,
     LaunchPoller, SelectReady, SelectCtx, SelectFirst, InspectSnapshot,
     LastCheck, GoTo, Return
<1> QED
  BY <1>5, <1>6

\* ready, cache-only and timed out are so when Start reports them, and the
\* first two for the rest of the process (start, client.go).
THEOREM StartAlwaysTellsTheTruth == Spec => []StartTellsTheTruth
<1>1. Init => AllTruthful
  BY DEF Init, AllTruthful, Truthful, NewStarter
<1>2. TypeOK /\ Life /\ Carried /\ Coherent /\ AllTruthful /\ [Next]_vars
        => AllTruthful'
  <2> SUFFICES ASSUME TypeOK, Life, Carried, Coherent, AllTruthful,
                      [Next]_vars
               PROVE  AllTruthful'
    OBVIOUS
  <2>1. CASE Restart
    BY <2>1 DEF Restart, AllTruthful, Truthful, NewStarter
  <2>2. CASE ~Restart
    <3>1. ASSUME NEW r, Truthful(r, snapshot, closed)
          PROVE  Truthful(r, snapshot', closed')
      BY <2>2, <3>1, EvidenceStays DEF Truthful
    <3>2. CASE UNCHANGED starter
      BY <3>1, <3>2 DEF AllTruthful
    <3>3. ASSUME NEW s \in Starters, CallStart(s) \/ CtxDone(s) \/ Start(s)
          PROVE  AllTruthful'
      BY <3>1, <3>3, StartConcludes DEF AllTruthful
    <3> QED
      BY <2>2, <3>2, <3>3, StarterSteps
  <2> QED
    BY <2>1, <2>2
<1>3. AllTruthful => StartTellsTheTruth
  BY DEF AllTruthful, Truthful, StartTellsTheTruth
<1> QED
  BY <1>1, <1>2, <1>3, TypeCorrect, LifeAlways, CarriedAlways, CoherentAlways,
     PTL DEF Spec
=============================================================================
