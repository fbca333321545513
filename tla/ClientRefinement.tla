-------------------------- MODULE ClientRefinement --------------------------
(***************************************************************************)
(* What the client serves, proved: only the genuine, never older in source *)
(* than before, and as ServedRuleset promises.                             *)
(***************************************************************************)
EXTENDS ClientProofs

\* The steps that touch the ruleset served, the file, or what they are judged
\* by; all others leave the four alone.
LEMMA DataSteps ==
  ASSUME [Next]_vars
  PROVE  \/ UNCHANGED <<snapshot, file, configuration, now>>
         \/ RecordAccepted
         \/ StoreCache
         \/ \E s \in Starters : LoadCache(s)
         \/ ClockMoves
         \/ Restart
<1>1. Poll => \/ UNCHANGED <<snapshot, file, configuration, now>>
              \/ RecordAccepted
              \/ StoreCache
  BY DEF Poll, DiscardFetch, KeepFetch, RecordFailed, RecordNotModified,
         RecordRejected, AnnounceNetwork, CompleteAttempt, TimerFires,
         WaitCancelled, ExitPoll, core, env
<1>2. ASSUME NEW s \in Starters, CallStart(s) \/ CtxDone(s) \/ Start(s)
      PROVE  \/ UNCHANGED <<snapshot, file, configuration, now>>
             \/ LoadCache(s)
  BY <1>2 DEF CallStart, CtxDone, Start, EnterStart, LoadNothing, LaunchPoller,
              SelectReady, SelectCtx, SelectFirst, InspectSnapshot, LastCheck,
              core, env
<1>3. ASSUME NEW c \in Closers, CallClose(c) \/ Close(c)
      PROVE  UNCHANGED <<snapshot, file, configuration, now>>
  BY <1>3 DEF CallClose, Close, EnterClose, ReadStop, AwaitDone, CloseDone,
              core, env
<1>4. ASSUME NEW g \in Getters, NEW key \in FlagKeys, NEW kind \in Kinds,
             CallGetter(g, key, kind)
      PROVE  UNCHANGED <<snapshot, file, configuration, now>>
  BY <1>4 DEF CallGetter, core, env
<1>5. ASSUME NEW g \in Getters, Value(g)
      PROVE  UNCHANGED <<snapshot, file, configuration, now>>
  BY <1>5 DEF Value, LoadSnapshot, Evaluate, core, env
<1>6. UNCHANGED vars => UNCHANGED <<snapshot, file, configuration, now>>
  BY DEF vars, core, env
<1>7. QED
  BY <1>1, <1>2, <1>3, <1>4, <1>5, <1>6 DEF Next

\* What record and loadCache accept, in the terms of ServedRuleset.
LEMMA AcceptedWire ==
  ASSUME NEW wire, NEW enforceExpiry, Verdict(wire, enforceExpiry) = Accepted
  PROVE  /\ Served!Ours(wire)
         /\ Genuine(wire, configuration.policy, configuration.environment)
         /\ Served!Issued(wire)
         /\ enforceExpiry => Served!Current(wire)
<1> DEFINE expect == [environment |-> configuration.environment, now |-> now,
                      enforceExpiry |-> enforceExpiry]
<1>1. VerifyEnvelope(wire, configuration.policy, expect) = Accepted
  BY DEF Verdict
<1>2. /\ expect.environment = configuration.environment
      /\ expect.now = now
      /\ expect.enforceExpiry = enforceExpiry
  OBVIOUS
<1> HIDE DEF expect
<1>3. /\ Genuine(wire, configuration.policy, configuration.environment)
      /\ ~(wire.payload.issuedAt.at - now > SkewTolerance)
      /\ enforceExpiry => ~(now - wire.payload.expiresAt.at > SkewTolerance)
  BY <1>1, <1>2, AcceptanceIsSound
<1>4. QED
  BY <1>3 DEF Served!Ours, Served!Issued, Served!Current, Genuine, Signed,
              Served!Genuine, Served!Signed, Kinds, Served!Kinds

-----------------------------------------------------------------------------

\* Before the one load there is no snapshot, and while record stores, the
\* snapshot is what it stores.
Carried ==
  /\ startOnce = "fresh" => snapshot = NoSnapshot
  /\ \A s \in Starters : starter[s].pc = "loading" => snapshot = NoSnapshot
  /\ poller = "storing" =>
       /\ snapshot = [source |-> "network", wire |-> outcome.wire]
       /\ configuration.cachePath

LEMMA CarriedAlways == Spec => []Carried
<1>1. Init => Carried
  BY DEF Init, Carried, NewStarter
<1>2. TypeOK /\ Life /\ Carried /\ [Next]_vars => Carried'
  <2> SUFFICES ASSUME TypeOK, Life, Carried, [Next]_vars PROVE Carried'
    OBVIOUS
  <2>1. ASSUME UNCHANGED <<snapshot, configuration, outcome>>,
               poller' = "storing" => poller = "storing",
               startOnce' = "fresh" => startOnce = "fresh",
               \A s \in Starters : starter'[s].pc = "loading" =>
                                     starter[s].pc = "loading"
        PROVE  Carried'
    BY <2>1 DEF Carried
  <2>2. CASE Poll
    <3>1. /\ UNCHANGED <<starter, startOnce, configuration>>
          /\ poller # "none"
      BY <2>2 DEF Poll, DiscardFetch, KeepFetch, RecordFailed,
         RecordNotModified, RecordRejected, RecordAccepted, StoreCache,
         AnnounceNetwork, CompleteAttempt, TimerFires, WaitCancelled, ExitPoll,
         Recording, host, once, env
    <3>2. /\ startOnce # "fresh"
          /\ \A s \in Starters : starter[s].pc # "loading"
      BY <3>1 DEF Life, StartLife, InsideStartOnce
    <3>3. CASE RecordAccepted
      BY <3>1, <3>2, <3>3 DEF RecordAccepted, Carried
    <3>4. CASE ~RecordAccepted
      <4>1. poller' # "storing"
        BY <2>2, <3>4 DEF Poll, DiscardFetch, KeepFetch, RecordFailed,
           RecordNotModified, RecordRejected, StoreCache, AnnounceNetwork,
           CompleteAttempt, TimerFires, WaitCancelled, ExitPoll, Continue
      <4>2. QED
        BY <3>1, <3>2, <4>1 DEF Carried
    <3>5. QED
      BY <3>3, <3>4
  <2>3. ASSUME NEW s \in Starters, CallStart(s) \/ CtxDone(s) \/ Start(s)
        PROVE  Carried'
    <3>1. UNCHANGED <<configuration, outcome>>
      BY <2>3 DEF CallStart, CtxDone, Start, EnterStart, LoadNothing, LoadCache,
         LaunchPoller, SelectReady, SelectCtx, SelectFirst, InspectSnapshot,
         LastCheck, poll, env
    <3>2. starter \in [Starters -> StarterStates]
      BY DEF TypeOK
    <3>3. CASE EnterStart(s) /\ startOnce = "fresh"
      BY <3>1, <3>3 DEF EnterStart, core, poll, Carried
    <3>4. CASE LoadCache(s) \/ LaunchPoller(s)
      <4>1. /\ startOnce = "running"
            /\ \A t \in Starters : starter'[t].pc # "loading"
        <5>1. starter[s].pc \in InsideStartOnce
          BY <3>4 DEF LoadCache, LaunchPoller, At, InsideStartOnce
        <5>2. /\ startOnce = "running"
              /\ \A t \in Starters \ {s} : starter[t].pc \notin InsideStartOnce
          BY <5>1 DEF Life, StartLife
        <5>3. PICK pc \in {"launching", "selecting"} : GoTo(s, pc)
          BY <3>4 DEF LoadCache, LaunchPoller
        <5>4. /\ starter'[s].pc # "loading"
              /\ \A t \in Starters \ {s} : starter'[t] = starter[t]
          BY <3>2, <5>3 DEF GoTo, StarterStates
        <5>5. QED
          BY <5>2, <5>4 DEF InsideStartOnce
      <4>2. startOnce' # "fresh" /\ poller' # "storing"
        BY <3>4, <4>1 DEF LoadCache, LaunchPoller, once, poll, Life, StartLife
      <4>3. QED
        BY <4>1, <4>2 DEF Carried
    <3>5. ASSUME ~(EnterStart(s) /\ startOnce = "fresh"), ~LoadCache(s),
                 ~LaunchPoller(s)
          PROVE  Carried'
      <4>1. UNCHANGED <<snapshot, poller, startOnce>>
        BY <2>3, <3>5 DEF CallStart, CtxDone, Start, EnterStart, LoadNothing,
           SelectReady, SelectCtx, SelectFirst, InspectSnapshot, LastCheck,
           core, poll, once
      <4>2. \A t \in Starters : starter'[t].pc = "loading" =>
                                  starter[t].pc = "loading"
        BY <2>3, <3>2, <3>5 DEF CallStart, CtxDone, Start, EnterStart,
           LoadNothing, SelectReady, SelectCtx, SelectFirst, InspectSnapshot,
           LastCheck, GoTo, Return, NewStarter, StarterStates
      <4>3. QED
        BY <2>1, <3>1, <4>1, <4>2
    <3>6. QED
      BY <3>3, <3>4, <3>5
  <2>4. ASSUME NEW c \in Closers, CallClose(c) \/ Close(c) PROVE Carried'
    BY <2>1, <2>4 DEF CallClose, Close, EnterClose, ReadStop, AwaitDone,
                      CloseDone, core, poll, once, env
  <2>5. ASSUME NEW g \in Getters, Value(g) PROVE Carried'
    BY <2>1, <2>5 DEF Value, LoadSnapshot, Evaluate, core, poll, once, env
  <2>6. ASSUME NEW g \in Getters, NEW key \in FlagKeys, NEW kind \in Kinds,
               CallGetter(g, key, kind)
        PROVE  Carried'
    BY <2>1, <2>6 DEF CallGetter, core, poll, once, env
  <2>7. CASE ClockMoves \/ UNCHANGED vars
    BY <2>1, <2>7 DEF ClockMoves, vars, core, poll, once, host, env
  <2>8. CASE Restart
    BY <2>8 DEF Restart, Carried, NewStarter
  <2>9. QED
    BY <2>2, <2>3, <2>4, <2>5, <2>6, <2>7, <2>8 DEF Next
<1>3. QED
  BY <1>1, <1>2, TypeCorrect, LifeAlways, PTL DEF Spec

-----------------------------------------------------------------------------

\* The client implements ServedRuleset: its record and loadCache are the only
\* steps that change what is served or durable, and they are allowed ones.
THEOREM ImplementsServedRulesetAlways == Spec => ImplementsServedRuleset
<1>1. Init => Served!Init
  BY DEF Init, Served!Init, NoSnapshot, Served!Nothing
<1>2. TypeOK /\ Life /\ Carried /\ [Next]_vars => [Served!Next]_Served!vars
  <2> SUFFICES ASSUME TypeOK, Life, Carried, [Next]_vars
               PROVE  [Served!Next]_Served!vars
    OBVIOUS
  <2>1. CASE UNCHANGED <<snapshot, file, configuration, now>>
    BY <2>1 DEF Served!vars
  <2>2. CASE RecordAccepted
    <3>1. outcome.wire \in Wires
      BY <2>2, OutcomeType DEF RecordAccepted, TypeOK
    <3>2. /\ Served!Ours(outcome.wire)
          /\ Served!Issued(outcome.wire)
          /\ Served!Current(outcome.wire)
      BY <2>2, AcceptedWire DEF RecordAccepted
    <3>3. Served!Adopt(outcome.wire)
      BY <2>2, <3>2 DEF RecordAccepted, Served!Adopt, env
    <3>4. QED
      BY <3>1, <3>3 DEF Served!Next
  <2>3. CASE StoreCache
    <3>1. /\ snapshot = [source |-> "network", wire |-> outcome.wire]
          /\ configuration.cachePath
          /\ UNCHANGED <<configuration, now, snapshot>>
          /\ file' = outcome.wire \/ file' = file
      BY <2>3 DEF StoreCache, Carried, env
    <3>2. Served!Persist \/ UNCHANGED Served!vars
      BY <3>1 DEF Served!Persist, Served!vars
    <3>3. QED
      BY <3>2 DEF Served!Next
  <2>4. ASSUME NEW s \in Starters, LoadCache(s)
        PROVE  [Served!Next]_Served!vars
    <3>1. snapshot = NoSnapshot
      BY <2>4 DEF LoadCache, At, Carried
    <3>2. CASE Verdict(file, FALSE) = Accepted
      <4>1. Served!Ours(file) /\ Served!Issued(file)
        BY <3>2, AcceptedWire
      <4>2. Served!Recover
        BY <2>4, <3>1, <3>2, <4>1
        DEF LoadCache, Served!Recover, NoSnapshot, Served!Nothing, env
      <4>3. QED
        BY <4>2 DEF Served!Next
    <3>3. CASE Verdict(file, FALSE) # Accepted
      BY <2>4, <3>3 DEF LoadCache, Served!vars, env
    <3>4. QED
      BY <3>2, <3>3
  <2>5. CASE ClockMoves
    BY <2>5 DEF ClockMoves, Served!ClockMoves, Served!Next, core
  <2>6. CASE Restart
    BY <2>6 DEF Restart, Served!Restart, Served!Next, NoSnapshot,
                Served!Nothing
  <2>7. QED
    BY <2>1, <2>2, <2>3, <2>4, <2>5, <2>6, DataSteps
<1>3. QED
  BY <1>1, <1>2, TypeCorrect, LifeAlways, CarriedAlways, PTL
  DEF Spec, ImplementsServedRuleset, Served!Spec

\* Within a process the source of what is served only ever improves.
THEOREM SourceNeverRegressesAlways == Spec => SourceNeverRegresses
<1>1. TypeOK /\ Life /\ Carried /\ [Next]_vars =>
        (startOnce' # "fresh" =>
           /\ snapshot.source = "network" => snapshot'.source = "network"
           /\ snapshot.source = "cache" => snapshot'.source # "none")
  <2> SUFFICES ASSUME TypeOK, Life, Carried, [Next]_vars, startOnce' # "fresh"
               PROVE  /\ snapshot.source = "network" =>
                           snapshot'.source = "network"
                      /\ snapshot.source = "cache" => snapshot'.source # "none"
    OBVIOUS
  <2>1. CASE UNCHANGED <<snapshot, file, configuration, now>>
    BY <2>1, Zenon
  <2>2. CASE RecordAccepted
    BY <2>2 DEF RecordAccepted
  <2>3. CASE StoreCache
    BY <2>3 DEF StoreCache
  <2>4. ASSUME NEW s \in Starters, LoadCache(s) PROVE snapshot.source = "none"
    BY <2>4 DEF LoadCache, At, Carried, NoSnapshot
  <2>5. CASE ClockMoves
    BY <2>5 DEF ClockMoves, core
  <2>6. CASE Restart
    BY <2>6 DEF Restart
  <2>7. QED
    BY <2>1, <2>2, <2>3, <2>4, <2>5, <2>6, DataSteps
<1>2. QED
  BY <1>1, TypeCorrect, LifeAlways, CarriedAlways, PTL
  DEF Spec, SourceNeverRegresses

-----------------------------------------------------------------------------

\* Nothing is published, and nothing is held by a getter, that is not genuine
\* under the configuration of this process.
THEOREM NothingUntrustedServedAlways == Spec => []NothingUntrustedServed
<1> DEFINE Trusted(snap) == snap.source # "none" =>
             Genuine(snap.wire, configuration.policy, configuration.environment)
<1>1. Init => NothingUntrustedServed
  BY DEF Init, NothingUntrustedServed, NewGetter, NoSnapshot
<1>2. TypeOK /\ NothingUntrustedServed /\ [Next]_vars => NothingUntrustedServed'
  <2> SUFFICES ASSUME TypeOK, NothingUntrustedServed, [Next]_vars
               PROVE  NothingUntrustedServed'
    OBVIOUS
  <2>1. Trusted(snapshot) /\ \A g \in Getters : Trusted(getter[g].held)
    BY DEF NothingUntrustedServed
  <2>2. CASE Restart
    BY <2>2 DEF Restart, NothingUntrustedServed, NewGetter, NoSnapshot
  <2>3. CASE ~Restart
    <3>1. UNCHANGED configuration
      BY <2>3, DataSteps
      DEF RecordAccepted, StoreCache, LoadCache, ClockMoves, env
    <3>2. Trusted(snapshot)'
      <4>1. CASE UNCHANGED snapshot
        BY <2>1, <3>1, <4>1
      <4>2. CASE RecordAccepted
        BY <3>1, <4>2, AcceptedWire DEF RecordAccepted
      <4>3. ASSUME NEW s \in Starters, LoadCache(s), snapshot' # snapshot
            PROVE  Trusted(snapshot)'
        <5>1. /\ Verdict(file, FALSE) = Accepted
              /\ snapshot' = [source |-> "cache", wire |-> file]
          BY <4>3 DEF LoadCache
        <5>2. Genuine(file, configuration.policy, configuration.environment)
          BY <5>1, AcceptedWire
        <5>3. QED
          BY <3>1, <5>1, <5>2
      <4>4. \/ UNCHANGED snapshot
            \/ RecordAccepted
            \/ \E s \in Starters : LoadCache(s) /\ snapshot' # snapshot
        BY <2>3, DataSteps DEF StoreCache, ClockMoves, core
      <4>5. QED
        BY <4>1, <4>2, <4>3, <4>4
    <3>3. \A g \in Getters : Trusted(getter[g].held)'
      <4> getter \in [Getters -> GetterStates]
        BY DEF TypeOK
      <4>1. \A g \in Getters :
              getter'[g].held \in {getter[g].held, snapshot, NoSnapshot}
        <5>1. ASSUME NEW g \in Getters, LoadSnapshot(g) \/ Evaluate(g),
                     NEW h \in Getters
              PROVE  getter'[h].held \in {getter[h].held, snapshot, NoSnapshot}
          <6>1. CASE LoadSnapshot(g)
            BY <6>1, LoadEffect
          <6>2. CASE Evaluate(g)
            BY <6>2 DEF Evaluate, GetterStates
          <6>3. QED
            BY <5>1, <6>1, <6>2
        <5>2. ASSUME NEW g \in Getters, NEW key \in FlagKeys, NEW kind \in Kinds,
                     CallGetter(g, key, kind), NEW h \in Getters
              PROVE  getter'[h].held \in {getter[h].held, snapshot, NoSnapshot}
          BY <5>2 DEF CallGetter, NewGetter
        <5>3. QED
          BY <2>3, <5>1, <5>2, GetterSteps
      <4>2. Trusted(NoSnapshot)
        BY DEF NoSnapshot
      <4>3. QED
        BY <2>1, <3>1, <4>1, <4>2
    <3>4. QED
      BY <3>2, <3>3 DEF NothingUntrustedServed
  <2>4. QED
    BY <2>2, <2>3
<1>3. QED
  BY <1>1, <1>2, TypeCorrect, PTL DEF Spec

\* A getter that has not answered has no outcome, and one that served a value
\* served the one of the ruleset it holds.
Answered(r) ==
  /\ r.pc \in {"called", "evaluating"} => r.outcome = "none"
  /\ r.outcome = "served" =>
       /\ r.key \in DOMAIN Flags(r.held)
       /\ Flags(r.held)[r.key].kind = r.kind
       /\ Flags(r.held)[r.key].answer = r.answer
       /\ Flags(r.held)[r.key].answer # NoValue

\* A served value is the answer of one ruleset to the question asked.
THEOREM AnswersComeFromOneRulesetAlways == Spec => []AnswersComeFromOneRuleset
<1> DEFINE AllAnswered == \A g \in Getters : Answered(getter[g])
<1>1. Init => AllAnswered
  BY DEF Init, NewGetter, Answered
<1>2. TypeOK /\ Holding /\ AllAnswered /\ [Next]_vars => AllAnswered'
  <2> SUFFICES ASSUME TypeOK, Holding, AllAnswered, [Next]_vars,
                      NEW h \in Getters
               PROVE  Answered(getter'[h])
    OBVIOUS
  <2> getter \in [Getters -> GetterStates] /\ getter[h] \in GetterStates
    BY DEF TypeOK
  <2>1. CASE getter'[h] = getter[h]
    BY <2>1
  <2>2. ASSUME LoadSnapshot(h) PROVE Answered(getter'[h])
    <3>1. getter[h].outcome = "none"
      BY <2>2 DEF LoadSnapshot, Answered
    <3>2. QED
      BY <2>2, <3>1, LoadEffect DEF Answered
  <2>3. ASSUME Evaluate(h) PROVE Answered(getter'[h])
    <3>1. /\ getter'[h].pc = "answered"
          /\ getter'[h].key = getter[h].key
          /\ getter'[h].kind = getter[h].kind
          /\ getter'[h].held = getter[h].held
          /\ getter'[h].answer = Answer(h)
          /\ getter'[h].outcome = IF Answer(h) = NoValue THEN "noValue"
                                                         ELSE "served"
      BY <2>3 DEF Evaluate, GetterStates
    <3>2. /\ getter[h].key \in DOMAIN Flags(getter[h].held)
          /\ Flags(getter[h].held)[getter[h].key].kind = getter[h].kind
      BY <2>3 DEF Evaluate, Holding
    <3>3. QED
      BY <3>1, <3>2 DEF Answered, Answer
  <2>4. ASSUME NEW key \in FlagKeys, NEW kind \in Kinds, CallGetter(h, key, kind)
        PROVE  Answered(getter'[h])
    BY <2>4 DEF CallGetter, NewGetter, Answered
  <2>5. CASE Restart
    BY <2>5 DEF Restart, NewGetter, Answered
  <2>6. ASSUME NEW g \in Getters \ {h},
               \/ LoadSnapshot(g) \/ Evaluate(g)
               \/ \E key \in FlagKeys, kind \in Kinds : CallGetter(g, key, kind)
        PROVE  getter'[h] = getter[h]
    BY <2>6 DEF LoadSnapshot, Evaluate, CallGetter
  <2>7. QED
    BY <2>1, <2>2, <2>3, <2>4, <2>5, <2>6, GetterSteps
<1>3. AllAnswered => AnswersComeFromOneRuleset
  BY DEF Answered, AnswersComeFromOneRuleset
<1> HIDE DEF AllAnswered
<1>4. QED
  BY <1>1, <1>2, <1>3, TypeCorrect, PTL DEF Spec
=============================================================================
