---------------------------- MODULE ClientProofs ----------------------------
(***************************************************************************)
(* Proofs about the client for any numbers of goroutines, any envelopes,   *)
(* outcomes and configurations.                                            *)
(***************************************************************************)
EXTENDS ClientProperties, VerifierProofs

\* What record may be asked to record, and what it then knows of the wire.
LEMMA OutcomeType ==
  ASSUME outcome \in Outcomes \cup {NoOutcome}, Recording({"success"})
  PROVE  outcome.wire \in Wires /\ outcome.etag \in ETags \cup {NoETag}
<1>1. outcome.kind = "success"
  BY DEF Recording
<1>2. outcome # NoOutcome
  BY <1>1 DEF NoOutcome
<1>3. QED
  BY <1>1, <1>2, ClientAssumption

\* A failure keeps the state well formed.
LEMMA FailedType ==
  ASSUME state \in States,
         NEW status \in FailureKinds \cup {"rejectedEnvelope"}
  PROVE  Failed(state, status) \in States
<1> DEFINE streak == IF state.consecutiveFailures < MaxFailures
                     THEN state.consecutiveFailures + 1 ELSE MaxFailures
<1>1. MaxFailures \in Nat
  BY ClientAssumption
<1>2. state.consecutiveFailures \in 0..MaxFailures
  BY DEF States
<1>3. streak \in 0..MaxFailures
  BY <1>1, <1>2
<1> HIDE DEF streak
<1>4. [state EXCEPT !.lastFetchStatus = status,
                    !.consecutiveFailures = streak] \in States
  BY <1>3 DEF States
<1>5. QED
  BY <1>4 DEF Failed, streak

\* Every step of the poller keeps every variable in its type.
LEMMA PollType == TypeOK /\ Poll => TypeOK'
<1> SUFFICES ASSUME TypeOK, Poll PROVE TypeOK'
  OBVIOUS
<1> USE DEF TypeOK, core, poll, once, chan, host, env
<1>1. CASE DiscardFetch
  BY <1>1 DEF DiscardFetch, CloseChannel, Channels
<1>2. ASSUME NEW o \in Outcomes, KeepFetch(o) PROVE TypeOK'
  BY <1>2 DEF KeepFetch
<1>3. CASE RecordFailed
  <2>1. outcome.kind \in FailureKinds
    BY <1>3 DEF RecordFailed, Recording
  <2>2. state' \in States
    BY <1>3, <2>1, FailedType DEF RecordFailed
  <2>3. QED
    BY <1>3, <2>2 DEF RecordFailed, Continue
<1>4. CASE RecordNotModified
  <2>1. 0 \in 0..MaxFailures
    BY ClientAssumption
  <2>2. state' \in States
    BY <1>4, <2>1 DEF RecordNotModified, States
  <2>3. QED
    BY <1>4, <2>2 DEF RecordNotModified, Continue
<1>5. CASE RecordRejected
  <2>1. Failed(state, "rejectedEnvelope") \in States
    BY FailedType
  <2>2. Verdict(outcome.wire, TRUE) \in Rejections \cup {Accepted}
    BY VerdictType DEF Verdict
  <2>3. state' \in States
    BY <1>5, <2>1, <2>2 DEF RecordRejected, States
  <2>4. QED
    BY <1>5, <2>3 DEF RecordRejected, Continue
<1>6. CASE RecordAccepted
  <2>1. outcome.wire \in Wires /\ outcome.etag \in ETags \cup {NoETag}
    BY <1>6, OutcomeType DEF RecordAccepted
  <2> 0 \in 0..MaxFailures
    BY ClientAssumption
  <2>2. state' \in States
    BY <1>6, <2>1 DEF RecordAccepted, States
  <2>3. snapshot' \in Snapshots
    BY <1>6, <2>1 DEF RecordAccepted, Snapshots
  <2>4. QED
    BY <1>6, <2>2, <2>3 DEF RecordAccepted
<1>7. CASE StoreCache
  <2>1. state' \in States
    BY <1>7 DEF StoreCache, States
  <2>2. outcome.wire \in Wires \cup {NoBytes}
    BY ClientAssumption DEF NoOutcome
  <2>3. QED
    BY <1>7, <2>1, <2>2 DEF StoreCache
<1>8. CASE AnnounceNetwork
  BY <1>8 DEF AnnounceNetwork, CloseChannel, Channels, Continue
<1>9. CASE CompleteAttempt
  BY <1>9 DEF CompleteAttempt, CloseChannel, Channels
<1>10. CASE TimerFires
  BY <1>10 DEF TimerFires
<1>11. CASE WaitCancelled
  BY <1>11 DEF WaitCancelled
<1>12. CASE ExitPoll
  BY <1>12 DEF ExitPoll, CloseChannel, Channels
<1>13. QED
  BY <1>1, <1>2, <1>3, <1>4, <1>5, <1>6, <1>7, <1>8, <1>9, <1>10, <1>11, <1>12
  DEF Poll

\* So does every step of a Start,
LEMMA StartType == ASSUME NEW s \in Starters PROVE TypeOK /\ Start(s) => TypeOK'
<1> SUFFICES ASSUME TypeOK, Start(s) PROVE TypeOK'
  OBVIOUS
<1> USE DEF TypeOK, poll, once, chan, env
<1>1. ASSUME NEW pc \in {"loading", "launching", "selecting", "inspecting"},
             GoTo(s, pc)
      PROVE  starter' \in [Starters -> StarterStates]
  BY <1>1 DEF GoTo, StarterStates
<1>2. ASSUME NEW result \in {"ready", "timedOut"}, Return(s, result)
      PROVE  starter' \in [Starters -> StarterStates]
  <2>1. [starter[s] EXCEPT !.pc = "returned", !.result = result]
          \in StarterStates
    BY DEF StarterStates
  <2>2. QED
    BY <1>2, <2>1 DEF Return
<1>3. CASE EnterStart(s)
  BY <1>3, <1>1 DEF EnterStart, core
<1>4. CASE LoadNothing(s)
  BY <1>4, <1>1 DEF LoadNothing, core
<1>5. CASE LoadCache(s)
  <2>1. file \in Wires
    BY <1>5 DEF LoadCache
  <2>2. state' \in States
    BY <1>5 DEF LoadCache, States
  <2>3. snapshot' = [source |-> "cache", wire |-> file] \/ snapshot' = snapshot
    BY <1>5 DEF LoadCache
  <2>4. snapshot' \in Snapshots
    BY <2>1, <2>3 DEF Snapshots
  <2>5. QED
    BY <1>5, <1>1, <2>2, <2>4 DEF LoadCache
<1>6. CASE LaunchPoller(s)
  BY <1>6, <1>1 DEF LaunchPoller, core
<1>7. CASE SelectReady(s)
  BY <1>7, <1>2 DEF SelectReady, core
<1>8. CASE SelectCtx(s)
  BY <1>8, <1>1 DEF SelectCtx, core
<1>9. CASE SelectFirst(s)
  BY <1>9, <1>1, <1>2 DEF SelectFirst, core
<1>10. CASE InspectSnapshot(s)
  <2>1. /\ [starter[s] EXCEPT !.pc = "returned", !.result = "cacheOnly",
                              !.saw = snapshot] \in StarterStates
        /\ [starter[s] EXCEPT !.pc = "checking", !.saw = snapshot]
             \in StarterStates
    BY DEF StarterStates
  <2>2. QED
    BY <1>10, <2>1 DEF InspectSnapshot, core
<1>11. CASE LastCheck(s)
  BY <1>11, <1>2 DEF LastCheck, core
<1>12. QED
  BY <1>3, <1>4, <1>5, <1>6, <1>7, <1>8, <1>9, <1>10, <1>11 DEF Start

\* of a Close,
LEMMA CloseType == ASSUME NEW c \in Closers PROVE TypeOK /\ Close(c) => TypeOK'
<1> SUFFICES ASSUME TypeOK, Close(c) PROVE TypeOK'
  OBVIOUS
<1> USE DEF TypeOK, core, poll, chan, env
<1>1. CASE EnterClose(c)
  BY <1>1 DEF EnterClose
<1>2. CASE ReadStop(c)
  BY <1>2 DEF ReadStop
<1>3. CASE AwaitDone(c)
  BY <1>3 DEF AwaitDone
<1>4. CASE CloseDone(c)
  BY <1>4 DEF CloseDone, CloseChannel, Channels, once
<1>5. QED
  BY <1>1, <1>2, <1>3, <1>4 DEF Close

\* A getter that evaluates holds a ruleset that has its flag, of its kind.
Holding ==
  \A g \in Getters :
    getter[g].pc = "evaluating" =>
      /\ getter[g].held # NoSnapshot
      /\ getter[g].key \in DOMAIN Flags(getter[g].held)
      /\ Flags(getter[g].held)[getter[g].key].kind = getter[g].kind

\* of a getter, which for that must hold a ruleset when it evaluates,
LEMMA ValueType ==
  ASSUME NEW g \in Getters PROVE TypeOK /\ Holding /\ Value(g) => TypeOK'
<1> SUFFICES ASSUME TypeOK, Holding, Value(g) PROVE TypeOK'
  OBVIOUS
<1> USE DEF TypeOK, core, poll, once, chan, env
<1>1. CASE LoadSnapshot(g)
  <2> getter[g] \in GetterStates
    OBVIOUS
  <2>1. ASSUME NEW reason \in {"noSnapshot", "unknownFlag", "kindMismatch"}
        PROVE  [getter[g] EXCEPT !.pc = "answered", !.outcome = reason]
                 \in GetterStates
    BY DEF GetterStates
  <2>2. [getter[g] EXCEPT !.pc = "evaluating", !.held = snapshot]
          \in GetterStates
    BY DEF GetterStates
  <2>3. \E r \in GetterStates : getter' = [getter EXCEPT ![g] = r]
    BY <1>1, <2>1, <2>2 DEF LoadSnapshot
  <2>4. getter' \in [Getters -> GetterStates]
    BY <2>3
  <2>5. UNCHANGED <<core, poll, once, chan, starter, closer, env>>
    BY <1>1 DEF LoadSnapshot
  <2>6. QED
    BY <2>4, <2>5
<1>2. CASE Evaluate(g)
  <2> getter[g] \in GetterStates
    OBVIOUS
  <2>1. /\ getter[g].held # NoSnapshot
        /\ getter[g].key \in DOMAIN Flags(getter[g].held)
    BY <1>2 DEF Evaluate, Holding
  <2>2. getter[g].held.wire \in Wires
    BY <2>1 DEF GetterStates, Snapshots
  <2>3. Answer(g) \in Answers
    BY <2>1, <2>2, ClientAssumption DEF Answer, Flags
  <2>4. ASSUME NEW reason \in {"noValue", "served"}
        PROVE  [getter[g] EXCEPT !.pc = "answered", !.answer = Answer(g),
                                 !.outcome = reason] \in GetterStates
    BY <2>3 DEF GetterStates
  <2>5. \E r \in GetterStates : getter' = [getter EXCEPT ![g] = r]
    BY <1>2, <2>4 DEF Evaluate
  <2>6. getter' \in [Getters -> GetterStates]
    BY <2>5
  <2>7. QED
    BY <1>2, <2>6 DEF Evaluate
<1>3. QED
  BY <1>1, <1>2 DEF Value

\* What New builds is well formed.
LEMMA NewType ==
  /\ NewStarter \in StarterStates
  /\ NewGetter \in GetterStates
  /\ NoSnapshot \in Snapshots
  /\ \A cachePath : NewState(cachePath) \in States
<1>1. NoSnapshot \in Snapshots
  BY DEF Snapshots
<1>2. NewStarter \in StarterStates
  BY <1>1 DEF NewStarter, StarterStates
<1>3. NewGetter \in GetterStates
  BY <1>1, ClientAssumption DEF NewGetter, GetterStates
<1>4. ASSUME NEW cachePath PROVE NewState(cachePath) \in States
  <2>1. 0 \in 0..MaxFailures
    BY ClientAssumption
  <2>2. QED
    BY <2>1 DEF NewState, States
<1>5. QED
  BY <1>1, <1>2, <1>3, <1>4

\* and of the host: calls, the ends of contexts, the clock and restarts.
LEMMA HostType ==
  ASSUME TypeOK,
         \/ \E s \in Starters : CallStart(s) \/ CtxDone(s)
         \/ \E c \in Closers : CallClose(c)
         \/ \E g \in Getters, key \in FlagKeys, kind \in Kinds :
              CallGetter(g, key, kind)
         \/ ClockMoves
         \/ Restart
  PROVE  TypeOK'
<1> USE DEF TypeOK
<1>2. ASSUME NEW s \in Starters, CallStart(s) PROVE TypeOK'
  <2>1. [NewStarter EXCEPT !.pc = "called"] \in StarterStates
    BY NewType DEF StarterStates
  <2>2. QED
    BY <1>2, <2>1 DEF CallStart, core, poll, once, chan, env
<1>3. ASSUME NEW s \in Starters, CtxDone(s) PROVE TypeOK'
  <2>1. [starter[s] EXCEPT !.ctxDone = TRUE] \in StarterStates
    BY DEF StarterStates
  <2>2. starter' \in [Starters -> StarterStates]
    BY <1>3, <2>1 DEF CtxDone
  <2>3. QED
    BY <1>3, <2>2 DEF CtxDone, core, poll, once, chan, env
<1>4. ASSUME NEW c \in Closers, CallClose(c) PROVE TypeOK'
  BY <1>4 DEF CallClose, core, poll, once, chan, env
<1>5. ASSUME NEW g \in Getters, NEW key \in FlagKeys, NEW kind \in Kinds,
             CallGetter(g, key, kind)
      PROVE  TypeOK'
  <2>1. [NewGetter EXCEPT !.pc = "called", !.key = key, !.kind = kind]
          \in GetterStates
    BY NewType DEF GetterStates
  <2>2. getter' \in [Getters -> GetterStates]
    BY <1>5, <2>1 DEF CallGetter
  <2>3. UNCHANGED <<core, poll, once, chan, starter, closer, env>>
    BY <1>5 DEF CallGetter
  <2>4. QED
    BY <2>2, <2>3 DEF core, poll, once, chan, env
<1>6. CASE ClockMoves
  BY <1>6 DEF ClockMoves, core, poll, once, chan, host
<1>7. CASE Restart
  BY <1>7, NewType DEF Restart
<1>8. QED
  BY <1>2, <1>3, <1>4, <1>5, <1>6, <1>7

\* The steps that touch a getter; all others leave them alone.
LEMMA GetterSteps ==
  ASSUME [Next]_vars
  PROVE  \/ UNCHANGED getter
         \/ \E g \in Getters : LoadSnapshot(g) \/ Evaluate(g)
         \/ \E g \in Getters, key \in FlagKeys, kind \in Kinds :
              CallGetter(g, key, kind)
         \/ Restart
<1>1. Poll => UNCHANGED getter
  BY DEF Poll, DiscardFetch, KeepFetch, RecordFailed, RecordNotModified,
         RecordRejected, RecordAccepted, StoreCache, AnnounceNetwork,
         CompleteAttempt, TimerFires, WaitCancelled, ExitPoll, host
<1>2. ASSUME NEW s \in Starters
      PROVE  CallStart(s) \/ CtxDone(s) \/ Start(s) => UNCHANGED getter
  BY DEF CallStart, CtxDone, Start, EnterStart, LoadNothing, LoadCache,
         LaunchPoller, SelectReady, SelectCtx, SelectFirst, InspectSnapshot,
         LastCheck
<1>3. ASSUME NEW c \in Closers
      PROVE  CallClose(c) \/ Close(c) => UNCHANGED getter
  BY DEF CallClose, Close, EnterClose, ReadStop, AwaitDone, CloseDone
<1>4. ClockMoves \/ UNCHANGED vars => UNCHANGED getter
  BY DEF ClockMoves, vars, host
<1>5. QED
  BY <1>1, <1>2, <1>3, <1>4 DEF Next, Value

\* What a getter's look at the snapshot comes to.
LEMMA LoadEffect ==
  ASSUME NEW g \in Getters, TypeOK, LoadSnapshot(g)
  PROVE  /\ \A h \in Getters \ {g} : getter'[h] = getter[h]
         /\ getter'[g].key = getter[g].key
         /\ getter'[g].kind = getter[g].kind
         /\ \/ /\ getter'[g].pc = "answered"
               /\ getter'[g].held = getter[g].held
               /\ getter'[g].outcome \in {"noSnapshot", "unknownFlag",
                                          "kindMismatch"}
            \/ /\ getter'[g].pc = "evaluating"
               /\ getter'[g].held = snapshot
               /\ getter'[g].outcome = getter[g].outcome
               /\ snapshot # NoSnapshot
               /\ getter[g].key \in DOMAIN Flags(snapshot)
               /\ Flags(snapshot)[getter[g].key].kind = getter[g].kind
<1>1. getter \in [Getters -> GetterStates] /\ getter[g] \in GetterStates
  BY DEF TypeOK
<1>2. \A h \in Getters \ {g} : getter'[h] = getter[h]
  BY <1>1 DEF LoadSnapshot
<1>3. CASE \/ snapshot.source = "none"
           \/ getter[g].key \notin DOMAIN Flags(snapshot)
           \/ Flags(snapshot)[getter[g].key].kind # getter[g].kind
  <2>1. PICK reason \in {"noSnapshot", "unknownFlag", "kindMismatch"} :
          getter'[g] = [getter[g] EXCEPT !.pc = "answered", !.outcome = reason]
    BY <1>1, <1>3 DEF LoadSnapshot
  <2>2. QED
    BY <1>1, <1>2, <2>1 DEF GetterStates
<1>4. CASE /\ snapshot.source # "none"
           /\ getter[g].key \in DOMAIN Flags(snapshot)
           /\ Flags(snapshot)[getter[g].key].kind = getter[g].kind
  <2>1. getter'[g] = [getter[g] EXCEPT !.pc = "evaluating", !.held = snapshot]
    BY <1>1, <1>4 DEF LoadSnapshot
  <2>2. snapshot # NoSnapshot
    BY <1>4 DEF NoSnapshot
  <2>3. QED
    BY <1>1, <1>2, <1>4, <2>1, <2>2 DEF GetterStates
<1>5. QED
  BY <1>3, <1>4

\* Only a getter's own steps change what it holds, and it holds what it checked.
LEMMA HoldingStep == TypeOK /\ Holding /\ [Next]_vars => Holding'
<1> SUFFICES ASSUME TypeOK, Holding, [Next]_vars PROVE Holding'
  OBVIOUS
<1>1. ASSUME UNCHANGED getter PROVE Holding'
  BY <1>1 DEF Holding
<1>2. ASSUME NEW g \in Getters, LoadSnapshot(g) PROVE Holding'
  BY <1>2, LoadEffect DEF Holding
<1>3. ASSUME NEW g \in Getters, Evaluate(g) PROVE Holding'
  <2>1. getter \in [Getters -> GetterStates] /\ getter[g] \in GetterStates
    BY DEF TypeOK
  <2>2. \A h \in Getters \ {g} : getter'[h] = getter[h]
    BY <1>3, <2>1 DEF Evaluate
  <2>3. getter'[g].pc = "answered"
    BY <1>3, <2>1 DEF Evaluate, GetterStates
  <2>4. QED
    BY <2>2, <2>3 DEF Holding
<1>4. ASSUME NEW g \in Getters, NEW key \in FlagKeys, NEW kind \in Kinds,
             CallGetter(g, key, kind)
      PROVE  Holding'
  BY <1>4 DEF CallGetter, TypeOK, Holding, NewGetter
<1>5. CASE Restart
  BY <1>5 DEF Restart, Holding, NewGetter
<1>6. QED
  BY <1>1, <1>2, <1>3, <1>4, <1>5, GetterSteps

\* Type correctness, for every number of goroutines and every configuration,
\* with what makes the evaluation of a held flag well defined.
THEOREM TypeCorrect == Spec => [](TypeOK /\ Holding)
<1>1. Init => TypeOK /\ Holding
  <2>1. Init => TypeOK
    BY NewType DEF Init, TypeOK
  <2>2. Init => Holding
    BY DEF Init, Holding, NewGetter
  <2>3. QED
    BY <2>1, <2>2
<1>2. TypeOK /\ Holding /\ [Next]_vars => TypeOK'
  <2> SUFFICES ASSUME TypeOK, Holding, [Next]_vars PROVE TypeOK'
    OBVIOUS
  <2>1. CASE UNCHANGED vars
    BY <2>1 DEF TypeOK, vars, core, poll, once, chan, host, env
  <2>2. CASE Next
    BY <2>2, PollType, StartType, CloseType, ValueType, HostType DEF Next
  <2>3. QED
    BY <2>1, <2>2
<1>3. QED
  BY <1>1, <1>2, HoldingStep, PTL DEF Spec

-----------------------------------------------------------------------------
(* The life of a client: who may close a channel, and what a Close has     *)
(* waited for.                                                             *)

InsideStartOnce == {"loading", "launching"}
InsideCloseOnce == {"reading", "awaiting", "closing"}

\* startOnce runs one function, which launches the one poller there will be.
StartLife ==
  /\ \A s \in Starters :
       starter[s].pc \in InsideStartOnce => startOnce = "running"
  /\ \A s, t \in Starters :
       /\ starter[s].pc \in InsideStartOnce
       /\ starter[t].pc \in InsideStartOnce
       => s = t
  /\ startOnce = "done" <=> poller # "none"
  /\ stop = TRUE <=> poller # "none"

\* closeOnce runs one function, which either cancels the poller and waits, or
\* closes done, but never both.
CloseLife ==
  /\ \A c \in Closers :
       /\ closer[c] \in InsideCloseOnce => closeOnce = "running"
       /\ closer[c] \in {"reading", "closing"} => cancelled = FALSE
       /\ closer[c] = "awaiting" => cancelled = TRUE
       /\ closer[c] = "returned" => closeOnce = "done"
  /\ \A c, d \in Closers :
       closer[c] \in InsideCloseOnce /\ closer[d] \in InsideCloseOnce => c = d
  /\ cancelled = TRUE => stop = TRUE /\ closeOnce # "fresh"
  /\ closeOnce = "done" /\ cancelled = TRUE => poller = "exited"

\* A channel that somebody may still close is open.
ChannelLife ==
  /\ panicked = FALSE
  /\ poller \in {"exiting", "exited"} => cancelled = TRUE
  /\ "done" \in closed =>
       \/ poller = "exited"
       \/ closeOnce = "done" /\ cancelled = FALSE
  /\ poller \notin {"exiting", "exited"} /\ first = TRUE =>
       "firstAttempt" \notin closed

Life == StartLife /\ CloseLife /\ ChannelLife

\* Poller states in which its goroutine is on its way, and not leaving.
Running == {"fetching", "recording", "storing", "announcing", "recorded",
            "waiting"}

\* The poller closes firstAttempt once, done once and only if nobody else did,
\* and exits only when it was cancelled.
LEMMA PollLife == TypeOK /\ Life /\ Poll => Life'
<1> SUFFICES ASSUME TypeOK, Life, Poll PROVE Life'
  OBVIOUS
<1>1. UNCHANGED <<starter, closer, startOnce, closeOnce, stop, cancelled>>
  BY DEF Poll, DiscardFetch, KeepFetch, RecordFailed, RecordNotModified,
         RecordRejected, RecordAccepted, StoreCache, AnnounceNetwork,
         CompleteAttempt, TimerFires, WaitCancelled, ExitPoll, host, once
<1>2. ASSUME poller \in Running, poller' \in Running,
             UNCHANGED <<panicked, first>>,
             closed' \in {closed, closed \cup {"networkReady"}}
      PROVE  Life'
  BY <1>1, <1>2 DEF Life, StartLife, CloseLife, ChannelLife, Running
<1>3. ASSUME NEW o \in Outcomes, KeepFetch(o) PROVE Life'
  BY <1>2, <1>3 DEF KeepFetch, chan, Running
<1>4. CASE RecordFailed \/ RecordNotModified \/ RecordRejected
  BY <1>2, <1>4 DEF RecordFailed, RecordNotModified, RecordRejected, Recording,
                    Continue, chan, Running
<1>5. CASE RecordAccepted
  BY <1>2, <1>5 DEF RecordAccepted, Recording, chan, Running
<1>6. CASE StoreCache \/ TimerFires
  BY <1>2, <1>6 DEF StoreCache, TimerFires, chan, Running
<1>7. CASE AnnounceNetwork
  <2>1. panicked' = panicked /\ closed' \in {closed, closed \cup {"networkReady"}}
    BY <1>7 DEF AnnounceNetwork, CloseChannel, chan, TypeOK
  <2>2. QED
    BY <1>2, <1>7, <2>1 DEF AnnounceNetwork, Continue, Running
<1>8. CASE CompleteAttempt
  <2>1. /\ poller = "recorded" /\ poller' = "waiting" /\ first' = FALSE
        /\ panicked' = FALSE
        /\ closed' \in {closed, closed \cup {"firstAttempt"}}
    BY <1>8 DEF CompleteAttempt, CloseChannel, chan, TypeOK, Life, ChannelLife
  <2>2. QED
    BY <1>1, <2>1 DEF Life, StartLife, CloseLife, ChannelLife
<1>9. CASE DiscardFetch
  <2>1. /\ poller = "fetching" /\ poller' = "exiting" /\ cancelled = TRUE
        /\ panicked' = FALSE
        /\ closed' \in {closed, closed \cup {"firstAttempt"}}
    BY <1>9 DEF DiscardFetch, CloseChannel, chan, TypeOK, Life, ChannelLife
  <2>2. QED
    BY <1>1, <2>1 DEF Life, StartLife, CloseLife, ChannelLife
<1>10. CASE WaitCancelled
  <2>1. /\ poller = "waiting" /\ poller' = "exiting" /\ cancelled = TRUE
        /\ panicked' = FALSE /\ closed' = closed
    BY <1>10 DEF WaitCancelled, chan, TypeOK, Life, ChannelLife
  <2>2. QED
    BY <1>1, <2>1 DEF Life, StartLife, CloseLife, ChannelLife
<1>11. CASE ExitPoll
  <2>1. /\ poller = "exiting" /\ poller' = "exited"
        /\ cancelled = TRUE
        /\ "done" \notin closed
    BY <1>11 DEF ExitPoll, Life, ChannelLife
  <2>2. panicked' = FALSE
    BY <1>11, <2>1 DEF ExitPoll, CloseChannel, Life, ChannelLife, TypeOK
  <2>3. QED
    BY <1>1, <2>1, <2>2 DEF Life, StartLife, CloseLife, ChannelLife
<1>12. QED
  BY <1>3, <1>4, <1>5, <1>6, <1>7, <1>8, <1>9, <1>10, <1>11 DEF Poll

\* A Start enters the Once alone and launches the one poller.
LEMMA StartsLife ==
  ASSUME NEW s \in Starters, TypeOK, Life, CallStart(s) \/ CtxDone(s) \/ Start(s)
  PROVE  Life'
<1> starter \in [Starters -> StarterStates] /\ starter[s] \in StarterStates
  BY DEF TypeOK
<1>1. UNCHANGED <<closer, closeOnce, cancelled, closed, panicked, first>>
  BY DEF CallStart, CtxDone, Start, EnterStart, LoadNothing, LoadCache,
         LaunchPoller, SelectReady, SelectCtx, SelectFirst, InspectSnapshot,
         LastCheck, chan, once, poll
<1>2. ASSUME \A t \in Starters : starter'[t].pc \in InsideStartOnce =>
                                   starter[t].pc \in InsideStartOnce,
             UNCHANGED <<startOnce, stop, poller>>
      PROVE  Life'
  BY <1>1, <1>2 DEF Life, StartLife, CloseLife, ChannelLife
<1>3. ASSUME NEW r, starter' = [starter EXCEPT ![s] = r],
             r.pc \in InsideStartOnce => starter[s].pc \in InsideStartOnce
      PROVE  \A t \in Starters : starter'[t].pc \in InsideStartOnce =>
                                   starter[t].pc \in InsideStartOnce
  BY <1>3
<1>4. ASSUME NEW pc, GoTo(s, pc),
             pc \in InsideStartOnce => starter[s].pc \in InsideStartOnce
      PROVE  \A t \in Starters : starter'[t].pc \in InsideStartOnce =>
                                   starter[t].pc \in InsideStartOnce
  BY <1>4 DEF GoTo, StarterStates
<1>5. ASSUME NEW result, Return(s, result)
      PROVE  \A t \in Starters : starter'[t].pc \in InsideStartOnce =>
                                   starter[t].pc \in InsideStartOnce
  BY <1>5 DEF Return, StarterStates, InsideStartOnce
<1>6. CASE CallStart(s)
  BY <1>2, <1>3, <1>6
  DEF CallStart, NewStarter, InsideStartOnce, once, poll
<1>7. CASE CtxDone(s)
  <2>1. \A t \in Starters : starter'[t].pc = starter[t].pc
    BY <1>7 DEF CtxDone, StarterStates
  <2>2. QED
    BY <1>2, <1>7, <2>1 DEF CtxDone, once, poll
<1>8. ASSUME EnterStart(s), startOnce = "fresh" PROVE Life'
  <2>1. \A t \in Starters : starter[t].pc \notin InsideStartOnce
    BY <1>8 DEF Life, StartLife
  <2>2. /\ startOnce' = "running"
        /\ poller' = "none" /\ stop' = stop /\ stop # TRUE
        /\ UNCHANGED poller
        /\ \A t \in Starters \ {s} : starter'[t] = starter[t]
    BY <1>8 DEF EnterStart, GoTo, poll, Life, StartLife, TypeOK
  <2>3. QED
    BY <1>1, <2>1, <2>2 DEF Life, StartLife, CloseLife, ChannelLife
<1>9. ASSUME EnterStart(s), startOnce # "fresh" PROVE Life'
  BY <1>2, <1>4, <1>9 DEF EnterStart, InsideStartOnce, poll
<1>10. CASE LoadNothing(s)
  BY <1>2, <1>4, <1>10 DEF LoadNothing, At, InsideStartOnce, once, poll
<1>11. CASE LoadCache(s)
  BY <1>2, <1>4, <1>11 DEF LoadCache, At, InsideStartOnce, once, poll
<1>12. CASE LaunchPoller(s)
  <2>1. starter[s].pc \in InsideStartOnce
    BY <1>12 DEF LaunchPoller, At, InsideStartOnce
  <2>2. poller = "none" /\ stop # TRUE /\ cancelled # TRUE
    BY <2>1 DEF Life, StartLife, CloseLife
  <2>3. \A t \in Starters : starter'[t].pc \notin InsideStartOnce
    BY <1>12, <2>1 DEF LaunchPoller, GoTo, Life, StartLife, StarterStates,
                       InsideStartOnce
  <2>4. startOnce' = "done" /\ stop' = TRUE /\ poller' = "fetching"
    BY <1>12 DEF LaunchPoller
  <2>5. QED
    BY <1>1, <2>2, <2>3, <2>4 DEF Life, StartLife, CloseLife, ChannelLife
<1>13. CASE SelectReady(s) \/ LastCheck(s)
  BY <1>2, <1>5, <1>13 DEF SelectReady, LastCheck, once, poll
<1>14. CASE SelectCtx(s)
  BY <1>2, <1>4, <1>14 DEF SelectCtx, InsideStartOnce, once, poll
<1>15. CASE SelectFirst(s)
  <2>1. \A t \in Starters : starter'[t].pc \in InsideStartOnce =>
                              starter[t].pc \in InsideStartOnce
    BY <1>4, <1>5, <1>15 DEF SelectFirst, InsideStartOnce
  <2>2. QED
    BY <1>2, <1>15, <2>1 DEF SelectFirst, once, poll
<1>16. CASE InspectSnapshot(s)
  <2>1. \A t \in Starters : starter'[t].pc \in InsideStartOnce =>
                              starter[t].pc \in InsideStartOnce
    BY <1>16 DEF InspectSnapshot, StarterStates, InsideStartOnce
  <2>2. QED
    BY <1>2, <1>16, <2>1 DEF InspectSnapshot, once, poll
<1>17. QED
  BY <1>6, <1>7, <1>8, <1>9, <1>10, <1>11, <1>12, <1>13, <1>14, <1>15, <1>16
  DEF Start

\* A Close enters the Once alone, and returns from it when the poller it
\* cancelled has exited, or having closed done itself.
LEMMA ClosesLife ==
  ASSUME NEW c \in Closers, TypeOK, Life, CallClose(c) \/ Close(c)
  PROVE  Life'
<1> closer[c] \in {"idle", "called", "reading", "awaiting", "closing", "returned"}
  BY DEF TypeOK
<1>1. /\ UNCHANGED <<starter, startOnce, stop, poller, first>>
      /\ \A d \in Closers \ {c} : closer'[d] = closer[d]
  BY DEF CallClose, Close, EnterClose, ReadStop, AwaitDone, CloseDone, poll,
         once, TypeOK
<1>2. CASE CallClose(c)
  <2>1. closer'[c] = "called"
    BY <1>2 DEF CallClose, TypeOK
  <2>2. UNCHANGED <<closeOnce, cancelled, closed, panicked>>
    BY <1>2 DEF CallClose, once, chan
  <2>3. QED
    BY <1>1, <2>1, <2>2
    DEF Life, StartLife, CloseLife, ChannelLife, InsideCloseOnce
<1>3. CASE EnterClose(c)
  <2>1. UNCHANGED <<cancelled, closed, panicked>>
    BY <1>3 DEF EnterClose, chan
  <2>2. CASE closeOnce = "fresh"
    <3>1. closeOnce' = "running" /\ closer'[c] = "reading"
      BY <1>3, <2>2 DEF EnterClose, TypeOK
    <3>2. cancelled # TRUE /\ cancelled \in BOOLEAN
      BY <2>2 DEF Life, CloseLife, TypeOK
    <3>3. \A d \in Closers : closer[d] \notin InsideCloseOnce
                               /\ closer[d] # "returned"
      BY <2>2 DEF Life, CloseLife
    <3>4. QED
      BY <1>1, <2>1, <2>2, <3>1, <3>2, <3>3
      DEF Life, StartLife, CloseLife, ChannelLife, InsideCloseOnce
  <2>3. CASE closeOnce # "fresh"
    <3>1. closeOnce = "done" /\ closeOnce' = "done" /\ closer'[c] = "returned"
      BY <1>3, <2>3 DEF EnterClose, TypeOK
    <3>2. QED
      BY <1>1, <2>1, <3>1
      DEF Life, StartLife, CloseLife, ChannelLife, InsideCloseOnce
  <2>4. QED
    BY <2>2, <2>3
<1>4. CASE ReadStop(c)
  <2>1. /\ closer[c] = "reading" /\ closeOnce = "running" /\ cancelled = FALSE
        /\ UNCHANGED <<closeOnce, closed, panicked>>
    BY <1>4 DEF ReadStop, chan, Life, CloseLife, InsideCloseOnce
  <2>2. /\ cancelled' = stop
        /\ closer'[c] = IF stop THEN "awaiting" ELSE "closing"
    BY <1>4 DEF ReadStop, TypeOK
  <2>3. \A d \in Closers \ {c} : closer[d] \notin InsideCloseOnce
    BY <2>1 DEF Life, CloseLife, InsideCloseOnce
  <2>4. poller # "exiting" /\ poller # "exited" /\ "done" \notin closed
    BY <2>1 DEF Life, ChannelLife
  <2>5. stop = TRUE \/ stop = FALSE
    BY DEF TypeOK
  <2>6. QED
    BY <1>1, <2>1, <2>2, <2>3, <2>4, <2>5
    DEF Life, StartLife, CloseLife, ChannelLife, InsideCloseOnce
<1>5. CASE AwaitDone(c)
  <2>1. /\ closer[c] = "awaiting" /\ closeOnce = "running" /\ cancelled = TRUE
        /\ "done" \in closed
        /\ closeOnce' = "done" /\ closer'[c] = "returned"
        /\ UNCHANGED <<cancelled, closed, panicked>>
    BY <1>5 DEF AwaitDone, chan, Life, CloseLife, InsideCloseOnce, TypeOK
  <2>2. poller = "exited"
    BY <2>1 DEF Life, ChannelLife
  <2>3. \A d \in Closers \ {c} : closer[d] \notin InsideCloseOnce
    BY <2>1 DEF Life, CloseLife, InsideCloseOnce
  <2>4. QED
    BY <1>1, <2>1, <2>2, <2>3
    DEF Life, StartLife, CloseLife, ChannelLife, InsideCloseOnce
<1>6. CASE CloseDone(c)
  <2>1. /\ closer[c] = "closing" /\ closeOnce = "running" /\ cancelled = FALSE
        /\ closeOnce' = "done" /\ closer'[c] = "returned"
        /\ UNCHANGED cancelled
    BY <1>6 DEF CloseDone, Life, CloseLife, InsideCloseOnce, TypeOK
  <2>2. poller \notin {"exiting", "exited"} /\ "done" \notin closed
    BY <2>1 DEF Life, ChannelLife
  <2>3. panicked' = FALSE /\ closed' = closed \cup {"done"}
    BY <1>6, <2>2 DEF CloseDone, CloseChannel, Life, ChannelLife, TypeOK
  <2>4. \A d \in Closers \ {c} : closer[d] \notin InsideCloseOnce
    BY <2>1 DEF Life, CloseLife, InsideCloseOnce
  <2>5. QED
    BY <1>1, <2>1, <2>2, <2>3, <2>4
    DEF Life, StartLife, CloseLife, ChannelLife, InsideCloseOnce
<1>7. QED
  BY <1>2, <1>3, <1>4, <1>5, <1>6 DEF Close

\* The strengthened invariant holds throughout, restarts included.
LEMMA LifeAlways == Spec => []Life
<1>1. Init => Life
  <2>1. Init => StartLife
    BY DEF Init, StartLife, NewStarter, InsideStartOnce
  <2>2. Init => CloseLife
    BY DEF Init, CloseLife, InsideCloseOnce
  <2>3. Init => ChannelLife
    BY DEF Init, ChannelLife
  <2>4. QED
    BY <2>1, <2>2, <2>3 DEF Life
<1>2. TypeOK /\ Life /\ [Next]_vars => Life'
  <2> SUFFICES ASSUME TypeOK, Life, [Next]_vars PROVE Life'
    OBVIOUS
  <2>1. ASSUME UNCHANGED <<poll, once, chan, starter, closer>> PROVE Life'
    BY <2>1 DEF Life, StartLife, CloseLife, ChannelLife, poll, once, chan
  <2>2. ASSUME NEW g \in Getters, Value(g) PROVE Life'
    BY <2>1, <2>2 DEF Value, LoadSnapshot, Evaluate
  <2>3. ASSUME NEW g \in Getters, NEW key \in FlagKeys, NEW kind \in Kinds,
               CallGetter(g, key, kind)
        PROVE  Life'
    BY <2>1, <2>3 DEF CallGetter
  <2>4. CASE ClockMoves \/ UNCHANGED vars
    BY <2>1, <2>4 DEF ClockMoves, vars, host
  <2>5. CASE Restart
    <3>1. /\ poller' = "none" /\ first' = TRUE /\ closed' = {}
          /\ panicked' = FALSE /\ stop' = FALSE /\ cancelled' = FALSE
          /\ startOnce' = "fresh" /\ closeOnce' = "fresh"
          /\ \A s \in Starters : starter'[s].pc = "idle"
          /\ \A c \in Closers : closer'[c] = "idle"
      BY <2>5 DEF Restart, NewStarter
    <3>2. QED
      BY <3>1 DEF Life, StartLife, CloseLife, ChannelLife, InsideStartOnce,
                  InsideCloseOnce
  <2>6. QED
    BY <2>2, <2>3, <2>4, <2>5, PollLife, StartsLife, ClosesLife DEF Next
<1>3. QED
  BY <1>1, <1>2, TypeCorrect, PTL DEF Spec

\* No interleaving of any number of Starts and Closes with the poller closes a
\* channel twice: the client never panics.
THEOREM NeverPanics == Spec => []NoPanic
<1>1. TypeOK /\ Life => NoPanic
  BY DEF Life, ChannelLife, NoPanic
<1>2. QED
  BY <1>1, TypeCorrect, LifeAlways, PTL

\* Whichever Close returns, first or not, the poller it stopped is gone.
THEOREM CloseAlwaysWaits == Spec => []CloseWaits
<1>1. TypeOK /\ Life => CloseWaits
  BY DEF Life, CloseLife, CloseWaits, TypeOK
<1>2. QED
  BY <1>1, TypeCorrect, LifeAlways, PTL
-----------------------------------------------------------------------------
(* Who wakes whom.                                                         *)

\* Behind every Once that runs and every channel that is waited for there is
\* a goroutine on its way, or the channel is closed.
Wakers ==
  /\ startOnce = "running" =>
       \E t \in Starters : starter[t].pc \in InsideStartOnce
  /\ closeOnce = "running" =>
       \E d \in Closers : closer[d] \in InsideCloseOnce
  /\ \A s \in Starters : starter[s].pc = "selecting" => poller # "none"
  /\ first = FALSE \/ poller \in {"waiting", "exiting", "exited"} =>
       "firstAttempt" \in closed
  /\ poller = "exited" => "done" \in closed

\* The poller leaves no channel open that it was to close.
LEMMA PollWakes == TypeOK /\ Life /\ Wakers /\ Poll => Wakers'
<1> SUFFICES ASSUME TypeOK, Life, Wakers, Poll PROVE Wakers'
  OBVIOUS
<1>1. UNCHANGED <<starter, closer, startOnce, closeOnce>>
  BY DEF Poll, DiscardFetch, KeepFetch, RecordFailed, RecordNotModified,
         RecordRejected, RecordAccepted, StoreCache, AnnounceNetwork,
         CompleteAttempt, TimerFires, WaitCancelled, ExitPoll, host, once
<1>2. ASSUME poller' \notin {"none", "waiting", "exiting", "exited"},
             UNCHANGED first,
             closed' \in {closed, closed \cup {"networkReady"}}
      PROVE  Wakers'
  BY <1>1, <1>2 DEF Wakers
<1>3. ASSUME NEW o \in Outcomes, KeepFetch(o) PROVE Wakers'
  BY <1>2, <1>3 DEF KeepFetch, chan
<1>4. CASE RecordFailed \/ RecordNotModified \/ RecordRejected
  BY <1>2, <1>4 DEF RecordFailed, RecordNotModified, RecordRejected, Continue,
                    chan
<1>5. CASE RecordAccepted
  BY <1>2, <1>5 DEF RecordAccepted, chan
<1>6. CASE StoreCache \/ TimerFires
  BY <1>2, <1>6 DEF StoreCache, TimerFires, chan
<1>7. CASE AnnounceNetwork
  <2>1. closed' \in {closed, closed \cup {"networkReady"}}
    BY <1>7 DEF AnnounceNetwork, CloseChannel, chan
  <2> QED
    BY <1>2, <1>7, <2>1 DEF AnnounceNetwork, Continue
<1>8. CASE CompleteAttempt
  <2>1. /\ poller' = "waiting" /\ poller # "none"
        /\ closed' = IF first THEN closed \cup {"firstAttempt"} ELSE closed
    BY <1>8 DEF CompleteAttempt, CloseChannel, chan
  <2>2. first \in BOOLEAN
    BY DEF TypeOK
  <2>3. "firstAttempt" \in closed'
    BY <2>1, <2>2 DEF Wakers
  <2> QED
    BY <1>1, <2>1, <2>3 DEF Wakers
<1>9. CASE DiscardFetch
  <2>1. /\ poller' = "exiting" /\ poller # "none"
        /\ closed' = IF first THEN closed \cup {"firstAttempt"} ELSE closed
    BY <1>9 DEF DiscardFetch, CloseChannel, chan
  <2>2. first \in BOOLEAN
    BY DEF TypeOK
  <2>3. "firstAttempt" \in closed'
    BY <2>1, <2>2 DEF Wakers
  <2> QED
    BY <1>1, <2>1, <2>3 DEF Wakers
<1>10. CASE WaitCancelled
  <2>1. poller = "waiting" /\ poller' = "exiting" /\ closed' = closed
    BY <1>10 DEF WaitCancelled, chan
  <2> QED
    BY <1>1, <2>1 DEF Wakers
<1>11. CASE ExitPoll
  <2>1. /\ poller = "exiting" /\ poller' = "exited"
        /\ closed' = closed \cup {"done"}
    BY <1>11 DEF ExitPoll, CloseChannel
  <2> QED
    BY <1>1, <2>1 DEF Wakers
<1> QED
  BY <1>3, <1>4, <1>5, <1>6, <1>7, <1>8, <1>9, <1>10, <1>11 DEF Poll

\* Whoever enters the Start's Once stays inside until the poller is launched,
\* and nobody selects before that.
LEMMA StartsWake ==
  ASSUME NEW s \in Starters, TypeOK, Life, Wakers,
         CallStart(s) \/ CtxDone(s) \/ Start(s)
  PROVE  Wakers'
<1> DEFINE pc == starter[s].pc
           pcAfter == starter'[s].pc
<1>1. /\ UNCHANGED <<closer, closeOnce, closed, first>>
      /\ \A t \in Starters \ {s} : starter'[t] = starter[t]
  BY DEF CallStart, CtxDone, Start, EnterStart, LoadNothing, LoadCache,
         LaunchPoller, SelectReady, SelectCtx, SelectFirst, InspectSnapshot,
         LastCheck, GoTo, Return, chan, once, poll, TypeOK
<1>2. CASE LaunchPoller(s)
  <2>1. startOnce' = "done" /\ poller' = "fetching" /\ poller = "none"
    <3>1. starter[s].pc \in InsideStartOnce
      BY <1>2 DEF LaunchPoller, At, InsideStartOnce
    <3> QED
      BY <1>2, <3>1 DEF LaunchPoller, Life, StartLife
  <2> QED
    BY <1>1, <2>1 DEF Wakers
<1>3. CASE EnterStart(s) /\ startOnce = "fresh"
  <2>1. /\ startOnce' = "running" /\ pcAfter = "loading" /\ poller' = poller
    BY <1>3 DEF EnterStart, GoTo, poll, TypeOK, StarterStates
  <2> QED
    BY <1>1, <2>1 DEF Wakers, InsideStartOnce
<1>4. CASE EnterStart(s) /\ startOnce # "fresh"
  <2>1. /\ startOnce = "done" /\ startOnce' = "done" /\ poller' = poller
    BY <1>4 DEF EnterStart, poll
  <2>2. poller # "none"
    BY <2>1 DEF Life, StartLife
  <2> QED
    BY <1>1, <2>1, <2>2 DEF Wakers
<1>5. ASSUME UNCHANGED <<startOnce, poller>>,
             pc \in InsideStartOnce => pcAfter \in InsideStartOnce,
             pcAfter = "selecting" => pc = "selecting"
      PROVE  Wakers'
  BY <1>1, <1>5 DEF Wakers
<1>6. CASE CallStart(s)
  <2>1. /\ pc \in {"idle", "returned"} /\ pcAfter = "called"
        /\ UNCHANGED <<startOnce, poller>>
    BY <1>6 DEF CallStart, NewStarter, once, poll, TypeOK
  <2> QED
    BY <1>5, <2>1 DEF InsideStartOnce
<1>7. CASE CtxDone(s)
  <2>1. pcAfter = pc /\ UNCHANGED <<startOnce, poller>>
    BY <1>7 DEF CtxDone, StarterStates, once, poll, TypeOK
  <2> QED
    BY <1>5, <2>1
<1>8. CASE LoadNothing(s) \/ LoadCache(s)
  <2>1. pcAfter = "launching" /\ UNCHANGED <<startOnce, poller>>
    BY <1>8 DEF LoadNothing, LoadCache, GoTo, StarterStates, once, poll, TypeOK
  <2> QED
    BY <1>5, <2>1 DEF InsideStartOnce
<1>9. CASE \/ SelectReady(s) \/ SelectCtx(s) \/ SelectFirst(s)
           \/ InspectSnapshot(s) \/ LastCheck(s)
  <2>1. /\ pc \in {"selecting", "inspecting", "checking"}
        /\ UNCHANGED <<startOnce, poller>>
    BY <1>9 DEF SelectReady, SelectCtx, SelectFirst, InspectSnapshot, LastCheck,
                At, once, poll
  <2>2. pcAfter \in {"inspecting", "checking", "returned"}
    <3> starter \in [Starters -> StarterStates]
      BY DEF TypeOK
    <3>1. CASE SelectReady(s) \/ LastCheck(s)
      BY <3>1 DEF SelectReady, LastCheck, Return, StarterStates
    <3>2. CASE SelectCtx(s)
      BY <3>2 DEF SelectCtx, GoTo, StarterStates
    <3>3. CASE SelectFirst(s)
      BY <3>3 DEF SelectFirst, GoTo, Return, StarterStates
    <3>4. CASE InspectSnapshot(s)
      BY <3>4 DEF InspectSnapshot, StarterStates
    <3> QED
      BY <1>9, <3>1, <3>2, <3>3, <3>4
  <2> QED
    BY <1>5, <2>1, <2>2 DEF InsideStartOnce
<1> QED
  BY <1>2, <1>3, <1>4, <1>6, <1>7, <1>8, <1>9 DEF Start

\* Whoever enters the Close's Once stays inside until it is over.
LEMMA ClosesWake ==
  ASSUME NEW c \in Closers, TypeOK, Life, Wakers, CallClose(c) \/ Close(c)
  PROVE  Wakers'
<1>1. /\ UNCHANGED <<starter, startOnce, poller, first>>
      /\ \A d \in Closers \ {c} : closer'[d] = closer[d]
      /\ closed' \in {closed, closed \cup {"done"}}
  BY DEF CallClose, Close, EnterClose, ReadStop, AwaitDone, CloseDone,
         CloseChannel, poll, once, chan, TypeOK
<1>2. ASSUME closeOnce' = "running" =>
               \E d \in Closers : closer'[d] \in InsideCloseOnce
      PROVE  Wakers'
  BY <1>1, <1>2 DEF Wakers
<1>3. CASE CallClose(c)
  <2>1. closer[c] \in {"idle", "returned"} /\ closeOnce' = closeOnce
    BY <1>3 DEF CallClose, once
  <2> QED
    BY <1>1, <1>2, <2>1 DEF Wakers, InsideCloseOnce
<1>4. CASE EnterClose(c)
  <2>1. CASE closeOnce = "fresh"
    <3>1. closer'[c] = "reading"
      BY <1>4, <2>1 DEF EnterClose, TypeOK
    <3> QED
      BY <1>2, <3>1 DEF InsideCloseOnce
  <2>2. CASE closeOnce # "fresh"
    <3>1. closeOnce' = "done"
      BY <1>4, <2>2 DEF EnterClose
    <3> QED
      BY <1>2, <3>1
  <2> QED
    BY <2>1, <2>2
<1>5. CASE ReadStop(c)
  <2>1. closer'[c] \in {"awaiting", "closing"}
    BY <1>5 DEF ReadStop, TypeOK
  <2> QED
    BY <1>2, <2>1 DEF InsideCloseOnce
<1>6. CASE AwaitDone(c) \/ CloseDone(c)
  <2>1. closeOnce' = "done"
    BY <1>6 DEF AwaitDone, CloseDone
  <2> QED
    BY <1>2, <2>1
<1> QED
  BY <1>3, <1>4, <1>5, <1>6 DEF Close

LEMMA WakersAlways == Spec => []Wakers
<1>1. Init => Wakers
  BY DEF Init, Wakers, NewStarter
<1>2. TypeOK /\ Life /\ Wakers /\ [Next]_vars => Wakers'
  <2> SUFFICES ASSUME TypeOK, Life, Wakers, [Next]_vars PROVE Wakers'
    OBVIOUS
  <2>1. ASSUME UNCHANGED <<poll, once, chan, starter, closer>> PROVE Wakers'
    BY <2>1 DEF Wakers, poll, once, chan
  <2>2. ASSUME NEW g \in Getters, Value(g) PROVE Wakers'
    BY <2>1, <2>2 DEF Value, LoadSnapshot, Evaluate
  <2>3. ASSUME NEW g \in Getters, NEW key \in FlagKeys, NEW kind \in Kinds,
               CallGetter(g, key, kind)
        PROVE  Wakers'
    BY <2>1, <2>3 DEF CallGetter
  <2>4. CASE ClockMoves \/ UNCHANGED vars
    BY <2>1, <2>4 DEF ClockMoves, vars, host
  <2>5. CASE Restart
    <3>1. /\ poller' = "none" /\ first' = TRUE
          /\ startOnce' = "fresh" /\ closeOnce' = "fresh"
          /\ \A s \in Starters : starter'[s].pc = "idle"
      BY <2>5 DEF Restart, NewStarter
    <3> QED
      BY <3>1 DEF Wakers
  <2> QED
    BY <2>2, <2>3, <2>4, <2>5, PollWakes, StartsWake, ClosesWake DEF Next
<1> QED
  BY <1>1, <1>2, TypeCorrect, LifeAlways, PTL DEF Spec

\* Start and Close of any number of goroutines never deadlock with each other
\* or with the poller (start, poll, close): what they wait for is there or on
\* its way.
THEOREM NobodyEverWaitsInVain == Spec => []NobodyWaitsInVain
<1>1. TypeOK /\ Life /\ Wakers => NobodyWaitsInVain
  <2> SUFFICES ASSUME TypeOK, Life, Wakers PROVE NobodyWaitsInVain
    OBVIOUS
  <2>1. ASSUME NEW s \in Starters, At(s, "called"), startOnce = "running"
        PROVE  \E t \in Starters : At(t, "loading") \/ At(t, "launching")
    BY <2>1 DEF Wakers, InsideStartOnce, At
  <2>2. ASSUME NEW s \in Starters, At(s, "selecting"),
               "firstAttempt" \notin closed
        PROVE  FirstAttemptComes
    <3>1. poller # "none" /\ first # FALSE
          /\ poller \notin {"waiting", "exiting", "exited"}
      BY <2>2 DEF Wakers, At
    <3> QED
      BY <3>1 DEF FirstAttemptComes, TypeOK
  <2>3. ASSUME NEW c \in Closers, closeOnce = "running"
        PROVE  \E d \in Closers : closer[d] \in {"reading", "awaiting", "closing"}
    BY <2>3 DEF Wakers, InsideCloseOnce
  <2>4. ASSUME NEW c \in Closers, closer[c] = "awaiting", "done" \notin closed
        PROVE  cancelled /\ poller \notin {"none", "exited"}
    <3>1. cancelled = TRUE /\ stop = TRUE
      BY <2>4 DEF Life, CloseLife
    <3> QED
      BY <2>4, <3>1 DEF Life, StartLife, Wakers
  <2> QED
    BY <2>1, <2>2, <2>3, <2>4 DEF NobodyWaitsInVain
<1> QED
  BY <1>1, TypeCorrect, LifeAlways, WakersAlways, PTL
=============================================================================
