--------------------------- MODULE ServedRuleset ---------------------------
(***************************************************************************)
(* What a client promises about the ruleset it answers from, without       *)
(* polling, locks, channels or callers: one ruleset is served and one is   *)
(* durable, and this is all that may happen to them.                       *)
(***************************************************************************)
EXTENDS Verifier

CONSTANTS Wires, NoBytes, Configurations, MaxNow

VARIABLES
  configuration,  \* of the running process
  now,            \* its wall clock
  served,         \* what evaluations are answered from: [source, wire]
  durable         \* what the next process may recover

vars == <<configuration, now, served, durable>>

Nothing == [source |-> "none", wire |-> NoBytes]

Ours(wire) == Genuine(wire, configuration.policy, configuration.environment)

\* Issued by now, and not replayed after its time.
Issued(wire)  == ~(wire.payload.issuedAt.at - now > SkewTolerance)
Current(wire) == ~(now - wire.payload.expiresAt.at > SkewTolerance)

Init ==
  /\ configuration \in Configurations
  /\ now \in 0..MaxNow
  /\ served = Nothing
  /\ durable \in Wires \cup {NoBytes}

\* A process may start from what is durable, however old, before it serves
\* anything else, and only if it is what it would accept from the network.
Recover ==
  /\ configuration.cachePath
  /\ durable # NoBytes
  /\ served = Nothing
  /\ Ours(durable) /\ Issued(durable)
  /\ served' = [source |-> "cache", wire |-> durable]
  /\ UNCHANGED <<configuration, now, durable>>

Adopt(wire) ==
  /\ Ours(wire) /\ Issued(wire) /\ Current(wire)
  /\ served' = [source |-> "network", wire |-> wire]
  /\ UNCHANGED <<configuration, now, durable>>

\* Only what the network brought and is being served becomes durable, as it
\* came, and nothing is ever made durable unasked.
Persist ==
  /\ configuration.cachePath
  /\ served.source = "network"
  /\ durable' = served.wire
  /\ UNCHANGED <<configuration, now, served>>

ClockMoves ==
  /\ now' \in 0..MaxNow
  /\ UNCHANGED <<configuration, served, durable>>

Restart ==
  /\ configuration' \in Configurations
  /\ served' = Nothing
  /\ UNCHANGED <<now, durable>>

Next ==
  \/ Recover
  \/ \E wire \in Wires : Adopt(wire)
  \/ Persist
  \/ ClockMoves
  \/ Restart

Spec == Init /\ [][Next]_vars
=============================================================================
