----------------------------- MODULE AtomicFile -----------------------------
(***************************************************************************)
(* What the durable cache promises to the processes that share a           *)
(* CachePath: a file that is read and replaced whole. A load answers with  *)
(* what the file held at one moment of the call, or with nothing; a store  *)
(* that reports success replaced the file at one moment of the call, and   *)
(* one that fails, or whose process ends, left it alone or replaced it.    *)
(***************************************************************************)
CONSTANTS
  Processes,
  Contents,    \* what a file may hold
  Storable,    \* the contents a store accepts
  Usable,      \* the contents a load hands out
  NoContent    \* no file, or no usable one

VARIABLES
  file,   \* what the file holds
  call    \* each process's call: [pc, value]

vars == <<file, call>>

Idle == [pc |-> "idle", value |-> NoContent]

Init ==
  /\ file \in Contents \cup {NoContent}
  /\ call = [p \in Processes |-> Idle]

Becomes(p, pc, value) ==
  call' = [call EXCEPT ![p] = [pc |-> pc, value |-> value]]

BeginLoad(p) ==
  /\ call[p].pc = "idle"
  /\ Becomes(p, "loading", file)
  /\ UNCHANGED file

LoadReturns(p) ==
  /\ call[p].pc = "loading"
  /\ call[p].value \in Usable
  /\ Becomes(p, "loaded", call[p].value)
  /\ UNCHANGED file

LoadFails(p) ==
  /\ call[p].pc \in {"idle", "loading"}
  /\ Becomes(p, "loaded", NoContent)
  /\ UNCHANGED file

BeginStore(p, value) ==
  /\ call[p].pc = "idle"
  /\ Becomes(p, "storing", value)
  /\ UNCHANGED file

Replace(p) ==
  /\ call[p].pc = "storing"
  /\ call[p].value \in Storable
  /\ file' = call[p].value
  /\ Becomes(p, "stored", call[p].value)

StoreFails(p) ==
  /\ call[p].pc = "storing"
  /\ Becomes(p, "storeFailed", call[p].value)
  /\ UNCHANGED file

\* The process turns to something else, or ends and comes back.
Leave(p) ==
  /\ Becomes(p, "idle", NoContent)
  /\ UNCHANGED file

Next ==
  \E p \in Processes :
    \/ BeginLoad(p) \/ LoadReturns(p) \/ LoadFails(p)
    \/ (\E value \in Contents : BeginStore(p, value))
    \/ Replace(p) \/ StoreFails(p)
    \/ Leave(p)

Spec == Init /\ [][Next]_vars
=============================================================================
