------------------------------ MODULE FileCache ------------------------------
(***************************************************************************)
(* The durable cache (cache.go) down to its system calls, for any number   *)
(* of processes with the same CachePath: every load and store is a series  *)
(* of steps that others interleave with, every call may fail, and every    *)
(* process may end at any of them and start over.                          *)
(*                                                                         *)
(* A file (an inode) holds Blocks blocks, written and read one at a time;  *)
(* the directory links one file under CachePath and others under the       *)
(* random names of CreateTemp. A file lives while it is linked or open.    *)
(* The loss of power is not a step: what was written is taken to stay.     *)
(***************************************************************************)
EXTENDS Naturals, FiniteSets

CONSTANTS
  Processes, Files, NoFile,
  Envelopes,   \* the envelopes the network may deliver or the file may hold
  Large,       \* those of them that are over maxResponseBytes
  Blocks,      \* blocks per file
  NoBlock,     \* a block not written
  NoContent,   \* no file, or no usable one
  MaxMishaps   \* bound on the files a mishap may leave behind

ASSUME FileCacheAssumption ==
  /\ NoFile \notin Files
  /\ NoBlock \notin Envelopes
  /\ Large \subseteq Envelopes
  /\ Blocks \in Nat \ {0}
  /\ NoContent \notin [1..Blocks -> Envelopes \cup {NoBlock}]
  /\ MaxMishaps \in Nat

VARIABLES
  path,     \* the file linked under CachePath
  temps,    \* the files linked under temporary names
  content,  \* what every file holds
  proc,     \* each process: [pc, file, raw, at, got]
  mishaps   \* how many temporary files a crash or a failed Remove left behind

vars == <<path, temps, content, proc, mishaps>>

Whole(raw) == [k \in 1..Blocks |-> raw]
Empty == Whole(NoBlock)
Oversized == {Whole(raw) : raw \in Large}

Idle == [pc |-> "idle", file |-> NoFile, raw |-> NoBlock, at |-> 1,
         got |-> NoContent]

Init ==
  /\ path \in Files \cup {NoFile}
  /\ temps = {}
  /\ \E raw \in Envelopes \cup {NoBlock} :
       content = [f \in Files |-> IF f = path THEN Whole(raw) ELSE Empty]
  /\ proc = [p \in Processes |-> Idle]
  /\ mishaps = 0

Free == Files \ (temps \cup {path} \cup {proc[p].file : p \in Processes})

-----------------------------------------------------------------------------
(* load                                                                    *)

Loaded(p, got) ==
  proc' = [proc EXCEPT ![p] = [Idle EXCEPT !.pc = "loaded", !.got = got]]

\* The file opened stays this one, whatever is renamed over it later.
Open(p) ==
  /\ proc[p].pc = "idle"
  /\ path # NoFile
  /\ proc' = [proc EXCEPT ![p] =
       [Idle EXCEPT !.pc = "reading", !.file = path, !.got = Empty]]
  /\ UNCHANGED <<path, temps, content, mishaps>>

OpenFails(p) ==
  /\ proc[p].pc = "idle"
  /\ Loaded(p, NoContent)
  /\ UNCHANGED <<path, temps, content, mishaps>>

ReadBlock(p) ==
  /\ proc[p].pc = "reading"
  /\ proc[p].at <= Blocks
  /\ proc' = [proc EXCEPT ![p].at = @ + 1,
                ![p].got[proc[p].at] = content[proc[p].file][proc[p].at]]
  /\ UNCHANGED <<path, temps, content, mishaps>>

ReadFails(p) ==
  /\ proc[p].pc = "reading"
  /\ Loaded(p, NoContent)
  /\ UNCHANGED <<path, temps, content, mishaps>>

\* An empty file and one over the cap are not used.
FinishLoad(p) ==
  /\ proc[p].pc = "reading"
  /\ proc[p].at > Blocks
  /\ Loaded(p, IF proc[p].got \in {Empty} \cup Oversized
               THEN NoContent ELSE proc[p].got)
  /\ UNCHANGED <<path, temps, content, mishaps>>

-----------------------------------------------------------------------------
(* store                                                                   *)

Ends(p, pc) ==
  proc' = [proc EXCEPT ![p] = [Idle EXCEPT !.pc = pc, !.raw = proc[p].raw]]

BeginStore(p, raw) ==
  /\ proc[p].pc = "idle"
  /\ proc' = [proc EXCEPT ![p].pc = "creating", ![p].raw = raw]
  /\ UNCHANGED <<path, temps, content, mishaps>>

\* Mutant: the cache file itself is truncated and written in place.
MutantInPlace(p) ==
  /\ proc[p].pc = "creating"
  /\ proc[p].raw \notin Large
  /\ path # NoFile
  /\ content' = [content EXCEPT ![path] = Empty]
  /\ proc' = [proc EXCEPT ![p].pc = "writing", ![p].file = path]
  /\ UNCHANGED <<path, temps, mishaps>>

CreateTemp(p) ==
  /\ proc[p].pc = "creating"
  /\ proc[p].raw \notin Large
  /\ \E f \in Free :
       /\ temps' = temps \cup {f}
       /\ content' = [content EXCEPT ![f] = Empty]
       /\ proc' = [proc EXCEPT ![p].pc = "writing", ![p].file = f]
  /\ UNCHANGED <<path, mishaps>>

\* The envelope is over the cap, or no temporary file can be made.
CreateFails(p) ==
  /\ proc[p].pc = "creating"
  /\ Ends(p, "storeFailed")
  /\ UNCHANGED <<path, temps, content, mishaps>>

\* Mutant: Write goes on past the end of the envelope.
MutantWriteOn(p) ==
  /\ proc[p].pc = "writing"
  /\ content' = [content EXCEPT ![proc[p].file][proc[p].at] = proc[p].raw]
  /\ proc' = [proc EXCEPT ![p].at = @ + 1]
  /\ UNCHANGED <<path, temps, mishaps>>

WriteBlock(p) ==
  /\ proc[p].pc = "writing"
  /\ proc[p].at <= Blocks
  /\ content' = [content EXCEPT ![proc[p].file][proc[p].at] = proc[p].raw]
  /\ proc' = [proc EXCEPT ![p].at = @ + 1]
  /\ UNCHANGED <<path, temps, mishaps>>

\* Write and Close have returned without an error.
CloseTemp(p) ==
  /\ proc[p].pc = "writing"
  /\ proc[p].at > Blocks
  /\ proc' = [proc EXCEPT ![p].pc = "renaming"]
  /\ UNCHANGED <<path, temps, content, mishaps>>

\* Mutant: a failed write returns without removing its temporary file.
MutantNotRemoved(p) ==
  /\ proc[p].pc \in {"writing", "renaming"}
  /\ Ends(p, "storeFailed")
  /\ UNCHANGED <<path, temps, content, mishaps>>

\* Write, Close or Rename reports an error.
StoreStepFails(p) ==
  /\ proc[p].pc \in {"writing", "renaming"}
  /\ proc' = [proc EXCEPT ![p].pc = "removing"]
  /\ UNCHANGED <<path, temps, content, mishaps>>

\* Mutant: the result of Rename is not looked at.
MutantRenameUnchecked(p) ==
  /\ proc[p].pc = "renaming"
  /\ path' \in {path, proc[p].file}
  /\ temps' = temps \ {path'}
  /\ Ends(p, "stored")
  /\ UNCHANGED <<content, mishaps>>

Rename(p) ==
  /\ proc[p].pc = "renaming"
  /\ path' = proc[p].file
  /\ temps' = temps \ {proc[p].file}
  /\ Ends(p, "stored")
  /\ UNCHANGED <<content, mishaps>>

Remove(p) ==
  /\ proc[p].pc = "removing"
  /\ temps' = temps \ {proc[p].file}
  /\ Ends(p, "storeFailed")
  /\ UNCHANGED <<path, content, mishaps>>

\* The error of Remove is discarded, its file stays.
RemoveFails(p) ==
  /\ proc[p].pc = "removing"
  /\ mishaps < MaxMishaps
  /\ mishaps' = mishaps + 1
  /\ Ends(p, "storeFailed")
  /\ UNCHANGED <<path, temps, content>>

-----------------------------------------------------------------------------

\* The process turns to something else.
Again(p) ==
  /\ proc[p].pc \in {"loaded", "stored", "storeFailed"}
  /\ proc' = [proc EXCEPT ![p] = Idle]
  /\ UNCHANGED <<path, temps, content, mishaps>>

HasTemp(p) == proc[p].pc \in {"writing", "renaming", "removing"}

\* The process ends within a call. Nobody ever looks for the temporary file it
\* had, so that file stays.
Crash(p) ==
  /\ HasTemp(p) => mishaps < MaxMishaps
  /\ mishaps' = IF HasTemp(p) THEN mishaps + 1 ELSE mishaps
  /\ proc' = [proc EXCEPT ![p] = Idle]
  /\ UNCHANGED <<path, temps, content>>

Load(p) ==
  Open(p) \/ OpenFails(p) \/ ReadBlock(p) \/ ReadFails(p) \/ FinishLoad(p)

Store(p) ==
  \/ \E raw \in Envelopes : BeginStore(p, raw)
  \/ CreateTemp(p) \/ CreateFails(p) \/ WriteBlock(p) \/ CloseTemp(p)
  \/ StoreStepFails(p) \/ Rename(p) \/ Remove(p) \/ RemoveFails(p)

Next == \E p \in Processes : Load(p) \/ Store(p) \/ Again(p) \/ Crash(p)

Spec == Init /\ [][Next]_vars

-----------------------------------------------------------------------------
(* Properties                                                              *)

Contents == [1..Blocks -> Envelopes \cup {NoBlock}]

ProcStates ==
  [pc : {"idle", "reading", "loaded", "creating", "writing", "renaming",
         "removing", "stored", "storeFailed"},
   file : Files \cup {NoFile},
   raw : Envelopes \cup {NoBlock},
   at : 1..(Blocks + 1),
   got : Contents \cup {NoContent}]

TypeOK ==
  /\ path \in Files \cup {NoFile}
  /\ temps \subseteq Files
  /\ content \in [Files -> Contents]
  /\ proc \in [Processes -> ProcStates]
  /\ mishaps \in 0..MaxMishaps

Envelopable == {Whole(raw) : raw \in Envelopes \ Large}

\* However many processes share the path and wherever they end, a load never
\* hands out a truncated envelope or a mixture of two.
LoadsAreWhole ==
  \A p \in Processes :
    proc[p].pc = "loaded" /\ proc[p].got # NoContent =>
      proc[p].got \in Envelopable

\* The temporary files that no running store will rename or remove are those
\* that a crash or a failed Remove left, one each: no error path forgets one.
LitterOnlyFromMishaps ==
  Cardinality(temps \ {proc[p].file : p \in {q \in Processes : HasTemp(q)}})
    = mishaps

\* The cache implements AtomicFile: a load takes effect when it opens the
\* file, a store when it renames.
AbstractCall(p) ==
  CASE proc[p].pc = "reading" ->
         [pc |-> "loading", value |-> content[proc[p].file]]
    [] proc[p].pc = "loaded" -> [pc |-> "loaded", value |-> proc[p].got]
    [] proc[p].pc \in {"creating", "writing", "renaming", "removing"} ->
         [pc |-> "storing", value |-> Whole(proc[p].raw)]
    [] proc[p].pc \in {"stored", "storeFailed"} ->
         [pc |-> proc[p].pc, value |-> Whole(proc[p].raw)]
    [] OTHER -> [pc |-> "idle", value |-> NoContent]

AbstractFile == IF path = NoFile THEN NoContent ELSE content[path]

Atomic == INSTANCE AtomicFile WITH
  Storable <- Envelopable, Usable <- Envelopable,
  file <- AbstractFile,
  call <- [p \in Processes |-> AbstractCall(p)]

ImplementsAtomicFile == Atomic!Spec
=============================================================================
