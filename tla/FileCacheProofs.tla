--------------------------- MODULE FileCacheProofs ---------------------------
(***************************************************************************)
(* The durable cache implements AtomicFile for any number of processes,    *)
(* files and blocks: the temporary file of a store belongs to that store   *)
(* alone until the rename, and nobody writes to a file that was renamed.   *)
(***************************************************************************)
EXTENDS FileCache, FiniteSetTheorems, TLAPS

Wholes == {Whole(raw) : raw \in Envelopes \cup {NoBlock}}

Temporary == {"writing", "renaming", "removing"}

\* What a process may rely on, given the temporary files and the contents: a
\* storing one owns a temporary file and knows how much of it is written, a
\* reading one has a whole file that is not temporary and a prefix of it.
Sound(r, ts, c) ==
  /\ r \in ProcStates
  /\ r.pc \in Temporary => r.file \in ts /\ r.raw \in Envelopes \ Large
  /\ r.pc = "writing" => \A k \in 1..(r.at - 1) : c[r.file][k] = r.raw
  /\ r.pc = "renaming" => c[r.file] = Whole(r.raw)
  /\ r.pc = "reading" =>
       /\ r.file \in Files \ ts
       /\ c[r.file] \in Wholes
       /\ r.got \in Contents
       /\ \A k \in 1..(r.at - 1) : r.got[k] = c[r.file][k]
  /\ r.pc = "loaded" => r.got \in Envelopable \cup {NoContent}
  /\ r.pc = "creating" => r.raw \in Envelopes
  /\ r.pc \in {"idle", "creating"} => r.at = 1

PathWhole == path \notin temps /\ (path # NoFile => content[path] \in Wholes)

OneOwner ==
  \A p, q \in Processes :
    p # q /\ HasTemp(p) /\ HasTemp(q) => proc[p].file # proc[q].file

Inv ==
  /\ TypeOK
  /\ PathWhole
  /\ OneOwner
  /\ \A p \in Processes : Sound(proc[p], temps, content)

LEMMA WholeType ==
  /\ \A raw \in Envelopes \cup {NoBlock} : Whole(raw) \in Contents
  /\ Empty \in Contents /\ Empty \in Wholes
  /\ Wholes \subseteq Contents /\ Envelopable \subseteq Wholes
BY DEF Whole, Empty, Wholes, Contents, Envelopable

LEMMA SameContent ==
  ASSUME NEW f \in Contents, NEW g \in Contents, \A k \in 1..Blocks : f[k] = g[k]
  PROVE  f = g
<1>1. f = [k \in 1..Blocks |-> f[k]] /\ g = [k \in 1..Blocks |-> g[k]]
  BY DEF Contents
<1>2. [k \in 1..Blocks |-> f[k]] = [k \in 1..Blocks |-> g[k]]
  OBVIOUS
<1> QED
  BY <1>1, <1>2

LEMMA IdleIsSound ==
  ASSUME NEW ts, NEW c
  PROVE  /\ Idle \in ProcStates /\ Sound(Idle, ts, c)
         /\ Idle.pc = "idle" /\ Idle.file = NoFile
<1>1. /\ Idle.pc = "idle" /\ Idle.file = NoFile /\ Idle.at = 1
      /\ Idle.raw = NoBlock /\ Idle.got = NoContent
  BY DEF Idle
<1>2. Idle \in ProcStates
  BY FileCacheAssumption DEF Idle, ProcStates, FileCacheAssumption
<1> QED
  BY <1>1, <1>2 DEF Sound, Temporary

\* What a process relies on, others do not take away: they may make and drop
\* temporary files and write to theirs.
LEMMA StaysSound ==
  ASSUME NEW r, NEW ts, NEW c, NEW tt, NEW d, Sound(r, ts, c),
         r.pc \in Temporary => r.file \in tt,
         r.pc = "reading" => r.file \notin tt,
         r.pc \in {"writing", "renaming", "reading"} => d[r.file] = c[r.file]
  PROVE  Sound(r, tt, d)
BY DEF Sound

\* A step of p that touches none of the shared files keeps the invariant when
\* it leaves p sound and gives it no file it did not own.
LEMMA PrivateStep ==
  ASSUME Inv, NEW p \in Processes, NEW r, Sound(r, temps, content),
         proc' = [proc EXCEPT ![p] = r],
         r.pc \in Temporary => HasTemp(p) /\ r.file = proc[p].file,
         UNCHANGED <<path, temps, content>>, mishaps' \in 0..MaxMishaps
  PROVE  Inv'
<1>1. proc \in [Processes -> ProcStates] /\ r \in ProcStates
  BY DEF Inv, TypeOK, Sound
<1>2. /\ proc'[p] = r
      /\ \A q \in Processes : q # p => proc'[q] = proc[q]
  BY <1>1
<1>3. TypeOK'
  BY <1>1 DEF Inv, TypeOK
<1>4. PathWhole'
  BY DEF Inv, PathWhole
<1>5. OneOwner'
  BY <1>2 DEF Inv, OneOwner, HasTemp, Temporary
<1>6. \A q \in Processes : Sound(proc[q], temps, content)'
  BY <1>2 DEF Inv
<1> QED
  BY <1>3, <1>4, <1>5, <1>6 DEF Inv

\* The same of a step that changes the shared files, when the others' records
\* stay sound and p does not come to own what they own.
LEMMA SharedStep ==
  ASSUME Inv, NEW p \in Processes, NEW r, Sound(r, temps', content'),
         proc' = [proc EXCEPT ![p] = r],
         \A q \in Processes \ {p} :
           /\ Sound(proc[q], temps', content')
           /\ HasTemp(q) /\ r.pc \in Temporary => proc[q].file # r.file,
         path' \in Files \cup {NoFile}, temps' \subseteq Files,
         content' \in [Files -> Contents], mishaps' \in 0..MaxMishaps, PathWhole'
  PROVE  Inv'
<1>1. proc \in [Processes -> ProcStates] /\ r \in ProcStates
  BY DEF Inv, TypeOK, Sound
<1>2. /\ proc'[p] = r
      /\ \A q \in Processes : q # p => proc'[q] = proc[q]
  BY <1>1
<1>3. TypeOK'
  BY <1>1 DEF Inv, TypeOK
<1>4. OneOwner'
  BY <1>2 DEF Inv, OneOwner, HasTemp, Temporary
<1>5. \A q \in Processes : Sound(proc[q], temps, content)'
  BY <1>2
<1> QED
  BY <1>3, <1>4, <1>5 DEF Inv

\* A call that returns leaves its process sound.
LEMMA EndsSound ==
  ASSUME Inv, NEW p \in Processes, NEW ts, NEW c
  PROVE  /\ \A pc \in {"stored", "storeFailed"} :
              Sound([Idle EXCEPT !.pc = pc, !.raw = proc[p].raw], ts, c)
         /\ \A got \in Envelopable \cup {NoContent} :
              Sound([Idle EXCEPT !.pc = "loaded", !.got = got], ts, c)
<1>1. proc[p].raw \in Envelopes \cup {NoBlock}
  BY DEF Inv, TypeOK, ProcStates
<1>2. Envelopable \subseteq Contents
  BY WholeType
<1> QED
  BY <1>1, <1>2, IdleIsSound DEF Sound, Temporary, ProcStates, Idle

\* A load that came to the end has read the file it opened.
LEMMA ReadWhole ==
  ASSUME Inv, NEW p \in Processes, FinishLoad(p)
  PROVE  proc[p].got = content[proc[p].file] /\ content[proc[p].file] \in Wholes
<1> DEFINE was == proc[p]
<1>1. was \in ProcStates /\ Sound(was, temps, content)
  BY DEF Inv, TypeOK
<1>2. Blocks \in Nat \ {0}
  BY FileCacheAssumption DEF FileCacheAssumption
<1>3. /\ was.pc = "reading" /\ was.at = Blocks + 1
      /\ was.got \in Contents /\ content[was.file] \in Wholes
      /\ \A k \in 1..(was.at - 1) : was.got[k] = content[was.file][k]
  BY <1>1, <1>2 DEF FinishLoad, Sound, ProcStates
<1>4. content[was.file] \in Contents
  BY <1>3, WholeType
<1>5. \A k \in 1..Blocks : was.got[k] = content[was.file][k]
  BY <1>2, <1>3
<1> HIDE DEF was
<1>6. was.got = content[was.file]
  BY <1>3, <1>4, <1>5, SameContent
<1> QED
  BY <1>3, <1>6 DEF was

LEMMA LoadKeepsInv ==
  ASSUME Inv, NEW p \in Processes, Load(p)
  PROVE  Inv'
<1> DEFINE was == proc[p]
<1>1. was \in ProcStates /\ Sound(was, temps, content)
  BY DEF Inv, TypeOK
<1>2. mishaps \in 0..MaxMishaps /\ Blocks \in Nat \ {0}
  BY FileCacheAssumption DEF Inv, TypeOK, FileCacheAssumption
<1>3. CASE Open(p)
  <2> DEFINE r == [Idle EXCEPT !.pc = "reading", !.file = path, !.got = Empty]
  <2>1. /\ r.pc = "reading" /\ r.file = path /\ r.got = Empty /\ r.at = 1
        /\ r \in ProcStates
    BY <1>2, <1>3, IdleIsSound, WholeType
    DEF Open, Idle, ProcStates, Inv, TypeOK
  <2>2. path \in Files \ temps /\ content[path] \in Wholes
    BY <1>3 DEF Open, Inv, TypeOK, PathWhole
  <2>3. Sound(r, temps, content)
    BY <2>1, <2>2, WholeType DEF Sound, Temporary
  <2>4. proc' = [proc EXCEPT ![p] = r] /\ UNCHANGED <<path, temps, content, mishaps>>
    BY <1>3 DEF Open
  <2> HIDE DEF r
  <2> QED
    BY <1>2, <2>1, <2>3, <2>4, PrivateStep DEF Temporary
<1>4. ASSUME NEW got \in Envelopable \cup {NoContent}, Loaded(p, got),
             UNCHANGED <<path, temps, content, mishaps>>
      PROVE  Inv'
  <2> DEFINE r == [Idle EXCEPT !.pc = "loaded", !.got = got]
  <2>1. Sound(r, temps, content) /\ r.pc = "loaded"
    BY EndsSound DEF Idle
  <2>2. proc' = [proc EXCEPT ![p] = r]
    BY <1>4 DEF Loaded
  <2> HIDE DEF r
  <2> QED
    BY <1>2, <1>4, <2>1, <2>2, PrivateStep DEF Temporary
<1>5. CASE OpenFails(p) \/ ReadFails(p)
  BY <1>4, <1>5 DEF OpenFails, ReadFails
<1>6. CASE ReadBlock(p)
  <2> DEFINE block == content[was.file][was.at]
             r == [was EXCEPT !.at = was.at + 1,
                              !.got = [was.got EXCEPT ![was.at] = block]]
  <2>1. /\ was.pc = "reading" /\ was.at \in 1..Blocks
        /\ was.file \in Files \ temps /\ was.got \in Contents
        /\ content[was.file] \in Wholes
        /\ \A k \in 1..(was.at - 1) : was.got[k] = content[was.file][k]
    BY <1>1, <1>2, <1>6 DEF ReadBlock, Sound, ProcStates
  <2>2. block \in Envelopes \cup {NoBlock}
    BY <2>1, WholeType DEF Contents
  <2>3. r.got \in Contents /\ r.at = was.at + 1 /\ r.at \in 1..(Blocks + 1)
    BY <1>1, <1>2, <2>1, <2>2 DEF Contents, ProcStates
  <2>4. /\ r.pc = "reading" /\ r.file = was.file
        /\ r.got = [was.got EXCEPT ![was.at] = block]
        /\ r \in ProcStates
    BY <1>1, <2>1, <2>3 DEF ProcStates
  <2>5. \A k \in 1..(r.at - 1) : r.got[k] = content[r.file][k]
    BY <1>2, <2>1, <2>3, <2>4 DEF Contents
  <2>6. Sound(r, temps, content)
    BY <2>1, <2>3, <2>4, <2>5 DEF Sound, Temporary
  <2>7. proc' = [proc EXCEPT ![p] = r]
    <3>1. proc \in [Processes -> ProcStates]
      BY DEF Inv, TypeOK
    <3> QED
      BY <1>1, <1>6, <3>1 DEF ReadBlock, ProcStates
  <2>8. UNCHANGED <<path, temps, content, mishaps>>
    BY <1>6 DEF ReadBlock
  <2> HIDE DEF r
  <2> QED
    BY <1>2, <2>4, <2>6, <2>7, <2>8, PrivateStep DEF Temporary
<1>7. CASE FinishLoad(p)
  <2>1. was.got = content[was.file] /\ content[was.file] \in Wholes
    BY <1>7, ReadWhole
  <2>3. was.got \in Envelopable \cup {Empty} \cup Oversized
    BY <2>1 DEF Wholes, Envelopable, Empty, Oversized
  <2>4. (IF was.got \in {Empty} \cup Oversized THEN NoContent ELSE was.got)
          \in Envelopable \cup {NoContent}
    BY <2>3
  <2> QED
    BY <1>4, <1>7, <2>4 DEF FinishLoad
<1> QED
  BY <1>3, <1>5, <1>6, <1>7 DEF Load

LEMMA StoreKeepsInv ==
  ASSUME Inv, NEW p \in Processes, Store(p)
  PROVE  Inv'
<1> DEFINE was == proc[p]
<1>1. was \in ProcStates /\ Sound(was, temps, content)
  BY DEF Inv, TypeOK
<1>2. mishaps \in 0..MaxMishaps /\ MaxMishaps \in Nat /\ Blocks \in Nat \ {0}
  BY FileCacheAssumption DEF Inv, TypeOK, FileCacheAssumption
<1>3. /\ proc \in [Processes -> ProcStates]
      /\ content \in [Files -> Contents] /\ temps \subseteq Files
      /\ path \in Files \cup {NoFile}
  BY DEF Inv, TypeOK
<1>4. \A q \in Processes : Sound(proc[q], temps, content)
  BY DEF Inv
<1>5. ASSUME NEW pc \in {"stored", "storeFailed"}, Ends(p, pc),
             UNCHANGED <<path, temps, content>>, mishaps' \in 0..MaxMishaps
      PROVE  Inv'
  <2> DEFINE r == [Idle EXCEPT !.pc = pc, !.raw = was.raw]
  <2>1. Sound(r, temps, content) /\ r.pc = pc
    BY EndsSound DEF Idle
  <2>2. proc' = [proc EXCEPT ![p] = r]
    BY <1>5 DEF Ends
  <2> HIDE DEF r
  <2> QED
    BY <1>5, <2>1, <2>2, PrivateStep DEF Temporary
<1>6. ASSUME NEW raw \in Envelopes, BeginStore(p, raw) PROVE Inv'
  <2> DEFINE r == [was EXCEPT !.pc = "creating", !.raw = raw]
  <2>1. r \in ProcStates /\ r.pc = "creating" /\ r.raw = raw /\ r.at = 1
    BY <1>1, <1>6 DEF BeginStore, ProcStates, Sound
  <2>2. Sound(r, temps, content)
    BY <2>1 DEF Sound, Temporary
  <2>3. proc' = [proc EXCEPT ![p] = r]
    BY <1>1, <1>3, <1>6 DEF BeginStore, ProcStates
  <2>4. UNCHANGED <<path, temps, content, mishaps>>
    BY <1>6 DEF BeginStore
  <2> HIDE DEF r
  <2> QED
    BY <1>2, <2>1, <2>2, <2>3, <2>4, PrivateStep DEF Temporary
<1>7. CASE CreateTemp(p)
  <2>1. PICK f \in Free :
          /\ temps' = temps \cup {f}
          /\ content' = [content EXCEPT ![f] = Empty]
          /\ proc' = [proc EXCEPT ![p].pc = "writing", ![p].file = f]
    BY <1>7 DEF CreateTemp
  <2>2. /\ was.pc = "creating" /\ was.raw \notin Large
        /\ path' = path /\ mishaps' = mishaps
    BY <1>7 DEF CreateTemp
  <2>3. /\ f \in Files /\ f \notin temps /\ f # path
        /\ \A q \in Processes : proc[q].file # f
    BY <2>1 DEF Free
  <2> DEFINE r == [was EXCEPT !.pc = "writing", !.file = f]
  <2>4. /\ r \in ProcStates /\ r.pc = "writing" /\ r.file = f
        /\ r.raw \in Envelopes \ Large /\ r.at = 1
    BY <1>1, <2>2, <2>3 DEF ProcStates, Sound
  <2>5. Sound(r, temps', content')
    BY <2>1, <2>4 DEF Sound, Temporary
  <2>6. proc' = [proc EXCEPT ![p] = r]
    BY <1>1, <1>3, <2>1 DEF ProcStates
  <2> HIDE DEF r
  <2>7. \A g \in Files : g # f => content'[g] = content[g]
    BY <1>3, <2>1
  <2>8. ASSUME NEW q \in Processes \ {p}
        PROVE  /\ Sound(proc[q], temps', content')
               /\ proc[q].file # r.file
    <3>1. Sound(proc[q], temps, content) /\ proc[q].file # f
      BY <1>4, <2>3
    <3>2. /\ proc[q].pc \in Temporary => proc[q].file \in temps
          /\ proc[q].pc = "reading" => proc[q].file \in Files \ temps
      BY <3>1 DEF Sound
    <3>3. proc[q].pc \in {"writing", "renaming", "reading"} =>
            content'[proc[q].file] = content[proc[q].file]
      BY <1>3, <2>7, <3>1, <3>2 DEF Temporary
    <3>4. Sound(proc[q], temps', content')
      BY <2>1, <3>1, <3>2, <3>3, StaysSound
    <3> QED
      BY <2>4, <3>1, <3>4
  <2>9. content' \in [Files -> Contents]
    BY <1>3, <2>1, WholeType
  <2>10. PathWhole'
    BY <1>3, <2>1, <2>2, <2>3, <2>7 DEF Inv, PathWhole
  <2> QED
    BY <1>2, <1>3, <2>1, <2>2, <2>3, <2>5, <2>6, <2>8, <2>9, <2>10, SharedStep
<1>8. CASE CreateFails(p)
  BY <1>2, <1>5, <1>8 DEF CreateFails
<1>9. CASE WriteBlock(p)
  <2> DEFINE r == [was EXCEPT !.at = was.at + 1]
             f == was.file
             d == [content[f] EXCEPT ![was.at] = was.raw]
  <2>1. /\ was.pc = "writing" /\ was.at \in 1..Blocks
        /\ f \in temps /\ was.raw \in Envelopes \ Large
        /\ \A k \in 1..(was.at - 1) : content[f][k] = was.raw
        /\ path' = path /\ temps' = temps /\ mishaps' = mishaps
    BY <1>1, <1>2, <1>9 DEF WriteBlock, Sound, ProcStates, Temporary
  <2>2. f \in Files /\ content[f] \in Contents /\ d \in Contents
    BY <1>3, <2>1 DEF Contents
  <2>3. content' = [content EXCEPT ![f] = d]
    BY <1>3, <1>9, <2>2 DEF WriteBlock
  <2>4. /\ content'[f] = d
        /\ \A g \in Files : g # f => content'[g] = content[g]
    BY <1>3, <2>2, <2>3
  <2>5. /\ r \in ProcStates /\ r.pc = "writing" /\ r.file = f
        /\ r.raw = was.raw /\ r.at = was.at + 1
    BY <1>1, <1>2, <2>1 DEF ProcStates
  <2>6. \A k \in 1..(r.at - 1) : content'[r.file][k] = r.raw
    <3>1. \A k \in 1..was.at : d[k] = was.raw
      BY <1>2, <2>1, <2>2 DEF Contents
    <3>2. content'[r.file] = d /\ r.raw = was.raw
      BY <2>4, <2>5
    <3>3. r.at - 1 = was.at
      BY <1>2, <2>1, <2>5
    <3> QED
      BY <3>1, <3>2, <3>3
  <2>7. Sound(r, temps', content')
    BY <2>1, <2>5, <2>6 DEF Sound, Temporary
  <2>8. proc' = [proc EXCEPT ![p] = r]
    BY <1>1, <1>3, <1>9 DEF WriteBlock, ProcStates
  <2>9. ASSUME NEW q \in Processes \ {p}
        PROVE  /\ Sound(proc[q], temps', content')
               /\ HasTemp(q) => proc[q].file # f
    <3>1. Sound(proc[q], temps, content)
      BY <1>4
    <3>2. HasTemp(q) => proc[q].file # f
      BY <2>1 DEF Inv, OneOwner, HasTemp
    <3>3. /\ proc[q].pc \in Temporary => proc[q].file \in temps
          /\ proc[q].pc = "reading" => proc[q].file \in Files \ temps
      BY <3>1 DEF Sound
    <3>4. proc[q].pc \in {"writing", "renaming", "reading"} =>
            content'[proc[q].file] = content[proc[q].file]
      BY <1>3, <2>1, <2>4, <3>2, <3>3 DEF Temporary, HasTemp
    <3>5. Sound(proc[q], temps', content')
      BY <2>1, <3>1, <3>3, <3>4, StaysSound
    <3> QED
      BY <3>2, <3>5
  <2>10. content' \in [Files -> Contents]
    BY <1>3, <2>2, <2>3
  <2>11. PathWhole'
    BY <1>3, <2>1, <2>4 DEF Inv, PathWhole
  <2>12. path' \in Files \cup {NoFile} /\ temps' \subseteq Files
    BY <1>3, <2>1
  <2>13. mishaps' \in 0..MaxMishaps
    BY <1>2, <2>1
  <2>14. \A q \in Processes \ {p} :
           /\ Sound(proc[q], temps', content')
           /\ HasTemp(q) /\ r.pc \in Temporary => proc[q].file # r.file
    BY <2>5, <2>9
  <2> HIDE DEF r, d, f, was
  <2> QED
    BY <2>7, <2>8, <2>10, <2>11, <2>12, <2>13, <2>14, SharedStep
<1>10. CASE CloseTemp(p)
  <2> DEFINE r == [was EXCEPT !.pc = "renaming"]
  <2>1. /\ was.pc = "writing" /\ was.at = Blocks + 1
        /\ was.file \in temps /\ was.raw \in Envelopes \ Large
        /\ \A k \in 1..(was.at - 1) : content[was.file][k] = was.raw
        /\ UNCHANGED <<path, temps, content, mishaps>>
    BY <1>1, <1>2, <1>10 DEF CloseTemp, Sound, ProcStates, Temporary
  <2>2. content[was.file] = Whole(was.raw)
    <3>1. content[was.file] \in Contents /\ Whole(was.raw) \in Contents
      BY <1>3, <2>1, WholeType
    <3>2. \A k \in 1..Blocks : content[was.file][k] = Whole(was.raw)[k]
      BY <1>2, <2>1 DEF Whole
    <3> QED
      BY <3>1, <3>2, SameContent
  <2>3. /\ r \in ProcStates /\ r.pc = "renaming"
        /\ r.file = was.file /\ r.raw = was.raw
    BY <1>1 DEF ProcStates
  <2>4. Sound(r, temps, content)
    BY <2>1, <2>2, <2>3 DEF Sound, Temporary
  <2>5. proc' = [proc EXCEPT ![p] = r]
    BY <1>1, <1>3, <1>10 DEF CloseTemp, ProcStates
  <2> HIDE DEF r
  <2> QED
    BY <1>2, <2>1, <2>3, <2>4, <2>5, PrivateStep DEF HasTemp
<1>11. CASE StoreStepFails(p)
  <2> DEFINE r == [was EXCEPT !.pc = "removing"]
  <2>1. /\ was.pc \in {"writing", "renaming"}
        /\ UNCHANGED <<path, temps, content, mishaps>>
    BY <1>11 DEF StoreStepFails
  <2>2. /\ r \in ProcStates /\ r.pc = "removing"
        /\ r.file = was.file /\ r.raw = was.raw
    BY <1>1 DEF ProcStates
  <2>3. Sound(r, temps, content)
    BY <1>1, <2>1, <2>2 DEF Sound, Temporary
  <2>4. proc' = [proc EXCEPT ![p] = r]
    BY <1>1, <1>3, <1>11 DEF StoreStepFails, ProcStates
  <2> HIDE DEF r
  <2> QED
    BY <1>2, <2>1, <2>2, <2>3, <2>4, PrivateStep DEF HasTemp
<1>12. ASSUME NEW pc \in {"stored", "storeFailed"}, Ends(p, pc), HasTemp(p),
              temps' = temps \ {was.file}, content' = content,
              mishaps' = mishaps, path' \in Files \cup {NoFile}, PathWhole'
       PROVE  Inv'
  <2> DEFINE r == [Idle EXCEPT !.pc = pc, !.raw = was.raw]
  <2>1. Sound(r, temps', content') /\ r.pc = pc
    BY EndsSound DEF Idle
  <2>2. proc' = [proc EXCEPT ![p] = r]
    BY <1>12 DEF Ends
  <2>3. ASSUME NEW q \in Processes \ {p}
        PROVE  Sound(proc[q], temps', content')
    <3>1. Sound(proc[q], temps, content)
      BY <1>4
    <3>2. /\ proc[q].pc \in Temporary => proc[q].file \in temps
          /\ proc[q].pc = "reading" => proc[q].file \in Files \ temps
      BY <3>1 DEF Sound
    <3>3. proc[q].pc \in Temporary => proc[q].file # was.file
      BY <1>12 DEF Inv, OneOwner, HasTemp, Temporary
    <3> QED
      BY <1>12, <3>1, <3>2, <3>3, StaysSound
  <2> HIDE DEF r
  <2> QED
    BY <1>2, <1>3, <1>12, <2>1, <2>2, <2>3, SharedStep DEF Temporary
<1>13. CASE Rename(p)
  <2>1. /\ was.file \in temps /\ was.raw \in Envelopes \ Large
        /\ content[was.file] = Whole(was.raw) /\ HasTemp(p)
    BY <1>1, <1>13 DEF Rename, Sound, Temporary, HasTemp
  <2>2. PathWhole' /\ path' \in Files \cup {NoFile}
    BY <1>3, <1>13, <2>1 DEF Rename, PathWhole, Wholes
  <2> QED
    BY <1>12, <1>13, <2>1, <2>2 DEF Rename
<1>14. CASE Remove(p)
  <2>1. HasTemp(p) /\ PathWhole' /\ path' \in Files \cup {NoFile}
    BY <1>3, <1>14 DEF Remove, HasTemp, Inv, PathWhole
  <2> QED
    BY <1>12, <1>14, <2>1 DEF Remove
<1>15. CASE RemoveFails(p)
  BY <1>2, <1>5, <1>15 DEF RemoveFails
<1> QED
  BY <1>6, <1>7, <1>8, <1>9, <1>10, <1>11, <1>13, <1>14, <1>15 DEF Store

LEMMA LeavingKeepsInv ==
  ASSUME Inv, NEW p \in Processes, Again(p) \/ Crash(p)
  PROVE  Inv'
<1>1. UNCHANGED <<path, temps, content>> /\ proc' = [proc EXCEPT ![p] = Idle]
  BY DEF Again, Crash
<1>2. mishaps' \in 0..MaxMishaps
  BY FileCacheAssumption
  DEF Again, Crash, Inv, TypeOK, FileCacheAssumption
<1>3. Sound(Idle, temps, content) /\ Idle.pc \notin Temporary
  BY IdleIsSound DEF Temporary
<1> QED
  BY <1>1, <1>2, <1>3, PrivateStep

\* The invariant of the shared files holds of every behaviour.
LEMMA InvAlways == Spec => []Inv
<1>1. Init => Inv
  <2> SUFFICES ASSUME Init PROVE Inv
    OBVIOUS
  <2>1. PICK raw \in Envelopes \cup {NoBlock} :
          content = [f \in Files |-> IF f = path THEN Whole(raw) ELSE Empty]
    BY DEF Init
  <2>2. content \in [Files -> Contents]
    BY <2>1, WholeType
  <2>3. TypeOK
    BY <2>2, IdleIsSound, FileCacheAssumption
    DEF Init, TypeOK, FileCacheAssumption
  <2>4. PathWhole
    BY <2>1 DEF Init, PathWhole, Wholes
  <2>5. OneOwner
    BY IdleIsSound DEF Init, OneOwner, HasTemp
  <2>6. \A p \in Processes : Sound(proc[p], temps, content)
    BY IdleIsSound DEF Init
  <2> QED
    BY <2>3, <2>4, <2>5, <2>6 DEF Inv
<1>2. Inv /\ [Next]_vars => Inv'
  <2>1. Inv /\ UNCHANGED vars => Inv'
    BY DEF vars, Inv, TypeOK, PathWhole, OneOwner, HasTemp
  <2>2. Inv /\ Next => Inv'
    BY LoadKeepsInv, StoreKeepsInv, LeavingKeepsInv DEF Next
  <2> QED
    BY <2>1, <2>2
<1> QED
  BY <1>1, <1>2, PTL DEF Spec

\* The state of the cache and of every call stays well typed.
THEOREM FileCacheTypeCorrect == Spec => []TypeOK
BY InvAlways, PTL DEF Inv

\* No interleaving of loads, stores, failures and crashes of any number of
\* processes makes a load hand out a torn envelope.
THEOREM LoadsAreAlwaysWhole == Spec => []LoadsAreWhole
<1>1. Inv => LoadsAreWhole
  BY DEF Inv, Sound, LoadsAreWhole
<1> QED
  BY <1>1, InvAlways, PTL

\* A step of p does not touch a file somebody reads, nor the one at the path.
LEMMA FilesStay ==
  ASSUME Inv, NEW p \in Processes, Load(p) \/ Store(p) \/ Again(p) \/ Crash(p)
  PROVE  /\ \A q \in Processes : proc[q].pc = "reading" =>
              content'[proc[q].file] = content[proc[q].file]
         /\ path # NoFile => content'[path] = content[path]
         /\ path' = path \/ Rename(p)
         /\ \A q \in Processes \ {p} : proc'[q] = proc[q]
<1>1. /\ proc \in [Processes -> ProcStates] /\ content \in [Files -> Contents]
      /\ path \in (Files \cup {NoFile}) \ temps
      /\ \A q \in Processes : Sound(proc[q], temps, content)
  BY DEF Inv, TypeOK, PathWhole
<1>2. \A q \in Processes : proc[q].pc = "reading" => proc[q].file \in Files \ temps
  BY <1>1 DEF Sound
<1>3. \A q \in Processes \ {p} : proc'[q] = proc[q]
  BY <1>1 DEF Load, Open, OpenFails, ReadBlock, ReadFails, FinishLoad, Loaded,
     Store, BeginStore, CreateTemp, CreateFails, WriteBlock, CloseTemp,
     StoreStepFails, Rename, Remove, RemoveFails, Ends, Again, Crash
<1>4. path' = path \/ Rename(p)
  BY DEF Load, Open, OpenFails, ReadBlock, ReadFails, FinishLoad,
     Store, BeginStore, CreateTemp, CreateFails, WriteBlock, CloseTemp,
     StoreStepFails, Remove, RemoveFails, Again, Crash
<1>5. CASE CreateTemp(p)
  <2>1. PICK f \in Free : content' = [content EXCEPT ![f] = Empty]
    BY <1>5 DEF CreateTemp
  <2>2. f # path /\ \A q \in Processes : proc[q].file # f
    BY DEF Free
  <2> QED
    BY <1>1, <1>2, <1>3, <1>4, <2>1, <2>2
<1>6. CASE WriteBlock(p)
  <2>1. proc[p].file \in temps
    BY <1>1, <1>6 DEF WriteBlock, Sound, Temporary
  <2>2. \A g : g # proc[p].file /\ g \in Files => content'[g] = content[g]
    BY <1>1, <1>6 DEF WriteBlock
  <2> QED
    BY <1>1, <1>2, <1>3, <1>4, <2>1, <2>2
<1>7. content' = content \/ CreateTemp(p) \/ WriteBlock(p)
  BY DEF Load, Open, OpenFails, ReadBlock, ReadFails, FinishLoad,
     Store, BeginStore, CreateFails, CloseTemp,
     StoreStepFails, Rename, Remove, RemoveFails, Again, Crash
<1> QED
  BY <1>3, <1>4, <1>5, <1>6, <1>7

\* The abstract calls as AtomicFile sees them.
Calls == [p \in Processes |-> AbstractCall(p)]

\* A step of p changes its own abstract call only.
LEMMA CallsOfOthers ==
  ASSUME Inv, NEW p \in Processes, Load(p) \/ Store(p) \/ Again(p) \/ Crash(p),
         NEW v, AbstractCall(p)' = v
  PROVE  Calls' = [Calls EXCEPT ![p] = v]
<1>1. ASSUME NEW q \in Processes \ {p}
      PROVE  AbstractCall(q)' = AbstractCall(q)
  <2>1. proc'[q] = proc[q]
    BY FilesStay
  <2>2. proc[q].pc = "reading" =>
          content'[proc[q].file] = content[proc[q].file]
    BY FilesStay
  <2> QED
    BY <2>1, <2>2 DEF AbstractCall
<1> QED
  BY <1>1 DEF Calls

\* Every step of the cache is a step of AtomicFile or none.
LEMMA CacheStepIsAtomic ==
  ASSUME Inv, NEW p \in Processes, Load(p) \/ Store(p) \/ Again(p) \/ Crash(p)
  PROVE  \/ Atomic!Next
         \/ AbstractFile' = AbstractFile /\ Calls' = Calls
<1> DEFINE was == proc[p]
<1>1. /\ was \in ProcStates /\ Sound(was, temps, content)
      /\ proc \in [Processes -> ProcStates]
      /\ Calls[p] = AbstractCall(p)
  BY DEF Inv, TypeOK, Calls
<1>2. Rename(p) \/ AbstractFile' = AbstractFile
  BY FilesStay DEF AbstractFile
<1>3. ASSUME AbstractCall(p)' = AbstractCall(p) PROVE Calls' = Calls
  BY <1>3, CallsOfOthers DEF Calls
<1>4. CASE Open(p)
  <2>1. Calls[p].pc = "idle"
    BY <1>1, <1>4 DEF Open, AbstractCall
  <2>2. AbstractCall(p)' = [pc |-> "loading", value |-> AbstractFile]
    <3>1. proc'[p].pc = "reading" /\ proc'[p].file = path /\ path # NoFile
      BY <1>1, <1>4 DEF Open, Idle
    <3>2. content' = content
      BY <1>4 DEF Open
    <3> QED
      BY <3>1, <3>2 DEF AbstractCall, AbstractFile
  <2>3. Calls' = [Calls EXCEPT ![p] = [pc |-> "loading", value |-> AbstractFile]]
    BY <1>4, <2>2, CallsOfOthers DEF Load
  <2>4. AbstractFile' = AbstractFile
    BY <1>2, <1>4 DEF Open, Rename
  <2> QED
    BY <2>1, <2>3, <2>4
    DEF Atomic!Next, Atomic!BeginLoad, Atomic!Becomes, Calls
<1>5. ASSUME Loaded(p, NoContent), was.pc \in {"idle", "reading"}
      PROVE  Atomic!Next
  <2>1. Calls[p].pc \in {"idle", "loading"}
    BY <1>1, <1>5 DEF AbstractCall
  <2>2. AbstractCall(p)' = [pc |-> "loaded", value |-> NoContent]
    <3>1. proc'[p].pc = "loaded" /\ proc'[p].got = NoContent
      BY <1>1, <1>5 DEF Loaded, Idle
    <3> QED
      BY <3>1 DEF AbstractCall
  <2>3. Calls' = [Calls EXCEPT ![p] = [pc |-> "loaded", value |-> NoContent]]
    BY <2>2, CallsOfOthers
  <2>4. AbstractFile' = AbstractFile
    BY <1>2, <1>5 DEF Rename
  <2> QED
    BY <2>1, <2>3, <2>4
    DEF Atomic!Next, Atomic!LoadFails, Atomic!Becomes, Calls
<1>6. CASE OpenFails(p) \/ ReadFails(p)
  BY <1>5, <1>6 DEF OpenFails, ReadFails
<1>7. CASE ReadBlock(p)
  <2>1. /\ was.pc = "reading" /\ proc'[p].pc = "reading"
        /\ proc'[p].file = was.file /\ content' = content
    BY <1>1, <1>7 DEF ReadBlock, ProcStates
  <2>2. AbstractCall(p)' = AbstractCall(p)
    BY <2>1 DEF AbstractCall
  <2> QED
    BY <1>2, <1>3, <1>7, <2>2 DEF ReadBlock, Rename
<1>8. CASE FinishLoad(p)
  <2>1. was.got = content[was.file] /\ was.got \in Wholes /\ was.pc = "reading"
    BY <1>8, ReadWhole DEF FinishLoad
  <2>2. CASE was.got \in {Empty} \cup Oversized
    BY <1>5, <1>8, <2>2 DEF FinishLoad
  <2>3. CASE was.got \notin {Empty} \cup Oversized
    <3>1. was.got \in Envelopable
      BY <2>1, <2>3 DEF Wholes, Envelopable, Empty, Oversized
    <3>2. Calls[p].pc = "loading" /\ Calls[p].value = was.got
      BY <1>1, <2>1 DEF AbstractCall
    <3>3. AbstractCall(p)' = [pc |-> "loaded", value |-> was.got]
      <4>1. proc'[p].pc = "loaded" /\ proc'[p].got = was.got
        BY <1>1, <1>8, <2>3 DEF FinishLoad, Loaded, Idle
      <4> QED
        BY <4>1 DEF AbstractCall
    <3>4. Calls' = [Calls EXCEPT ![p] = [pc |-> "loaded", value |-> was.got]]
      BY <1>8, <3>3, CallsOfOthers DEF Load
    <3>5. AbstractFile' = AbstractFile
      BY <1>2, <1>8 DEF FinishLoad, Rename
    <3> QED
      BY <3>1, <3>2, <3>4, <3>5
      DEF Atomic!Next, Atomic!LoadReturns, Atomic!Becomes, Calls
  <2> QED
    BY <2>2, <2>3
<1>9. ASSUME NEW raw \in Envelopes, BeginStore(p, raw) PROVE Atomic!Next
  <2>1. Calls[p].pc = "idle" /\ Whole(raw) \in Contents
    BY <1>1, <1>9, WholeType DEF BeginStore, AbstractCall
  <2>2. AbstractCall(p)' = [pc |-> "storing", value |-> Whole(raw)]
    <3>1. proc'[p].pc = "creating" /\ proc'[p].raw = raw
      BY <1>1, <1>9 DEF BeginStore, ProcStates
    <3> QED
      BY <3>1 DEF AbstractCall
  <2>3. Calls' = [Calls EXCEPT ![p] = [pc |-> "storing", value |-> Whole(raw)]]
    BY <1>9, <2>2, CallsOfOthers DEF Store
  <2>4. AbstractFile' = AbstractFile
    BY <1>2, <1>9 DEF BeginStore, Rename
  <2> QED
    BY <2>1, <2>3, <2>4
    DEF Atomic!Next, Atomic!BeginStore, Atomic!Becomes, Calls
<1>10. CASE CreateTemp(p) \/ WriteBlock(p) \/ CloseTemp(p) \/ StoreStepFails(p)
  <2>1. /\ was.pc \in {"creating"} \cup Temporary
        /\ proc'[p].pc \in Temporary
        /\ proc'[p].raw = was.raw
    BY <1>1, <1>10 DEF CreateTemp, WriteBlock, CloseTemp, StoreStepFails,
                       Temporary, ProcStates
  <2>2. AbstractCall(p)' = AbstractCall(p)
    BY <2>1 DEF AbstractCall, Temporary
  <2>3. AbstractFile' = AbstractFile
    <3>1. path' = path
      BY <1>10 DEF CreateTemp, WriteBlock, CloseTemp, StoreStepFails
    <3> QED
      BY <3>1, FilesStay DEF AbstractFile
  <2> QED
    BY <1>3, <2>2, <2>3
<1>11. ASSUME NEW pc \in {"stored", "storeFailed"}, Ends(p, pc),
              was.pc \in {"creating"} \cup Temporary
       PROVE  /\ Calls[p].pc = "storing" /\ Calls[p].value = Whole(was.raw)
              /\ Calls' = [Calls EXCEPT ![p] = [pc |-> pc,
                                                value |-> Whole(was.raw)]]
  <2>1. Calls[p].pc = "storing" /\ Calls[p].value = Whole(was.raw)
    BY <1>1, <1>11 DEF AbstractCall, Temporary
  <2>2. proc'[p].pc = pc /\ proc'[p].raw = was.raw
    BY <1>1, <1>11 DEF Ends, Idle
  <2>3. AbstractCall(p)' = [pc |-> pc, value |-> Whole(was.raw)]
    BY <2>2 DEF AbstractCall
  <2> QED
    BY <2>1, <2>3, CallsOfOthers
<1>12. CASE CreateFails(p) \/ Remove(p) \/ RemoveFails(p)
  <2>1. Ends(p, "storeFailed") /\ was.pc \in {"creating"} \cup Temporary
    BY <1>12 DEF CreateFails, Remove, RemoveFails, Temporary
  <2>2. AbstractFile' = AbstractFile
    <3>1. path' = path
      BY <1>12 DEF CreateFails, Remove, RemoveFails
    <3> QED
      BY <3>1, FilesStay DEF AbstractFile
  <2>3. /\ Calls[p].pc = "storing" /\ Calls[p].value = Whole(was.raw)
        /\ Calls' = [Calls EXCEPT ![p] = [pc |-> "storeFailed",
                                          value |-> Whole(was.raw)]]
    BY <1>11, <2>1
  <2> QED
    BY <2>2, <2>3 DEF Atomic!Next, Atomic!StoreFails, Atomic!Becomes, Calls
<1>13. CASE Rename(p)
  <2>1. /\ was.pc = "renaming" /\ path' = was.file /\ Ends(p, "stored")
        /\ content' = content
    BY <1>13 DEF Rename
  <2>2. /\ was.file \in Files /\ content[was.file] = Whole(was.raw)
        /\ was.raw \in Envelopes \ Large
    BY <1>1, <2>1 DEF Sound, Temporary, Inv, TypeOK
  <2>3. AbstractFile' = Whole(was.raw) /\ Whole(was.raw) \in Envelopable
    BY <2>1, <2>2, FileCacheAssumption
    DEF AbstractFile, Envelopable, FileCacheAssumption
  <2>4. /\ Calls[p].pc = "storing" /\ Calls[p].value = Whole(was.raw)
        /\ Calls' = [Calls EXCEPT ![p] = [pc |-> "stored",
                                          value |-> Whole(was.raw)]]
    BY <1>11, <2>1 DEF Temporary
  <2> QED
    BY <2>3, <2>4 DEF Atomic!Next, Atomic!Replace, Atomic!Becomes, Calls
<1>14. CASE Again(p) \/ Crash(p)
  <2>1. proc'[p] = Idle
    BY <1>1, <1>14 DEF Again, Crash
  <2>2. AbstractCall(p)' = [pc |-> "idle", value |-> NoContent]
    BY <2>1 DEF AbstractCall, Idle
  <2>3. Calls' = [Calls EXCEPT ![p] = [pc |-> "idle", value |-> NoContent]]
    BY <1>14, <2>2, CallsOfOthers
  <2>4. AbstractFile' = AbstractFile
    <3>1. path' = path
      BY <1>14 DEF Again, Crash
    <3> QED
      BY <3>1, FilesStay DEF AbstractFile
  <2> QED
    BY <2>3, <2>4 DEF Atomic!Next, Atomic!Leave, Atomic!Becomes, Calls
<1> QED
  BY <1>4, <1>6, <1>7, <1>8, <1>9, <1>10, <1>12, <1>13, <1>14 DEF Load, Store

\* A file replaced by temp-write-rename is, to all of its readers and writers,
\* a file that is read and replaced in one step each.
THEOREM CacheImplementsAtomicFile == Spec => ImplementsAtomicFile
<1>1. Init => Atomic!Init
  <2> SUFFICES ASSUME Init PROVE Atomic!Init
    OBVIOUS
  <2>1. PICK raw \in Envelopes \cup {NoBlock} :
          content = [f \in Files |-> IF f = path THEN Whole(raw) ELSE Empty]
    BY DEF Init
  <2>2. AbstractFile \in Contents \cup {NoContent}
    BY <2>1, WholeType DEF Init, AbstractFile
  <2>3. \A p \in Processes : AbstractCall(p) = [pc |-> "idle", value |-> NoContent]
    BY DEF Init, AbstractCall, Idle
  <2> QED
    BY <2>2, <2>3 DEF Atomic!Init, Atomic!Idle
<1>2. Inv /\ [Next]_vars => [Atomic!Next]_(Atomic!vars)
  <2>1. Inv /\ Next => [Atomic!Next]_(Atomic!vars)
    BY CacheStepIsAtomic DEF Next, Atomic!vars, Calls
  <2>2. UNCHANGED vars => UNCHANGED Atomic!vars
    BY DEF vars, Atomic!vars, AbstractFile, AbstractCall
  <2> QED
    BY <2>1, <2>2
<1> QED
  BY <1>1, <1>2, InvAlways, PTL DEF Spec, ImplementsAtomicFile, Atomic!Spec

\* The temporary files nobody works on.
Litter == temps \ {proc[p].file : p \in {q \in Processes : HasTemp(q)}}

Counted == IsFiniteSet(Litter) /\ Cardinality(Litter) = mishaps

\* A file given up by the store that owned it, and only such a file, becomes
\* litter; one made, renamed or removed by a store was never litter.
LEMMA LitterStep ==
  ASSUME Inv, Inv', NEW p \in Processes,
         Load(p) \/ Store(p) \/ Again(p) \/ Crash(p)
  PROVE  \/ Litter' = Litter /\ mishaps' = mishaps
         \/ \E f \in Files : f \notin Litter /\ Litter' = Litter \cup {f}
                               /\ mishaps' = mishaps + 1
<1> DEFINE was == proc[p]
           mine == IF HasTemp(p) THEN {was.file} ELSE {}
           others == {proc[q].file : q \in {r \in Processes \ {p} : HasTemp(r)}}
<1>1. Litter = temps \ (mine \cup others)
  BY DEF Litter
<1>2. others' = others /\ proc \in [Processes -> ProcStates]
  BY FilesStay DEF HasTemp, Inv, TypeOK
<1>3. /\ \A f \in others : f \notin mine /\ f \notin mine'
      /\ mine \subseteq temps /\ others \subseteq temps /\ temps \subseteq Files
  <2>1. \A f \in others : f \notin mine
    BY DEF Inv, OneOwner
  <2>2. \A f \in others' : f \notin mine'
    BY DEF Inv, OneOwner
  <2>3. \A q \in Processes : HasTemp(q) => proc[q].file \in temps
    BY DEF Inv, Sound, HasTemp, Temporary
  <2> QED
    BY <1>2, <2>1, <2>2, <2>3 DEF Inv, TypeOK
<1>4. Litter' = temps' \ (mine' \cup others)
  <2>1. Litter' = temps' \ (mine' \cup others')
    BY DEF Litter
  <2> QED
    BY <1>2, <2>1
<1>5. CASE mishaps' = mishaps /\ temps' = temps /\ mine' = mine
  BY <1>1, <1>4, <1>5
<1>6. CASE \/ temps' = temps \ mine /\ mine' = {} /\ mishaps' = mishaps
           \/ \E f \in Files \ temps : temps' = temps \cup {f}
                 /\ mine = {} /\ mine' = {f} /\ mishaps' = mishaps
  BY <1>1, <1>3, <1>4, <1>6
<1>7. CASE /\ HasTemp(p) /\ mine' = {} /\ temps' = temps
           /\ mishaps' = mishaps + 1
  BY <1>1, <1>3, <1>4, <1>7
<1>8. CASE Load(p) \/ Again(p)
  <2>1. was.pc \in {"idle", "reading", "loaded", "stored", "storeFailed"}
    BY <1>8 DEF Load, Open, OpenFails, ReadBlock, ReadFails, FinishLoad, Again
  <2>2. UNCHANGED <<temps, mishaps>>
    BY <1>8 DEF Load, Open, OpenFails, ReadBlock, ReadFails, FinishLoad, Again
  <2>3. ASSUME NEW got, Loaded(p, got) PROVE proc'[p].pc = "loaded"
    BY <1>2, <2>3 DEF Loaded, Idle
  <2>4. CASE OpenFails(p) \/ ReadFails(p) \/ FinishLoad(p)
    <3>1. proc'[p].pc = "loaded"
      BY <2>3, <2>4 DEF OpenFails, ReadFails, FinishLoad
    <3>2. ~HasTemp(p) /\ ~HasTemp(p)'
      BY <2>1, <3>1 DEF HasTemp
    <3> QED
      BY <1>5, <2>2, <3>2
  <2>5. CASE Open(p) \/ Again(p)
    <3>1. proc'[p].pc \in {"reading", "idle"}
      <4>1. CASE Open(p)
        BY <1>2, <4>1 DEF Open, Idle
      <4>2. CASE Again(p)
        BY <1>2, <4>2 DEF Again, Idle
      <4> QED
        BY <2>5, <4>1, <4>2
    <3> QED
      BY <1>5, <2>1, <2>2, <3>1 DEF HasTemp
  <2>6. CASE ReadBlock(p)
    <3>1. proc'[p].pc = was.pc
      BY <1>2, <2>6 DEF ReadBlock, ProcStates
    <3> QED
      BY <1>5, <2>1, <2>2, <3>1 DEF HasTemp
  <2> QED
    BY <1>8, <2>4, <2>5, <2>6 DEF Load
<1>9. CASE Crash(p)
  <2>1. proc'[p].pc = "idle" /\ temps' = temps
    BY <1>2, <1>9 DEF Crash, Idle
  <2>2. mishaps' = IF HasTemp(p) THEN mishaps + 1 ELSE mishaps
    BY <1>9 DEF Crash
  <2> QED
    BY <1>5, <1>7, <2>1, <2>2 DEF HasTemp
<1>10. CASE (\E raw \in Envelopes : BeginStore(p, raw)) \/ CreateFails(p)
  <2>1. was.pc \in {"idle", "creating"} /\ UNCHANGED <<temps, mishaps>>
    BY <1>10 DEF BeginStore, CreateFails
  <2>2. proc'[p].pc \in {"creating", "storeFailed"}
    <3>1. CASE \E raw \in Envelopes : BeginStore(p, raw)
      <4>1. PICK raw : proc' = [proc EXCEPT ![p].pc = "creating",
                                             ![p].raw = raw]
        BY <3>1 DEF BeginStore
      <4> QED
        BY <1>2, <4>1 DEF ProcStates
    <3>2. CASE CreateFails(p)
      BY <1>2, <3>2 DEF CreateFails, Ends, Idle
    <3> QED
      BY <1>10, <3>1, <3>2
  <2>3. ~HasTemp(p) /\ ~HasTemp(p)'
    BY <2>1, <2>2 DEF HasTemp
  <2> QED
    BY <1>5, <2>1, <2>3
<1>11. CASE CreateTemp(p)
  <2>1. PICK f \in Free : /\ temps' = temps \cup {f} /\ mishaps' = mishaps
                          /\ proc' = [proc EXCEPT ![p].pc = "writing",
                                                  ![p].file = f]
    BY <1>11 DEF CreateTemp
  <2>2. was.pc = "creating" /\ f \in Files \ temps
    BY <1>11, <2>1 DEF CreateTemp, Free
  <2>3. proc'[p].pc = "writing" /\ proc'[p].file = f
    BY <1>2, <2>1 DEF ProcStates
  <2> QED
    BY <1>6, <2>1, <2>2, <2>3 DEF HasTemp
<1>12. CASE WriteBlock(p) \/ CloseTemp(p) \/ StoreStepFails(p)
  <2>1. was.pc \in {"writing", "renaming"} /\ UNCHANGED <<temps, mishaps>>
    BY <1>12 DEF WriteBlock, CloseTemp, StoreStepFails
  <2>2. /\ proc'[p].pc \in {"writing", "renaming", "removing"}
        /\ proc'[p].file = was.file
    <3>1. CASE WriteBlock(p)
      BY <1>2, <2>1, <3>1 DEF WriteBlock, ProcStates
    <3>2. CASE CloseTemp(p)
      BY <1>2, <3>2 DEF CloseTemp, ProcStates
    <3>3. CASE StoreStepFails(p)
      BY <1>2, <3>3 DEF StoreStepFails, ProcStates
    <3> QED
      BY <1>12, <3>1, <3>2, <3>3
  <2>3. HasTemp(p) /\ HasTemp(p)'
    BY <2>1, <2>2 DEF HasTemp
  <2> QED
    BY <1>5, <2>1, <2>2, <2>3
<1>13. CASE Rename(p) \/ Remove(p)
  <2>1. /\ HasTemp(p) /\ temps' = temps \ {was.file} /\ mishaps' = mishaps
        /\ Ends(p, "stored") \/ Ends(p, "storeFailed")
    BY <1>13 DEF Rename, Remove, HasTemp
  <2>2. proc'[p].pc \in {"stored", "storeFailed"}
    BY <1>2, <2>1 DEF Ends, Idle
  <2> QED
    BY <1>6, <2>1, <2>2 DEF HasTemp
<1>14. CASE RemoveFails(p)
  <2>1. /\ was.pc = "removing" /\ temps' = temps /\ mishaps' = mishaps + 1
        /\ Ends(p, "storeFailed")
    BY <1>14 DEF RemoveFails
  <2>2. proc'[p].pc = "storeFailed"
    BY <1>2, <2>1 DEF Ends, Idle
  <2> QED
    BY <1>7, <2>1, <2>2 DEF HasTemp
<1> QED
  BY <1>8, <1>9, <1>10, <1>11, <1>12, <1>13, <1>14 DEF Store

\* No error path of store forgets its temporary file: what is left is one file
\* for every crash within a store and for every failed Remove.
THEOREM LitterAlwaysFromMishaps == Spec => []LitterOnlyFromMishaps
<1>1. Init => Counted
  <2>1. Init => Litter = {} /\ mishaps = 0
    BY DEF Init, Litter
  <2> QED
    BY <2>1, FS_EmptySet DEF Counted
<1>2. Inv /\ Inv' /\ Counted /\ [Next]_vars => Counted'
  <2> SUFFICES ASSUME Inv, Inv', Counted, [Next]_vars PROVE Counted'
    OBVIOUS
  <2>1. CASE UNCHANGED vars
    <3>1. Litter' = Litter /\ mishaps' = mishaps
      BY <2>1 DEF vars, Litter, HasTemp
    <3> QED
      BY <3>1 DEF Counted
  <2>2. CASE Next
    <3>1. \/ Litter' = Litter /\ mishaps' = mishaps
          \/ \E f \in Files : f \notin Litter /\ Litter' = Litter \cup {f}
                                /\ mishaps' = mishaps + 1
      BY <2>2, LitterStep DEF Next
    <3> QED
      BY <3>1, FS_AddElement DEF Counted
  <2> QED
    BY <2>1, <2>2
<1>3. Counted => LitterOnlyFromMishaps
  BY DEF Counted, Litter, LitterOnlyFromMishaps
<1> QED
  BY <1>1, <1>2, <1>3, InvAlways, PTL DEF Spec
=============================================================================
