---------------------------- MODULE LandingProofs ----------------------------
(***************************************************************************)
(* Proofs about the landing engine, second part: whatever the manifest,    *)
(* the filesystem, the batches, the steps of outsiders and the attempts, a *)
(* path never holds a torn file, an entry leaves the overlay only once its *)
(* state was on the disk and synced, a landing that reports Done has left  *)
(* nothing unreported, a replaced file nobody touched is old or new, and   *)
(* no outsider's bytes are lost.                                           *)
(***************************************************************************)
EXTENDS LandingPlacing

\* Zenon proves a leaf, but where it names the SMT solver.
USE ZenonT(20)

-----------------------------------------------------------------------------
(* The write phase *)

\* Only temporaries differ in d, each with some of its bytes or all.
Elsewhere(d) ==
  /\ \A n : n[1] \notin {"hidden", "descriptor"} =>
       (n \in DOMAIN d <=> n \in DOMAIN disk) /\ (n \in DOMAIN d => d[n] = disk[n])
  /\ d = [n \in DOMAIN d |-> d[n]]
  /\ \A n \in DOMAIN d : n[1] \in {"hidden", "descriptor"} =>
       n \in Name /\ IsFile(d[n]) /\ d[n].bytes \in {"part", "new"}

WriteFields == {"next", "class", "outcome", "crashed", "copy", "staged", "placing", "barrier",
                "counter", "step", "at", "temp"}

\* The state a step of the write phase starts from.
LEMMA WritingIs ==
  ASSUME IInv, run.phase = "write", run.step = "none"
  PROVE  /\ scene \in Scenes /\ DiskInv(disk, Owed, edits) /\ IsRun(run)
         /\ run.next \in Nat /\ run.counter \in Nat /\ run.temp = NoName
         /\ BatchInv(run, disk) /\ OutcomeInv(run) /\ LeftInv(run, disk)
         /\ ~LiveTemp(run) /\ ~LiveAside(run)
         /\ NoName \notin DOMAIN disk
<1>1. NoName \notin DOMAIN disk
  BY NamesDiffer DEF IInv, DiskInv, DiskType, Name, NoName
<1> QED BY <1>1 DEF IInv, RunInv, RunType, BatchInv, LiveTemp, LiveAside

\* Steps on temporaries keep what is said of the directory and of the paths ...
LEMMA ElsewhereDisk ==
  ASSUME IInv, NEW d, Elsewhere(d)
  PROVE  /\ DiskInv(d, Owed, edits)
         /\ \A i \in Entries : Held(i, disk, changed, reached) => Held(i, d, changed, Reached(d))
<1>2. /\ scene \in Scenes /\ DiskType(disk) /\ DurableInv(disk) /\ LossInv(disk, Owed) /\ OldInv(disk, edits)
  BY DEF IInv, DiskInv
<1>3. DiskType(d) /\ DurableInv(d)
  BY <1>2 DEF Elsewhere, DiskType, DurableInv
<1>4. LossInv(d, Owed)
  <2>1. ASSUME NEW c \in Owed PROVE \E n \in DOMAIN d : d[n].bytes = c
    <3>1. PICK n \in DOMAIN disk : disk[n].bytes = c
      BY <1>2, <2>1 DEF LossInv
    <3>2. c # "part" /\ c # "new"
      BY OwnBytes
    <3>3. n[1] \notin {"hidden", "descriptor"}
      BY <1>2, <3>1, <3>2 DEF LossInv
    <3> QED BY <3>1, <3>3 DEF Elsewhere
  <2>2. \A n \in DOMAIN d : n[1] \in {"path", "aside"} => n \in DOMAIN disk /\ d[n] = disk[n]
    BY DEF Elsewhere
  <2> QED BY SMTT(60), <1>2, <2>1, <2>2 DEF LossInv, Elsewhere
<1>5. \A i \in Entries : /\ Path(i) \in DOMAIN d <=> Path(i) \in DOMAIN disk
                         /\ Path(i) \in DOMAIN d => d[Path(i)] = disk[Path(i)]
                         /\ Aside(i) \in DOMAIN d <=> Aside(i) \in DOMAIN disk
                         /\ Aside(i) \in DOMAIN d => d[Aside(i)] = disk[Aside(i)]
  BY NamesDiffer DEF Elsewhere
<1>6. OldInv(d, edits)
  BY <1>2, <1>5 DEF OldInv
<1>7. \A i \in Entries : Held(i, disk, changed, reached) => Held(i, d, changed, Reached(d))
  BY <1>5, HeldKept
<1> QED BY <1>3, <1>4, <1>6, <1>7 DEF DiskInv

\* ... and, in the write phase, of the overlay.
LEMMA WriteFramed ==
  ASSUME IInv, run.phase = "write", NEW d, Elsewhere(d),
         NEW r, Same(run, r, WriteFields), r.next \in Nat, r.counter \in Nat,
         \A i \in Entries : r.outcome[i] \in Advances =>
           r.outcome[i] = run.outcome[i] \/ r.outcome[i] = run.verdict[i],
         r.step \notin {"verify", "removeold", "verifyaside"}
  PROVE  /\ DiskInv(d, Owed, edits) /\ RunType(r, d)
         /\ HeldInv(r, d, changed, Reached(d)) /\ OverlayInv(r, overlay, Reached(d), synced)
<1>1. /\ r.phase = "write" /\ r.verdict = run.verdict /\ r.unsynced = run.unsynced /\ IsRun(r)
  BY DEF Same, Fields, WriteFields
<1>2. DOMAIN run.verdict = Entries
  BY DEF IInv, RunInv, OutcomeInv
<1>7. RunType(r, d)
  BY <1>1 DEF RunType
<1>8. /\ DiskInv(d, Owed, edits)
      /\ \A i \in Entries : Held(i, disk, changed, reached) => Held(i, d, changed, Reached(d))
  BY ElsewhereDisk
<1>9. HeldInv(r, d, changed, Reached(d))
  <2>1. \A i \in Entries : r.verdict[i] \in Advances => Held(i, d, changed, Reached(d))
    BY <1>1, <1>2, <1>8 DEF IInv, HeldInv
  <2>2. \A i \in Entries : r.outcome[i] \in Advances => Held(i, d, changed, Reached(d))
    BY <1>1, <1>2, <1>8, <2>1 DEF IInv, HeldInv
  <2> QED BY <1>1, <1>2, <2>1, <2>2 DEF HeldInv, Reached
<1>10. OverlayInv(r, overlay, Reached(d), synced)
  BY <1>1 DEF OverlayInv, IInv, Reached
<1> QED BY <1>7, <1>8, <1>9, <1>10

\* The names of the batch and of the copy stay accounted for.
LEMMA LeftWritten ==
  ASSUME IInv, run.phase = "write", run.step = "none", NEW d, NEW r, Same(run, r, WriteFields),
         \A n \in DOMAIN d :
           \/ n = r.copy
           \/ /\ n \in DOMAIN disk
              /\ n = run.copy \/ n \in Temps(run) =>
                   n = r.copy \/ n \in Temps(r) \/ (r.step = "place" /\ n = r.temp),
         \A i \in Entries : run.outcome[i] \in {"failed", "skipped"} => r.outcome[i] = run.outcome[i]
  PROVE  LeftInv(r, d)
<1>1. r.phase = "write" /\ r.reported = run.reported
  BY DEF Same, Fields, WriteFields
<1>2. LeftOver(run) => LeftOver(r)
  BY DEF LeftOver
<1>3. \A n : Spare(run, n) => Spare(r, n)
  BY <1>1 DEF Spare
<1>4. \A n : InUse(run, n) => n = run.copy \/ n \in Temps(run)
  BY WritingIs DEF InUse
<1>5. \A n : n = r.copy \/ n \in Temps(r) \/ (r.step = "place" /\ n = r.temp) => InUse(r, n)
  BY DEF InUse, LiveTemp
<1>6. \A n \in DOMAIN d : n[1] = "descriptor" =>
        n = r.copy \/ n \in Temps(r) \/ (r.step = "place" /\ n = r.temp)
  BY WritingIs DEF LeftInv
<1>7. \A n \in DOMAIN d : Spare(r, n) \/ InUse(r, n) \/ LeftOver(r)
  BY <1>2, <1>3, <1>4, <1>5, WritingIs DEF LeftInv
<1> QED BY <1>1, <1>6, <1>7 DEF LeftInv

\* The outcomes of a step of the write phase.
LEMMA OutcomeWritten ==
  ASSUME IInv, run.phase = "write", run.step = "none", NEW r, Same(run, r, WriteFields),
         r.next \in Nat, r.next >= run.next, DOMAIN r.outcome = Entries,
         \A i \in Entries : i >= r.next => r.outcome[i] = run.outcome[i],
         \A k \in 1 .. Len(r.staged) :
           LET i == r.staged[k].entry IN
           /\ Open(run, i) /\ manifest[i].action # "delete" /\ r.outcome[i] = "none"
           /\ r.step # "none" => i # r.at
           /\ r.copy # NoName => i # r.next - 1,
         r.copy # NoName => Open(r, r.next - 1) /\ manifest[r.next - 1].action # "delete",
         r.step # "none" => Open(r, r.at)
  PROVE  OutcomeInv(r)
<1>1. r.phase = "write" /\ r.verdict = run.verdict
  BY DEF Same, Fields, WriteFields
<1>2. OutcomeInv(run) /\ run.next \in Nat /\ Entries \subseteq Nat /\ run.next >= 1
  BY WritingIs, EntriesAre DEF OutcomeInv
<1>3. \A i \in Entries : i >= r.next => r.outcome[i] = "none"
  BY SMTT(60), <1>2 DEF OutcomeInv
<1>4. \A i : Open(run, i) /\ r.outcome[i] = "none" => Open(r, i)
  BY SMTT(60), <1>1, <1>2 DEF Open
<1>5. r.next >= 1
  BY SMTT(60), <1>2
<1> QED BY <1>1, <1>2, <1>3, <1>4, <1>5 DEF OutcomeInv

\* An entry begun.
Begun(r) == [r EXCEPT !.next = @ + 1, !.class = manifest[run.next].action]

\* Beginning an entry moves the run to the next one and classifies it, and no more.
LEMMA BegunRun ==
  ASSUME NEW r, IsRun(r)
  PROVE  Same(r, Begun(r), {"next", "class"}) /\ Begun(r).next = r.next + 1
BY DEF IsRun, Fields, Begun, Same

Beginning ==
  /\ Writing /\ run.barrier = "idle" /\ run.copy = NoName /\ ~Closing
  /\ run.next \in Entries /\ ~run.crashed

\* The state an entry begins in.
LEMMA BeginningIs ==
  ASSUME IInv, Beginning
  PROVE  /\ run.phase = "write" /\ run.step = "none" /\ ~run.placing /\ run.barrier = "idle"
         /\ run.copy = NoName /\ run.next \in Entries /\ run.next \in Nat
         /\ run.outcome[run.next] = "none"
         /\ \A k \in 1 .. Len(run.staged) :
              LET i == run.staged[k].entry IN
              /\ Open(run, i) /\ manifest[i].action # "delete" /\ i # run.next /\ i \in Nat
              /\ i < run.next
         /\ DOMAIN run.outcome = Entries
<1>1. /\ run.phase = "write" /\ run.step = "none" /\ run.barrier = "idle"
      /\ run.copy = NoName /\ run.next \in Entries
  BY DEF Beginning, Writing
<1>2. ~run.placing
  BY <1>1, WritingIs DEF BatchInv, Beginning, Closing
<1>3. Entries \subseteq Nat /\ OutcomeInv(run)
  BY <1>1, WritingIs, EntriesAre
<1>4. ASSUME NEW k \in 1 .. Len(run.staged)
      PROVE  LET i == run.staged[k].entry IN
             /\ Open(run, i) /\ manifest[i].action # "delete" /\ i # run.next /\ i \in Nat
             /\ i < run.next
  <2>1. Open(run, run.staged[k].entry) /\ manifest[run.staged[k].entry].action # "delete"
    BY <1>1, <1>3 DEF OutcomeInv
  <2> DEFINE e == run.staged[k].entry
  <2>2. e \in Entries /\ e < run.next
    BY <2>1 DEF Open
  <2> HIDE DEF e
  <2>3. e \in Nat /\ run.next \in Nat
    BY <1>1, <1>3, <2>2
  <2>4. e # run.next
    BY SMTT(60), <2>2, <2>3
  <2> QED BY <2>1, <2>2, <2>3, <2>4 DEF e
<1>5. run.next \in Nat /\ run.outcome[run.next] = "none" /\ DOMAIN run.outcome = Entries
  <2>1. run.next \in Nat
    BY <1>1, <1>3
  <2>2. \A i \in Nat : i >= i
    BY SMTT(60)
  <2> QED BY <1>1, <1>3, <2>1, <2>2 DEF OutcomeInv
<1> QED BY <1>1, <1>2, <1>4, <1>5

\* One that has its outcome as it begins.
LEMMA BeginSettled ==
  ASSUME IInv, Beginning, NEW o, o = run.verdict[run.next] \/ o \notin Advances, NEW c, NEW r,
         r = Begun(Settled({run.next}, o, c)) \/ r = Counting(Begun(Settled({run.next}, o, c)))
  PROVE  After(r, disk)
<1> DEFINE i == run.next
           s == Settled({i}, o, c)
           b == Begun(s)
<1>1. /\ Same(run, s, {"outcome", "crashed"}) /\ DOMAIN s.outcome = Entries
      /\ \A j \in Entries : s.outcome[j] = IF j \in {i} THEN o ELSE run.outcome[j]
  BY SMTT(60), BeginningIs, WritingIs, SettledRun
<1> HIDE DEF s
<1>2. Same(s, b, {"next", "class"}) /\ b.next = s.next + 1
  BY <1>1, BegunRun DEF Same
<1> HIDE DEF b
<1>3. (r = b \/ (Same(b, r, {"counter"}) /\ r.counter = b.counter + 1)) /\ IsRun(b)
  <2>1. Same(b, Counting(b), {"counter"}) /\ Counting(b).counter = b.counter + 1
    BY <1>2, CountedRun DEF Counting, Same
  <2>2. r = b \/ r = Counting(b)
    BY DEF b, s
  <2>3. IsRun(b)
    BY <1>2 DEF Same
  <2>4. CASE r = b
    BY <2>3, <2>4
  <2>5. CASE r = Counting(b)
    BY <2>1, <2>3, <2>5
  <2> QED BY <2>2, <2>4, <2>5
<1>4. /\ Same(run, r, {"outcome", "crashed", "next", "class", "counter"}) /\ r.outcome = s.outcome
      /\ r.next = run.next + 1 /\ b.counter = run.counter
  BY <1>1, <1>2, <1>3 DEF Same, Fields
<1>5. /\ Same(run, r, WriteFields) /\ r.staged = run.staged /\ r.placing = run.placing
      /\ r.barrier = run.barrier /\ r.copy = run.copy /\ r.step = "none" /\ r.temp = run.temp
      /\ r.phase = "write"
  BY <1>4, BeginningIs DEF Same, Fields, WriteFields
<1>6. r.next \in Nat /\ r.next >= run.next /\ r.counter \in Nat /\ r.next > run.next
  <2>1. r.counter = run.counter \/ r.counter = run.counter + 1
    BY <1>3, <1>4
  <2> QED BY SMTT(60), <1>4, <2>1, BeginningIs, WritingIs
<1>7. \A j \in Entries : r.outcome[j] = IF j = i THEN o ELSE run.outcome[j]
  BY <1>1, <1>4
<1>8. Elsewhere(disk)
  BY BeginningIs, WritingIs DEF Elsewhere, DiskInv, DiskType, LossInv
<1>9. BatchInv(r, disk)
  BY SMTT(60), <1>5, BeginningIs, WritingIs DEF BatchInv
<1>10. OutcomeInv(r)
  <2>1. \A j \in Entries : j >= r.next => r.outcome[j] = run.outcome[j]
    BY SMTT(60), <1>6, <1>7, BeginningIs, EntriesAre, WritingIs
  <2>2. \A k \in 1 .. Len(r.staged) :
          LET e == r.staged[k].entry IN
          Open(run, e) /\ manifest[e].action # "delete" /\ r.outcome[e] = "none"
    BY SMTT(60), <1>5, <1>7, BeginningIs DEF Open
  <2>3. DOMAIN r.outcome = Entries
    BY <1>1, <1>4
  <2> QED BY <1>5, <1>6, <2>1, <2>2, <2>3, BeginningIs, OutcomeWritten
<1>11. LeftInv(r, disk)
  <2>1. Temps(r) = Temps(run)
    BY <1>5 DEF Temps
  <2> QED BY <1>5, <1>7, <2>1, BeginningIs, LeftWritten
<1>12. \A j \in Entries : r.outcome[j] \in Advances =>
         r.outcome[j] = run.outcome[j] \/ r.outcome[j] = run.verdict[j]
  BY <1>7
<1>13. EntryInv(r, disk, Owed, edits)
  BY <1>5 DEF EntryInv, StepInv, TheirsInv, OldStepInv
<1> QED BY <1>5, <1>6, <1>8, <1>9, <1>10, <1>11, <1>12, <1>13, BeginningIs, WriteFramed DEF After, RunInv

\* begin_entry.
LEMMA BeginEntryStep ==
  ASSUME IInv, BeginEntry
  PROVE  After(run', disk')
<1> DEFINE i == run.next
           n == TempName(run.counter)
<1>1. Beginning
  BY DEF BeginEntry, Beginning
<1>2. CASE run' = Begun(Settled({i}, run.verdict[i], FALSE)) /\ disk' = disk
  BY <1>1, <1>2, BeginSettled
<1>3. CASE run' = Begun(Fenced({i})) /\ disk' = disk
  BY <1>1, <1>3, BeginSettled DEF Fenced, Advances
<1>4. CASE run' \in {Counting(Begun(r)) : r \in Refused({i})} /\ disk' = disk
  <2>1. PICK c \in BOOLEAN : run' = Counting(Begun(Settled({i}, "failed", c)))
    BY <1>4 DEF Refused
  <2> QED BY <1>1, <1>4, <2>1, BeginSettled DEF Advances
<1>5. /\ run.phase = "write" /\ run.step = "none" /\ ~run.placing /\ run.barrier = "idle"
      /\ run.copy = NoName /\ i \in Entries /\ i \in Nat /\ run.outcome[i] = "none"
      /\ DOMAIN run.outcome = Entries /\ IsRun(run) /\ scene \in Scenes
  BY <1>1, BeginningIs, WritingIs
<1>6. /\ Same(run, Begun(run), {"next", "class"}) /\ Begun(run).next = i + 1
  BY <1>5, BegunRun
<1>7. i + 1 \in Nat /\ i + 1 >= i /\ (i + 1) - 1 = i /\ i < i + 1
  BY SMTT(60), <1>5
<1>8. CASE /\ Stages(i) /\ n \notin DOMAIN disk
           /\ disk' = With(disk, n, NewFile("temp", "part", FALSE))
           /\ run' = [Begun(run) EXCEPT !.copy = n, !.counter = @ + 1]
  <2> DEFINE f == NewFile("temp", "part", FALSE)
  <2>1. /\ Same(run, run', {"next", "class", "copy", "counter"}) /\ run'.next = i + 1
        /\ run'.copy = n /\ run'.counter = run.counter + 1
    BY <1>6, <1>8 DEF Same, IsRun, Fields
  <2>2. /\ Same(run, run', WriteFields) /\ run'.staged = run.staged /\ run'.placing = run.placing
        /\ run'.barrier = "idle" /\ run'.step = "none" /\ run'.temp = run.temp
        /\ run'.phase = "write" /\ run'.outcome = run.outcome /\ run'.verdict = run.verdict
    BY <1>5, <2>1 DEF Same, Fields, WriteFields
  <2>3. n[1] \in {"hidden", "descriptor"} /\ n \in Name /\ run'.counter \in Nat /\ n # NoName
    BY SMTT(60), <1>5, <2>1, WritingIs, NamesDiffer, NamesAreNames
  <2>4. IsFile(f) /\ f.ino = "temp" /\ f.bytes = "part" /\ disk' = With(disk, n, f)
    BY <1>8 DEF IsFile, FileFields, NewFile
  <2> HIDE DEF n, f
  <2>5. /\ DOMAIN disk' = DOMAIN disk \union {n} /\ disk' = [m \in DOMAIN disk' |-> disk'[m]]
        /\ disk'[n] = f /\ \A m \in DOMAIN disk : m # n /\ disk'[m] = disk[m]
    BY <1>8, <2>4 DEF With
  <2>6. Elsewhere(disk')
    BY SMTT(60), <1>5, <2>3, <2>4, <2>5, WritingIs DEF Elsewhere, DiskInv, DiskType, LossInv
  <2>7. BatchInv(run', disk')
    <3>1. BatchInv(run, disk)
      BY <1>5, WritingIs
    <3>2. \A k \in 1 .. Len(run.staged) :
            /\ Whole(disk', run.staged[k].temp) /\ run.staged[k].temp # n
      BY SMTT(60), <2>5, <3>1 DEF BatchInv, Whole, Staging
    <3>3. Staging(disk', n)
      BY <2>3, <2>4, <2>5 DEF Staging
    <3> QED BY SMTT(60), <1>5, <2>1, <2>2, <3>1, <3>2, <3>3 DEF BatchInv
  <2>8. OutcomeInv(run')
    <3>1. Open(run', i) /\ manifest[i].action # "delete"
      BY <1>5, <1>7, <1>8, <2>1, <2>2 DEF Open, Stages
    <3>2. \A k \in 1 .. Len(run'.staged) :
            LET e == run'.staged[k].entry IN
            Open(run, e) /\ manifest[e].action # "delete" /\ run'.outcome[e] = "none" /\ e # i
      BY <1>1, <2>2, BeginningIs DEF Open
    <3> HIDE DEF i
    <3> QED BY <1>5, <1>7, <2>1, <2>2, <3>1, <3>2, OutcomeWritten DEF i
  <2>9. LeftInv(run', disk')
    <3>1. Temps(run') = Temps(run)
      BY <2>2 DEF Temps
    <3>2. NoName \notin DOMAIN disk
      BY <1>5, WritingIs
    <3> QED BY SMTT(60), <1>5, <2>1, <2>2, <2>5, <3>1, <3>2, LeftWritten
  <2>10. EntryInv(run', disk', Owed, edits)
    BY <2>2 DEF EntryInv, StepInv, TheirsInv, OldStepInv
  <2> QED BY <1>5, <1>7, <2>1, <2>2, <2>3, <2>6, <2>7, <2>8, <2>9, <2>10, WriteFramed DEF After, RunInv
<1>9. CASE /\ run.verdict[i] = "apply" /\ ~Stages(i) /\ disk' = disk
           /\ run' = [Begun(run) EXCEPT !.step = "check", !.at = i]
  <2>1. /\ Same(run, run', {"next", "class", "step", "at"}) /\ run'.next = i + 1
        /\ run'.step = "check" /\ run'.at = i
    BY <1>6, <1>9 DEF Same, IsRun, Fields
  <2>2. /\ Same(run, run', WriteFields) /\ run'.staged = run.staged /\ run'.placing = run.placing
        /\ run'.barrier = "idle" /\ run'.copy = NoName /\ run'.temp = run.temp
        /\ run'.phase = "write" /\ run'.outcome = run.outcome /\ run'.verdict = run.verdict
        /\ run'.counter = run.counter
    BY <1>5, <2>1 DEF Same, Fields, WriteFields
  <2>3. Elsewhere(disk')
    BY SMTT(60), <1>5, <1>9, WritingIs DEF Elsewhere, DiskInv, DiskType, LossInv
  <2>4. BatchInv(run', disk')
    <3>1. BatchInv(run, disk) /\ run.temp = NoName /\ NoName[1] = "none"
      BY <1>5, WritingIs, NamesDiffer
    <3> QED BY SMTT(60), <1>5, <1>9, <2>1, <2>2, <3>1 DEF BatchInv
  <2>5. OutcomeInv(run')
    <3>1. Open(run', i)
      BY <1>5, <1>7, <1>9, <2>1, <2>2 DEF Open
    <3>2. \A k \in 1 .. Len(run'.staged) :
            LET e == run'.staged[k].entry IN
            Open(run, e) /\ manifest[e].action # "delete" /\ run'.outcome[e] = "none" /\ e # i
      BY <1>1, <2>2, BeginningIs DEF Open
    <3> HIDE DEF i
    <3> QED BY <1>5, <1>7, <2>1, <2>2, <3>1, <3>2, OutcomeWritten DEF i
  <2>6. LeftInv(run', disk')
    <3>1. Temps(run') = Temps(run)
      BY <2>2 DEF Temps
    <3> QED BY ZenonT(60), <1>5, <1>9, <2>1, <2>2, <3>1, LeftWritten
  <2>7. EntryInv(run', disk', Owed, edits)
    <3>1. manifest[i].action = "delete"
      BY <1>9 DEF Stages
    <3> QED BY <2>1, <3>1 DEF EntryInv, StepInv, TheirsInv, OldStepInv, LiveTemp, LiveAside
  <2>8. run'.counter \in Nat
    BY <1>5, <2>2, WritingIs
  <2> QED BY <1>5, <1>7, <2>1, <2>2, <2>3, <2>4, <2>5, <2>6, <2>7, <2>8, WriteFramed DEF After, RunInv
<1> QED BY <1>2, <1>3, <1>4, <1>8, <1>9 DEF BeginEntry, Begun, Counting, Exists

\* A sequence is a function on its indices.
LEMMA SequenceIsFunction ==
  ASSUME NEW S, NEW u \in Seq(S)
  PROVE  u \in [1 .. Len(u) -> S]
BY SMTT(60)

\* A sequence with one more element, and one without its first.
LEMMA AppendIs ==
  ASSUME NEW s, s = [k \in 1 .. Len(s) |-> s[k]], Len(s) \in Nat, NEW e
  PROVE  /\ Len(Append(s, e)) = Len(s) + 1
         /\ Append(s, e) = [k \in 1 .. (Len(s) + 1) |-> IF k <= Len(s) THEN s[k] ELSE e]
<1> DEFINE S == {s[k] : k \in 1 .. Len(s)} \union {e}
<1>1. s \in Seq(S) /\ e \in S
  BY SMTT(60)
<1> HIDE DEF S
<1>2. /\ Append(s, e) \in Seq(S) /\ Len(Append(s, e)) = Len(s) + 1
      /\ \A k \in 1 .. (Len(s) + 1) : Append(s, e)[k] = IF k <= Len(s) THEN s[k] ELSE e
  BY SMTT(60), <1>1
<1> DEFINE u == Append(s, e)
<1>3. DOMAIN u = 1 .. (Len(s) + 1) /\ u = [k \in DOMAIN u |-> u[k]]
  <2>1. u \in [1 .. Len(u) -> S]
    BY <1>2, SequenceIsFunction
  <2> QED BY <1>2, <2>1
<1> HIDE DEF u
<1>4. u = [k \in 1 .. (Len(s) + 1) |-> u[k]] /\ \A k \in 1 .. (Len(s) + 1) : u[k] = IF k <= Len(s) THEN s[k] ELSE e
  BY <1>2, <1>3 DEF u
<1>5. u = [k \in 1 .. (Len(s) + 1) |-> IF k <= Len(s) THEN s[k] ELSE e]
  BY <1>4
<1> QED BY <1>2, <1>5 DEF u

\* The first record of a batch and those after it.
LEMMA TailIs ==
  ASSUME NEW s, s = [k \in 1 .. Len(s) |-> s[k]], Len(s) \in Nat, s # <<>>
  PROVE  /\ Len(s) > 0 /\ Len(Tail(s)) = Len(s) - 1 /\ Head(s) = s[1]
         /\ Tail(s) = [k \in 1 .. (Len(s) - 1) |-> s[k + 1]]
<1> DEFINE S == {s[k] : k \in 1 .. Len(s)}
<1>1. s \in Seq(S)
  BY SMTT(60)
<1> HIDE DEF S
<1>2. Len(s) > 0 /\ Len(Tail(s)) = Len(s) - 1 /\ Head(s) = s[1]
  BY SMTT(60), <1>1
<1>3. Tail(s) \in Seq(S) /\ \A k \in 1 .. (Len(s) - 1) : Tail(s)[k] = s[k + 1]
  BY SMTT(60), <1>1, <1>2
<1>4. DOMAIN Tail(s) = 1 .. (Len(s) - 1)
  BY SMTT(60), <1>2, <1>3
<1> DEFINE u == Tail(s)
<1>5. u = [k \in DOMAIN u |-> u[k]]
  <2>1. u \in [1 .. Len(u) -> S]
    BY <1>3, SequenceIsFunction
  <2> QED BY <2>1
<1> HIDE DEF u
<1>6. u = [k \in 1 .. (Len(s) - 1) |-> s[k + 1]]
  BY <1>3, <1>4, <1>5 DEF u
<1> QED BY <1>2, <1>6 DEF u

\* Temporaries removed.
LEMMA TempsRemoved ==
  ASSUME IInv, run.phase = "write", run.step = "none", NEW S,
         \A n \in S : n[1] \in {"hidden", "descriptor"}
  PROVE  Elsewhere(Without(S))
<1> DEFINE d == Without(S)
<1>1. /\ DOMAIN d = DOMAIN disk \ S /\ d = [n \in DOMAIN d |-> d[n]]
      /\ \A n \in DOMAIN d : d[n] = disk[n]
  BY WithoutIs
<1> HIDE DEF d
<1>2. Elsewhere(d)
  BY <1>1, WritingIs DEF Elsewhere, DiskInv, DiskType, LossInv
<1> QED BY <1>2 DEF d

\* The rest of the copy.
LEMMA CopyFileStep ==
  ASSUME IInv, CopyFile
  PROVE  After(run', disk')
<1> DEFINE i == run.next - 1
           t == run.copy
<1>1. /\ run.phase = "write" /\ run.step = "none" /\ t # NoName
  BY DEF CopyFile, Writing
<1>2. /\ scene \in Scenes /\ DiskInv(disk, Owed, edits) /\ IsRun(run) /\ run.next \in Nat
      /\ run.counter \in Nat /\ BatchInv(run, disk) /\ OutcomeInv(run)
  BY <1>1, WritingIs
<1>3. /\ Staging(disk, t) /\ ~run.placing /\ run.barrier = "idle" /\ Open(run, i)
      /\ manifest[i].action # "delete" /\ run.next >= run.next
      /\ \A k \in 1 .. Len(run.staged) :
           LET e == run.staged[k].entry IN
           Open(run, e) /\ manifest[e].action # "delete" /\ e # i /\ run.staged[k].temp # t
  BY SMTT(60), <1>1, <1>2 DEF BatchInv, OutcomeInv
<1>4. CASE /\ disk' = [disk EXCEPT ![t].bytes = "new"]
           /\ run' = [[run EXCEPT !.copy = NoName] EXCEPT !.staged = Append(@, [entry |-> i, temp |-> t])]
  <2> DEFINE e == [entry |-> i, temp |-> t]
             s == Append(run.staged, e)
  <2>1. /\ Same(run, run', {"copy", "staged"}) /\ run'.copy = NoName /\ run'.staged = s
    BY <1>2, <1>4 DEF Same, IsRun, Fields
  <2>2. /\ Same(run, run', WriteFields) /\ run'.placing = run.placing /\ run'.next = run.next
        /\ run'.barrier = "idle" /\ run'.step = "none" /\ run'.temp = run.temp
        /\ run'.phase = "write" /\ run'.outcome = run.outcome /\ run'.verdict = run.verdict
        /\ run'.counter = run.counter
    BY <1>1, <1>3, <2>1 DEF Same, Fields, WriteFields
  <2>3. e.entry = i /\ e.temp = t
    OBVIOUS
  <2> HIDE DEF e, i, t
  <2>4. /\ Len(s) = Len(run.staged) + 1 /\ Len(run.staged) \in Nat
        /\ s = [k \in 1 .. (Len(run.staged) + 1) |-> IF k <= Len(run.staged) THEN run.staged[k] ELSE e]
    BY SMTT(60), <1>2, AppendIs DEF BatchInv
  <2> HIDE DEF s
  <2>5. \A k \in 1 .. Len(s) :
          \/ k \in 1 .. Len(run.staged) /\ s[k] = run.staged[k]
          \/ k = Len(run.staged) + 1 /\ s[k] = e
    BY SMTT(60), <2>4
  <2>6. /\ \A k \in 1 .. Len(run.staged) : k \in 1 .. Len(s) /\ s[k] = run.staged[k]
        /\ Len(s) \in 1 .. Len(s) /\ s[Len(s)] = e /\ Len(s) \in Nat
    BY SMTT(60), <2>4
  <2>7. /\ DOMAIN disk' = DOMAIN disk /\ disk' = [n \in DOMAIN disk' |-> disk'[n]]
        /\ \A n \in DOMAIN disk : n # t => disk'[n] = disk[n]
        /\ disk'[t].bytes = "new" /\ disk'[t].ino = disk[t].ino /\ IsFile(disk'[t])
    <3>1. t \in DOMAIN disk /\ IsFile(disk[t]) /\ disk = [n \in DOMAIN disk |-> disk[n]]
      BY <1>2, <1>3 DEF Staging, DiskInv, DiskType
    <3> DEFINE f == [disk[t] EXCEPT !.bytes = "new"]
    <3>2. f.bytes = "new" /\ f.ino = disk[t].ino /\ IsFile(f)
      BY <3>1 DEF IsFile, FileFields
    <3>3. disk' = [disk EXCEPT ![t] = f]
      BY <1>4 DEF t
    <3> HIDE DEF f
    <3> QED BY <3>1, <3>2, <3>3
  <2>8. Elsewhere(disk')
    BY SMTT(60), <1>2, <1>3, <2>7 DEF Elsewhere, DiskInv, DiskType, LossInv, Staging
  <2>9. Whole(disk', t)
    BY <1>3, <2>7 DEF Whole, Staging
  <2>10. \A k \in 1 .. Len(s) : Whole(disk', s[k].temp) /\ s[k].temp # NoName
    <3>1. \A k \in 1 .. Len(run.staged) : Whole(disk', run.staged[k].temp) /\ run.staged[k].temp # NoName
      BY <1>1, <1>2, <1>3, <2>7, WritingIs DEF BatchInv, Whole, Staging
    <3> QED BY <1>1, <2>3, <2>5, <2>9, <3>1 DEF t
  <2>11. BatchInv(run', disk')
    <3>1. \A k, j \in 1 .. Len(s) : j # k => s[j].temp # s[k].temp /\ s[j].entry # s[k].entry
      BY SMTT(60), <1>2, <1>3, <2>3, <2>5 DEF BatchInv
    <3>2. s = [k \in 1 .. Len(s) |-> s[k]]
      BY <2>4
    <3>3. run.temp = NoName /\ NoName[1] = "none"
      BY <1>1, WritingIs, NamesDiffer
    <3> QED BY SMTT(60), <1>1, <1>3, <2>1, <2>2, <2>6, <2>10, <3>1, <3>2, <3>3 DEF BatchInv
  <2>12. OutcomeInv(run')
    <3>1. \A k \in 1 .. Len(s) :
            Open(run, s[k].entry) /\ manifest[s[k].entry].action # "delete" /\ run'.outcome[s[k].entry] = "none"
      BY <1>3, <2>2, <2>3, <2>5 DEF Open
    <3>2. DOMAIN run'.outcome = Entries
      BY <1>1, <1>2, <2>2 DEF OutcomeInv
    <3> QED BY <1>1, <1>2, <1>3, <2>1, <2>2, <3>1, <3>2, OutcomeWritten
  <2>13. LeftInv(run', disk')
    <3>1. Temps(run) \subseteq Temps(run') /\ t \in Temps(run')
      BY <2>1, <2>3, <2>6 DEF Temps
    <3> QED BY <1>1, <2>2, <2>7, <3>1, LeftWritten DEF t
  <2>14. EntryInv(run', disk', Owed, edits)
    BY <2>2 DEF EntryInv, StepInv, TheirsInv, OldStepInv
  <2> QED BY <1>1, <1>2, <2>2, <2>8, <2>11, <2>12, <2>13, <2>14, WriteFramed DEF After, RunInv
<1>5. ASSUME NEW o \in {"fenced", "failed"}, NEW c, disk' = Without({t}),
             run' = [Settled({i}, o, c) EXCEPT !.copy = NoName]
      PROVE  After(run', disk')
  <2> DEFINE s == Settled({i}, o, c)
  <2>1. /\ Same(run, s, {"outcome", "crashed"}) /\ DOMAIN s.outcome = Entries
        /\ \A j \in Entries : s.outcome[j] = IF j \in {i} THEN o ELSE run.outcome[j]
    BY SMTT(60), <1>2, SettledRun
  <2>2. run' = [s EXCEPT !.copy = NoName]
    BY <1>5
  <2> HIDE DEF s
  <2>3. Same(run, run', {"outcome", "crashed", "copy"}) /\ run'.outcome = s.outcome /\ run'.copy = NoName
    BY <2>1, <2>2 DEF Same, IsRun, Fields
  <2>4. /\ Same(run, run', WriteFields) /\ run'.placing = run.placing /\ run'.next = run.next
        /\ run'.barrier = "idle" /\ run'.step = "none" /\ run'.temp = run.temp
        /\ run'.phase = "write" /\ run'.staged = run.staged /\ run'.verdict = run.verdict
        /\ run'.counter = run.counter
    BY <1>1, <1>3, <2>3 DEF Same, Fields, WriteFields
  <2>5. \A j \in Entries : run'.outcome[j] = IF j = i THEN o ELSE run.outcome[j]
    BY <2>1, <2>3
  <2>6. Elsewhere(disk')
    BY <1>1, <1>3, <1>5, TempsRemoved DEF Staging
  <2>7. DOMAIN disk' = DOMAIN disk \ {t} /\ \A n \in DOMAIN disk' : disk'[n] = disk[n]
    BY <1>5, WithoutIs
  <2>8. BatchInv(run', disk')
    <3>1. run.temp = NoName /\ NoName[1] = "none" /\ NoName \notin DOMAIN disk
      BY <1>1, WritingIs, NamesDiffer
    <3>2. \A k \in 1 .. Len(run.staged) : Whole(disk', run.staged[k].temp) /\ run.staged[k].temp # NoName
      BY SMTT(60), <1>2, <1>3, <2>7, <3>1 DEF BatchInv, Whole, Staging
    <3> QED BY SMTT(60), <1>2, <1>3, <2>3, <2>4, <3>1, <3>2 DEF BatchInv
  <2>9. OutcomeInv(run')
    <3>1. \A k \in 1 .. Len(run'.staged) :
            LET e == run'.staged[k].entry IN
            Open(run, e) /\ manifest[e].action # "delete" /\ run'.outcome[e] = "none"
      BY <1>3, <2>4, <2>5 DEF Open
    <3>2. \A j \in Entries : j >= run'.next => run'.outcome[j] = run.outcome[j]
      BY SMTT(60), <1>2, <2>4, <2>5, EntriesAre
    <3>3. DOMAIN run'.outcome = Entries
      BY <2>1, <2>3
    <3> QED BY <1>1, <1>2, <1>3, <2>3, <2>4, <3>1, <3>2, <3>3, OutcomeWritten
  <2>10. LeftInv(run', disk')
    <3>1. Temps(run') = Temps(run)
      BY <2>4 DEF Temps
    <3>2. run.outcome[i] = "none"
      BY <1>3 DEF Open
    <3> QED BY <1>1, <2>4, <2>5, <2>7, <3>1, <3>2, LeftWritten
  <2>11. EntryInv(run', disk', Owed, edits)
    BY <2>4 DEF EntryInv, StepInv, TheirsInv, OldStepInv
  <2>12. \A j \in Entries : run'.outcome[j] \in Advances => run'.outcome[j] = run.outcome[j]
    BY <2>5 DEF Advances
  <2> QED BY <1>1, <1>2, <2>4, <2>6, <2>8, <2>9, <2>10, <2>11, <2>12, WriteFramed DEF After, RunInv
<1>6. CASE /\ disk' = Without({t})
           /\ run' \in {[r EXCEPT !.copy = NoName] : r \in {Fenced({i})} \union Refused({i})}
  BY <1>5, <1>6 DEF Fenced, Refused
<1> QED BY <1>4, <1>6 DEF CopyFile

\* The files of the batch and its entries.
LEMMA BatchIs ==
  ASSUME IInv, run.phase = "write", run.step = "none"
  PROVE  /\ BatchTemps = Temps(run) /\ InBatch = {run.staged[k].entry : k \in 1 .. Len(run.staged)}
         /\ \A n \in BatchTemps : n \in DOMAIN disk /\ n[1] \in {"hidden", "descriptor"}
         /\ \A e \in InBatch : e \in Entries /\ e < run.next /\ run.outcome[e] = "none"
<1>1. DOMAIN run.staged = 1 .. Len(run.staged) /\ BatchInv(run, disk) /\ OutcomeInv(run)
  BY WritingIs DEF BatchInv
<1>2. BatchTemps = Temps(run) /\ InBatch = {run.staged[k].entry : k \in 1 .. Len(run.staged)}
  BY <1>1 DEF BatchTemps, Temps, InBatch
<1>3. \A k \in 1 .. Len(run.staged) : Whole(disk, run.staged[k].temp) /\ Open(run, run.staged[k].entry)
  BY <1>1 DEF BatchInv, OutcomeInv
<1> QED BY <1>2, <1>3 DEF Temps, Whole, Staging, Open

\* A batch removed unplaced, its entries with their outcome or, in a crashed landing,
\* without one.
LEMMA BatchDropped ==
  ASSUME IInv, run.phase = "write", run.step = "none", run.copy = NoName,
         NEW d, d = Without(BatchTemps), NEW s, NEW o \in {"fenced", "failed"},
         \/ s = run
         \/ /\ Same(run, s, {"outcome", "crashed"}) /\ DOMAIN s.outcome = Entries
            /\ \A i \in Entries : s.outcome[i] = IF i \in InBatch THEN o ELSE run.outcome[i]
  PROVE  After(Unstaged(s), d)
<1> DEFINE r == Unstaged(s)
<1>1. /\ IsRun(run) /\ run.next \in Nat /\ run.counter \in Nat /\ run.temp = NoName
      /\ OutcomeInv(run) /\ scene \in Scenes /\ NoName[1] = "none"
  BY WritingIs, NamesDiffer
<1>2. /\ Same(run, s, {"outcome", "crashed"}) /\ IsRun(s) /\ DOMAIN s.outcome = Entries
      /\ \A i \in Entries : s.outcome[i] = run.outcome[i] \/ (i \in InBatch /\ s.outcome[i] = o)
  <2>1. CASE s = run
    BY <1>1, <2>1 DEF Same, OutcomeInv
  <2>2. CASE /\ Same(run, s, {"outcome", "crashed"}) /\ DOMAIN s.outcome = Entries
             /\ \A i \in Entries : s.outcome[i] = IF i \in InBatch THEN o ELSE run.outcome[i]
    BY <2>2 DEF Same
  <2> QED BY <2>1, <2>2
<1>3. /\ Same(s, r, {"staged", "placing", "barrier"}) /\ r.staged = <<>> /\ r.placing = FALSE
      /\ r.barrier = "idle"
  BY <1>2, UnstagedRun
<1> HIDE DEF r
<1>4. /\ Same(run, r, WriteFields) /\ r.next = run.next /\ r.step = "none" /\ r.temp = run.temp
      /\ r.phase = "write" /\ r.counter = run.counter /\ r.copy = NoName /\ r.outcome = s.outcome
  BY <1>2, <1>3 DEF Same, Fields, WriteFields
<1>5. /\ Elsewhere(d) /\ DOMAIN d = DOMAIN disk \ BatchTemps
  BY BatchIs, TempsRemoved, WithoutIs
<1>6. BatchInv(r, d)
  <2>1. Len(r.staged) = 0 /\ r.staged = [k \in 1 .. Len(r.staged) |-> r.staged[k]]
    BY SMTT(60), <1>3
  <2> QED BY SMTT(60), <1>1, <1>3, <1>4, <2>1 DEF BatchInv
<1>7. OutcomeInv(r)
  <2>1. \A i \in Entries : i >= r.next => r.outcome[i] = run.outcome[i]
    BY SMTT(60), <1>1, <1>2, <1>4, BatchIs, EntriesAre
  <2>2. Len(r.staged) = 0 /\ r.next >= run.next /\ r.next \in Nat
    BY SMTT(60), <1>1, <1>3, <1>4
  <2> QED BY SMTT(60), <1>2, <1>4, <2>1, <2>2, OutcomeWritten
<1>8. LeftInv(r, d)
  <2>1. \A n \in DOMAIN d : n \in DOMAIN disk /\ n # run.copy /\ n \notin Temps(run)
    BY <1>5, BatchIs, WritingIs
  <2>2. \A i \in Entries : run.outcome[i] \in {"failed", "skipped"} => r.outcome[i] = run.outcome[i]
    BY <1>2, <1>4, BatchIs
  <2> QED BY <1>4, <2>1, <2>2, LeftWritten
<1>9. EntryInv(r, d, Owed, edits)
  BY <1>4 DEF EntryInv, StepInv, TheirsInv, OldStepInv
<1>10. \A i \in Entries : r.outcome[i] \in Advances => r.outcome[i] = run.outcome[i]
  BY <1>2, <1>4 DEF Advances
<1>11. After(r, d)
  BY <1>1, <1>4, <1>5, <1>6, <1>7, <1>8, <1>9, <1>10, WriteFramed DEF After, RunInv
<1> QED BY <1>11 DEF r

\* The same, for the outcomes a batch is dropped with.
LEMMA BatchEnds ==
  ASSUME IInv, run.phase = "write", run.step = "none", run.copy = NoName,
         disk' = Without(BatchTemps),
         run' \in {Unstaged(r) : r \in {run, Fenced(InBatch)} \union Refused(InBatch)}
  PROVE  After(run', disk')
<1>1. PICK s \in {run, Fenced(InBatch)} \union Refused(InBatch) : run' = Unstaged(s)
  OBVIOUS
<1>2. CASE s = run
  BY <1>1, <1>2, BatchDropped
<1>3. ASSUME NEW o \in {"fenced", "failed"}, NEW c, s = Settled(InBatch, o, c)
      PROVE  After(run', disk')
  <2>1. /\ Same(run, s, {"outcome", "crashed"}) /\ DOMAIN s.outcome = Entries
        /\ \A i \in Entries : s.outcome[i] = IF i \in InBatch THEN o ELSE run.outcome[i]
    BY SMTT(60), <1>3, WritingIs, SettledRun
  <2> QED BY <1>1, <2>1, BatchDropped
<1> QED BY <1>1, <1>2, <1>3 DEF Fenced, Refused

\* The batch as it is, in another state of its barrier.
LEMMA BarrierMoves ==
  ASSUME IInv, run.phase = "write", run.step = "none", run.copy = NoName, run.staged # <<>>,
         NEW d, Elsewhere(d), DOMAIN d = DOMAIN disk,
         \A n \in DOMAIN d : d[n].ino = disk[n].ino /\ d[n].bytes = disk[n].bytes,
         NEW r, Same(run, r, {"barrier", "placing"}),
         r.barrier # "idle" => ~r.placing,
         r.placing \/ r.barrier = "held" => \A n \in Temps(run) : d[n].durable
  PROVE  After(r, d)
<1>1. /\ Same(run, r, WriteFields) /\ r.next = run.next /\ r.step = "none" /\ r.temp = run.temp
      /\ r.phase = "write" /\ r.counter = run.counter /\ r.copy = NoName /\ r.outcome = run.outcome
      /\ r.staged = run.staged /\ r.verdict = run.verdict
  BY DEF Same, Fields, WriteFields
<1>2. /\ run.next \in Nat /\ run.counter \in Nat /\ BatchInv(run, disk) /\ OutcomeInv(run)
  BY WritingIs
<1>3. BatchInv(r, d)
  <2>1. \A k \in 1 .. Len(run.staged) :
          Whole(d, run.staged[k].temp) /\ run.staged[k].temp \in Temps(run)
    BY SMTT(60), <1>2 DEF BatchInv, Whole, Staging, Temps
  <2> QED BY SMTT(60), <1>1, <1>2, <2>1 DEF BatchInv
<1>4. OutcomeInv(r)
  BY SMTT(60), <1>1, <1>2 DEF OutcomeInv, Open
<1>5. LeftInv(r, d)
  <2>1. Temps(r) = Temps(run)
    BY <1>1 DEF Temps
  <2> QED BY <1>1, <2>1, LeftWritten
<1>6. EntryInv(r, d, Owed, edits)
  BY <1>1 DEF EntryInv, StepInv, TheirsInv, OldStepInv
<1> QED BY <1>1, <1>2, <1>3, <1>4, <1>5, <1>6, WriteFramed DEF After, RunInv

\* The directory as it was is one where only temporaries differ.
LEMMA StaysElsewhere ==
  ASSUME IInv
  PROVE  Elsewhere(disk)
BY DEF IInv, Elsewhere, DiskInv, DiskType, LossInv

\* The barrier taken.
LEMMA TakeBarrierStep ==
  ASSUME IInv, TakeBarrier
  PROVE  After(run', disk')
<1>1. /\ run.phase = "write" /\ run.step = "none" /\ run.copy = NoName /\ run.staged # <<>>
      /\ ~run.placing
  BY DEF TakeBarrier, Writing, Closing
<1>2. CASE run' = [run EXCEPT !.barrier = "running"] /\ disk' = disk
  <2>1. Same(run, run', {"barrier", "placing"}) /\ run'.barrier = "running" /\ run'.placing = run.placing
    BY <1>1, <1>2, WritingIs DEF Same, IsRun, Fields
  <2> QED BY <1>1, <1>2, <2>1, BarrierMoves, StaysElsewhere
<1>3. CASE /\ disk' = Without(BatchTemps)
           /\ run' \in {Unstaged(r) : r \in IF run.crashed THEN {run}
                                            ELSE {Fenced(InBatch)} \union Refused(InBatch)}
  <2>1. run' \in {Unstaged(r) : r \in {run, Fenced(InBatch)} \union Refused(InBatch)}
    BY <1>3
  <2> QED BY <1>1, <1>3, <2>1, BatchEnds
<1> QED BY <1>2, <1>3 DEF TakeBarrier

\* The barrier's own thread.
LEMMA RunBarrierStep ==
  ASSUME IInv, RunBarrier
  PROVE  After(run', disk')
<1>1. /\ run.barrier = "running" /\ run.phase = "write" /\ run.step = "none" /\ run.copy = NoName
      /\ run.staged # <<>> /\ ~run.placing /\ IsRun(run)
  BY DEF RunBarrier, IInv, RunInv, BatchInv, RunType
<1>2. CASE run' = [run EXCEPT !.barrier = "refused"] /\ disk' = disk
  <2>1. Same(run, run', {"barrier", "placing"}) /\ run'.barrier = "refused" /\ run'.placing = run.placing
    BY <1>1, <1>2 DEF Same, IsRun, Fields
  <2> QED BY <1>1, <1>2, <2>1, BarrierMoves, StaysElsewhere
<1>3. CASE /\ run' = [run EXCEPT !.barrier = "held"]
           /\ disk' = [n \in DOMAIN disk |->
                         IF n \in BatchTemps THEN [disk[n] EXCEPT !.durable = TRUE] ELSE disk[n]]
  <2>1. Same(run, run', {"barrier", "placing"}) /\ run'.barrier = "held" /\ run'.placing = run.placing
    BY <1>1, <1>3 DEF Same, IsRun, Fields
  <2>2. ASSUME NEW n \in DOMAIN disk, n \in BatchTemps
        PROVE  /\ IsFile(disk'[n]) /\ disk'[n].ino = disk[n].ino /\ disk'[n].bytes = disk[n].bytes
               /\ disk'[n].durable
    <3>1. IsFile(disk[n])
      BY DEF IInv, DiskInv, DiskType
    <3>2. disk'[n] = [disk[n] EXCEPT !.durable = TRUE]
      BY <1>3, <2>2
    <3> QED BY <3>1, <3>2 DEF IsFile, FileFields
  <2>3. /\ DOMAIN disk' = DOMAIN disk /\ disk' = [n \in DOMAIN disk' |-> disk'[n]]
        /\ \A n \in DOMAIN disk : n \notin BatchTemps => disk'[n] = disk[n]
    BY <1>3
  <2>4. Elsewhere(disk')
    BY SMTT(60), <1>1, <2>2, <2>3, BatchIs DEF Elsewhere, IInv, DiskInv, DiskType, LossInv
  <2>5. \A n \in DOMAIN disk' : disk'[n].ino = disk[n].ino /\ disk'[n].bytes = disk[n].bytes
    BY <2>2, <2>3
  <2>6. \A n \in Temps(run) : disk'[n].durable
    BY <1>1, <2>2, BatchIs
  <2> QED BY <1>1, <2>1, <2>3, <2>4, <2>5, <2>6, BarrierMoves
<1> QED BY <1>2, <1>3 DEF RunBarrier

\* The barrier ends.
LEMMA EndBarrierStep ==
  ASSUME IInv, EndBarrier
  PROVE  After(run', disk')
<1>1. /\ run.phase = "write" /\ run.step = "none" /\ run.copy = NoName
      /\ run.staged # <<>> /\ ~run.placing /\ IsRun(run)
  BY DEF EndBarrier, Writing, IInv, RunInv, BatchInv, RunType
<1>2. CASE run.barrier = "held" /\ run' = [run EXCEPT !.barrier = "idle", !.placing = TRUE] /\ disk' = disk
  <2>1. Same(run, run', {"barrier", "placing"}) /\ run'.barrier = "idle" /\ run'.placing
    BY <1>1, <1>2 DEF Same, IsRun, Fields
  <2>2. \A n \in Temps(run) : disk[n].durable
    BY <1>1, <1>2, WritingIs DEF BatchInv, Temps
  <2> QED BY <1>1, <1>2, <2>1, <2>2, BarrierMoves, StaysElsewhere
<1>3. CASE disk' = Without(BatchTemps) /\ run' \in {Unstaged(r) : r \in Refused(InBatch)}
  <2>1. run' \in {Unstaged(r) : r \in {run, Fenced(InBatch)} \union Refused(InBatch)}
    BY <1>3
  <2> QED BY <1>1, <1>3, <2>1, BatchEnds
<1> QED BY <1>2, <1>3 DEF EndBarrier

\* place_staged.
LEMMA PlaceStagedStep ==
  ASSUME IInv, PlaceStaged
  PROVE  After(run', disk')
<1> DEFINE q == run.staged
           file == Head(q)
           u == Tail(q)
<1>1. run.phase = "write" /\ run.step = "none" /\ run.placing
  BY DEF PlaceStaged, Writing
<1>2. /\ q # <<>> /\ run.barrier = "idle" /\ run.copy = NoName /\ BatchInv(run, disk) /\ OutcomeInv(run)
      /\ IsRun(run) /\ run.next \in Nat /\ run.counter \in Nat /\ run.temp = NoName
      /\ scene \in Scenes /\ NoName[1] = "none" /\ NoName \notin DOMAIN disk
  BY <1>1, WritingIs, NamesDiffer DEF BatchInv
<1>3. /\ Len(q) \in Nat /\ Len(q) > 0 /\ Len(u) = Len(q) - 1 /\ file = q[1]
      /\ u = [k \in 1 .. (Len(q) - 1) |-> q[k + 1]]
  BY <1>2, TailIs DEF BatchInv
<1> HIDE DEF u, file
<1>4. /\ 1 \in 1 .. Len(q) /\ Len(u) \in Nat /\ (Len(q) > 1 <=> Len(u) > 0)
      /\ \A k \in 1 .. Len(u) : k + 1 \in 1 .. Len(q) /\ k + 1 # 1 /\ u[k] = q[k + 1]
      /\ \A k \in 1 .. Len(q) : k # 1 => k - 1 \in 1 .. Len(u) /\ q[k] = u[k - 1]
      /\ \A j, k \in 1 .. Len(u) : j # k => j + 1 # k + 1
  BY SMTT(60), <1>3
<1>5. /\ \A k \in 1 .. Len(q) : Whole(disk, q[k].temp) /\ disk[q[k].temp].durable
      /\ \A j, k \in 1 .. Len(q) : j # k => q[j].temp # q[k].temp /\ q[j].entry # q[k].entry
      /\ \A k \in 1 .. Len(q) : Open(run, q[k].entry) /\ manifest[q[k].entry].action # "delete"
  BY <1>1, <1>2 DEF BatchInv, OutcomeInv
<1>6. /\ \A k \in 1 .. Len(u) :
           /\ Whole(disk, u[k].temp) /\ disk[u[k].temp].durable /\ u[k].temp # file.temp
           /\ u[k].temp # NoName /\ Open(run, u[k].entry) /\ manifest[u[k].entry].action # "delete"
           /\ u[k].entry # file.entry
      /\ \A j, k \in 1 .. Len(u) : j # k => u[j].temp # u[k].temp /\ u[j].entry # u[k].entry
      /\ Whole(disk, file.temp) /\ disk[file.temp].durable /\ Open(run, file.entry)
      /\ manifest[file.entry].action # "delete"
  <2>1. ASSUME NEW k \in 1 .. Len(u)
        PROVE  /\ Whole(disk, u[k].temp) /\ disk[u[k].temp].durable /\ u[k].temp # file.temp
               /\ Open(run, u[k].entry) /\ manifest[u[k].entry].action # "delete"
               /\ u[k].entry # file.entry
    <3>1. k + 1 \in 1 .. Len(q) /\ 1 \in 1 .. Len(q) /\ k + 1 # 1 /\ u[k] = q[k + 1] /\ file = q[1]
      BY <1>3, <1>4
    <3> HIDE DEF q
    <3> QED BY <1>5, <3>1
  <2>2. ASSUME NEW j \in 1 .. Len(u), NEW k \in 1 .. Len(u), j # k
        PROVE  u[j].temp # u[k].temp /\ u[j].entry # u[k].entry
    <3>1. /\ k + 1 \in 1 .. Len(q) /\ j + 1 \in 1 .. Len(q) /\ j + 1 # k + 1
          /\ u[k] = q[k + 1] /\ u[j] = q[j + 1]
      BY <1>4, <2>2
    <3> HIDE DEF q
    <3> QED BY <1>5, <3>1
  <2>3. \A k \in 1 .. Len(u) : u[k].temp # NoName
    BY <1>2, <2>1 DEF Whole, Staging
  <2> QED BY <1>3, <1>4, <1>5, <2>1, <2>2, <2>3
<1>7. \A n \in Temps(run) : n = file.temp \/ n \in {u[k].temp : k \in 1 .. Len(u)}
  <2> SUFFICES ASSUME NEW n \in Temps(run), n # file.temp
               PROVE  \E j \in 1 .. Len(u) : n = u[j].temp
    OBVIOUS
  <2>1. PICK k \in 1 .. Len(q) : n = q[k].temp
    BY DEF Temps
  <2>2. k - 1 \in 1 .. Len(u) /\ q[k] = u[k - 1]
    BY <1>3, <1>4, <2>1
  <2> QED BY <2>1, <2>2
<1>8. u = [k \in 1 .. Len(u) |-> u[k]] /\ (Len(q) > 1 => u # <<>>)
  <2>1. Len(<<>>) = 0
    OBVIOUS
  <2>2. u # <<>> \/ ~(Len(q) > 1)
    BY SMTT(60), <1>4, <2>1
  <2>3. DOMAIN u = 1 .. Len(u) /\ u = [k \in DOMAIN u |-> u[k]]
    BY <1>3
  <2> QED BY <2>2, <2>3
<1>9. CASE disk' = Without(BatchTemps) /\ run' = Unstaged(run)
  <2>1. run' \in {Unstaged(r) : r \in {run, Fenced(InBatch)} \union Refused(InBatch)}
    BY <1>9
  <2> QED BY <1>1, <1>2, <1>9, <2>1, BatchEnds
<1>10. CASE /\ disk' = disk
            /\ run' = [run EXCEPT !.staged = u, !.placing = Len(q) > 1, !.step = "place",
                                  !.at = file.entry, !.temp = file.temp]
  <2>1. /\ Same(run, run', {"staged", "placing", "step", "at", "temp"}) /\ run'.staged = u
        /\ run'.placing = (Len(q) > 1) /\ run'.step = "place" /\ run'.at = file.entry
        /\ run'.temp = file.temp
    BY <1>2, <1>10 DEF Same, IsRun, Fields
  <2>2. /\ Same(run, run', WriteFields) /\ run'.barrier = "idle" /\ run'.copy = NoName
        /\ run'.phase = "write" /\ run'.outcome = run.outcome /\ run'.verdict = run.verdict
        /\ run'.counter = run.counter /\ run'.next = run.next
    BY SMTT(60), <1>1, <1>2, <2>1 DEF Same, Fields, WriteFields
  <2>3. Elsewhere(disk')
    BY <1>10, StaysElsewhere
  <2>4. BatchInv(run', disk')
    <3>1. file.temp[1] # "path" /\ file.temp[1] # "aside"
      BY <1>6 DEF Whole, Staging
    <3>2. run'.placing => run'.staged # <<>>
      BY <1>8, <2>1
    <3> QED BY SMTT(60), <1>4, <1>6, <1>8, <1>10, <2>1, <2>2, <3>1, <3>2 DEF BatchInv
  <2>5. OutcomeInv(run')
    <3>1. DOMAIN run'.outcome = Entries /\ run'.next >= run.next
      BY SMTT(60), <1>1, <1>2, <2>2 DEF OutcomeInv
    <3>2. Open(run', file.entry) /\ \A k \in 1 .. Len(u) : run'.outcome[u[k].entry] = "none"
      BY <1>6, <2>2 DEF Open
    <3> QED BY SMTT(60), <1>1, <1>2, <1>6, <2>1, <2>2, <3>1, <3>2, OutcomeWritten
  <2>6. LeftInv(run', disk')
    <3>1. Temps(run') = {u[k].temp : k \in 1 .. Len(u)}
      BY <2>1 DEF Temps
    <3>2. \A n \in DOMAIN disk' :
            /\ n \in DOMAIN disk /\ n # run.copy
            /\ n \in Temps(run) => n \in Temps(run') \/ n = run'.temp
      BY <1>2, <1>7, <1>10, <2>1, <3>1
    <3>3. \A n \in DOMAIN disk' :
            \/ n = run'.copy
            \/ /\ n \in DOMAIN disk
               /\ n = run.copy \/ n \in Temps(run) =>
                    n = run'.copy \/ n \in Temps(run') \/ (run'.step = "place" /\ n = run'.temp)
      BY <2>1, <3>2
    <3> HIDE DEF q
    <3> QED BY <1>1, <2>2, <3>3, LeftWritten
  <2>7. EntryInv(run', disk', Owed, edits)
    BY <1>6, <1>10, <2>1 DEF EntryInv, StepInv, TheirsInv, OldStepInv, LiveTemp, LiveAside
  <2> QED BY <1>1, <1>2, <2>1, <2>2, <2>3, <2>4, <2>5, <2>6, <2>7, WriteFramed DEF After, RunInv
<1>11. ASSUME NEW c, disk' = Without({file.temp}),
              run' = [Settled({file.entry}, "fenced", c) EXCEPT !.staged = Tail(@), !.placing = Len(q) > 1]
       PROVE  After(run', disk')
  <2> DEFINE s == Settled({file.entry}, "fenced", c)
  <2>1. /\ Same(run, s, {"outcome", "crashed"}) /\ DOMAIN s.outcome = Entries
        /\ \A i \in Entries : s.outcome[i] = IF i \in {file.entry} THEN "fenced" ELSE run.outcome[i]
    BY SMTT(60), <1>2, SettledRun
  <2>2. run' = [s EXCEPT !.staged = Tail(@), !.placing = Len(q) > 1]
    BY <1>11
  <2> HIDE DEF s
  <2>3. s.staged = q
    BY <2>1 DEF Same, Fields
  <2>4. /\ Same(run, run', {"staged", "placing", "outcome", "crashed"}) /\ run'.staged = u
        /\ run'.placing = (Len(q) > 1) /\ run'.outcome = s.outcome
    BY <2>1, <2>2, <2>3 DEF Same, IsRun, Fields, u
  <2>5. /\ Same(run, run', WriteFields) /\ run'.barrier = "idle" /\ run'.copy = NoName
        /\ run'.phase = "write" /\ run'.verdict = run.verdict /\ run'.step = "none"
        /\ run'.counter = run.counter /\ run'.next = run.next /\ run'.temp = NoName
    BY <1>1, <1>2, <2>4 DEF Same, Fields, WriteFields
  <2>6. \A i \in Entries : run'.outcome[i] = IF i = file.entry THEN "fenced" ELSE run.outcome[i]
    BY <2>1, <2>4
  <2>7. Elsewhere(disk')
    BY <1>1, <1>6, <1>11, TempsRemoved DEF Whole, Staging
  <2>8. DOMAIN disk' = DOMAIN disk \ {file.temp} /\ \A n \in DOMAIN disk' : disk'[n] = disk[n]
    BY <1>11, WithoutIs
  <2>9. BatchInv(run', disk')
    <3>1. \A k \in 1 .. Len(u) : Whole(disk', u[k].temp) /\ disk'[u[k].temp].durable
      BY SMTT(60), <1>6, <2>8 DEF Whole, Staging
    <3>2. run'.placing => run'.staged # <<>>
      BY <1>8, <2>4
    <3> QED BY SMTT(60), <1>2, <1>4, <1>6, <1>8, <2>4, <2>5, <3>1, <3>2 DEF BatchInv
  <2>10. OutcomeInv(run')
    <3>1. DOMAIN run'.outcome = Entries /\ run'.next >= run.next
      BY SMTT(60), <1>2, <2>1, <2>4, <2>5
    <3>2. \A k \in 1 .. Len(u) : run'.outcome[u[k].entry] = "none"
      BY <1>6, <2>6 DEF Open
    <3>3. \A i \in Entries : i >= run'.next => run'.outcome[i] = run.outcome[i]
      BY SMTT(60), <1>2, <1>6, <2>5, <2>6, EntriesAre DEF Open
    <3> QED BY <1>1, <1>2, <1>6, <2>4, <2>5, <3>1, <3>2, <3>3, OutcomeWritten
  <2>11. LeftInv(run', disk')
    <3>1. Temps(run') = {u[k].temp : k \in 1 .. Len(u)} /\ run.outcome[file.entry] = "none"
      BY SMTT(60), <1>6, <2>4 DEF Temps, Open
    <3> QED BY SMTT(60), <1>1, <1>2, <1>7, <2>4, <2>5, <2>6, <2>8, <3>1, LeftWritten
  <2>12. EntryInv(run', disk', Owed, edits)
    BY <2>5 DEF EntryInv, StepInv, TheirsInv, OldStepInv
  <2>13. \A i \in Entries : run'.outcome[i] \in Advances => run'.outcome[i] = run.outcome[i]
    BY <2>6 DEF Advances
  <2> QED BY <1>1, <1>2, <2>5, <2>7, <2>9, <2>10, <2>11, <2>12, <2>13, WriteFramed DEF After, RunInv
<1>12. CASE /\ ~run.crashed /\ disk' = disk
            /\ run' = [[run EXCEPT !.staged = Tail(@), !.placing = Len(q) > 1]
                        EXCEPT !.step = "place", !.at = file.entry, !.temp = file.temp]
  <2>1. run' = [run EXCEPT !.staged = u, !.placing = Len(q) > 1, !.step = "place",
                           !.at = file.entry, !.temp = file.temp]
    BY <1>2, <1>12 DEF u, IsRun, Fields
  <2> QED BY <1>10, <1>12, <2>1
<1> QED BY <1>9, <1>11, <1>12 DEF PlaceStaged, Fenced, file

-----------------------------------------------------------------------------
(* The sweep and the verdicts *)

\* A hidden name of an earlier attempt settled.
LEMMA Sweeps ==
  ASSUME IInv, run.phase = "sweep", NEW n \in run.todo,
         NEW d, DiskInv(d, Owed, edits), \A m \in DOMAIN disk : m # n => m \in DOMAIN d,
         \A m \in DOMAIN d : m \in DOMAIN disk \/ m[1] \in {"path", "kept"},
         NEW r, Same(run, r, {"todo", "reported", "counter", "restored"}), r.counter \in Nat,
         r.todo = run.todo \ {n}, run.reported \subseteq r.reported,
         n \in DOMAIN d => n \in r.reported
  PROVE  After(r, d)
<1>1. /\ r.phase = "sweep" /\ r.next = run.next /\ r.verdict = run.verdict /\ r.staged = run.staged
      /\ r.copy = run.copy /\ r.step = run.step /\ r.temp = run.temp /\ r.barrier = run.barrier
      /\ r.placing = run.placing /\ r.unsynced = run.unsynced /\ IsRun(r)
  BY DEF Same, Fields
<1>2. /\ run.staged = <<>> /\ run.copy = NoName /\ run.step = "none" /\ run.barrier = "idle"
      /\ Len(run.staged) = 0 /\ BatchInv(run, disk) /\ RunType(run, disk) /\ OutcomeInv(run)
  BY DEF IInv, RunInv, BatchInv
<1>3. RunInv(r, d)
  <2>1. RunType(r, d)
    BY <1>1, <1>2 DEF RunType
  <2>2. BatchInv(r, d)
    BY SMTT(60), <1>1, <1>2 DEF BatchInv
  <2>3. OutcomeInv(r)
    BY <1>1, <1>2 DEF OutcomeInv
  <2> QED BY <2>1, <2>2, <2>3 DEF RunInv
<1>4. EntryInv(r, d, Owed, edits)
  BY <1>1, <1>2 DEF EntryInv, StepInv, TheirsInv, OldStepInv
<1>5. LeftInv(r, d)
  <2>1. Temps(r) = Temps(run) /\ \A m : Spare(run, m) => Spare(r, m)
    BY <1>1 DEF Temps, Spare
  <2>2. \A m \in DOMAIN d : m[1] = "descriptor" => m = r.copy \/ m \in Temps(r)
    BY <1>1, <1>2, <2>1 DEF IInv, LeftInv
  <2>3. \A m \in DOMAIN d : Spare(r, m) \/ m \in r.todo
    BY <2>1 DEF IInv, LeftInv, Spare
  <2> QED BY <1>1, <2>2, <2>3 DEF LeftInv
<1>6. HeldInv(r, d, changed, Reached(d))
  BY <1>1, <1>2 DEF HeldInv, Reached
<1>7. OverlayInv(r, overlay, Reached(d), synced)
  BY <1>1 DEF OverlayInv, IInv, Reached
<1> QED BY <1>3, <1>4, <1>5, <1>6, <1>7 DEF After

\* sweep_parent and resolve_aside.
LEMMA SweepStep ==
  ASSUME IInv, NEW n \in run.todo, Sweep(n)
  PROVE  After(run', disk')
<1> DEFINE swept == [run EXCEPT !.todo = @ \ {n}]
           left == [swept EXCEPT !.reported = @ \union {n}]
           F == {"todo", "reported", "counter", "restored"}
<1>1. /\ run.phase = "sweep" /\ n \in DOMAIN disk /\ n[1] \in {"hidden", "aside"} /\ IsRun(run)
      /\ run.counter \in Nat /\ scene \in Scenes /\ DiskInv(disk, Owed, edits) /\ n \in Name
  BY DEF Sweep, IInv, RunInv, RunType, DiskInv, DiskType
<1>2. /\ Same(run, swept, {"todo"}) /\ swept.todo = run.todo \ {n} /\ IsRun(swept)
      /\ swept.counter = run.counter /\ swept.reported = run.reported
  BY <1>1 DEF Same, IsRun, Fields
<1> HIDE DEF swept
<1>3. /\ Same(swept, left, {"reported"}) /\ left.reported = swept.reported \union {n} /\ IsRun(left)
      /\ left.todo = swept.todo /\ left.counter = swept.counter
  BY <1>2 DEF Same, IsRun, Fields
<1> HIDE DEF left
<1>4. Same(run, swept, F) /\ Same(run, left, F)
  BY <1>2, <1>3 DEF Same, Fields
<1>5. ASSUME NEW d, DiskInv(d, Owed, edits), \A m \in DOMAIN disk : m # n => m \in DOMAIN d,
             \A m \in DOMAIN d : m \in DOMAIN disk \/ m[1] \in {"path", "kept"}, n \notin DOMAIN d,
             NEW r, r = swept \/ (\E b : r = Reporting(swept, b)) \/ r = [swept EXCEPT !.restored = @ \union {n[2]}]
      PROVE  After(r, d)
  <2>1. CASE r = swept
    <3>1. swept.counter \in Nat /\ run.reported \subseteq swept.reported
      BY <1>1, <1>2
    <3> QED BY <1>1, <1>2, <1>4, <1>5, <2>1, <3>1, Sweeps
  <2>2. ASSUME NEW b, r = Reporting(swept, b)
        PROVE  After(r, d)
    <3>1. /\ Same(swept, r, {"counter", "reported"}) /\ r.counter = swept.counter + 1
          /\ r.reported = swept.reported \union {b}
      BY <1>2, <2>2, CountedRun DEF Reporting
    <3>2. Same(run, r, F) /\ r.todo = swept.todo
      BY <1>4, <3>1 DEF Same, Fields
    <3>3. r.counter \in Nat /\ run.reported \subseteq r.reported
      BY SMTT(60), <1>1, <1>2, <3>1
    <3> QED BY <1>1, <1>2, <1>5, <3>2, <3>3, Sweeps
  <2>3. CASE r = [swept EXCEPT !.restored = @ \union {n[2]}]
    <3>1. /\ Same(swept, r, {"restored"}) /\ r.counter = swept.counter /\ r.reported = swept.reported
          /\ r.todo = swept.todo
      BY <1>2, <2>3 DEF Same, IsRun, Fields
    <3>2. Same(run, r, F)
      BY <1>4, <3>1 DEF Same, Fields
    <3>3. r.counter \in Nat /\ run.reported \subseteq r.reported
      BY <1>1, <1>2, <3>1
    <3> QED BY <1>1, <1>2, <1>5, <3>1, <3>2, <3>3, Sweeps
  <2> QED BY <1>5, <2>1, <2>2, <2>3
<1>6. ASSUME NEW r, r = left \/ r = Counting(left)
      PROVE  After(r, disk)
  <2>1. Same(left, Counting(left), {"counter"}) /\ Counting(left).counter = left.counter + 1
    BY <1>3, CountedRun DEF Counting
  <2>2. Same(run, r, F) /\ r.todo = left.todo /\ r.reported = left.reported
        /\ (r.counter = left.counter \/ r.counter = left.counter + 1)
    <3>1. CASE r = left
      BY <1>4, <3>1
    <3>2. CASE r = Counting(left)
      <4>1. Same(left, r, {"counter"}) /\ r.counter = left.counter + 1
        BY <2>1, <3>2
      <4> QED BY <1>4, <4>1 DEF Same, Fields
    <3> QED BY <1>6, <3>1, <3>2
  <2>3. r.counter \in Nat /\ run.reported \subseteq r.reported /\ n \in r.reported
        /\ r.todo = run.todo \ {n}
    BY SMTT(60), <1>1, <1>2, <1>3, <2>2
  <2> QED BY <1>1, <2>2, <2>3, Sweeps
<1>7. CASE n[1] = "hidden" /\ disk' = Without({n}) /\ run' = swept
  <2>1. Elsewhere(disk')
    <3>1. /\ DOMAIN disk' = DOMAIN disk \ {n} /\ disk' = [m \in DOMAIN disk' |-> disk'[m]]
          /\ \A m \in DOMAIN disk' : disk'[m] = disk[m]
      BY <1>7, WithoutIs
    <3> QED BY <1>1, <1>7, <3>1 DEF Elsewhere, DiskInv, DiskType, LossInv
  <2>2. DiskInv(disk', Owed, edits) /\ DOMAIN disk' = DOMAIN disk \ {n}
    BY <1>7, <2>1, ElsewhereDisk, WithoutIs
  <2> QED BY <1>5, <1>7, <2>2
<1>8. CASE n[1] = "aside" /\ ResolveAside(n[2], swept, left)
  <2> DEFINE i == n[2]
             t == HiddenName(0)
  <2>1. n = Aside(i) /\ i \in Entries /\ t[1] # "path" /\ t[1] # "aside" /\ n # Path(i)
    BY <1>1, <1>8, NameOf, NamesDiffer DEF DiskInv, DiskType
  <2> HIDE DEF i, t
  <2>2. ASSUME NEW b, b[1] \in {"path", "kept"}, Renames(disk', n, b), DiskInv(disk', Owed, edits),
               run' = swept \/ run' = Reporting(swept, b) \/ run' = [swept EXCEPT !.restored = @ \union {n[2]}]
        PROVE  After(run', disk')
    <3>1. DOMAIN disk' = (DOMAIN disk \ {n}) \union {b}
      BY <2>2 DEF Renames
    <3>2. b # n
      BY <1>8, <2>2
    <3> QED BY <1>5, <2>2, <3>1, <3>2
  <2>3. ASSUME disk' = Without({n}), run' = swept, disk[n].bytes \notin Owed,
               Untouched(i, edits) => Path(i) \in DOMAIN disk
        PROVE  After(run', disk')
    <3>1. DiskInv(disk', Owed, edits)
      BY <1>1, <2>1, <2>3, Removal
    <3>2. DOMAIN disk' = DOMAIN disk \ {n}
      BY <2>3, WithoutIs
    <3> QED BY <1>5, <2>3, <3>1, <3>2
  <2>4. CASE AsideIsWitnessed(i)
    <3>1. disk[n].bytes \notin Owed
      <4>1. CASE Displaced(disk[n])
        BY <4>1, OwnBytes DEF Displaced
      <4>2. CASE manifest[i].action = "delete" /\ SameFile(disk[n])
        BY <1>1, <1>8, <4>2 DEF DiskInv, LossInv, i
      <4> QED BY <2>1, <2>4, <4>1, <4>2 DEF AsideIsWitnessed
    <3>2. CASE manifest[i].action = "replace" /\ Path(i) \notin DOMAIN disk
      <4>1. /\ disk' = With(Without({n}), Path(i), [disk[n] EXCEPT !.ctime = "restored"])
            /\ run' = [swept EXCEPT !.restored = @ \union {n[2]}]
        BY <1>8, <2>1, <2>4, <3>2 DEF ResolveAside, Exists, i
      <4>2. Renames(disk', n, Path(i))
        <5> DEFINE w == Without({n})
                   f == [disk[n] EXCEPT !.ctime = "restored"]
        <5>1. DOMAIN w = DOMAIN disk \ {n} /\ \A m \in DOMAIN w : w[m] = disk[m]
          BY WithoutIs
        <5>2. /\ IsFile(f) /\ f.ino = disk[n].ino /\ f.bytes = disk[n].bytes /\ f.mtime = disk[n].mtime
              /\ (f.durable <=> disk[n].durable)
          BY <1>1, RenamedFile DEF DiskInv, DiskType
        <5>3. disk' = With(w, Path(i), f)
          BY <4>1
        <5> HIDE DEF w, f
        <5>4. /\ DOMAIN disk' = DOMAIN w \union {Path(i)} /\ disk' = [m \in DOMAIN disk' |-> disk'[m]]
              /\ disk'[Path(i)] = f /\ \A m \in DOMAIN w : m # Path(i) => disk'[m] = w[m]
          BY <5>3 DEF With
        <5> QED BY <5>1, <5>2, <5>4 DEF Renames
      <4>3. /\ disk[n].durable /\ Path(i) \in Name /\ Path(i)[1] = "path" /\ n[1] = "aside"
        BY <1>1, <1>8, <2>1, NamesDiffer, NamesAreNames, EntriesAre DEF DiskInv, DurableInv
      <4>4. DiskInv(disk', Owed, edits)
        <5>1. n # t
          BY <1>8, <2>1
        <5> QED BY <1>1, <2>1, <3>2, <4>2, <4>3, <5>1, Renaming
      <4> QED BY SMTT(60), <2>2, <4>1, <4>2, <4>3, <4>4
    <3>3. CASE ~(manifest[i].action = "replace" /\ Path(i) \notin DOMAIN disk)
      <4>1. disk' = Without({n}) /\ run' = swept
        BY <1>8, <2>1, <2>4, <3>3 DEF ResolveAside, Exists, i
      <4>2. Untouched(i, edits) => Path(i) \in DOMAIN disk
        BY <3>3 DEF Untouched
      <4> QED BY <2>3, <3>1, <4>1, <4>2
    <3> QED BY <3>2, <3>3
  <2>5. CASE ~AsideIsWitnessed(i) /\ manifest[i].action = "replace" /\ disk[n].bytes = "new"
    <3>1. disk' = Without({n}) /\ run' = swept
      BY <1>8, <2>1, <2>5 DEF ResolveAside, i
    <3>2. Untouched(i, edits) => Path(i) \in DOMAIN disk
      BY <1>1, <2>1, <2>5 DEF DiskInv, OldInv, Displaced
    <3> QED BY <2>3, <2>5, <3>1, <3>2, OwnBytes
  <2>6. CASE PutBack(i, swept, left)
    <3>1. \/ \E b : /\ b[1] \in {"path", "kept"} /\ b \notin DOMAIN disk /\ Renames(disk', n, b)
                    /\ DiskInv(disk', Owed, edits) /\ Touches(disk', i, t)
                    /\ \/ run' = swept
                       \/ run' = Reporting(swept, b)
          \/ run' = Counting(left) /\ disk' = disk
      BY <1>1, <2>1, <2>6, PutBackIs
    <3> QED BY SMTT(60), <1>6, <2>2, <3>1
  <2> QED BY <1>8, <2>1, <2>4, <2>5, <2>6 DEF ResolveAside, i
<1> QED BY <1>6, <1>7, <1>8 DEF Sweep, left, swept

\* What follows a step that changed no name: the run between two phases.
PhaseFields == {"phase", "next", "verdict", "outcome", "unsynced", "crashed"}
\* A run that has nothing staged, copied or stepped through may turn to another phase.
LEMMA Between ==
  ASSUME IInv, run.staged = <<>>, run.copy = NoName, run.step = "none", run.barrier = "idle",
         NEW r, Same(run, r, PhaseFields), r.next \in Nat, r.phase # "sweep"
  PROVE  /\ RunType(r, disk) /\ BatchInv(r, disk) /\ EntryInv(r, disk, Owed, edits)
         /\ \A n \in DOMAIN disk : n[1] # "descriptor" /\ ~InUse(run, n)
         /\ \A n : Spare(run, n) => Spare(r, n)
         /\ Len(r.staged) = 0 /\ r.copy = NoName /\ r.step = "none"
<1>1. /\ r.staged = run.staged /\ r.copy = run.copy /\ r.step = run.step /\ r.temp = run.temp
      /\ r.barrier = run.barrier /\ r.placing = run.placing /\ r.counter = run.counter
      /\ r.reported = run.reported /\ IsRun(r)
  BY DEF Same, Fields, PhaseFields
<1>2. /\ BatchInv(run, disk) /\ RunType(run, disk) /\ LeftInv(run, disk) /\ DiskType(disk)
      /\ Len(run.staged) = 0
  BY DEF IInv, RunInv, DiskInv
<1>3. RunType(r, disk) /\ BatchInv(r, disk)
  BY SMTT(60), <1>1, <1>2 DEF RunType, BatchInv
<1>4. EntryInv(r, disk, Owed, edits)
  BY <1>1 DEF EntryInv, StepInv, TheirsInv, OldStepInv
<1>5. Temps(run) = {} /\ NoName \notin DOMAIN disk /\ ~LiveTemp(run) /\ ~LiveAside(run)
  BY SMTT(60), <1>2, NamesDiffer DEF Temps, DiskType, Name, NoName, LiveTemp, LiveAside
<1>6. \A n \in DOMAIN disk : n[1] # "descriptor" /\ ~InUse(run, n)
  BY <1>2, <1>5 DEF LeftInv, InUse
<1> QED BY <1>1, <1>2, <1>3, <1>4, <1>6 DEF Spare

\* Validate: the sweep over, one verdict, or the landing refused or let on.
LEMMA ValidateStep ==
  ASSUME IInv, Validate
  PROVE  After(run', disk')
<1>1. /\ run.phase \in {"sweep", "validate"} /\ disk' = disk /\ IsRun(run) /\ OutcomeInv(run)
      /\ run.next \in Nat /\ scene \in Scenes /\ DiskInv(disk, Owed, edits)
      /\ BatchInv(run, disk) /\ LeftInv(run, disk)
      /\ HeldInv(run, disk, changed, reached) /\ OverlayInv(run, overlay, reached, synced)
  BY DEF Validate, IInv, RunInv, RunType
<1>2. /\ run.staged = <<>> /\ run.copy = NoName /\ run.step = "none" /\ run.barrier = "idle"
      /\ reached \subseteq Reached(disk) /\ \A i \in Entries : Goal(i, disk) => i \in Reached(disk)
      /\ ~run.unsynced /\ overlay = Entries
  BY <1>1 DEF BatchInv, Reached, OverlayInv
<1>3. ASSUME NEW r, Same(run, r, {"phase", "next", "verdict", "outcome"}), r.next \in Nat,
             r.phase \in {"validate", "write", "aborted", "refused"}, OutcomeInv(r),
             r.phase \in {"validate", "write"} =>
               /\ \A n \in DOMAIN disk : Spare(run, n)
               /\ \A i \in DOMAIN r.verdict : r.verdict[i] \in Advances =>
                    Held(i, disk, changed, Reached(disk)),
             r.phase = "write" => \A i \in Entries : r.outcome[i] = "none"
      PROVE  After(r, disk)
  <2>1. Same(run, r, PhaseFields) /\ r.unsynced = run.unsynced /\ r.phase # "sweep"
    BY <1>3 DEF Same, PhaseFields, Fields
  <2>2. /\ RunType(r, disk) /\ BatchInv(r, disk) /\ EntryInv(r, disk, Owed, edits)
        /\ \A n \in DOMAIN disk : n[1] # "descriptor"
        /\ \A n : Spare(run, n) => Spare(r, n)
        /\ r.step = "none"
    BY <1>2, <1>3, <2>1, Between
  <2>3. LeftInv(r, disk)
    BY <1>3, <2>2 DEF LeftInv
  <2>4. HeldInv(r, disk, changed, Reached(disk))
    BY <1>2, <1>3, <2>2 DEF HeldInv, Advances
  <2>5. OverlayInv(r, overlay, Reached(disk), synced)
    BY <1>2, <1>3, <2>1 DEF OverlayInv
  <2> QED BY <1>1, <1>3, <2>2, <2>3, <2>4, <2>5 DEF After, RunInv
<1>4. ASSUME run.phase = "sweep", run.todo = {}, run' = [run EXCEPT !.phase = "validate"]
      PROVE  After(run', disk)
  <2>1. /\ Same(run, run', {"phase", "next", "verdict", "outcome"}) /\ run'.phase = "validate"
        /\ run'.next = run.next /\ run'.verdict = run.verdict
    BY <1>1, <1>4 DEF Same, Fields, IsRun
  <2>2. run.next = 1 /\ DOMAIN run.verdict = {} /\ \A n \in DOMAIN disk : Spare(run, n)
    BY SMTT(60), <1>1, <1>4 DEF OutcomeInv, LeftInv
  <2>3. OutcomeInv(run')
    BY <1>1, <1>4, <2>1 DEF OutcomeInv
  <2> QED BY <1>1, <1>3, <2>1, <2>2, <2>3
<1>5. ASSUME run.phase = "validate", run.next \in Entries, run' = [run EXCEPT !.phase = "aborted"]
      PROVE  After(run', disk)
  <2>1. /\ Same(run, run', {"phase", "next", "verdict", "outcome"}) /\ run'.phase = "aborted"
        /\ run'.next = run.next
    BY <1>1, <1>5 DEF Same, Fields, IsRun
  <2>2. OutcomeInv(run')
    BY <2>1 DEF OutcomeInv
  <2> QED BY <1>1, <1>3, <2>1, <2>2
<1>6. ASSUME run.phase = "validate", run' = [run EXCEPT !.phase = "refused"]
      PROVE  After(run', disk)
  <2>1. /\ Same(run, run', {"phase", "next", "verdict", "outcome"}) /\ run'.phase = "refused"
        /\ run'.next = run.next
    BY <1>1, <1>6 DEF Same, Fields, IsRun
  <2>2. OutcomeInv(run')
    BY <2>1 DEF OutcomeInv
  <2> QED BY <1>1, <1>3, <2>1, <2>2
<1>7. ASSUME run.phase = "validate", run.next \in Entries, NEW v, v = Verdict(run.next),
             run' = [run EXCEPT !.verdict = Append(@, v), !.next = @ + 1]
      PROVE  After(run', disk)
  <2> DEFINE k == run.next
             w == run.verdict
  <2>1. /\ Same(run, run', {"phase", "next", "verdict", "outcome"}) /\ run'.phase = "validate"
        /\ run'.next = k + 1 /\ run'.verdict = Append(w, v)
    BY <1>1, <1>7 DEF Same, Fields, IsRun
  <2>2. /\ k >= 1 /\ k \in Nat /\ 1 .. (k - 1) \subseteq Entries /\ Len(w) = k - 1
        /\ w = [j \in 1 .. (k - 1) |-> w[j]] /\ \A n \in DOMAIN disk : Spare(run, n)
        /\ \A i \in DOMAIN w : w[i] \in Advances => Held(i, disk, changed, reached)
    BY <1>1, <1>7 DEF OutcomeInv, LeftInv, HeldInv
  <2>3. v \in Advances => Goal(k, disk)
    <3>1. manifest[k].action \in {"create", "replace", "delete"}
      BY <1>1, <1>7, EntriesAre
    <3> QED BY <1>7, <3>1 DEF Verdict, Advances, Goal, Exists
  <2> HIDE DEF k, w
  <2>4. /\ Len(Append(w, v)) = k
        /\ Append(w, v) = [j \in 1 .. k |-> IF j <= k - 1 THEN w[j] ELSE v]
    <3>1. Len(w) \in Nat /\ w = [j \in 1 .. Len(w) |-> w[j]] /\ Len(w) + 1 = k
      BY SMTT(60), <2>2
    <3>2. /\ Len(Append(w, v)) = Len(w) + 1
          /\ Append(w, v) = [j \in 1 .. (Len(w) + 1) |-> IF j <= Len(w) THEN w[j] ELSE v]
      BY SMTT(60), <3>1, AppendIs
    <3> QED BY <2>2, <3>1, <3>2
  <2>5. k + 1 \in Nat /\ (k + 1) - 1 = k /\ k + 1 >= 1 /\ k \in Entries
    BY SMTT(60), <1>7, <2>2 DEF k
  <2>6. OutcomeInv(run')
    <3>1. 1 .. k \subseteq Entries
      BY SMTT(60), <2>2, <2>5
    <3> QED BY <2>1, <2>4, <2>5, <3>1 DEF OutcomeInv
  <2>7. \A i \in DOMAIN run'.verdict : run'.verdict[i] \in Advances =>
          Held(i, disk, changed, Reached(disk))
    <3>1. TAKE i \in DOMAIN run'.verdict
    <3>2. i \in 1 .. k /\ run'.verdict[i] = IF i <= k - 1 THEN w[i] ELSE v
      BY <2>1, <2>4
    <3>3. CASE i <= k - 1
      <4>1. i \in DOMAIN w /\ run'.verdict[i] = w[i]
        BY SMTT(60), <2>2, <3>2, <3>3
      <4> QED BY <1>2, <2>2, <4>1 DEF Held
    <3>4. CASE ~(i <= k - 1)
      <4>1. i = k /\ run'.verdict[i] = v
        BY SMTT(60), <2>2, <3>2, <3>4
      <4> QED BY <1>2, <2>3, <2>5, <4>1 DEF Held, k
    <3> QED BY <3>3, <3>4
  <2> QED BY <1>3, <2>1, <2>2, <2>5, <2>6, <2>7
<1>8. ASSUME run.phase = "validate", run.next \notin Entries,
             run' = [run EXCEPT !.phase = "write", !.next = 1, !.outcome = [i \in Entries |-> "none"]]
      PROVE  After(run', disk)
  <2>1. /\ Same(run, run', {"phase", "next", "verdict", "outcome"}) /\ run'.phase = "write"
        /\ run'.next = 1 /\ run'.outcome = [i \in Entries |-> "none"] /\ run'.verdict = run.verdict
        /\ run'.staged = run.staged /\ run'.copy = run.copy /\ run'.step = run.step
    BY <1>1, <1>8 DEF Same, Fields, IsRun
  <2>2. DOMAIN run.verdict = Entries
    <3>1. Entries = 1 .. Len(manifest) /\ Len(manifest) \in Nat
      BY <1>1, EntriesAre
    <3>2. /\ run.next >= 1 /\ 1 .. (run.next - 1) \subseteq Entries
          /\ run.verdict = [j \in 1 .. (run.next - 1) |-> run.verdict[j]]
      BY <1>1, <1>8 DEF OutcomeInv
    <3>3. run.next - 1 \in Nat /\ run.next = (run.next - 1) + 1
      BY SMTT(60), <1>1, <3>2
    <3>4. ASSUME NEW a \in Nat, NEW b \in Nat, 1 .. a \subseteq 1 .. b, a + 1 \notin 1 .. b
          PROVE  a = b
      <4>1. a > 0 => a \in 1 .. a
        BY SMTT(60)
      <4> QED BY SMTT(60), <3>4, <4>1
    <3>5. 1 .. (run.next - 1) = Entries
      BY <1>8, <3>1, <3>2, <3>3, <3>4
    <3> QED BY <3>2, <3>5
  <2>3. /\ \A n \in DOMAIN disk : Spare(run, n)
        /\ \A i \in DOMAIN run.verdict : run.verdict[i] \in Advances => Held(i, disk, changed, reached)
    BY <1>1, <1>8 DEF LeftInv, HeldInv
  <2>4. OutcomeInv(run')
    BY SMTT(60), <1>2, <2>1, <2>2 DEF OutcomeInv
  <2>5. \A i \in DOMAIN run'.verdict : run'.verdict[i] \in Advances =>
          Held(i, disk, changed, Reached(disk))
    BY <1>2, <2>1, <2>3 DEF Held
  <2> QED BY SMTT(60), <1>3, <2>1, <2>3, <2>4, <2>5
<1> QED BY <1>1, <1>4, <1>5, <1>6, <1>7, <1>8 DEF Validate

-----------------------------------------------------------------------------
(* The ends of a run, its sync and its advance *)

\* The clauses of the invariant after a step, over the values it leaves.
Follows ==
  /\ DiskInv(disk', Owed', edits') /\ RunInv(run', disk') /\ EntryInv(run', disk', Owed', edits')
  /\ LeftInv(run', disk')
  /\ HeldInv(run', disk', changed', reached') /\ OverlayInv(run', overlay', reached', synced')

\* Steps of the engine within an attempt.
LEMMA Within ==
  ASSUME After(run', disk'), UNCHANGED <<overlay, edits, Owed, changed, synced>>,
         reached' = Reached(disk')
  PROVE  Follows
BY DEF After, Follows

\* The record of a run not begun, and of one just begun.
LEMMA FreshRun ==
  /\ IsRun(NoRun) /\ NoRun.phase = "none" /\ NoRun.next = 1 /\ NoRun.verdict = <<>>
  /\ NoRun.staged = <<>> /\ NoRun.copy = NoName /\ NoRun.step = "none" /\ NoRun.barrier = "idle"
  /\ ~NoRun.placing /\ NoRun.temp = NoName /\ NoRun.counter = 0 /\ ~NoRun.unsynced
BY DEF NoRun, IsRun, Fields

\* A run with no batch and no entry at hand, over a directory without descriptors.
LEMMA NoRunInv ==
  ASSUME NEW d, \A n \in DOMAIN d : n[1] # "descriptor",
         NEW h, \A i \in Entries : Goal(i, d) => i \in h, NEW m, NEW e, NEW c, NEW s,
         NEW r, NEW p \in {"none", "sweep"}, NEW todo, Same(NoRun, r, {"phase", "todo"}),
         r.phase = p, r.todo = todo, p = "none" => todo = {},
         p = "sweep" => todo = {n \in DOMAIN d : n[1] \in {"hidden", "aside"}},
         DiskType(d)
  PROVE  /\ RunInv(r, d) /\ EntryInv(r, d, m, e) /\ LeftInv(r, d) /\ HeldInv(r, d, c, h)
         /\ OverlayInv(r, Entries, h, s)
<1>1. /\ IsRun(r) /\ r.next = 1 /\ r.verdict = <<>> /\ r.staged = <<>> /\ r.copy = NoName
      /\ r.step = "none" /\ r.barrier = "idle" /\ ~r.placing /\ r.temp = NoName /\ r.counter = 0
      /\ ~r.unsynced
  BY FreshRun DEF Same, Fields
<1>2. RunInv(r, d)
  <2>1. RunType(r, d)
    BY SMTT(60), <1>1 DEF RunType
  <2>2. BatchInv(r, d)
    <3>1. Len(r.staged) = 0 /\ r.temp[1] = "none" /\ r.staged = [k \in 1 .. 0 |-> r.staged[k]]
      BY SMTT(60), <1>1, NamesDiffer
    <3> QED BY SMTT(60), <1>1, <3>1 DEF BatchInv
  <2>3. OutcomeInv(r)
    <3>1. /\ Len(r.verdict) = 0 /\ r.verdict = [k \in 1 .. 0 |-> r.verdict[k]] /\ 1 .. 0 = {}
          /\ r.next - 1 = 0 /\ r.next >= 1
      BY SMTT(60), <1>1
    <3> QED BY <1>1, <3>1 DEF OutcomeInv
  <2> QED BY <2>1, <2>2, <2>3 DEF RunInv
<1>3. EntryInv(r, d, m, e)
  BY <1>1 DEF EntryInv, StepInv, TheirsInv, OldStepInv
<1>4. LeftInv(r, d)
  <2>1. p = "sweep" => \A n \in DOMAIN d : Spare(r, n) \/ n \in r.todo
    BY DEF DiskType, Name, Spare
  <2> QED BY <2>1 DEF LeftInv
<1>5. HeldInv(r, d, c, h) /\ OverlayInv(r, Entries, h, s)
  BY <1>1 DEF HeldInv, OverlayInv
<1> QED BY <1>2, <1>3, <1>4, <1>5

\* Begin.
LEMMA BeginStep ==
  ASSUME IInv, Begin, \A i \in Entries : Goal(i, disk') => i \in reached'
  PROVE  Follows
<1> DEFINE todo == {n \in DOMAIN disk : n[1] \in {"hidden", "aside"}}
<1>1. /\ run.phase \in {"none", "aborted", "refused"} /\ disk' = disk /\ overlay' = overlay
      /\ run' = [NoRun EXCEPT !.phase = "sweep", !.todo = todo] /\ Owed' = Owed /\ edits' = edits
  BY DEF Begin, Owed
<1> HIDE DEF todo
<1>2. /\ Same(NoRun, run', {"phase", "todo"}) /\ run'.phase = "sweep" /\ run'.todo = todo
  BY <1>1, FreshRun DEF Same, Fields, IsRun
<1>3. /\ run.staged = <<>> /\ run.copy = NoName /\ run.step = "none" /\ Len(run.staged) = 0
      /\ overlay = Entries /\ DiskInv(disk, Owed, edits) /\ DiskType(disk) /\ LeftInv(run, disk)
  BY <1>1 DEF IInv, RunInv, BatchInv, OverlayInv, DiskInv
<1>4. \A n \in DOMAIN disk : n[1] # "descriptor"
  BY SMTT(60), <1>3, NamesDiffer DEF LeftInv, Temps, DiskType, Name, NoName
<1>5. /\ RunInv(run', disk) /\ EntryInv(run', disk, Owed, edits) /\ LeftInv(run', disk)
      /\ HeldInv(run', disk, changed', reached') /\ OverlayInv(run', Entries, reached', synced')
  BY <1>1, <1>2, <1>3, <1>4, NoRunInv DEF todo
<1> QED BY <1>1, <1>3, <1>5 DEF Follows

\* Abandon.
LEMMA AbandonStep ==
  ASSUME IInv, Abandon, reached' = Reached(disk')
  PROVE  Follows
<1> DEFINE S == {n \in DOMAIN disk : n[1] = "descriptor"}
<1>1. /\ run' = NoRun /\ disk' = Without(S) /\ overlay' = overlay /\ Owed' = Owed /\ edits' = edits
      /\ changed' = changed /\ synced' = synced /\ overlay = Entries
      /\ DiskInv(disk, Owed, edits)
  BY DEF Abandon, Running, IInv, OverlayInv, Owed
<1>2. /\ DOMAIN disk' = DOMAIN disk \ S /\ disk' = [n \in DOMAIN disk' |-> disk'[n]]
      /\ \A n \in DOMAIN disk' : disk'[n] = disk[n]
  BY <1>1, WithoutIs
<1>3. Elsewhere(disk')
  BY <1>1, <1>2 DEF Elsewhere, DiskInv, DiskType, LossInv
<1>4. DiskInv(disk', Owed, edits) /\ \A n \in DOMAIN disk' : n[1] # "descriptor"
  BY <1>2, <1>3, ElsewhereDisk
<1>5. DiskType(disk') /\ \A i \in Entries : Goal(i, disk') => i \in reached'
  BY <1>4 DEF DiskInv, Reached
<1>6. /\ Same(NoRun, run', {"phase", "todo"}) /\ run'.phase = "none" /\ run'.todo = {}
  BY <1>1, FreshRun DEF Same, NoRun
<1>7. /\ RunInv(run', disk') /\ EntryInv(run', disk', Owed, edits) /\ LeftInv(run', disk')
      /\ HeldInv(run', disk', changed, reached') /\ OverlayInv(run', Entries, reached', synced)
  BY <1>4, <1>5, <1>6, NoRunInv
<1> QED BY <1>1, <1>4, <1>7 DEF Follows

\* The writes end.
LEMMA EndWritesStep ==
  ASSUME IInv, EndWrites
  PROVE  After(run', disk')
<1>1. /\ run.phase = "write" /\ run.staged = <<>> /\ run.copy = NoName /\ run.step = "none"
      /\ run.barrier = "idle" /\ disk' = disk /\ run' = [run EXCEPT !.phase = "sync"]
      /\ IsRun(run) /\ run.next \in Nat /\ OutcomeInv(run) /\ LeftInv(run, disk)
      /\ HeldInv(run, disk, changed, reached) /\ OverlayInv(run, overlay, reached, synced)
      /\ DiskInv(disk, Owed, edits)
  BY DEF EndWrites, Writing, IInv, RunInv, RunType
<1>2. /\ Same(run, run', {"phase"}) /\ run'.phase = "sync" /\ run'.next = run.next
      /\ run'.verdict = run.verdict /\ run'.outcome = run.outcome /\ run'.unsynced = run.unsynced
      /\ Same(run, run', PhaseFields)
  BY <1>1 DEF Same, Fields, IsRun, PhaseFields
<1>3. /\ RunType(run', disk) /\ BatchInv(run', disk) /\ EntryInv(run', disk, Owed, edits)
      /\ \A n \in DOMAIN disk : n[1] # "descriptor" /\ ~InUse(run, n)
      /\ \A n : Spare(run, n) => Spare(run', n)
      /\ run'.step = "none"
  BY <1>1, <1>2, Between
<1>4. OutcomeInv(run')
  BY <1>1, <1>2 DEF OutcomeInv
<1>5. LeftInv(run', disk)
  <2>1. LeftOver(run) => LeftOver(run')
    BY <1>2 DEF LeftOver
  <2>2. \A n \in DOMAIN disk : Spare(run, n) \/ LeftOver(run)
    BY <1>1, <1>3 DEF LeftInv
  <2> QED BY <1>2, <1>3, <2>1, <2>2 DEF LeftInv
<1>6. HeldInv(run', disk, changed, Reached(disk))
  BY <1>1, <1>2, <1>3 DEF HeldInv, Reached, Held
<1>7. OverlayInv(run', overlay, Reached(disk), synced)
  BY <1>1, <1>2 DEF OverlayInv
<1> QED BY <1>1, <1>3, <1>4, <1>5, <1>6, <1>7 DEF After, RunInv

\* sync_one: what the sync covered, or that it failed.
LEMMA SyncDirStep ==
  ASSUME IInv, SyncDir, reached' = Reached(disk')
  PROVE  Follows
<1>1. /\ run.phase = "sync" /\ disk' = disk /\ overlay' = overlay /\ Owed' = Owed /\ edits' = edits
      /\ changed' = changed /\ overlay = Entries
      /\ IsRun(run) /\ run.next \in Nat /\ OutcomeInv(run) /\ LeftInv(run, disk)
      /\ run.staged = <<>> /\ run.copy = NoName /\ run.step = "none" /\ run.barrier = "idle"
      /\ HeldInv(run, disk, changed, reached) /\ DiskInv(disk, Owed, edits) /\ ~run.unsynced
  BY DEF SyncDir, Owed, IInv, RunInv, RunType, BatchInv, OverlayInv
<1>2. ASSUME Same(run, run', {"phase", "unsynced", "crashed"}), run'.phase = "advance",
             ~run'.unsynced => synced' = {i \in Entries : Goal(i, disk) \/ i \in changed}
      PROVE  Follows
  <2>1. /\ run'.next = run.next /\ run'.verdict = run.verdict /\ run'.outcome = run.outcome
        /\ Same(run, run', PhaseFields)
    BY <1>2 DEF Same, Fields, PhaseFields
  <2>2. /\ RunType(run', disk) /\ BatchInv(run', disk) /\ EntryInv(run', disk, Owed, edits)
        /\ \A n \in DOMAIN disk : n[1] # "descriptor"
        /\ \A n : Spare(run, n) => Spare(run', n)
        /\ run'.step = "none"
    BY <1>1, <1>2, <2>1, Between
  <2>3. OutcomeInv(run')
    BY <1>1, <1>2, <2>1 DEF OutcomeInv
  <2>4. LeftInv(run', disk)
    <3>1. LeftOver(run) => LeftOver(run')
      BY <2>1 DEF LeftOver
    <3> QED BY <1>1, <1>2, <2>2, <3>1 DEF LeftInv
  <2>5. HeldInv(run', disk, changed, reached')
    BY <1>1, <1>2, <2>2 DEF HeldInv, Reached
  <2>6. OverlayInv(run', overlay, reached', synced')
    <3>1. ASSUME ~run'.unsynced, NEW i \in Entries, run.outcome[i] \in Advances
          PROVE  i \in reached' /\ i \in synced'
      BY <1>1, <1>2, <3>1 DEF HeldInv, Held, Reached
    <3> QED BY <1>1, <1>2, <2>1, <3>1 DEF OverlayInv
  <2> QED BY <1>1, <2>2, <2>3, <2>4, <2>5, <2>6 DEF Follows, RunInv
<1>3. CASE /\ synced' = {i \in Entries : Goal(i, disk) \/ i \in changed}
           /\ run' = [run EXCEPT !.phase = "advance"]
  <2>1. Same(run, run', {"phase", "unsynced", "crashed"}) /\ run'.phase = "advance"
    BY <1>1, <1>3 DEF Same, Fields, IsRun
  <2> QED BY <1>2, <1>3, <2>1
<1>4. ASSUME NEW c \in BOOLEAN,
             run' = [run EXCEPT !.phase = "advance", !.unsynced = TRUE, !.crashed = @ \/ c]
      PROVE  Follows
  <2>1. /\ Same(run, run', {"phase", "unsynced", "crashed"}) /\ run'.phase = "advance"
        /\ run'.unsynced
    BY <1>1, <1>4 DEF Same, Fields, IsRun
  <2> QED BY <1>2, <2>1
<1> QED BY <1>3, <1>4 DEF SyncDir

\* The finish.
LEMMA AdvanceStep ==
  ASSUME IInv, Advance, reached' = Reached(disk')
  PROVE  Follows
<1> DEFINE landed == {i \in Entries : run.outcome[i] \in Advances}
           p == IF run.crashed THEN "aborted"
                ELSE IF landed = Entries /\ ~run.unsynced THEN "done" ELSE "partial"
<1>1. /\ run.phase = "advance" /\ disk' = disk /\ Owed' = Owed /\ edits' = edits
      /\ changed' = changed /\ synced' = synced /\ overlay = Entries
      /\ run' = [run EXCEPT !.phase = p]
      /\ overlay' = IF run.crashed \/ run.unsynced THEN overlay ELSE overlay \ landed
      /\ IsRun(run) /\ run.next \in Nat /\ LeftInv(run, disk)
      /\ run.staged = <<>> /\ run.copy = NoName /\ run.step = "none" /\ run.barrier = "idle"
      /\ OverlayInv(run, overlay, reached, synced) /\ DiskInv(disk, Owed, edits)
  BY DEF Advance, Owed, IInv, RunInv, RunType, BatchInv, OverlayInv
<1>2. /\ p \in {"aborted", "done", "partial"} /\ (p = "aborted" => run.crashed)
      /\ (p = "done" => \A i \in Entries : run.outcome[i] \in Advances)
  OBVIOUS
<1> HIDE DEF p
<1>3. /\ run'.phase = p /\ run'.next = run.next /\ run'.unsynced = run.unsynced
      /\ Same(run, run', PhaseFields)
  BY <1>1 DEF Same, Fields, IsRun, PhaseFields
<1>4. /\ RunType(run', disk) /\ BatchInv(run', disk) /\ EntryInv(run', disk, Owed, edits)
      /\ \A n \in DOMAIN disk : n[1] # "descriptor"
      /\ \A n : Spare(run, n) => Spare(run', n)
      /\ run'.step = "none"
  BY <1>1, <1>2, <1>3, Between
<1>5. OutcomeInv(run')
  BY <1>2, <1>3 DEF OutcomeInv
<1>6. LeftInv(run', disk)
  <2>1. p = "done" => ~LeftOver(run)
    BY <1>2 DEF LeftOver, Advances
  <2> QED BY <1>1, <1>2, <1>3, <1>4, <2>1 DEF LeftInv
<1>7. HeldInv(run', disk, changed, reached')
  BY <1>1, <1>2, <1>3, <1>4 DEF HeldInv, Reached
<1>8. OverlayInv(run', overlay', reached', synced)
  <2>1. ASSUME NEW i \in Entries \ overlay' PROVE i \in reached' /\ i \in synced
    <3>1. ~run.unsynced /\ run.outcome[i] \in Advances
      BY <1>1
    <3> QED BY <1>1, <3>1 DEF OverlayInv, Reached
  <2>2. p = "aborted" => overlay' = Entries
    BY <1>1, <1>2
  <2> QED BY <1>2, <1>3, <2>1, <2>2 DEF OverlayInv
<1> QED BY <1>1, <1>4, <1>5, <1>6, <1>7, <1>8 DEF Follows, RunInv

-----------------------------------------------------------------------------
(* Outsiders *)

\* In d, only what is at entry i's path is another.
Outside(d, i) ==
  /\ d = [n \in DOMAIN d |-> d[n]]
  /\ \A n \in DOMAIN disk : n # Path(i) => n \in DOMAIN d /\ d[n] = disk[n]
  /\ \A n \in DOMAIN d : n # Path(i) => n \in DOMAIN disk
  /\ Path(i) \in DOMAIN d => IsFile(d[Path(i)]) /\ d[Path(i)].durable

\* What the engine relies on of its own names is out of an outsider's reach.
LEMMA OutsideRun ==
  ASSUME IInv, NEW i \in Entries, NEW d, Outside(d, i), NEW e, e \in Int, e < scene.edits
  PROVE  /\ RunInv(run, d) /\ StepInv(run, d) /\ OldStepInv(run, d, e) /\ LeftInv(run, d)
         /\ HeldInv(run, d, changed \union {i}, Reached(d))
         /\ OverlayInv(run, overlay, Reached(d), synced)
         /\ DiskType(d) /\ DurableInv(d) /\ OldInv(d, e)
<1>1. /\ scene \in Scenes /\ DiskType(disk) /\ DurableInv(disk) /\ RunType(run, disk)
      /\ BatchInv(run, disk) /\ OutcomeInv(run) /\ StepInv(run, disk) /\ LeftInv(run, disk)
      /\ HeldInv(run, disk, changed, reached) /\ OverlayInv(run, overlay, reached, synced)
      /\ i \in Nat /\ Path(i)[1] = "path" /\ Path(i)[2] = i /\ Path(i) \in Name
  BY EntriesAre, NamesDiffer, NamesAreNames DEF IInv, DiskInv, RunInv, EntryInv
<1>2. DiskType(d) /\ DurableInv(d)
  BY <1>1 DEF Outside, DiskType, DurableInv
<1>3. OldInv(d, e) /\ OldStepInv(run, d, e)
  <2>1. scene.edits \in Int
    BY SMTT(60), <1>1, LandingAssumption
  <2>2. e # scene.edits /\ e <= scene.edits
    BY SMTT(60), <2>1
  <2> QED BY <2>2 DEF OldInv, OldStepInv, Untouched
<1>4. \A n : n[1] # "path" => /\ (n \in DOMAIN d <=> n \in DOMAIN disk)
                              /\ n \in DOMAIN disk => d[n] = disk[n]
  BY <1>1 DEF Outside
<1>5. RunInv(run, d)
  <2>1. RunType(run, d)
    BY <1>1, <1>4 DEF RunType
  <2>2. BatchInv(run, d)
    <3>1. \A n : Staging(disk, n) => Staging(d, n) /\ d[n] = disk[n]
      BY <1>4 DEF Staging
    <3>2. \A n : Whole(disk, n) => Whole(d, n) /\ d[n] = disk[n]
      BY <3>1 DEF Whole
    <3> QED BY <1>1, <3>1, <3>2 DEF BatchInv
  <2> QED BY <1>1, <2>1, <2>2 DEF RunInv
<1>6. StepInv(run, d)
  <2>1. \A n : Whole(disk, n) => Whole(d, n) /\ d[n] = disk[n]
    BY <1>4 DEF Staging, Whole
  <2>2. Aside(run.at)[1] # "path"
    BY NamesDiffer
  <2>3. Aside(run.at) \in DOMAIN disk => Aside(run.at) \in DOMAIN d /\ d[Aside(run.at)] = disk[Aside(run.at)]
    BY <1>4, <2>2
  <2> QED BY <1>1, <2>1, <2>3 DEF StepInv, LiveAside
<1>7. LeftInv(run, d)
  <2>1. \A n \in DOMAIN d : n \in DOMAIN disk \/ (n[1] = "path" /\ Spare(run, n))
    BY <1>1 DEF Outside, Spare
  <2> QED BY <1>1, <2>1 DEF LeftInv
<1>8. \A j \in Entries : Held(j, disk, changed, reached) => Held(j, d, changed \union {i}, Reached(d))
  <2>1. \A j \in Entries : j # i => (Goal(j, disk) <=> Goal(j, d))
    <3>1. \A j \in Entries : j # i => Path(j) # Path(i)
      BY SMTT(60), NamesDiffer
    <3> QED BY <3>1 DEF Goal, Outside
  <2> QED BY <2>1 DEF Held, Reached
<1>9. HeldInv(run, d, changed \union {i}, Reached(d))
  <2>1. \A j \in Entries : Goal(j, d) => j \in Reached(d)
    BY DEF Reached
  <2>2. (run.phase \in {"validate", "write"} \/ run.step # "none") => \A j \in DOMAIN run.verdict : j \in Entries
    BY <1>1 DEF OutcomeInv, BatchInv
  <2>3. run.step # "none" => run.at \in Entries
    BY <1>1 DEF OutcomeInv, BatchInv, Open
  <2> QED BY <1>1, <1>8, <2>1, <2>2, <2>3 DEF HeldInv
<1>10. OverlayInv(run, overlay, Reached(d), synced)
  BY <1>1 DEF OverlayInv, Reached
<1> QED BY <1>2, <1>3, <1>5, <1>6, <1>7, <1>9, <1>10

\* An outsider's step leaves its bytes on the disk, and none the engine takes for its own.
LEMMA OutsideBytes ==
  ASSUME IInv, NEW i \in Entries, NEW d, Outside(d, i), NEW m,
         NEW lost, Path(i) \in DOMAIN disk => disk[Path(i)].bytes \in lost \/ (Path(i) \in DOMAIN d /\ d[Path(i)].bytes = disk[Path(i)].bytes),
         NEW new, \A c \in new : c \in Bytes /\ Path(i) \in DOMAIN d /\ d[Path(i)].bytes = c,
         \A n \in DOMAIN disk : disk[n].bytes \notin new,
         m = (Owed \ lost) \union new,
         (Path(i) \in DOMAIN d /\ SameFile(d[Path(i)])) =>
           Path(i) \in DOMAIN disk /\ SameFile(disk[Path(i)]) /\ d[Path(i)].bytes = disk[Path(i)].bytes,
         (run.step = "verify" /\ run.at = i /\ Path(i) \in DOMAIN d /\ d[Path(i)].ino = "temp") =>
           d[Path(i)].bytes \notin m
  PROVE  LossInv(d, m) /\ TheirsInv(run, d, m)
<1>1. /\ LossInv(disk, Owed) /\ TheirsInv(run, disk, Owed) /\ StepInv(run, disk) /\ DiskType(disk)
      /\ Path(i)[1] = "path" /\ Path(i)[2] = i
  BY NamesDiffer DEF IInv, DiskInv, EntryInv
<1>2. LossInv(d, m)
  <2>1. m \subseteq Bytes
    BY <1>1 DEF LossInv
  <2>2. ASSUME NEW c \in m PROVE \E n \in DOMAIN d : d[n].bytes = c
    <3>1. CASE c \in new
      BY <3>1
    <3>2. CASE c \in Owed /\ c \notin lost
      <4>1. PICK n \in DOMAIN disk : disk[n].bytes = c
        BY <1>1, <2>2, <3>2 DEF LossInv
      <4>2. n \in DOMAIN d /\ d[n].bytes = c
        BY <3>2, <4>1 DEF Outside
      <4> QED BY <4>2
    <3> QED BY <2>2, <3>1, <3>2
  <2>3. \A n \in DOMAIN d : n[1] \in {"hidden", "descriptor"} => d[n].bytes \in {"part", "new"}
    BY <1>1 DEF LossInv, Outside
  <2>4. \A n \in DOMAIN d :
          (n[1] \in {"path", "aside"} /\ manifest[n[2]].action = "delete" /\ SameFile(d[n])) =>
            d[n].bytes \notin m
    <3> SUFFICES ASSUME NEW n \in DOMAIN d, n[1] \in {"path", "aside"},
                        manifest[n[2]].action = "delete", SameFile(d[n])
                 PROVE  d[n].bytes \notin m
      OBVIOUS
    <3>1. n \in DOMAIN disk /\ SameFile(disk[n]) /\ d[n].bytes = disk[n].bytes
      BY DEF Outside
    <3>2. disk[n].bytes \notin Owed
      BY <1>1, <3>1 DEF LossInv
    <3> QED BY <3>1, <3>2
  <2> QED BY <2>1, <2>2, <2>3, <2>4 DEF LossInv
<1>3. TheirsInv(run, d, m)
  <2>1. ASSUME run.step = "own", d[Aside(run.at)].ino = "temp"
        PROVE  d[Aside(run.at)].bytes \notin m
    <3>1. Aside(run.at) \in DOMAIN disk /\ Aside(run.at) # Path(i)
      BY SMTT(60), <1>1, <2>1, NamesDiffer DEF StepInv, LiveAside
    <3>2. d[Aside(run.at)] = disk[Aside(run.at)]
      BY <3>1 DEF Outside
    <3> QED BY <1>1, <2>1, <3>1, <3>2 DEF TheirsInv
  <2>2. ASSUME run.step = "verify", Path(run.at) \in DOMAIN d, d[Path(run.at)].ino = "temp"
        PROVE  d[Path(run.at)].bytes \notin m
    <3>1. CASE run.at = i
      BY <2>2, <3>1
    <3>2. CASE run.at # i
      <4>1. Path(run.at) # Path(i)
        BY SMTT(60), <3>2, NamesDiffer
      <4>2. Path(run.at) \in DOMAIN disk /\ d[Path(run.at)] = disk[Path(run.at)]
        BY <2>2, <4>1 DEF Outside
      <4> QED BY <1>1, <2>2, <4>2 DEF TheirsInv
    <3> QED BY <3>1, <3>2
  <2> QED BY <2>1, <2>2 DEF TheirsInv
<1> QED BY <1>2, <1>3

\* A content that is told apart is told apart.
LEMMA FreshIs ==
  ASSUME NEW used, NEW c \in Fresh(used)
  PROVE  c \in Bytes /\ c \notin used
<1>1. ~(Bytes \subseteq used)
  BY DEF Fresh
<1>2. \E b \in Bytes : b \notin used
  BY <1>1
<1>3. c = CHOOSE b \in Bytes : b \notin used
  BY <1>1 DEF Fresh
<1> QED BY <1>2, <1>3

\* Another program's step on a path.
LEMMA OutsiderStep ==
  ASSUME IInv, NEW i \in Entries, Outsider(i), reached' = Reached(disk')
  PROVE  Follows
<1> DEFINE p == Path(i)
           seen == {disk[n].bytes : n \in DOMAIN disk}
           written == {"new"} \union Fresh(mine \union exposed \union seen)
           lost == IF Exists(p) THEN {disk[p].bytes} ELSE {}
           unverified == run.at = i /\ run.step = "verify" /\ disk[p].ino = "temp"
<1>1. /\ edits > 0 /\ edits' = edits - 1 /\ changed' = changed \union {i} /\ overlay' = overlay
      /\ run' = run /\ synced' = synced /\ DiskType(disk) /\ DurableInv(disk) /\ LossInv(disk, Owed)
      /\ TheirsInv(run, disk, Owed) /\ OldInv(disk, edits) /\ scene \in Scenes /\ p[1] = "path"
      /\ Owed \subseteq Bytes
  BY NamesDiffer DEF Outsider, IInv, DiskInv, EntryInv, LossInv
<1>0. ASSUME NEW c \in written
      PROVE  /\ c \in (Bytes \ {disk[n].bytes : n \in DOMAIN disk}) \union {"new"}
             /\ \A b \in {c} \ {"new"} : b \notin mine /\ b \notin exposed
  BY <1>0, FreshIs
<1>2. edits' \in Int /\ edits' < scene.edits
  BY SMTT(60), <1>1, LandingAssumption DEF OldInv
<1>3. ASSUME Outside(disk', i), LossInv(disk', Owed'), TheirsInv(run, disk', Owed')
      PROVE  Follows
  <2>1. /\ RunInv(run, disk') /\ StepInv(run, disk') /\ OldStepInv(run, disk', edits')
        /\ LeftInv(run, disk') /\ HeldInv(run, disk', changed \union {i}, Reached(disk'))
        /\ OverlayInv(run, overlay, Reached(disk'), synced)
        /\ DiskType(disk') /\ DurableInv(disk') /\ OldInv(disk', edits')
    BY <1>2, <1>3, OutsideRun
  <2> QED BY <1>1, <1>3, <2>1 DEF Follows, DiskInv, EntryInv
<1>4. ASSUME NEW c \in (Bytes \ {disk[n].bytes : n \in DOMAIN disk}) \union {"new"},
             NEW new, new \subseteq {c} \ {"new"}, Owed' = (Owed \ lost) \union new,
             NEW f, IsFile(f), f.bytes = c, f.mtime = "later", f.durable, Outside(disk', i),
             p \in DOMAIN disk', disk'[p] = f,
             (run.step = "verify" /\ run.at = i /\ f.ino = "temp") => new = {}
      PROVE  Follows
  <2>1. \A n \in DOMAIN disk : disk[n].bytes \notin new
    BY <1>4
  <2>2. \A b \in new : b \in Bytes /\ disk'[p].bytes = b
    BY <1>4
  <2>3. ~SameFile(disk'[p])
    BY <1>4 DEF SameFile
  <2>4. (run.step = "verify" /\ run.at = i /\ disk'[p].ino = "temp") =>
          disk'[p].bytes \notin Owed'
    <3>1. c \notin Owed
      BY SMTT(60), <1>1, LandingAssumption DEF LossInv
    <3> QED BY <1>4, <3>1
  <2>5. p \in DOMAIN disk => disk[p].bytes \in lost
    BY DEF Exists
  <2> HIDE DEF lost
  <2>6. LossInv(disk', Owed') /\ TheirsInv(run, disk', Owed')
    BY <1>4, <2>1, <2>2, <2>3, <2>4, <2>5, OutsideBytes DEF p
  <2> QED BY <1>3, <1>4, <2>6
<1>5. ASSUME NEW c \in written, Exists(p), disk' = [disk EXCEPT ![p] = NewFile(@.ino, c, TRUE)],
             mine' = (mine \ lost) \union ({c} \ {"new"}),
             exposed' = IF unverified THEN exposed \union ({c} \ {"new"}) ELSE exposed
      PROVE  Follows
  <2> DEFINE f == NewFile(disk[p].ino, c, TRUE)
             new == IF unverified THEN {} ELSE {c} \ {"new"}
  <2>1. IsFile(f) /\ f.bytes = c /\ f.mtime = "later" /\ f.durable /\ f.ino = disk[p].ino
    BY DEF NewFile, IsFile, FileFields
  <2>2. new \subseteq {c} \ {"new"} /\ ((run.step = "verify" /\ run.at = i /\ f.ino = "temp") => new = {})
    BY <2>1
  <2>3. disk' = [disk EXCEPT ![p] = f] /\ Owed' = (Owed \ lost) \union new
    <3>1. disk' = [disk EXCEPT ![p] = f]
      BY <1>5
    <3> HIDE DEF lost
    <3>2. CASE unverified
      BY <1>0, <1>5, <3>2 DEF Owed
    <3>3. CASE ~unverified
      BY <1>0, <1>5, <3>3 DEF Owed
    <3> QED BY <3>1, <3>2, <3>3
  <2> HIDE DEF f, new
  <2>4. Outside(disk', i) /\ p \in DOMAIN disk' /\ disk'[p] = f
    BY ZenonT(60), <1>1, <1>5, <2>1, <2>3 DEF Outside, DiskType, Exists
  <2> QED BY <1>0, <1>4, <2>1, <2>2, <2>3, <2>4
<1>6. ASSUME NEW c \in written, disk' = With(disk, p, NewFile("out", c, TRUE)),
             mine' = (mine \ lost) \union ({c} \ {"new"}), exposed' = exposed
      PROVE  Follows
  <2> DEFINE f == NewFile("out", c, TRUE)
             new == {c} \ {"new"}
  <2>1. IsFile(f) /\ f.bytes = c /\ f.mtime = "later" /\ f.durable /\ f.ino # "temp"
    BY DEF NewFile, IsFile, FileFields
  <2>2. disk' = With(disk, p, f) /\ Owed' = (Owed \ lost) \union new /\ new \subseteq {c} \ {"new"}
    <3> HIDE DEF lost
    <3> QED BY <1>0, <1>6 DEF Owed
  <2> HIDE DEF f, new
  <2>3. Outside(disk', i) /\ p \in DOMAIN disk' /\ disk'[p] = f
    BY <2>1, <2>2 DEF Outside, With
  <2> QED BY <1>0, <1>4, <2>1, <2>2, <2>3
<1>7. ASSUME Exists(p), disk' = Without({p}), mine' = mine \ lost, exposed' = exposed
      PROVE  Follows
  <2>1. /\ DOMAIN disk' = DOMAIN disk \ {p} /\ disk' = [n \in DOMAIN disk' |-> disk'[n]]
        /\ \A n \in DOMAIN disk' : disk'[n] = disk[n]
    BY <1>7, WithoutIs
  <2>2. Outside(disk', i) /\ p \notin DOMAIN disk'
    BY <2>1 DEF Outside
  <2> DEFINE new == {}
  <2>3. /\ p \in DOMAIN disk => disk[p].bytes \in lost
        /\ Owed' = (Owed \ lost) \union new /\ \A c : c \notin new
    BY <1>7 DEF Exists, Owed
  <2> HIDE DEF lost, new
  <2>4. LossInv(disk', Owed') /\ TheirsInv(run, disk', Owed')
    BY <2>2, <2>3, OutsideBytes DEF p
  <2> QED BY <1>3, <2>2, <2>4
<1>8. ASSUME Exists(p), disk' = [disk EXCEPT ![p].ctime = "later"], mine' = mine, exposed' = exposed
      PROVE  Follows
  <2> DEFINE f == [disk[p] EXCEPT !.ctime = "later"]
  <2>1. /\ IsFile(f) /\ f.ino = disk[p].ino /\ f.bytes = disk[p].bytes /\ f.mtime = disk[p].mtime
        /\ (f.durable <=> disk[p].durable)
    BY <1>1, <1>8, RenamedFile DEF DiskType, Exists
  <2>2. disk' = [disk EXCEPT ![p] = f]
    BY <1>8
  <2> HIDE DEF f
  <2>3. Outside(disk', i) /\ p \in DOMAIN disk' /\ disk'[p] = f
    BY <1>1, <1>8, <2>1, <2>2 DEF Outside, DiskType, Exists, DurableInv
  <2> DEFINE none == {}
  <2>4. /\ disk'[p].bytes = disk[p].bytes /\ p \in DOMAIN disk
        /\ (SameFile(disk'[p]) => SameFile(disk[p]))
        /\ Owed' = (Owed \ none) \union none /\ \A c : c \notin none
    BY <1>8, <2>1, <2>3 DEF Exists, SameFile, Owed
  <2> HIDE DEF none
  <2>5. (run.step = "verify" /\ run.at = i /\ disk'[p].ino = "temp") =>
          disk'[p].bytes \notin Owed'
    <3>1. Owed' = Owed
      BY <1>8 DEF Owed
    <3>2. disk'[p].ino = disk[p].ino
      BY <2>1, <2>3
    <3> QED BY <1>1, <2>4, <3>1, <3>2 DEF TheirsInv
  <2>6. LossInv(disk', Owed') /\ TheirsInv(run, disk', Owed')
    BY <2>3, <2>4, <2>5, OutsideBytes DEF p
  <2> QED BY <1>3, <2>3, <2>6
<1> QED BY <1>5, <1>6, <1>7, <1>8 DEF Outsider

-----------------------------------------------------------------------------
(* The invariant *)

\* The clauses over the values a step leaves are the invariant after it.
LEMMA Carried ==
  ASSUME scene \in Scenes, scene' = scene, Follows
  PROVE  IInv'
<1>1. Entries' = Entries /\ manifest' = manifest /\ host' = host
  BY DEF Entries, manifest, host
<1>2. DiskInv(disk, Owed, edits)'
  <2>1. DiskType(disk)'
    BY <1>1 DEF Follows, DiskInv, DiskType
  <2>2. DurableInv(disk)'
    BY DEF Follows, DiskInv, DurableInv
  <2>3. LossInv(disk, Owed)'
    BY <1>1 DEF Follows, DiskInv, LossInv, SameFile
  <2>4. OldInv(disk, edits)'
    BY <1>1 DEF Follows, DiskInv, OldInv, Untouched, OurFile, Displaced, SameFile
  <2> QED BY <2>1, <2>2, <2>3, <2>4 DEF DiskInv
<1>3. RunInv(run, disk)'
  <2>1. RunType(run, disk)'
    BY DEF Follows, RunInv, RunType
  <2>2. BatchInv(run, disk)'
    BY DEF Follows, RunInv, BatchInv
  <2>3. OutcomeInv(run)'
    BY <1>1 DEF Follows, RunInv, OutcomeInv, Open
  <2> QED BY <2>1, <2>2, <2>3 DEF RunInv
<1>4. EntryInv(run, disk, Owed, edits)'
  <2>1. StepInv(run, disk)'
    BY <1>1 DEF Follows, EntryInv, StepInv, LiveTemp, LiveAside, Displaced, SameFile
  <2>2. TheirsInv(run, disk, Owed)'
    BY DEF Follows, EntryInv, TheirsInv
  <2>3. OldStepInv(run, disk, edits)'
    BY <1>1 DEF Follows, EntryInv, OldStepInv, Untouched, Displaced, SameFile
  <2> QED BY <2>1, <2>2, <2>3 DEF EntryInv
<1>5. LeftInv(run, disk)'
  BY <1>1 DEF Follows, LeftInv, Spare, InUse, LeftOver, LiveTemp, LiveAside, Temps
<1>6. HeldInv(run, disk, changed, reached)'
  BY <1>1 DEF Follows, HeldInv, Held, Goal
<1>7. OverlayInv(run, overlay, reached, synced)'
  BY <1>1 DEF Follows, OverlayInv
<1> QED BY <1>2, <1>3, <1>4, <1>5, <1>6, <1>7 DEF IInv

\* The invariant holds at the start: a racy witness may be of bytes it does not name.
LEMMA InitInv ==
  ASSUME Init
  PROVE  IInv
<1>1. /\ scene \in Scenes /\ overlay = Entries /\ run = NoRun /\ changed = {} /\ reached = {}
      /\ synced = {}
  BY DEF Init
<1> DEFINE olds == {j \in Entries : manifest[j].action # "create"}
<1>2. PICK unseen \in {{}} \union {{i} : i \in {j \in Entries : manifest[j].racy}}, b \in Fresh({}) :
        /\ disk = [n \in {Path(i) : i \in olds} |->
                     [ino |-> "base", bytes |-> IF n[2] \in unseen THEN b ELSE "base",
                      mtime |-> "witnessed", ctime |-> "witnessed", durable |-> TRUE]]
        /\ mine = IF unseen = {} THEN {} ELSE {b}
        /\ exposed = {c \in mine : \E i \in unseen : manifest[i].action = "delete"}
        /\ edits = scene.edits - (IF unseen = {} THEN 0 ELSE 1) /\ edits >= 0
  BY DEF Init
<1>3. /\ Entries \subseteq Nat /\ Entries = 1 .. Len(manifest) /\ Len(manifest) \in Nat
      /\ scene.edits \in Int
  BY SMTT(60), <1>1, EntriesAre, LandingAssumption
<1>4. \A i \in unseen : i \in Entries /\ manifest[i].racy
  BY <1>2
<1>5. /\ DOMAIN disk = {Path(i) : i \in olds} /\ disk = [n \in DOMAIN disk |-> disk[n]]
      /\ \A n \in DOMAIN disk :
           /\ IsFile(disk[n]) /\ disk[n].ino = "base" /\ disk[n].mtime = "witnessed" /\ disk[n].durable
           /\ disk[n].bytes = IF n[2] \in unseen THEN b ELSE "base"
  BY <1>2 DEF IsFile, FileFields
<1>6. \A n \in DOMAIN disk : n[1] = "path" /\ n[2] \in olds /\ n = Path(n[2]) /\ n \in Name
  <2>1. TAKE n \in DOMAIN disk
  <2>2. PICK i \in olds : n = Path(i)
    BY <1>5
  <2>3. Path(i)[1] = "path" /\ Path(i)[2] = i /\ Path(i) \in Name
    BY <1>3, NamesDiffer, NamesAreNames
  <2> QED BY <2>2, <2>3
<1>7. DiskType(disk) /\ DurableInv(disk)
  BY <1>5, <1>6 DEF DiskType, DurableInv
<1>8. LossInv(disk, Owed)
  <2>1. b \in Bytes /\ Owed \subseteq {b} /\ "base" \notin Bytes
    BY <1>2, FreshIs, LandingAssumption DEF Owed
  <2>2. \A c \in Owed : \E n \in DOMAIN disk : disk[n].bytes = c
    <3>1. TAKE c \in Owed
    <3>2. PICK i : i \in unseen
      BY <1>2 DEF Owed
    <3>3. c = b /\ i \in Entries /\ manifest[i].racy
      BY <1>4, <2>1, <3>2
    <3>4. i \in olds
      BY <1>1, <3>3, LandingAssumption DEF manifest, Entries
    <3>5. Path(i) \in DOMAIN disk /\ Path(i)[2] = i
      BY <1>5, <3>4, NamesDiffer
    <3> QED BY <1>5, <3>2, <3>3, <3>5
  <2>3. ASSUME NEW n \in DOMAIN disk, manifest[n[2]].action = "delete"
        PROVE  disk[n].bytes \notin Owed
    <3>1. CASE n[2] \in unseen
      BY <1>2, <1>5, <2>3, <3>1 DEF Owed
    <3>2. CASE n[2] \notin unseen
      BY <1>5, <2>1, <3>2
    <3> QED BY <3>1, <3>2
  <2> QED BY <1>6, <2>1, <2>2, <2>3 DEF LossInv
<1>9. OldInv(disk, edits)
  <2>1. edits \in Int /\ edits <= scene.edits /\ (edits = scene.edits => unseen = {})
    BY SMTT(60), <1>2, <1>3
  <2>2. ASSUME NEW i \in Entries, Untouched(i, edits)
        PROVE  Path(i) \in DOMAIN disk /\ Displaced(disk[Path(i)]) /\ Aside(i) \notin DOMAIN disk
    <3>1. i \in olds /\ unseen = {}
      BY <2>1, <2>2 DEF Untouched
    <3>2. Path(i) \in DOMAIN disk /\ Aside(i)[1] = "aside"
      BY <1>5, <3>1, NamesDiffer
    <3> QED BY <1>5, <1>6, <3>1, <3>2 DEF Displaced, SameFile
  <2> QED BY <2>1, <2>2 DEF OldInv, OurFile
<1>10. /\ RunInv(run, disk) /\ EntryInv(run, disk, Owed, edits) /\ LeftInv(run, disk)
       /\ HeldInv(run, disk, changed, reached) /\ OverlayInv(run, Entries, reached, synced)
  <2>1. Same(NoRun, run, {"phase", "todo"}) /\ run.phase = "none" /\ run.todo = {}
    BY <1>1, FreshRun DEF Same, NoRun
  <2> DEFINE h == {i \in Entries : Goal(i, disk)}
  <2>2. \A n \in DOMAIN disk : n[1] # "descriptor"
    BY <1>6
  <2>3. /\ RunInv(run, disk) /\ EntryInv(run, disk, Owed, edits) /\ LeftInv(run, disk)
        /\ HeldInv(run, disk, changed, h) /\ OverlayInv(run, Entries, h, synced)
    <3>1. \A i \in Entries : Goal(i, disk) => i \in h
      OBVIOUS
    <3> HIDE DEF h
    <3> QED BY <1>7, <2>1, <2>2, <3>1, NoRunInv
  <2>4. run.step = "none"
    BY <1>1, FreshRun
  <2> QED BY <2>1, <2>3, <2>4 DEF HeldInv, OverlayInv
<1> QED BY <1>1, <1>7, <1>8, <1>9, <1>10 DEF IInv, DiskInv

\* Every step keeps it.
LEMMA NextInv ==
  ASSUME IInv, [Next]_landVars
  PROVE  IInv'
<1>1. CASE UNCHANGED landVars
  <2>1. After(run', disk') /\ UNCHANGED <<overlay, edits, Owed, changed, synced>> /\ scene' = scene
    <3>1. /\ run' = run /\ disk' = disk /\ UNCHANGED <<overlay, edits, Owed, changed, synced>>
          /\ scene' = scene
      BY <1>1 DEF landVars, Owed
    <3>2. HeldInv(run, disk, changed, Reached(disk)) /\ OverlayInv(run, overlay, Reached(disk), synced)
      BY DEF IInv, HeldInv, OverlayInv, Held, Reached
    <3> QED BY <3>1, <3>2 DEF After, IInv
  <2>2. Follows
    BY <1>1 DEF landVars, Follows, IInv, Owed
  <2> QED BY <2>1, <2>2, Carried DEF IInv
<1>2. CASE Next
  <2>1. /\ reached' = {i \in Entries : Goal(i, disk')} \union (IF attempt' = attempt THEN reached ELSE {})
        /\ scene' = scene /\ scene \in Scenes
    BY <1>2 DEF Next, IInv
  <2>2. attempt' = attempt => reached' = Reached(disk')
    BY <2>1 DEF Reached
  <2>3. \A i \in Entries : Goal(i, disk') => i \in reached'
    BY <2>1
  <2> SUFFICES Follows
    BY <2>1, Carried
  <2>4. CASE Begin
    BY <2>3, <2>4, BeginStep
  <2>5. CASE Abandon
    BY <2>2, <2>5, AbandonStep DEF Abandon
  <2>6. ASSUME NEW n \in run.todo, Sweep(n) PROVE Follows
    <3>1. After(run', disk')
      BY <2>6, SweepStep
    <3>2. UNCHANGED <<overlay, attempt, edits, Owed, changed, synced>>
      BY <2>6 DEF Sweep, Owed
    <3> QED BY <2>2, <3>1, <3>2, Within
  <2>7. CASE Validate
    <3>1. UNCHANGED <<overlay, attempt, edits, Owed, changed, synced>>
      BY <2>7 DEF Validate, Owed
    <3> QED BY <2>2, <2>7, <3>1, ValidateStep, Within
  <2>8. CASE BeginEntry
    <3>1. UNCHANGED <<overlay, attempt, edits, Owed, changed, synced>>
      BY <2>8 DEF BeginEntry, Hold, Owed
    <3> QED BY <2>2, <2>8, <3>1, BeginEntryStep, Within
  <2>9. CASE CopyFile
    <3>1. UNCHANGED <<overlay, attempt, edits, Owed, changed, synced>>
      BY <2>9 DEF CopyFile, Hold, Owed
    <3> QED BY <2>2, <2>9, <3>1, CopyFileStep, Within
  <2>10. CASE TakeBarrier
    <3>1. UNCHANGED <<overlay, attempt, edits, Owed, changed, synced>>
      BY <2>10 DEF TakeBarrier, Hold, Owed
    <3> QED BY <2>2, <2>10, <3>1, TakeBarrierStep, Within
  <2>11. CASE RunBarrier
    <3>1. UNCHANGED <<overlay, attempt, edits, Owed, changed, synced>>
      BY <2>11 DEF RunBarrier, Hold, Owed
    <3> QED BY <2>2, <2>11, <3>1, RunBarrierStep, Within
  <2>12. CASE EndBarrier
    <3>1. UNCHANGED <<overlay, attempt, edits, Owed, changed, synced>>
      BY <2>12 DEF EndBarrier, Hold, Owed
    <3> QED BY <2>2, <2>12, <3>1, EndBarrierStep, Within
  <2>13. CASE PlaceStaged
    <3>1. UNCHANGED <<overlay, attempt, edits, Owed, changed, synced>>
      BY <2>13 DEF PlaceStaged, Hold, Owed
    <3> QED BY <2>2, <2>13, <3>1, PlaceStagedStep, Within
  <2>14. CASE Place
    <3>1. UNCHANGED <<overlay, attempt, edits, Owed, changed, synced>>
      BY <2>14 DEF Place, LinkCreate, PlaceAside, OpenOld, ExchangeNames, VerifyExchanged,
                   RemoveOwnTemp, Restage, CheckDeleted, SetAside, VerifyAside, TakeName,
                   PutOldBack, Unstage, RemoveOld, HostRefuses, Hold, Owed
    <3> QED BY <2>2, <2>14, <3>1, PlaceStep, Within
  <2>15. CASE EndWrites
    <3>1. UNCHANGED <<overlay, attempt, edits, Owed, changed, synced>>
      BY <2>15 DEF EndWrites, Hold, Owed
    <3> QED BY <2>2, <2>15, <3>1, EndWritesStep, Within
  <2>16. CASE SyncDir
    BY <2>2, <2>16, SyncDirStep DEF SyncDir
  <2>17. CASE Advance
    BY <2>2, <2>17, AdvanceStep DEF Advance
  <2>18. ASSUME NEW i \in Entries, Outsider(i) PROVE Follows
    BY <2>2, <2>18, OutsiderStep DEF Outsider
  <2> QED BY <1>2, <2>4, <2>5, <2>6, <2>7, <2>8, <2>9, <2>10, <2>11, <2>12, <2>13, <2>14, <2>15,
             <2>16, <2>17, <2>18 DEF Next
<1> QED BY <1>1, <1>2

\* The invariant, in every reachable state.
THEOREM InvariantHolds == Spec => []IInv
<1>1. Init => IInv
  BY InitInv
<1>2. IInv /\ [Next]_landVars => IInv'
  BY NextInv
<1> QED BY <1>1, <1>2, PTL DEF Spec

\* NeverTorn of every manifest, filesystem and interleaving with outsiders: a batch is
\* placed only after its barrier, so no path holds a file that is not durable.
THEOREM PathsNeverTorn == Spec => []NeverTorn
<1>1. IInv => NeverTorn
  BY SMTT(60), NamesDiffer DEF IInv, DiskInv, DurableInv, NeverTorn, Exists
<1> QED BY <1>1, InvariantHolds, PTL

\* OldOrNew: without outsiders a replaced file is old or new at its path, or the old
\* one is aside, wherever the landing stopped.
THEOREM ReplacedIsOldOrNew == Spec => []OldOrNew
<1>1. ASSUME IInv, NEW i \in Entries, manifest[i].action = "replace", edits = scene.edits
      PROVE  \/ Exists(Path(i)) /\ disk[Path(i)].bytes \in {"base", "new"}
             \/ ~host.exchange /\ Exists(Aside(i)) /\ disk[Aside(i)].bytes = "base"
  BY <1>1 DEF IInv, DiskInv, OldInv, Untouched, OurFile, Displaced, Exists
<1>2. IInv => OldOrNew
  BY <1>1 DEF OldOrNew
<1> QED BY <1>2, InvariantHolds, PTL

\* WorkIsKept: an entry leaves the overlay only once its state was on the disk and synced.
THEOREM NothingLeavesUnsynced == Spec => []WorkIsKept
<1>1. IInv => WorkIsKept
  BY DEF IInv, OverlayInv, WorkIsKept
<1> QED BY <1>1, InvariantHolds, PTL

\* DoneLeavesNothing: whatever earlier attempts left is removed, put back or reported.
THEOREM NothingIsLeftUnreported == Spec => []DoneLeavesNothing
<1>1. IInv => DoneLeavesNothing
  BY DEF IInv, LeftInv, Spare, DoneLeavesNothing
<1> QED BY <1>1, InvariantHolds, PTL

\* NoOutsiderLoss: what an outsider writes is lost in two places only, in place into the
\* landing's own file before the exchange is verified, and into a file to delete inside
\* the timestamp window of its witness.  For every manifest, filesystem, number of
\* attempts and interleaving with outsiders (exchange_and_verify, remove_own_temp,
\* set_file_aside, delete, resolve_aside).
THEOREM OutsidersLoseNothing == Spec => []NoOutsiderLoss
<1>1. IInv => NoOutsiderLoss
  BY DEF IInv, DiskInv, LossInv, NoOutsiderLoss, Owed
<1> QED BY <1>1, InvariantHolds, PTL
=============================================================================
