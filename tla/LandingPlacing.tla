--------------------------- MODULE LandingPlacing ----------------------------
(***************************************************************************)
(* Proofs about the landing engine, first part: its inductive invariant    *)
(* and the place phase, the one that touches the paths themselves.         *)
(*                                                                         *)
(* The invariant relates the run to the directory: what a step in progress *)
(* has set aside or moved in (StepInv), where the bytes of an outsider are *)
(* (TheirsInv), where those of an untouched file are (OldInv, OldStepInv), *)
(* which temporaries a batch still answers for (LeftInv), and what of the  *)
(* overlay the disk holds (HeldInv, OverlayInv).                           *)
(***************************************************************************)
EXTENDS Landing, TLAPS

\* Zenon proves a leaf, but where it names the SMT solver.
USE ZenonT(20)

(* The inductive invariant. *)

\* The fields of a run and of a file.
Fields == {"phase", "todo", "next", "verdict", "outcome", "class", "copy", "staged", "placing",
           "barrier", "step", "at", "temp", "before", "ending", "counter", "crashed", "unsynced",
           "restored", "reported"}
FileFields == {"ino", "bytes", "mtime", "ctime", "durable"}

IsRun(r) == r = [x \in Fields |-> r[x]]
IsFile(f) == f = [x \in FileFields |-> f[x]]

Name == {"path", "aside", "hidden", "kept", "descriptor"} \X Nat

\* The directory holds files at names of the landing's entries.
DiskType(d) ==
  /\ d = [n \in DOMAIN d |-> d[n]]
  /\ \A n \in DOMAIN d :
       n \in Name /\ IsFile(d[n]) /\ (n[1] \in {"path", "aside"} => n[2] \in Entries)

RunType(r, d) ==
  /\ IsRun(r)
  /\ r.next \in Nat /\ r.counter \in Nat
  /\ r.phase = "sweep" => \A n \in r.todo : n \in DOMAIN d /\ n[1] \in {"hidden", "aside"}

\* A temporary of this run: begun, and with all its bytes.
Staging(d, n) == n \in DOMAIN d /\ n[1] \in {"hidden", "descriptor"} /\ d[n].ino = "temp"
Whole(d, n) == Staging(d, n) /\ d[n].bytes = "new"

\* The batch: every file of it whole, and durable once its barrier has run.
BatchInv(r, d) ==
  /\ r.staged = [k \in 1 .. Len(r.staged) |-> r.staged[k]] /\ Len(r.staged) \in Nat
  /\ \A k \in 1 .. Len(r.staged) :
       /\ Whole(d, r.staged[k].temp)
       /\ (r.placing \/ r.barrier = "held") => d[r.staged[k].temp].durable
       /\ r.staged[k].temp # r.copy /\ r.staged[k].temp # r.temp
       /\ \A j \in 1 .. Len(r.staged) : j # k =>
            r.staged[j].temp # r.staged[k].temp /\ r.staged[j].entry # r.staged[k].entry
  /\ r.copy # NoName => Staging(d, r.copy) /\ ~r.placing /\ r.barrier = "idle" /\ r.step = "none"
  /\ r.barrier # "idle" => ~r.placing /\ r.step = "none" /\ r.copy = NoName /\ r.staged # <<>>
  /\ r.placing => r.staged # <<>>
  /\ r.step = "none" => r.temp = NoName
  /\ r.temp[1] # "path" /\ r.temp[1] # "aside"
  /\ r.phase # "write" =>
       r.staged = <<>> /\ r.copy = NoName /\ r.step = "none" /\ r.barrier = "idle"

\* An entry whose file is copied, staged or placed was to be applied and has no outcome.
Open(r, i) == i \in Entries /\ i < r.next /\ r.outcome[i] = "none" /\ r.verdict[i] = "apply"

OutcomeInv(r) ==
  /\ r.phase \in {"sweep", "validate"} =>
       /\ r.phase = "sweep" => r.next = 1
       /\ r.next >= 1 /\ 1 .. (r.next - 1) \subseteq Entries /\ Len(r.verdict) = r.next - 1
       /\ r.verdict = [k \in 1 .. (r.next - 1) |-> r.verdict[k]]
  /\ r.phase \in {"write", "sync", "advance"} =>
       DOMAIN r.verdict = Entries /\ DOMAIN r.outcome = Entries
  /\ r.phase = "write" =>
       /\ r.next >= 1
       /\ \A i \in Entries : i >= r.next => r.outcome[i] = "none"
       /\ \A k \in 1 .. Len(r.staged) :
            LET i == r.staged[k].entry IN
            /\ Open(r, i) /\ manifest[i].action # "delete"
            /\ r.step # "none" => i # r.at
            /\ r.copy # NoName => i # r.next - 1
       /\ r.copy # NoName => Open(r, r.next - 1) /\ manifest[r.next - 1].action # "delete"
       /\ r.step # "none" => Open(r, r.at)

\* The names an entry's placement has a file at, by the step it is at.
LiveTemp(r) ==
  \/ r.step = "place"
  \/ /\ r.step \in {"setaside", "verifyaside", "take", "putback", "unstage"}
     /\ manifest[r.at].action = "replace"
LiveAside(r) ==
  r.step \in {"open", "exchange", "verify", "own", "restage", "verifyaside", "take", "putback",
              "removeold"}

StepInv(r, d) ==
  r.step # "none" =>
    /\ LiveTemp(r) =>
         Whole(d, r.temp) /\ d[r.temp].durable /\ manifest[r.at].action # "delete"
    /\ LiveAside(r) => Aside(r.at) \in DOMAIN d
    /\ r.step \in {"open", "exchange", "restage"} =>
         d[Aside(r.at)].ino = "temp" /\ d[Aside(r.at)].bytes = "new"
    /\ r.step \in {"open", "exchange", "verify", "own", "restage", "take", "putback", "unstage",
                   "removeold"} => manifest[r.at].action = "replace"
    /\ r.step \in {"exchange", "verify", "own"} => host.exchange
    /\ r.step = "check" => manifest[r.at].action = "delete"
    /\ (/\ r.step \in {"restage", "setaside", "verifyaside", "take", "putback", "unstage", "removeold"}
        /\ manifest[r.at].action = "replace") => ~host.exchange
    /\ r.step \in {"setaside", "verifyaside"} => manifest[r.at].action # "create"
    /\ r.step \in {"take", "removeold"} => Displaced(d[Aside(r.at)])
    /\ r.step \in {"own", "putback", "unstage"} => r.ending \in {"failed", "undone", "conflict"}

\* Every name the landing made is swept, in use or reported, or an entry has failed.
LeftOver(r) == \E i \in Entries : r.outcome[i] \in {"failed", "skipped"}
Spare(r, n) == n[1] \in {"path", "kept"} \/ n \in r.reported
Temps(r) == {r.staged[k].temp : k \in 1 .. Len(r.staged)}
InUse(r, n) ==
  \/ n = r.copy \/ n \in Temps(r)
  \/ LiveTemp(r) /\ n = r.temp
  \/ LiveAside(r) /\ n = Aside(r.at)

LeftInv(r, d) ==
  /\ \A n \in DOMAIN d :
       n[1] = "descriptor" => n = r.copy \/ n \in Temps(r) \/ (r.step = "place" /\ n = r.temp)
  /\ r.phase = "sweep" => \A n \in DOMAIN d : Spare(r, n) \/ n \in r.todo
  /\ r.phase = "validate" => \A n \in DOMAIN d : Spare(r, n)
  /\ r.phase = "write" => \A n \in DOMAIN d : Spare(r, n) \/ InUse(r, n) \/ LeftOver(r)
  /\ r.phase \in {"sync", "advance"} => \A n \in DOMAIN d : Spare(r, n) \/ LeftOver(r)
  /\ r.phase = "done" => \A n \in DOMAIN d : Spare(r, n)

\* What the landing or an outsider left at a path or aside is durable.
DurableInv(d) == \A n \in DOMAIN d : n[1] \in {"path", "aside"} => d[n].durable

\* The bytes of outsiders the landing is to keep.
Owed == mine \ exposed

\* They are on the disk, and where the landing removes none of them: not in a file it may
\* delete by its fingerprint, nor in its own file once it may be removed.
LossInv(d, m) ==
  /\ m \subseteq Bytes
  /\ \A c \in m : \E n \in DOMAIN d : d[n].bytes = c
  /\ \A n \in DOMAIN d : n[1] \in {"hidden", "descriptor"} => d[n].bytes \in {"part", "new"}
  /\ \A n \in DOMAIN d :
       (n[1] \in {"path", "aside"} /\ manifest[n[2]].action = "delete" /\ SameFile(d[n])) =>
         d[n].bytes \notin m
TheirsInv(r, d, m) ==
  /\ (r.step = "own" /\ d[Aside(r.at)].ino = "temp") => d[Aside(r.at)].bytes \notin m
  /\ (r.step = "verify" /\ Path(r.at) \in DOMAIN d /\ d[Path(r.at)].ino = "temp") =>
       d[Path(r.at)].bytes \notin m

\* Without outsiders a replaced file is old or new, and the old one aside if it is nowhere.
OurFile(f) == Displaced(f) \/ (f.ino = "temp" /\ f.bytes = "new")
Untouched(i, e) == e = scene.edits /\ manifest[i].action = "replace"
OldInv(d, e) ==
  /\ e \in Int /\ e <= scene.edits
  /\ \A i \in Entries : Untouched(i, e) =>
       /\ Path(i) \in DOMAIN d => OurFile(d[Path(i)])
       /\ Aside(i) \in DOMAIN d => OurFile(d[Aside(i)])
       /\ \/ Path(i) \in DOMAIN d
          \/ ~host.exchange /\ Aside(i) \in DOMAIN d /\ Displaced(d[Aside(i)])
OldStepInv(r, d, e) ==
  (r.step # "none" /\ Untouched(r.at, e)) =>
    /\ r.step \in {"restage", "setaside"} => Path(r.at) \in DOMAIN d /\ Displaced(d[Path(r.at)])
    /\ r.step = "removeold" => Path(r.at) \in DOMAIN d

\* An entry that counts as landed held the overlay's state in this attempt, and holds
\* it still unless an outsider changed it.
Held(i, d, c, h) == i \in h /\ (Goal(i, d) \/ i \in c)
HeldInv(r, d, c, h) ==
  /\ r.phase # "none" => \A i \in Entries : Goal(i, d) => i \in h
  /\ r.phase \in {"validate", "write"} =>
       \A i \in DOMAIN r.verdict : r.verdict[i] \in Advances => Held(i, d, c, h)
  /\ r.phase \in {"write", "sync"} =>
       \A i \in Entries : r.outcome[i] \in Advances => Held(i, d, c, h)
  /\ (\/ r.step \in {"verify", "removeold"}
      \/ r.step = "verifyaside" /\ manifest[r.at].action = "delete") => Held(r.at, d, c, h)
OverlayInv(r, o, h, s) ==
  /\ (r.phase = "advance" /\ ~r.unsynced) =>
       \A i \in Entries : r.outcome[i] \in Advances => i \in h /\ i \in s
  /\ r.phase \notin {"advance", "done", "partial", "aborted"} => ~r.unsynced
  /\ r.phase \notin {"done", "partial"} => o = Entries
  /\ \A i \in Entries \ o : i \in h /\ i \in s

\* What is said of the directory alone, of the run's record and batch, of the entry at
\* hand, and all of it.
DiskInv(d, m, e) == DiskType(d) /\ DurableInv(d) /\ LossInv(d, m) /\ OldInv(d, e)
RunInv(r, d) == RunType(r, d) /\ BatchInv(r, d) /\ OutcomeInv(r)
EntryInv(r, d, m, e) == StepInv(r, d) /\ TheirsInv(r, d, m) /\ OldStepInv(r, d, e)

IInv ==
  /\ scene \in Scenes
  /\ DiskInv(disk, Owed, edits) /\ RunInv(run, disk) /\ EntryInv(run, disk, Owed, edits)
  /\ LeftInv(run, disk)
  /\ HeldInv(run, disk, changed, reached) /\ OverlayInv(run, overlay, reached, synced)

-----------------------------------------------------------------------------
(* Files, names and runs *)

\* A rename keeps all of a file but its ctime.
LEMMA RenamedFile ==
  ASSUME NEW f, IsFile(f), NEW c
  PROVE  LET g == [f EXCEPT !.ctime = c] IN
         /\ IsFile(g) /\ g.ino = f.ino /\ g.bytes = f.bytes /\ g.mtime = f.mtime
         /\ (g.durable <=> f.durable)
BY DEF IsFile, FileFields

\* What NewFile makes.
LEMMA NewFileIs ==
  ASSUME NEW i, NEW b, NEW w
  PROVE  LET f == NewFile(i, b, w) IN
         IsFile(f) /\ f.ino = i /\ f.bytes = b /\ f.mtime = "later" /\ f.durable = w
BY DEF IsFile, FileFields, NewFile

\* The names of the landing differ by their kind, and by their number.
LEMMA NamesDiffer ==
  ASSUME NEW i, NEW j
  PROVE  /\ Path(i)[1] = "path" /\ Path(i)[2] = i
         /\ Aside(i)[1] = "aside" /\ Aside(i)[2] = i
         /\ KeptName(i)[1] = "kept" /\ HiddenName(i)[1] = "hidden"
         /\ TempName(i)[1] \in {"hidden", "descriptor"} /\ NoName[1] = "none"
         /\ (Path(i) = Path(j) <=> i = j) /\ (Aside(i) = Aside(j) <=> i = j)
BY DEF Path, Aside, KeptName, HiddenName, TempName, NoName

\* Names are of the type.
LEMMA NamesAreNames ==
  ASSUME NEW i \in Nat
  PROVE  /\ Path(i) \in Name /\ Aside(i) \in Name /\ KeptName(i) \in Name /\ HiddenName(i) \in Name
         /\ TempName(i) \in Name
BY DEF Path, Aside, KeptName, HiddenName, TempName, Name

\* A path or aside name is its entry's.
LEMMA NameOf ==
  ASSUME NEW n \in Name
  PROVE  (n[1] = "path" => n = Path(n[2])) /\ (n[1] = "aside" => n = Aside(n[2]))
BY SMTT(60) DEF Path, Aside, Name

\* Files removed.
LEMMA WithoutIs ==
  ASSUME NEW S
  PROVE  /\ DOMAIN Without(S) = DOMAIN disk \ S
         /\ Without(S) = [n \in DOMAIN Without(S) |-> Without(S)[n]]
         /\ \A n \in DOMAIN Without(S) : Without(S)[n] = disk[n]
BY DEF Without, Restrict

\* A file added or replaced.
LEMMA WithIs ==
  ASSUME NEW d, NEW n, NEW f
  PROVE  /\ DOMAIN With(d, n, f) = DOMAIN d \union {n}
         /\ With(d, n, f) = [m \in DOMAIN With(d, n, f) |-> With(d, n, f)[m]]
         /\ With(d, n, f)[n] = f
         /\ \A m \in DOMAIN d : m # n => With(d, n, f)[m] = d[m]
BY DEF With

\* In d, the file at a is at b; or the files at a and b are exchanged.
Renames(d, a, b) ==
  /\ DOMAIN d = (DOMAIN disk \ {a}) \union {b} /\ d = [m \in DOMAIN d |-> d[m]]
  /\ \A m \in DOMAIN disk : m # a /\ m # b => d[m] = disk[m]
  /\ IsFile(d[b]) /\ d[b].ino = disk[a].ino /\ d[b].bytes = disk[a].bytes
  /\ d[b].mtime = disk[a].mtime /\ (d[b].durable <=> disk[a].durable)
Exchanges(d, a, b) ==
  /\ DOMAIN d = DOMAIN disk /\ d = [m \in DOMAIN d |-> d[m]]
  /\ \A m \in DOMAIN disk : m # a /\ m # b => d[m] = disk[m]
  /\ IsFile(d[b]) /\ d[b].ino = disk[a].ino /\ d[b].bytes = disk[a].bytes
  /\ d[b].mtime = disk[a].mtime /\ (d[b].durable <=> disk[a].durable)
  /\ IsFile(d[a]) /\ d[a].ino = disk[b].ino /\ d[a].bytes = disk[b].bytes
  /\ d[a].mtime = disk[b].mtime /\ (d[a].durable <=> disk[b].durable)

\* A file renamed.
LEMMA MoveIs ==
  ASSUME DiskType(disk), NEW a \in DOMAIN disk, NEW b, a # b
  PROVE  Renames(Move(a, b), a, b)
<1> DEFINE w == Without({a})
           f == Renamed(disk[a])
<1>1. Move(a, b) = With(w, b, f)
  BY DEF Move
<1>2. DOMAIN w = DOMAIN disk \ {a} /\ \A m \in DOMAIN w : w[m] = disk[m]
  BY WithoutIs
<1>3. /\ IsFile(f) /\ f.ino = disk[a].ino /\ f.bytes = disk[a].bytes /\ f.mtime = disk[a].mtime
      /\ (f.durable <=> disk[a].durable)
  BY RenamedFile DEF Renamed, DiskType
<1> HIDE DEF w, f
<1> DEFINE d == With(w, b, f)
<1>4. /\ DOMAIN d = DOMAIN w \union {b} /\ d = [m \in DOMAIN d |-> d[m]] /\ d[b] = f
      /\ \A m \in DOMAIN w : m # b => d[m] = w[m]
  BY DEF With
<1> HIDE DEF d
<1>5. /\ DOMAIN d = (DOMAIN disk \ {a}) \union {b}
      /\ \A m \in DOMAIN disk : m # a /\ m # b => d[m] = disk[m]
  BY <1>2, <1>4
<1> QED BY <1>1, <1>3, <1>4, <1>5 DEF d, Renames

\* Two files exchanged.
LEMMA ExchangedIs ==
  ASSUME DiskType(disk), NEW a \in DOMAIN disk, NEW b \in DOMAIN disk, a # b
  PROVE  Exchanges(Exchanged(a, b), a, b)
<1> DEFINE f == Renamed(disk[a])
           g == Renamed(disk[b])
<1>1. /\ IsFile(f) /\ f.ino = disk[a].ino /\ f.bytes = disk[a].bytes /\ f.mtime = disk[a].mtime
      /\ (f.durable <=> disk[a].durable)
      /\ IsFile(g) /\ g.ino = disk[b].ino /\ g.bytes = disk[b].bytes /\ g.mtime = disk[b].mtime
      /\ (g.durable <=> disk[b].durable)
  BY RenamedFile DEF Renamed, DiskType
<1>2. Exchanged(a, b) = [disk EXCEPT ![a] = g, ![b] = f] /\ disk = [n \in DOMAIN disk |-> disk[n]]
  BY DEF Exchanged, DiskType
<1> HIDE DEF f, g
<1> QED BY <1>1, <1>2 DEF Exchanges

-----------------------------------------------------------------------------
(* Runs: what each of the steps of the engine leaves of its record *)

\* Only the fields in F differ.
Same(r, s, F) == IsRun(s) /\ \A x \in Fields \ F : s[x] = r[x]

\* Outcomes recorded.
LEMMA SettledRun ==
  ASSUME IsRun(run), NEW S, NEW o, NEW c
  PROVE  LET s == Settled(S, o, c) IN
         /\ Same(run, s, {"outcome", "crashed"})
         /\ DOMAIN s.outcome = Entries
         /\ \A i \in Entries : s.outcome[i] = IF i \in S THEN o ELSE run.outcome[i]
BY DEF IsRun, Fields, Settled, Same

\* The entry at hand is done.
LEMMA EndedRun ==
  ASSUME NEW r, IsRun(r)
  PROVE  LET s == Ended(r) IN
         /\ Same(r, s, {"step", "at", "temp", "before", "ending"})
         /\ s.step = "none" /\ s.temp = NoName
BY DEF IsRun, Fields, Ended, Same

\* The next step of the entry at hand.
LEMMA GotoRun ==
  ASSUME IsRun(run), NEW step, NEW ending
  PROVE  /\ Same(run, Goto(step), {"step"}) /\ Goto(step).step = step
         /\ Same(run, GotoEnding(step, ending), {"step", "ending"})
         /\ GotoEnding(step, ending).step = step /\ GotoEnding(step, ending).ending = ending
BY DEF IsRun, Fields, Goto, GotoEnding, Same

\* A batch given up.
LEMMA UnstagedRun ==
  ASSUME NEW r, IsRun(r)
  PROVE  LET s == Unstaged(r) IN
         /\ Same(r, s, {"staged", "placing", "barrier"})
         /\ s.staged = <<>> /\ s.placing = FALSE /\ s.barrier = "idle"
BY DEF IsRun, Fields, Unstaged, Same

\* A name counted, and one reported.
LEMMA CountedRun ==
  ASSUME NEW r, IsRun(r), NEW n
  PROVE  /\ LET s == [r EXCEPT !.counter = @ + 1] IN
            Same(r, s, {"counter"}) /\ s.counter = r.counter + 1
         /\ LET s == [r EXCEPT !.counter = @ + 1, !.reported = @ \union {n}] IN
            /\ Same(r, s, {"counter", "reported"})
            /\ s.counter = r.counter + 1 /\ s.reported = r.reported \union {n}
BY DEF IsRun, Fields, Same

-----------------------------------------------------------------------------
(* What the engine does to the directory *)

\* The manifest's entries.
LEMMA EntriesAre ==
  ASSUME scene \in Scenes
  PROVE  /\ Entries \subseteq Nat /\ Entries = 1 .. Len(manifest) /\ Len(manifest) \in Nat
         /\ \A i \in Entries : manifest[i].action \in {"create", "replace", "delete"}
<1> DEFINE A == {"create", "replace", "delete"}
           E == [action : A, racy : BOOLEAN]
<1>1. manifest \in Seq(E)
  BY LandingAssumption DEF manifest
<1>2. \A e \in E : e.action \in A
  OBVIOUS
<1> HIDE DEF E
<1>3. Len(manifest) \in Nat /\ DOMAIN manifest = 1 .. Len(manifest) /\ \A i \in DOMAIN manifest : manifest[i] \in E
  BY SMTT(60), <1>1
<1> QED BY SMTT(60), <1>2, <1>3 DEF Entries

\* Only entry i's names and t changed, or a kept or hidden name is new.
Touches(d, i, t) ==
  /\ \A n \in DOMAIN disk : n # Path(i) /\ n # Aside(i) /\ n # t => n \in DOMAIN d /\ d[n] = disk[n]
  /\ \A n \in DOMAIN d :
       n \in DOMAIN disk \/ n = Path(i) \/ n = Aside(i) \/ n[1] = "kept" \/ n[1] = "hidden"

\* Files of the landing's own or the witnessed one removed.
LEMMA Removal ==
  ASSUME scene \in Scenes, DiskInv(disk, Owed, edits), NEW i \in Entries, NEW t, NEW S,
         t[1] # "path" /\ t[1] # "aside", \A n \in S : n = Aside(i) \/ n = t,
         \A n \in S : n \in DOMAIN disk => disk[n].bytes \notin Owed,
         Untouched(i, edits) /\ Aside(i) \in S => Path(i) \in DOMAIN disk
  PROVE  DiskInv(Without(S), Owed, edits) /\ Touches(Without(S), i, t)
<1> DEFINE d == Without(S)
<1>1. /\ DOMAIN d = DOMAIN disk \ S /\ d = [n \in DOMAIN d |-> d[n]]
      /\ \A n \in DOMAIN d : n \in DOMAIN disk /\ d[n] = disk[n]
  BY WithoutIs
<1> HIDE DEF d
<1>2. DiskType(d) /\ DurableInv(d)
  BY <1>1 DEF DiskInv, DiskType, DurableInv
<1>3. LossInv(d, Owed)
  <2>1. ASSUME NEW c \in Owed PROVE \E n \in DOMAIN d : d[n].bytes = c
    <3>1. PICK n \in DOMAIN disk : disk[n].bytes = c
      BY <2>1 DEF DiskInv, LossInv
    <3> QED BY <1>1, <2>1, <3>1
  <2> QED BY SMTT(60), <1>1, <2>1 DEF DiskInv, LossInv
<1>4. OldInv(d, edits)
  <2> SUFFICES ASSUME NEW j \in Entries, Untouched(j, edits)
               PROVE  /\ Path(j) \in DOMAIN d => OurFile(d[Path(j)])
                      /\ Aside(j) \in DOMAIN d => OurFile(d[Aside(j)])
                      /\ \/ Path(j) \in DOMAIN d
                         \/ ~host.exchange /\ Aside(j) \in DOMAIN d /\ Displaced(d[Aside(j)])
    BY DEF DiskInv, OldInv
  <2>1. Path(j) \notin S /\ (j # i => Aside(j) \notin S)
    BY SMTT(60), NamesDiffer
  <2> QED BY <1>1, <2>1 DEF DiskInv, OldInv
<1>5. Touches(d, i, t)
  BY <1>1 DEF Touches
<1> QED BY <1>2, <1>3, <1>4, <1>5 DEF DiskInv, d

\* A file renamed among an entry's names.
LEMMA Renaming ==
  ASSUME scene \in Scenes, DiskInv(disk, Owed, edits), NEW i \in Entries, NEW t,
         t[1] # "path" /\ t[1] # "aside",
         NEW a \in DOMAIN disk, a = Path(i) \/ a = Aside(i) \/ a = t,
         NEW b \in Name, b \notin DOMAIN disk,
         b = Path(i) \/ b = Aside(i) \/ b[1] = "kept" \/ b[1] = "hidden",
         NEW d, Renames(d, a, b),
         b = Path(i) \/ b = Aside(i) => disk[a].durable,
         b[1] = "hidden" => disk[a].bytes = "new",
         a = t => manifest[i].action # "delete",
         Untouched(i, edits) =>
           /\ a = Path(i) => ~host.exchange /\ b = Aside(i) /\ Displaced(disk[a])
           /\ a = Aside(i) /\ b # Path(i) => Path(i) \in DOMAIN disk
           /\ a = t /\ (b = Path(i) \/ b = Aside(i)) => OurFile(disk[a])
  PROVE  DiskInv(d, Owed, edits) /\ Touches(d, i, t)
<1>0. /\ DOMAIN d = (DOMAIN disk \ {a}) \union {b} /\ d = [n \in DOMAIN d |-> d[n]]
      /\ \A n \in DOMAIN disk : n # a /\ n # b => d[n] = disk[n]
      /\ IsFile(d[b]) /\ d[b].ino = disk[a].ino /\ d[b].bytes = disk[a].bytes
      /\ d[b].mtime = disk[a].mtime /\ (d[b].durable <=> disk[a].durable)
  BY DEF Renames
<1>1. i \in Nat /\ Path(i)[1] = "path" /\ Aside(i)[1] = "aside" /\ Path(i)[2] = i /\ Aside(i)[2] = i
  BY EntriesAre, NamesDiffer
<1>2. DiskType(d)
  <2>1. \A n \in DOMAIN d : n \in Name /\ IsFile(d[n])
    BY <1>0 DEF DiskInv, DiskType
  <2>2. \A n \in DOMAIN d : n[1] \in {"path", "aside"} => n[2] \in Entries
    BY SMTT(60), <1>0, <1>1 DEF DiskInv, DiskType
  <2> QED BY <1>0, <2>1, <2>2 DEF DiskType
<1>3. DurableInv(d)
  BY <1>0, <1>1 DEF DiskInv, DurableInv
<1>4. LossInv(d, Owed)
  <2>1. ASSUME NEW c \in Owed PROVE \E n \in DOMAIN d : d[n].bytes = c
    <3>1. PICK n \in DOMAIN disk : disk[n].bytes = c
      BY <2>1 DEF DiskInv, LossInv
    <3> QED BY <1>0, <3>1
  <2>2. ASSUME NEW n \in DOMAIN d, n[1] \in {"path", "aside"}, manifest[n[2]].action = "delete",
               SameFile(d[n])
        PROVE  d[n].bytes \notin Owed
    <3>1. CASE n = b
      <4>1. n[2] = i /\ a[2] = i /\ a[1] \in {"path", "aside"}
        BY <1>0, <1>1, <2>2, <3>1
      <4> QED BY SMTT(60), <1>0, <2>2, <3>1, <4>1 DEF DiskInv, LossInv, SameFile
    <3>2. CASE n # b
      BY <1>0, <2>2, <3>2 DEF DiskInv, LossInv
    <3> QED BY <1>0, <3>1, <3>2
  <2>3. \A n \in DOMAIN d : n[1] \in {"hidden", "descriptor"} => d[n].bytes \in {"part", "new"}
    BY <1>0, <1>1 DEF DiskInv, LossInv
  <2> QED BY <1>0, <2>1, <2>2, <2>3 DEF DiskInv, LossInv
<1>5. OldInv(d, edits)
  <2> SUFFICES ASSUME NEW j \in Entries, Untouched(j, edits)
               PROVE  /\ Path(j) \in DOMAIN d => OurFile(d[Path(j)])
                      /\ Aside(j) \in DOMAIN d => OurFile(d[Aside(j)])
                      /\ \/ Path(j) \in DOMAIN d
                         \/ ~host.exchange /\ Aside(j) \in DOMAIN d /\ Displaced(d[Aside(j)])
    BY <1>0 DEF DiskInv, OldInv
  <2>1. /\ Path(j) \in DOMAIN disk => OurFile(disk[Path(j)])
        /\ Aside(j) \in DOMAIN disk => OurFile(disk[Aside(j)])
        /\ \/ Path(j) \in DOMAIN disk
           \/ ~host.exchange /\ Aside(j) \in DOMAIN disk /\ Displaced(disk[Aside(j)])
    BY <1>0 DEF DiskInv, OldInv
  <2>2. CASE j # i
    <3>1. Path(j) # a /\ Path(j) # b /\ Aside(j) # a /\ Aside(j) # b
      BY SMTT(60), <1>0, <1>1, <2>2, NamesDiffer
    <3> QED BY <1>0, <2>1, <3>1
  <2>3. CASE j = i
    <3>1. OurFile(disk[a]) => OurFile(d[b])
      BY <1>0 DEF OurFile, Displaced, SameFile
    <3>2. Displaced(disk[a]) => Displaced(d[b])
      BY <1>0 DEF Displaced, SameFile
    <3>3. CASE a = Path(i)
      BY <1>0, <1>1, <2>1, <2>3, <3>1, <3>2, <3>3
    <3>4. CASE a = Aside(i)
      BY <1>0, <1>1, <2>1, <2>3, <3>1, <3>2, <3>4
    <3>5. CASE a = t
      BY <1>0, <1>1, <2>1, <2>3, <3>1, <3>2, <3>5
    <3> QED BY <1>0, <3>3, <3>4, <3>5
  <2> QED BY <1>0, <2>2, <2>3
<1>6. Touches(d, i, t)
  BY <1>0 DEF Touches
<1> QED BY <1>0, <1>2, <1>3, <1>4, <1>5, <1>6 DEF DiskInv

\* The two files of an entry exchanged.
LEMMA Exchanging ==
  ASSUME scene \in Scenes, DiskInv(disk, Owed, edits), NEW i \in Entries, NEW t,
         Aside(i) \in DOMAIN disk, Path(i) \in DOMAIN disk,
         NEW d, Exchanges(d, Aside(i), Path(i))
  PROVE  DiskInv(d, Owed, edits) /\ Touches(d, i, t)
<1> DEFINE a == Aside(i)
           b == Path(i)
<1>1. a[1] = "aside" /\ b[1] = "path" /\ a[2] = i /\ b[2] = i /\ a # b
  BY NamesDiffer
<1>2. /\ DOMAIN d = DOMAIN disk /\ d = [n \in DOMAIN d |-> d[n]]
      /\ \A n \in DOMAIN disk : n # a /\ n # b => d[n] = disk[n]
      /\ IsFile(d[b]) /\ d[b].ino = disk[a].ino /\ d[b].bytes = disk[a].bytes
      /\ d[b].mtime = disk[a].mtime /\ (d[b].durable <=> disk[a].durable)
      /\ IsFile(d[a]) /\ d[a].ino = disk[b].ino /\ d[a].bytes = disk[b].bytes
      /\ d[a].mtime = disk[b].mtime /\ (d[a].durable <=> disk[b].durable)
  BY DEF Exchanges
<1>3. a \in DOMAIN disk /\ b \in DOMAIN disk
  OBVIOUS
<1>4. Touches(d, i, t)
  BY <1>2 DEF Touches
<1>5. \A j \in Entries : (Path(j) = b <=> j = i) /\ (Aside(j) = a <=> j = i) /\ Path(j) # a /\ Aside(j) # b
  BY SMTT(60), NamesDiffer
<1> HIDE DEF a, b
<1>6. DiskType(d) /\ DurableInv(d)
  BY <1>1, <1>2, <1>3 DEF DiskInv, DiskType, DurableInv
<1>7. LossInv(d, Owed)
  <2>1. ASSUME NEW c \in Owed PROVE \E n \in DOMAIN d : d[n].bytes = c
    <3>1. PICK n \in DOMAIN disk : disk[n].bytes = c
      BY <2>1 DEF DiskInv, LossInv
    <3> QED BY <1>2, <1>3, <3>1
  <2>2. \A n \in DOMAIN d : n[1] \in {"hidden", "descriptor"} => d[n].bytes \in {"part", "new"}
    BY <1>1, <1>2 DEF DiskInv, LossInv
  <2>3. ASSUME NEW n \in DOMAIN d, n[1] \in {"path", "aside"}, manifest[n[2]].action = "delete",
               SameFile(d[n])
        PROVE  d[n].bytes \notin Owed
    <3>1. CASE n = a
      BY SMTT(60), <1>1, <1>2, <1>3, <2>3, <3>1 DEF DiskInv, LossInv, SameFile
    <3>2. CASE n = b
      BY SMTT(60), <1>1, <1>2, <1>3, <2>3, <3>2 DEF DiskInv, LossInv, SameFile
    <3>3. CASE n # a /\ n # b
      BY SMTT(60), <1>2, <2>3, <3>3 DEF DiskInv, LossInv
    <3> QED BY <3>1, <3>2, <3>3
  <2> QED BY <2>1, <2>2, <2>3 DEF DiskInv, LossInv
<1>8. OldInv(d, edits)
  <2>1. (OurFile(disk[a]) => OurFile(d[b])) /\ (OurFile(disk[b]) => OurFile(d[a]))
    BY <1>2 DEF OurFile, Displaced, SameFile
  <2> QED BY <1>2, <1>3, <1>5, <2>1 DEF DiskInv, OldInv, a, b
<1> QED BY <1>4, <1>6, <1>7, <1>8 DEF DiskInv

-----------------------------------------------------------------------------
(* What the placement of an entry does to the run *)

\* The entries that hold the overlay's state in this attempt, once the directory is d.
Reached(d) == {i \in Entries : Goal(i, d)} \union reached

PlacementFields == {"step", "at", "temp", "before", "ending", "outcome", "crashed", "counter", "reported"}

\* The entry at hand has its outcome o ...
Concluded(r, o) ==
  /\ Same(run, r, PlacementFields) /\ r.step = "none" /\ r.temp = NoName /\ r.counter \in Nat
  /\ run.reported \subseteq r.reported
  /\ DOMAIN r.outcome = Entries
  /\ \A i \in Entries : r.outcome[i] = IF i = At THEN o ELSE run.outcome[i]

\* ... or goes on at another step.
Continued(r) ==
  /\ Same(run, r, PlacementFields \ {"at", "outcome", "crashed"})
  /\ r.step # "none" /\ r.counter \in Nat
  /\ run.reported \subseteq r.reported
  /\ r.temp = run.temp \/ (r.temp \notin DOMAIN disk /\ r.temp[1] = "hidden")

\* Names accounted for: an entry that concludes has none of its own left, or it has
\* failed or was skipped ...
Cleared(d) ==
  \A n \in DOMAIN d :
    \/ n[1] \in {"path", "kept"}
    \/ n \in DOMAIN disk /\ ~(LiveTemp(run) /\ n = run.temp) /\ ~(LiveAside(run) /\ n = Aside(At))
NoDescriptor(d) ==
  \A n \in DOMAIN d :
    n[1] = "descriptor" => n \in DOMAIN disk /\ ~(run.step = "place" /\ n = run.temp)

-----------------------------------------------------------------------------
(* The placement of an entry *)

\* The invariant once the run is r and the directory d, the rest as it was.
After(r, d) ==
  /\ DiskInv(d, Owed, edits) /\ RunInv(r, d) /\ EntryInv(r, d, Owed, edits) /\ LeftInv(r, d)
  /\ HeldInv(r, d, changed, Reached(d)) /\ OverlayInv(r, overlay, Reached(d), synced)

\* The landing's own bytes and the witnessed ones are not an outsider's.
LEMMA OwnBytes ==
  ASSUME IInv
  PROVE  "base" \notin Owed /\ "new" \notin Owed /\ "part" \notin Owed
BY LandingAssumption DEF IInv, DiskInv, LossInv

\* An entry whose path is as it was holds what it held.
LEMMA HeldKept ==
  ASSUME IInv, NEW i \in Entries, NEW d, Held(i, disk, changed, reached),
         Path(i) \in DOMAIN d <=> Path(i) \in DOMAIN disk,
         Path(i) \in DOMAIN d => d[Path(i)] = disk[Path(i)]
  PROVE  Held(i, d, changed, Reached(d))
<1>1. Goal(i, d) <=> Goal(i, disk)
  BY DEF Goal
<1> QED BY <1>1 DEF Held, Reached

\* A run that counts a name, and one that reports it too.
Counting(r) == [r EXCEPT !.counter = @ + 1]
Reporting(r, n) == [r EXCEPT !.counter = @ + 1, !.reported = @ \union {n}]

\* put_back: the file aside is at its path or at a new kept name, or nothing moved.
LEMMA PutBackIs ==
  ASSUME scene \in Scenes, DiskInv(disk, Owed, edits), run.counter \in Nat, NEW i \in Entries, NEW t,
         t[1] # "path" /\ t[1] # "aside", Aside(i) \in DOMAIN disk,
         NEW then, NEW failed, PutBack(i, then, failed)
  PROVE  \/ \E b : /\ b[1] \in {"path", "kept"} /\ b \notin DOMAIN disk /\ Renames(disk', Aside(i), b)
                   /\ DiskInv(disk', Owed, edits) /\ Touches(disk', i, t)
                   /\ \/ run' = then
                      \/ run' = Reporting(then, b)
         \/ run' = Counting(failed) /\ disk' = disk
<1> DEFINE a == Aside(i)
<1>1. /\ a[1] = "aside" /\ a # Path(i) /\ a # t /\ a \in DOMAIN disk /\ disk[a].durable
      /\ Path(i) \in Name /\ KeptName(run.counter) \in Name
      /\ Path(i)[1] = "path" /\ KeptName(run.counter)[1] = "kept"
  BY SMTT(60), NamesDiffer, NamesAreNames, EntriesAre DEF DiskInv, DurableInv
<1>2. ASSUME NEW b \in {Path(i), KeptName(run.counter)}, b \notin DOMAIN disk, disk' = Move(a, b),
             b # Path(i) => Path(i) \in DOMAIN disk
      PROVE  /\ b[1] \in {"path", "kept"} /\ Renames(disk', a, b)
             /\ DiskInv(disk', Owed, edits) /\ Touches(disk', i, t)
  <2>1. b \in Name /\ a # b /\ b[1] # "hidden" /\ b[1] \in {"path", "kept"}
        /\ (b = Path(i) \/ b[1] = "kept")
    BY <1>1
  <2>2. Renames(disk', a, b)
    BY <1>1, <1>2, <2>1, MoveIs DEF DiskInv
  <2> HIDE DEF a
  <2>3. DiskInv(disk', Owed, edits) /\ Touches(disk', i, t)
    BY <1>1, <1>2, <2>1, <2>2, Renaming DEF a
  <2> QED BY <2>1, <2>2, <2>3
<1>3. CASE /\ Path(i) \notin DOMAIN disk /\ disk' = Move(a, Path(i)) /\ run' = then
  BY <1>2, <1>3
<1>4. CASE /\ Path(i) \in DOMAIN disk /\ KeptName(run.counter) \notin DOMAIN disk
           /\ disk' = Move(a, KeptName(run.counter))
           /\ run' = Reporting(then, KeptName(run.counter))
  BY <1>2, <1>4
<1> QED BY <1>3, <1>4 DEF PutBack, Exists, Reporting, Counting

\* Every step of a placement.
LEMMA PlaceStep == IInv /\ Place => After(run', disk')
\* A placement belongs to the write phase.
<1>Placing. ASSUME IInv, run.step # "none"
            PROVE  /\ run.phase = "write" /\ run.copy = NoName /\ run.barrier = "idle"
                   /\ Open(run, At) /\ At \in Entries /\ At \in Nat /\ scene \in Scenes
                   /\ DiskInv(disk, Owed, edits) /\ IsRun(run)
                   /\ run.temp[1] # "path" /\ run.temp[1] # "aside"
                   /\ \A k \in 1 .. Len(run.staged) : Whole(disk, run.staged[k].temp) /\ run.staged[k].temp # run.temp
  BY <1>Placing, EntriesAre DEF IInv, RunInv, BatchInv, OutcomeInv, RunType, Open, At
\* A batch left alone.
<1>BatchFramed. ASSUME NEW r, NEW d, BatchInv(run, disk), IsRun(run), Same(run, r, PlacementFields),
                       run.phase = "write", run.copy = NoName, run.barrier = "idle",
                       \A k \in 1 .. Len(run.staged) :
                         LET t == run.staged[k].temp IN t \in DOMAIN d /\ d[t] = disk[t] /\ t # r.temp,
                       r.step = "none" => r.temp = NoName, r.temp[1] # "path" /\ r.temp[1] # "aside"
                PROVE  BatchInv(r, d)
  <2> USE <1>BatchFramed
  <2>1. /\ r.staged = run.staged /\ r.placing = run.placing /\ r.barrier = run.barrier
        /\ r.copy = run.copy /\ r.phase = run.phase
    BY DEF Same, Fields, PlacementFields
  <2> QED BY SMTT(60), <2>1 DEF BatchInv, Whole, Staging
\* Touching the names of the entry at hand harms no file of the batch.
<1>BatchUntouched. ASSUME IInv, run.step # "none", NEW d, Touches(d, At, run.temp)
                   PROVE  \A k \in 1 .. Len(run.staged) :
                            LET t == run.staged[k].temp IN t \in DOMAIN disk /\ t \in DOMAIN d /\ d[t] = disk[t]
  <2> USE <1>BatchUntouched
  <2> SUFFICES ASSUME NEW k \in 1 .. Len(run.staged)
               PROVE  LET t == run.staged[k].temp
                      IN  t \in DOMAIN disk /\ t \in DOMAIN d /\ d[t] = disk[t]
    OBVIOUS
  <2> DEFINE t == run.staged[k].temp
  <2>1. t \in DOMAIN disk /\ t[1] \in {"hidden", "descriptor"} /\ t # run.temp
    BY <1>Placing DEF Whole, Staging
  <2>2. t # Path(At) /\ t # Aside(At)
    BY SMTT(60), <2>1, NamesDiffer
  <2> QED BY <2>1, <2>2 DEF Touches
\* An entry concluded leaves the record sound ...
<1>RunConcluded. ASSUME IInv, run.step # "none", NEW d, Touches(d, At, run.temp), NEW r, NEW o, Concluded(r, o),
                        NEW m, NEW e
                 PROVE  /\ RunInv(r, d) /\ EntryInv(r, d, m, e)
                        /\ OverlayInv(r, overlay, Reached(d), synced)
  <2> USE <1>RunConcluded
  <2>1. /\ r.phase = "write" /\ r.next = run.next /\ r.verdict = run.verdict /\ r.staged = run.staged
        /\ r.copy = NoName /\ r.unsynced = run.unsynced /\ IsRun(r)
        /\ Same(run, r, PlacementFields)
    BY <1>Placing DEF Concluded, Same, Fields, PlacementFields
  <2>2. BatchInv(r, d)
    <3>1. (\A k \in 1 .. Len(run.staged) : run.staged[k].temp # NoName) /\ NoName[1] = "none"
      BY <1>Placing, NamesDiffer DEF Whole, Staging
    <3> QED BY <2>1, <3>1, <1>Placing, <1>BatchUntouched, <1>BatchFramed DEF IInv, RunInv, Concluded
  <2>3. RunType(r, d)
    BY <2>1 DEF RunType, Concluded, IInv, RunInv
  <2>4. OutcomeInv(r)
    <3>1. OutcomeInv(run) /\ At < run.next /\ At \in Nat /\ run.next \in Nat /\ run.at = At
      BY <1>Placing DEF IInv, RunInv, Open, RunType, At
    <3>2. \A i \in Entries : i # At => r.outcome[i] = run.outcome[i]
      BY DEF Concluded
    <3>3. \A i \in Entries : i >= r.next => r.outcome[i] = "none"
      BY SMTT(60), <2>1, <3>1, <3>2, <1>Placing, EntriesAre DEF OutcomeInv
    <3>4. \A k \in 1 .. Len(r.staged) :
            Open(r, r.staged[k].entry) /\ manifest[r.staged[k].entry].action # "delete"
      BY SMTT(60), <2>1, <3>1, <3>2, <1>Placing DEF OutcomeInv, Open
    <3> QED BY <2>1, <3>1, <3>3, <3>4, <1>Placing DEF OutcomeInv, Concluded
  <2>5. EntryInv(r, d, m, e)
    BY DEF Concluded, EntryInv, StepInv, TheirsInv, OldStepInv
  <2>6. OverlayInv(r, overlay, Reached(d), synced)
    BY <2>1, <1>Placing DEF OverlayInv, IInv, Reached
  <2> QED BY <2>2, <2>3, <2>4, <2>5, <2>6 DEF RunInv
\* ... and so does one that goes on.
<1>RunContinued. ASSUME IInv, run.step # "none", NEW d, Touches(d, At, run.temp), NEW r, Continued(r)
                 PROVE  RunInv(r, d) /\ OverlayInv(r, overlay, Reached(d), synced)
  <2> USE <1>RunContinued
  <2>1. /\ r.phase = "write" /\ r.next = run.next /\ r.verdict = run.verdict /\ r.staged = run.staged
        /\ r.copy = NoName /\ r.unsynced = run.unsynced /\ IsRun(r) /\ r.at = run.at
        /\ r.outcome = run.outcome
        /\ Same(run, r, PlacementFields)
    BY <1>Placing DEF Continued, Same, Fields, PlacementFields
  <2>2. BatchInv(r, d)
    <3>1. /\ \A k \in 1 .. Len(run.staged) : run.staged[k].temp # r.temp
          /\ r.temp[1] # "path" /\ r.temp[1] # "aside"
      BY <1>Placing, <1>BatchUntouched DEF Continued
    <3> QED BY <2>1, <3>1, <1>Placing, <1>BatchUntouched, <1>BatchFramed DEF IInv, RunInv, Continued
  <2>3. RunType(r, d)
    BY <2>1 DEF RunType, Continued, IInv, RunInv
  <2>4. OutcomeInv(r)
    BY SMTT(60), <2>1, <1>Placing DEF OutcomeInv, Continued, IInv, RunInv, Open, At
  <2>6. OverlayInv(r, overlay, Reached(d), synced)
    BY <2>1, <1>Placing DEF OverlayInv, IInv, Reached
  <2> QED BY <2>2, <2>3, <2>4, <2>6 DEF RunInv
<1>LeftConcluded. ASSUME IInv, run.step # "none", NEW d, NoDescriptor(d), NEW r, NEW o, Concluded(r, o),
                         o \in {"failed", "skipped"} \/ Cleared(d)
                  PROVE  LeftInv(r, d)
  <2> USE <1>LeftConcluded
  <2>1. /\ r.phase = "write" /\ r.copy = run.copy /\ Temps(r) = Temps(run) /\ run.phase = "write"
        /\ run.reported \subseteq r.reported
    BY SMTT(60), <1>Placing DEF Concluded, Same, Fields, PlacementFields, Temps
  <2>2. \A n \in DOMAIN d : n[1] = "descriptor" => n = r.copy \/ n \in Temps(r)
    BY <2>1 DEF IInv, LeftInv, NoDescriptor
  <2>3. CASE o \in {"failed", "skipped"}
    <3>1. LeftOver(r)
      BY <2>3, <1>Placing DEF LeftOver, Concluded
    <3> QED BY <2>1, <2>2, <3>1 DEF LeftInv
  <2>4. CASE o \notin {"failed", "skipped"} /\ Cleared(d)
    <3>1. ASSUME NEW n \in DOMAIN d PROVE Spare(r, n) \/ n = r.copy \/ n \in Temps(r) \/ LeftOver(r)
      <4>1. n[1] \in {"path", "kept"} => Spare(r, n)
        BY DEF Spare
      <4>2. CASE n \in DOMAIN disk /\ ~(LiveTemp(run) /\ n = run.temp) /\ ~(LiveAside(run) /\ n = Aside(At))
        <5>1. Spare(run, n) \/ n = run.copy \/ n \in Temps(run) \/ LeftOver(run)
          BY <2>1, <4>2 DEF IInv, LeftInv, InUse, At
        <5>2. LeftOver(run) => LeftOver(r)
          <6>1. run.outcome[At] = "none"
            BY <1>Placing DEF Open
          <6> QED BY <6>1 DEF LeftOver, Concluded
        <5>3. Spare(run, n) => Spare(r, n)
          BY <2>1 DEF Spare
        <5> QED BY <2>1, <5>1, <5>2, <5>3
      <4> QED BY <2>4, <4>1, <4>2 DEF Cleared
    <3> QED BY <2>1, <2>2, <3>1 DEF LeftInv, InUse
  <2> QED BY <2>3, <2>4
\* ... and one that goes on has those its step says.
<1>LeftContinued. ASSUME IInv, run.step # "none", NEW d, NoDescriptor(d), NEW r, Continued(r), r.step # "place",
                         \A n \in DOMAIN d :
                           \/ n[1] \in {"path", "kept"}
                           \/ n \in DOMAIN disk /\ ~(LiveTemp(run) /\ n = run.temp) /\ ~(LiveAside(run) /\ n = Aside(At))
                           \/ LiveTemp(r) /\ n = r.temp
                           \/ LiveAside(r) /\ n = Aside(At)
                  PROVE  LeftInv(r, d)
  <2> USE <1>LeftContinued
  <2>1. /\ r.phase = "write" /\ r.copy = run.copy /\ Temps(r) = Temps(run) /\ run.phase = "write"
        /\ run.reported \subseteq r.reported /\ r.outcome = run.outcome /\ r.at = At
    BY SMTT(60), <1>Placing DEF Continued, Same, Fields, PlacementFields, Temps, At
  <2>2. \A n \in DOMAIN d : n[1] = "descriptor" => n = r.copy \/ n \in Temps(r)
    BY <2>1 DEF IInv, LeftInv, NoDescriptor
  <2>3. ASSUME NEW n \in DOMAIN d PROVE Spare(r, n) \/ InUse(r, n) \/ LeftOver(r)
    <3>1. n[1] \in {"path", "kept"} => Spare(r, n)
      BY DEF Spare
    <3>2. CASE n \in DOMAIN disk /\ ~(LiveTemp(run) /\ n = run.temp) /\ ~(LiveAside(run) /\ n = Aside(At))
      <4>1. Spare(run, n) \/ n = run.copy \/ n \in Temps(run) \/ LeftOver(run)
        BY <2>1, <3>2 DEF IInv, LeftInv, InUse, At
      <4>2. (LeftOver(run) => LeftOver(r)) /\ (Spare(run, n) => Spare(r, n))
        BY <2>1 DEF LeftOver, Spare
      <4> QED BY <2>1, <4>1, <4>2 DEF InUse
    <3>3. CASE (LiveTemp(r) /\ n = r.temp) \/ (LiveAside(r) /\ n = Aside(At))
      BY <2>1, <3>3 DEF InUse
    <3> QED BY <3>1, <3>2, <3>3
  <2> QED BY <2>1, <2>2, <2>3 DEF LeftInv
\* The other entries hold what they held.
<1>HeldElsewhere. ASSUME IInv, NEW i \in Entries, NEW t, t[1] # "path", NEW d, Touches(d, i, t),
                         NEW j \in Entries, j # i
                  PROVE  /\ Goal(j, d) <=> Goal(j, disk)
                         /\ Held(j, disk, changed, reached) => Held(j, d, changed, Reached(d))
  <2> USE <1>HeldElsewhere
  <2>1. Path(j) # Path(i) /\ Path(j) # Aside(i) /\ Path(j) # t /\ Path(j)[1] = "path"
    BY SMTT(60), NamesDiffer
  <2>2. Path(j) \in DOMAIN d <=> Path(j) \in DOMAIN disk
    BY <2>1 DEF Touches
  <2>3. Path(j) \in DOMAIN disk => d[Path(j)] = disk[Path(j)]
    BY <2>1 DEF Touches
  <2>4. Goal(j, d) <=> Goal(j, disk)
    BY <2>2, <2>3 DEF Goal
  <2> QED BY <2>4 DEF Held, Reached
\* So an entry that counts as landed when it concludes needs only be looked at itself.
<1>HeldConcluded. ASSUME IInv, run.step # "none", NEW d, Touches(d, At, run.temp),
                         NEW r, NEW o, Concluded(r, o),
                         o \in Advances => Held(At, d, changed, Reached(d))
                  PROVE  HeldInv(r, d, changed, Reached(d))
  <2> USE <1>HeldConcluded
  <2>1. /\ r.phase = "write" /\ r.verdict = run.verdict /\ run.phase = "write" /\ r.step = "none"
        /\ DOMAIN run.verdict = Entries /\ run.verdict[At] = "apply"
    BY <1>Placing DEF Concluded, Same, Fields, PlacementFields, IInv, RunInv, OutcomeInv, Open
  <2>2. \A j \in Entries : Held(j, disk, changed, reached) /\ j # At => Held(j, d, changed, Reached(d))
    BY <1>HeldElsewhere, <1>Placing
  <2>3. \A j \in Entries : run.verdict[j] \in Advances => Held(j, d, changed, Reached(d))
    BY <2>1, <2>2 DEF IInv, HeldInv, Advances
  <2>4. \A j \in Entries : r.outcome[j] \in Advances => Held(j, d, changed, Reached(d))
    BY <2>1, <2>2 DEF IInv, HeldInv, Concluded
  <2> QED BY <2>1, <2>3, <2>4 DEF HeldInv, Reached
<1>HeldContinued. ASSUME IInv, run.step # "none", NEW d, Touches(d, At, run.temp),
                         NEW r, Continued(r),
                         \/ r.step \notin {"verify", "removeold", "verifyaside"}
                         \/ r.step = "verifyaside" /\ manifest[At].action # "delete"
                         \/ Held(At, d, changed, Reached(d))
                  PROVE  HeldInv(r, d, changed, Reached(d))
  <2> USE <1>HeldContinued
  <2>1. /\ r.phase = "write" /\ r.verdict = run.verdict /\ run.phase = "write" /\ r.at = At
        /\ r.outcome = run.outcome /\ run.outcome[At] = "none"
        /\ DOMAIN run.verdict = Entries /\ run.verdict[At] = "apply"
    BY <1>Placing DEF Continued, Same, Fields, PlacementFields, IInv, RunInv, OutcomeInv, Open, At
  <2>2. \A j \in Entries : Held(j, disk, changed, reached) /\ j # At => Held(j, d, changed, Reached(d))
    BY <1>HeldElsewhere, <1>Placing
  <2>3. \A j \in Entries : run.verdict[j] \in Advances => Held(j, d, changed, Reached(d))
    BY <2>1, <2>2 DEF IInv, HeldInv, Advances
  <2>4. \A j \in Entries : r.outcome[j] \in Advances => Held(j, d, changed, Reached(d))
    BY <2>1, <2>2 DEF IInv, HeldInv, Advances
  <2> QED BY <2>1, <2>3, <2>4 DEF HeldInv, Reached
\* The descriptors left are the batch's once the temporary to place has moved.
<1>Descriptors. ASSUME IInv, run.step # "none", NEW d, Touches(d, At, run.temp),
                       run.step = "place" /\ run.temp[1] = "descriptor" => run.temp \notin DOMAIN d
                PROVE  NoDescriptor(d)
  BY SMTT(60), <1>Descriptors, NamesDiffer DEF Touches, NoDescriptor
\* An entry concludes ...
<1>Concludes. ASSUME IInv, run.step # "none", NEW d, DiskInv(d, Owed, edits), Touches(d, At, run.temp),
                     run.step = "place" /\ run.temp[1] = "descriptor" => run.temp \notin DOMAIN d,
                     NEW r, NEW o, Concluded(r, o),
                     o \in {"failed", "skipped"} \/ Cleared(d),
                     o \in Advances => Held(At, d, changed, Reached(d))
              PROVE  After(r, d)
  BY <1>Concludes, <1>RunConcluded, <1>LeftConcluded, <1>HeldConcluded, <1>Descriptors DEF After
\* ... or goes on.
<1>Continues. ASSUME IInv, run.step # "none", NEW d, DiskInv(d, Owed, edits), Touches(d, At, run.temp),
                     run.step = "place" => run.temp \notin DOMAIN d,
                     NEW r, Continued(r), r.step # "place", EntryInv(r, d, Owed, edits),
                     \A n \in DOMAIN d :
                       \/ n[1] \in {"path", "kept"}
                       \/ n \in DOMAIN disk /\ ~(LiveTemp(run) /\ n = run.temp) /\ ~(LiveAside(run) /\ n = Aside(At))
                       \/ LiveTemp(r) /\ n = r.temp
                       \/ LiveAside(r) /\ n = Aside(At),
                     \/ r.step \notin {"verify", "removeold", "verifyaside"}
                     \/ r.step = "verifyaside" /\ manifest[At].action # "delete"
                     \/ Held(At, d, changed, Reached(d))
              PROVE  After(r, d)
  BY <1>Continues, <1>RunContinued, <1>LeftContinued, <1>HeldContinued, <1>Descriptors DEF After
\* The directory as it was.
<1>Stays. ASSUME IInv, NEW i, NEW t
          PROVE  DiskInv(disk, Owed, edits) /\ Touches(disk, i, t)
  BY <1>Stays DEF IInv, Touches
\* The records of an entry that concludes.
<1>EndedAsRun. ASSUME IInv, run.step # "none", NEW o, NEW c \in BOOLEAN
               PROVE  Concluded(Ended(Settled({At}, o, c)), o)
  <2> USE <1>EndedAsRun
  <2> DEFINE s == Settled({At}, o, c)
             r == Ended(s)
  <2>1. IsRun(run) /\ run.counter \in Nat
    BY DEF IInv, RunInv, RunType
  <2>2. /\ Same(run, s, {"outcome", "crashed"}) /\ DOMAIN s.outcome = Entries
        /\ \A i \in Entries : s.outcome[i] = IF i \in {At} THEN o ELSE run.outcome[i]
    BY SMTT(60), <2>1, SettledRun
  <2> HIDE DEF s
  <2>3. Same(s, r, {"step", "at", "temp", "before", "ending"}) /\ r.step = "none" /\ r.temp = NoName
    BY <2>2, EndedRun DEF Same
  <2> HIDE DEF r
  <2>4. Same(run, r, PlacementFields) /\ r.counter = run.counter /\ r.reported = run.reported
        /\ r.outcome = s.outcome
    BY <2>2, <2>3 DEF Same, Fields, PlacementFields
  <2> QED BY <2>1, <2>2, <2>3, <2>4 DEF Concluded, r, s
\* A record that concludes may count a name and report it.
<1>CountedConcluded. ASSUME NEW r, NEW o, Concluded(r, o), NEW n
                     PROVE  /\ Concluded([r EXCEPT !.counter = @ + 1], o)
                            /\ Concluded([r EXCEPT !.counter = @ + 1, !.reported = @ \union {n}], o)
  <2> USE <1>CountedConcluded
  <2> DEFINE s == [r EXCEPT !.counter = @ + 1]
             u == [r EXCEPT !.counter = @ + 1, !.reported = @ \union {n}]
  <2>1. IsRun(r) /\ r.counter \in Nat
    BY DEF Concluded, Same
  <2>2. /\ Same(r, s, {"counter"}) /\ s.counter = r.counter + 1
        /\ Same(r, u, {"counter", "reported"}) /\ u.counter = r.counter + 1
        /\ u.reported = r.reported \union {n}
    BY <2>1, CountedRun
  <2> HIDE DEF s, u
  <2>3. /\ Same(run, s, PlacementFields) /\ s.step = r.step /\ s.temp = r.temp /\ s.outcome = r.outcome
        /\ s.reported = r.reported
    BY <2>2 DEF Concluded, Same, Fields, PlacementFields
  <2>4. Same(run, u, PlacementFields) /\ u.step = r.step /\ u.temp = r.temp /\ u.outcome = r.outcome
    BY <2>2 DEF Concluded, Same, Fields, PlacementFields
  <2>5. Concluded(s, o)
    BY SMTT(60), <2>1, <2>2, <2>3 DEF Concluded
  <2>6. Concluded(u, o)
    BY SMTT(60), <2>1, <2>2, <2>4 DEF Concluded
  <2> QED BY <2>5, <2>6 DEF s, u
\* The endings of an entry that was undone or refused are not the overlay's state.
<1>EndingsRun. ASSUME IInv, run.step \in {"own", "unstage"}, NEW r \in Endings
               PROVE  \E o \in {"failed", "undone", "conflict"} : Concluded(r, o)
  <2> USE <1>EndingsRun
  <2>1. run.step # "none" /\ run.ending \in {"failed", "undone", "conflict"}
    BY DEF IInv, EntryInv, StepInv
  <2>2. CASE run.ending = "failed"
    <3>1. PICK c \in BOOLEAN : r = Ended(Settled({At}, "failed", c))
      BY <2>2 DEF Endings, Refused
    <3> QED BY <2>1, <3>1, <1>EndedAsRun
  <2>3. CASE run.ending # "failed"
    <3>1. r = Ended(Settled({At}, run.ending, FALSE))
      BY <2>3 DEF Endings, EndedAs
    <3> QED BY <2>1, <3>1, <1>EndedAsRun
  <2> QED BY <2>2, <2>3
\* The records of one that goes on.
<1>GotoContinued. ASSUME IInv, NEW step, step # "none"
                  PROVE  /\ Continued(Goto(step)) /\ Goto(step).step = step /\ Goto(step).at = At
                         /\ Goto(step).temp = run.temp /\ Goto(step).ending = run.ending
  <2> USE <1>GotoContinued
  <2>1. IsRun(run) /\ run.counter \in Nat
    BY DEF IInv, RunInv, RunType
  <2> DEFINE r == Goto(step)
  <2>2. Same(run, r, {"step"}) /\ r.step = step
    BY <2>1, GotoRun
  <2> HIDE DEF r
  <2>3. Continued(r) /\ r.at = At /\ r.temp = run.temp /\ r.ending = run.ending
    BY <2>1, <2>2 DEF Continued, Same, Fields, PlacementFields, At
  <2> QED BY <2>2, <2>3 DEF r
\* The same with the outcome it is to end with.
<1>EndingContinued. ASSUME IInv, NEW step, step # "none", NEW ending, NEW r, r = GotoEnding(step, ending)
                    PROVE  Continued(r) /\ r.step = step /\ r.at = At /\ r.temp = run.temp /\ r.ending = ending
  <2> USE <1>EndingContinued
  <2>1. IsRun(run) /\ run.counter \in Nat
    BY DEF IInv, RunInv, RunType
  <2>2. Same(run, r, {"step", "ending"}) /\ r.step = step /\ r.ending = ending
    BY <2>1, GotoRun
  <2>3. Continued(r) /\ r.at = At /\ r.temp = run.temp
    BY <2>1, <2>2 DEF Continued, Same, Fields, PlacementFields, At
  <2> QED BY <2>2, <2>3
\* The temporary to place, where there is one.
<1>TempToPlace. ASSUME IInv, run.step # "none", LiveTemp(run)
                PROVE  /\ run.temp \in DOMAIN disk /\ run.temp[1] \in {"hidden", "descriptor"}
                       /\ disk[run.temp].ino = "temp" /\ disk[run.temp].bytes = "new" /\ disk[run.temp].durable
                       /\ manifest[At].action # "delete"
  BY <1>TempToPlace DEF IInv, EntryInv, StepInv, Whole, Staging, At
\* link_create.
<1>LinkCreateStep. ASSUME IInv, LinkCreate
                   PROVE  After(run', disk')
  <2> USE <1>LinkCreateStep
  <2> USE DEF At
  <2>1. run.step = "place" /\ manifest[At].action = "create" /\ run.step # "none" /\ LiveTemp(run)
        /\ ~LiveAside(run) /\ ~Untouched(At, edits)
    BY DEF LinkCreate, LiveTemp, LiveAside, Untouched
  <2> DEFINE t == run.temp
  <2>2. t \in DOMAIN disk /\ t[1] \in {"hidden", "descriptor"} /\ disk[t].bytes = "new" /\ disk[t].durable
    BY <2>1, <1>TempToPlace
  <2>3. At \in Entries /\ At \in Nat /\ scene \in Scenes /\ DiskInv(disk, Owed, edits)
    BY <2>1, <1>Placing
  <2>4. CASE Path(At) \in DOMAIN disk
    <3>1. disk' = Without({t}) /\ run' = Ended(Settled({At}, "conflict", FALSE))
      BY <2>4 DEF LinkCreate, Exists, EndedAs
    <3>2. DiskInv(disk', Owed, edits) /\ Touches(disk', At, t)
      <4>1. Aside(At) # t
        BY SMTT(60), <2>2, NamesDiffer
      <4> QED BY <2>1, <2>2, <2>3, <3>1, <4>1, OwnBytes, Removal
    <3>3. DOMAIN disk' = DOMAIN disk \ {t}
      BY <3>1, WithoutIs
    <3>4. Cleared(disk')
      BY <2>1, <3>3 DEF Cleared
    <3>5. Concluded(run', "conflict")
      BY <2>1, <3>1, <1>EndedAsRun
    <3> QED BY <2>1, <3>2, <3>3, <3>4, <3>5, <1>Concludes DEF Advances
  <2>5. CASE Path(At) \notin DOMAIN disk
    <3>1. disk' = Move(t, Path(At)) /\ run' = Ended(Settled({At}, "written", FALSE))
      BY <2>5 DEF LinkCreate, Exists, EndedAs
    <3> DEFINE b == Path(At)
    <3>2. t # b /\ b[1] = "path" /\ b \in Name
      BY SMTT(60), <2>2, <2>3, NamesDiffer, NamesAreNames
    <3>3. Renames(disk', t, b)
      BY <2>2, <2>3, <3>1, <3>2, MoveIs DEF DiskInv
    <3>4. DiskInv(disk', Owed, edits) /\ Touches(disk', At, t)
      BY <2>1, <2>2, <2>3, <2>5, <3>2, <3>3, Renaming
    <3>5. Cleared(disk') /\ t \notin DOMAIN disk'
      BY <2>1, <3>2, <3>3 DEF Cleared, Renames
    <3>6. Concluded(run', "written")
      BY <2>1, <3>1, <1>EndedAsRun
    <3>7. Held(At, disk', changed, Reached(disk'))
      BY <2>1, <2>2, <2>3, <3>3 DEF Held, Goal, Reached, Renames
    <3> QED BY <2>1, <3>4, <3>5, <3>6, <3>7, <1>Concludes
  <2> QED BY <2>4, <2>5
\* swap_replace: the temporary takes the aside name.
<1>PlaceAsideStep. ASSUME IInv, PlaceAside
                   PROVE  After(run', disk')
  <2> USE <1>PlaceAsideStep
  <2> USE DEF At
  <2> DEFINE t == run.temp
             b == Aside(At)
  <2>1. /\ run.step = "place" /\ manifest[At].action = "replace" /\ run.step # "none" /\ LiveTemp(run)
        /\ ~LiveAside(run) /\ b \notin DOMAIN disk /\ disk' = Move(t, b) /\ run' = Goto("open")
    BY DEF PlaceAside, LiveTemp, LiveAside, Exists
  <2>2. /\ t \in DOMAIN disk /\ t[1] \in {"hidden", "descriptor"} /\ disk[t].bytes = "new"
        /\ disk[t].durable /\ disk[t].ino = "temp"
    BY <2>1, <1>TempToPlace
  <2>3. At \in Entries /\ At \in Nat /\ scene \in Scenes /\ DiskInv(disk, Owed, edits)
    BY <2>1, <1>Placing
  <2>4. t # b /\ b[1] = "aside" /\ b \in Name /\ b # Path(At)
    BY SMTT(60), <2>2, <2>3, NamesDiffer, NamesAreNames
  <2>5. Renames(disk', t, b)
    BY <2>1, <2>2, <2>3, <2>4, MoveIs DEF DiskInv
  <2>6. DiskInv(disk', Owed, edits) /\ Touches(disk', At, t)
    <3>1. OurFile(disk[t]) /\ t # Path(At)
      BY SMTT(60), <2>2, NamesDiffer DEF OurFile
    <3> QED BY <2>1, <2>2, <2>3, <2>4, <2>5, <3>1, Renaming
  <2>7. /\ Continued(run') /\ run'.step = "open" /\ run'.at = At
    BY <2>1, <1>GotoContinued
  <2>8. EntryInv(run', disk', Owed, edits)
    BY <2>1, <2>2, <2>5, <2>7 DEF EntryInv, StepInv, TheirsInv, OldStepInv, LiveTemp, LiveAside, Renames
  <2>9. LiveAside(run')
    BY <2>7 DEF LiveAside
  <2> QED BY <2>1, <2>4, <2>5, <2>6, <2>7, <2>8, <2>9, <1>Continues DEF Renames
\* The old file opened.
<1>OpenOldStep. ASSUME IInv, OpenOld
                PROVE  After(run', disk')
  <2> USE <1>OpenOldStep
  <2> USE DEF At
  <2> DEFINE a == Aside(At)
  <2>1. /\ run.step = "open" /\ run.step # "none" /\ ~LiveTemp(run) /\ LiveAside(run)
        /\ manifest[At].action = "replace"
        /\ a \in DOMAIN disk /\ disk[a].ino = "temp" /\ disk[a].bytes = "new"
    BY DEF OpenOld, LiveTemp, LiveAside, IInv, EntryInv, StepInv
  <2>2. /\ At \in Entries /\ At \in Nat /\ scene \in Scenes /\ DiskInv(disk, Owed, edits)
        /\ run.temp[1] # "path" /\ run.temp[1] # "aside" /\ IsRun(run)
    BY <2>1, <1>Placing
  <2>3. CASE ~Exists(Path(At)) \/ (~host.exchange /\ ~Fingerprint(At, disk[Path(At)]))
    <3>1. disk' = Without({a}) /\ run' = Ended(Settled({At}, "conflict", FALSE))
      BY <2>3 DEF OpenOld, EndedAs
    <3>2. Untouched(At, edits) => Path(At) \in DOMAIN disk
      <4> SUFFICES ASSUME Untouched(At, edits), Path(At) \notin DOMAIN disk PROVE FALSE
        OBVIOUS
      <4>1. Displaced(disk[a])
        BY <2>2 DEF DiskInv, OldInv
      <4> QED BY <2>1, <4>1 DEF Displaced, SameFile
    <3>3. DiskInv(disk', Owed, edits) /\ Touches(disk', At, run.temp)
      BY <2>1, <2>2, <3>1, <3>2, OwnBytes, Removal
    <3>4. Cleared(disk')
      <4>1. DOMAIN disk' = DOMAIN disk \ {a}
        BY <3>1, WithoutIs
      <4> QED BY <2>1, <4>1 DEF Cleared
    <3>5. Concluded(run', "conflict")
      BY <2>1, <3>1, <1>EndedAsRun
    <3> QED BY <2>1, <3>3, <3>4, <3>5, <1>Concludes DEF Advances
  <2>4. CASE Exists(Path(At)) /\ (host.exchange \/ Fingerprint(At, disk[Path(At)]))
    <3> DEFINE s == IF host.exchange THEN "exchange" ELSE "restage"
               g == Goto(s)
    <3>1. disk' = disk /\ run' = [g EXCEPT !.before = Fingerprint(At, disk[Path(At)])]
      BY <2>4 DEF OpenOld
    <3>2. Continued(g) /\ g.step = s /\ g.at = At /\ IsRun(g)
      BY <1>GotoContinued DEF Continued, Same
    <3> HIDE DEF g
    <3>3. Same(g, run', {"before"})
      BY <3>1, <3>2 DEF Same, IsRun, Fields
    <3> HIDE DEF s
    <3>4. Continued(run') /\ run'.step = s /\ run'.at = At
      BY SMTT(60), <3>2, <3>3 DEF Continued, Same, Fields, PlacementFields
    <3>5. DiskInv(disk', Owed, edits) /\ Touches(disk', At, run.temp)
      BY <3>1, <1>Stays
    <3>6. LiveAside(run') /\ run'.step # "place" /\ run'.step \notin {"verify", "removeold", "verifyaside"}
      BY <3>4 DEF LiveAside, s
    <3>7. Untouched(At, edits) /\ ~host.exchange => Displaced(disk[Path(At)])
      <4> SUFFICES ASSUME Untouched(At, edits), ~host.exchange PROVE Displaced(disk[Path(At)])
        OBVIOUS
      <4>1. OurFile(disk[Path(At)])
        BY <2>2, <2>4 DEF DiskInv, OldInv, Exists
      <4>2. SameFile(disk[Path(At)])
        BY <2>4 DEF Fingerprint
      <4> QED BY <4>1, <4>2 DEF OurFile, SameFile
    <3>8. EntryInv(run', disk', Owed, edits)
      <4>1. run'.step = s /\ (host.exchange => s = "exchange") /\ (~host.exchange => s = "restage")
        BY <3>4 DEF s
      <4> QED BY <2>1, <2>4, <3>1, <3>4, <3>7, <4>1
            DEF EntryInv, StepInv, TheirsInv, OldStepInv, LiveTemp, LiveAside, Exists
    <3> QED BY <2>1, <3>1, <3>4, <3>5, <3>6, <3>8, <1>Continues
  <2> QED BY <2>3, <2>4
\* The names exchanged.
<1>ExchangeNamesStep. ASSUME IInv, ExchangeNames
                      PROVE  After(run', disk')
  <2> USE <1>ExchangeNamesStep
  <2> USE DEF At
  <2> DEFINE a == Aside(At)
             b == Path(At)
  <2>1. /\ run.step = "exchange" /\ run.step # "none" /\ ~LiveTemp(run) /\ LiveAside(run)
        /\ manifest[At].action = "replace" /\ host.exchange
        /\ a \in DOMAIN disk /\ disk[a].ino = "temp" /\ disk[a].bytes = "new"
    BY DEF ExchangeNames, LiveTemp, LiveAside, IInv, EntryInv, StepInv
  <2>2. At \in Entries /\ scene \in Scenes /\ DiskInv(disk, Owed, edits)
    BY <2>1, <1>Placing
  <2>3. CASE b \in DOMAIN disk
    <3>1. disk' = Exchanged(a, b) /\ run' = Goto("verify") /\ a # b
      BY <2>3, NamesDiffer DEF ExchangeNames, Exists
    <3>2. Exchanges(disk', a, b)
      BY <2>1, <2>2, <2>3, <3>1, ExchangedIs DEF DiskInv
    <3>3. DiskInv(disk', Owed, edits) /\ Touches(disk', At, run.temp)
      BY <2>1, <2>2, <2>3, <3>2, Exchanging
    <3>4. Continued(run') /\ run'.step = "verify" /\ run'.at = At
      BY <3>1, <1>GotoContinued
    <3>5. /\ DOMAIN disk' = DOMAIN disk /\ disk'[b].bytes = "new"
      BY <2>1, <3>2 DEF Exchanges
    <3>6. EntryInv(run', disk', Owed, edits)
      BY <2>1, <3>4, <3>5, OwnBytes DEF EntryInv, StepInv, TheirsInv, OldStepInv, LiveTemp, LiveAside
    <3>7. Held(At, disk', changed, Reached(disk'))
      BY <2>1, <2>2, <2>3, <3>5 DEF Held, Goal, Reached
    <3>8. LiveAside(run')
      BY <3>4 DEF LiveAside
    <3> QED BY <2>1, <3>3, <3>4, <3>5, <3>6, <3>7, <3>8, <1>Continues
  <2>4. CASE b \notin DOMAIN disk
    <3>1. disk' = disk /\ run' = Ended(Settled({At}, "skipped", FALSE))
      BY <2>4 DEF ExchangeNames, Exists, EndedAs
    <3>2. DiskInv(disk', Owed, edits) /\ Touches(disk', At, run.temp)
      BY <3>1, <1>Stays
    <3>3. Concluded(run', "skipped")
      BY <2>1, <3>1, <1>EndedAsRun
    <3> QED BY <2>1, <3>2, <3>3, <1>Concludes DEF Advances
  <2> QED BY <2>3, <2>4
\* The displaced file verified.
<1>VerifyExchangedStep. ASSUME IInv, VerifyExchanged
                        PROVE  After(run', disk')
  <2> USE <1>VerifyExchangedStep
  <2> USE DEF At
  <2> DEFINE a == Aside(At)
             b == Path(At)
  <2>1. /\ run.step = "verify" /\ run.step # "none" /\ ~LiveTemp(run) /\ LiveAside(run)
        /\ manifest[At].action = "replace" /\ host.exchange /\ a \in DOMAIN disk
        /\ Held(At, disk, changed, reached)
    BY DEF VerifyExchanged, LiveTemp, LiveAside, IInv, EntryInv, StepInv, HeldInv
  <2>2. /\ At \in Entries /\ scene \in Scenes /\ DiskInv(disk, Owed, edits)
        /\ run.temp[1] # "path" /\ run.temp[1] # "aside" /\ a # b
    BY SMTT(60), <2>1, <1>Placing, NamesDiffer
  <2>3. CASE Displaced(disk[a]) /\ disk' = Without({a}) /\ run' = EndedAs("written")
    <3>1. disk[a].bytes \notin Owed
      BY <2>3, OwnBytes DEF Displaced
    <3>2. Untouched(At, edits) => b \in DOMAIN disk
      BY <2>1, <2>2 DEF DiskInv, OldInv
    <3>3. DiskInv(disk', Owed, edits) /\ Touches(disk', At, run.temp)
      BY <2>2, <2>3, <3>1, <3>2, Removal
    <3>4. DOMAIN disk' = DOMAIN disk \ {a} /\ \A n \in DOMAIN disk' : disk'[n] = disk[n]
      BY <2>3, WithoutIs
    <3>5. Cleared(disk')
      BY <2>1, <3>4 DEF Cleared
    <3>6. Concluded(run', "written")
      BY <2>1, <2>3, <1>EndedAsRun DEF EndedAs
    <3>7. Held(At, disk', changed, Reached(disk'))
      BY <2>1, <2>2, <3>4, HeldKept
    <3> QED BY <2>1, <3>3, <3>5, <3>6, <3>7, <1>Concludes
  <2>4. ASSUME NEW e \in {"failed", "undone"}, b \in DOMAIN disk, disk' = Exchanged(a, b),
               run' = GotoEnding("own", e)
        PROVE  After(run', disk')
    <3>1. Exchanges(disk', a, b)
      BY <2>1, <2>2, <2>4, ExchangedIs DEF DiskInv
    <3>2. DiskInv(disk', Owed, edits) /\ Touches(disk', At, run.temp)
      BY <2>1, <2>2, <2>4, <3>1, Exchanging
    <3>3. Continued(run') /\ run'.step = "own" /\ run'.at = At /\ run'.ending = e
      BY SMTT(60), <2>4, <1>EndingContinued
    <3>4. DOMAIN disk' = DOMAIN disk /\ disk'[a].bytes = disk[b].bytes /\ disk'[a].ino = disk[b].ino
      BY <3>1 DEF Exchanges
    <3>5. disk[b].ino = "temp" => disk[b].bytes \notin Owed
      BY <2>1, <2>4 DEF IInv, EntryInv, TheirsInv
    <3>6. EntryInv(run', disk', Owed, edits)
      BY <2>1, <3>3, <3>4, <3>5 DEF EntryInv, StepInv, TheirsInv, OldStepInv, LiveTemp, LiveAside
    <3>7. LiveAside(run')
      BY <3>3 DEF LiveAside
    <3> QED BY <2>1, <3>2, <3>3, <3>4, <3>6, <3>7, <1>Continues
  <2>5. CASE run' = EndedAs("skipped") /\ disk' = disk
    <3>1. DiskInv(disk', Owed, edits) /\ Touches(disk', At, run.temp)
      BY <2>5, <1>Stays
    <3>2. Concluded(run', "skipped")
      BY <2>1, <2>5, <1>EndedAsRun DEF EndedAs
    <3> QED BY <2>1, <3>1, <3>2, <1>Concludes DEF Advances
  <2> QED BY <2>3, <2>4, <2>5 DEF VerifyExchanged, Exists
\* The temporary exchanged back is removed; what is not the temporary is kept.
<1>RemoveOwnTempStep. ASSUME IInv, RemoveOwnTemp
                      PROVE  After(run', disk')
  <2> USE <1>RemoveOwnTempStep
  <2> USE DEF At
  <2> DEFINE a == Aside(At)
             b == KeptName(run.counter)
  <2>1. /\ run.step = "own" /\ run.step # "none" /\ ~LiveTemp(run) /\ LiveAside(run)
        /\ manifest[At].action = "replace" /\ host.exchange /\ a \in DOMAIN disk
        /\ run.counter \in Nat
        /\ disk[a].ino = "temp" => disk[a].bytes \notin Owed
    BY DEF RemoveOwnTemp, LiveTemp, LiveAside, IInv, EntryInv, StepInv, TheirsInv, RunInv, RunType
  <2>2. /\ At \in Entries /\ scene \in Scenes /\ DiskInv(disk, Owed, edits)
        /\ run.temp[1] # "path" /\ run.temp[1] # "aside"
    BY <2>1, <1>Placing
  <2>3. Untouched(At, edits) => Path(At) \in DOMAIN disk
    BY <2>1, <2>2 DEF DiskInv, OldInv
  <2>4. CASE disk[a].ino = "temp" /\ disk' = Without({a}) /\ run' \in Endings
    <3>1. DiskInv(disk', Owed, edits) /\ Touches(disk', At, run.temp)
      BY <2>1, <2>2, <2>3, <2>4, Removal
    <3>2. DOMAIN disk' = DOMAIN disk \ {a}
      BY <2>4, WithoutIs
    <3>3. Cleared(disk')
      BY <2>1, <3>2 DEF Cleared
    <3>4. PICK o \in {"failed", "undone", "conflict"} : Concluded(run', o)
      BY <2>1, <2>4, <1>EndingsRun
    <3> QED BY <2>1, <3>1, <3>3, <3>4, <1>Concludes DEF Advances
  <2>5. ASSUME NEW r \in Endings, b \notin DOMAIN disk, disk' = Move(a, b),
               run' = [r EXCEPT !.counter = @ + 1, !.reported = @ \union {b}]
        PROVE  After(run', disk')
    <3>1. b[1] = "kept" /\ b \in Name /\ a # b /\ b # Path(At)
      BY SMTT(60), <2>1, <2>2, NamesDiffer, NamesAreNames
    <3> HIDE DEF b
    <3>2. Renames(disk', a, b)
      BY <2>1, <2>2, <2>5, <3>1, MoveIs DEF DiskInv
    <3>3. DiskInv(disk', Owed, edits) /\ Touches(disk', At, run.temp)
      <4>1. a # Path(At) /\ a # run.temp /\ a[1] = "aside"
        BY SMTT(60), <2>2, NamesDiffer
      <4> QED BY <2>1, <2>2, <2>3, <2>5, <3>1, <3>2, <4>1, Renaming
    <3>4. Cleared(disk')
      BY <2>1, <3>1, <3>2 DEF Cleared, Renames
    <3>5. PICK o \in {"failed", "undone", "conflict"} : Concluded(r, o)
      BY <2>1, <1>EndingsRun
    <3>6. Concluded(run', o)
      BY <2>5, <3>5, <1>CountedConcluded
    <3> QED BY <2>1, <3>3, <3>4, <3>5, <3>6, <1>Concludes DEF Advances
  <2> QED BY <2>4, <2>5 DEF RemoveOwnTemp, Exists
\* replace_by_renames: the temporary leaves the aside name.
<1>RestageStep. ASSUME IInv, Restage
                PROVE  After(run', disk')
  <2> USE <1>RestageStep
  <2> USE DEF At
  <2> DEFINE a == Aside(At)
             b == HiddenName(run.counter)
             g == Goto("setaside")
  <2>1. /\ run.step = "restage" /\ run.step # "none" /\ ~LiveTemp(run) /\ LiveAside(run)
        /\ manifest[At].action = "replace" /\ ~host.exchange
        /\ a \in DOMAIN disk /\ disk[a].ino = "temp" /\ disk[a].bytes = "new"
        /\ run.counter \in Nat
        /\ Untouched(At, edits) => Path(At) \in DOMAIN disk /\ Displaced(disk[Path(At)])
    BY DEF Restage, LiveTemp, LiveAside, IInv, EntryInv, StepInv, OldStepInv, RunInv, RunType
  <2>2. /\ At \in Entries /\ scene \in Scenes /\ DiskInv(disk, Owed, edits)
        /\ run.temp[1] # "path" /\ run.temp[1] # "aside"
    BY <2>1, <1>Placing
  <2>3. /\ b \notin DOMAIN disk /\ disk' = Move(a, b)
        /\ run' = [g EXCEPT !.temp = b, !.counter = @ + 1]
    BY DEF Restage, Exists
  <2>4. /\ b[1] = "hidden" /\ b \in Name /\ a # b /\ b # Path(At) /\ a[1] = "aside" /\ a # Path(At)
        /\ a # run.temp
    BY SMTT(60), <2>1, <2>2, NamesDiffer, NamesAreNames
  <2>5. Continued(g) /\ g.step = "setaside" /\ g.at = At /\ IsRun(g) /\ g.counter \in Nat
    BY <1>GotoContinued DEF Continued, Same
  <2> HIDE DEF b, g
  <2>6. Same(g, run', {"temp", "counter"}) /\ run'.temp = b /\ run'.counter = g.counter + 1
    BY <2>3, <2>5 DEF Same, IsRun, Fields
  <2>7. Continued(run') /\ run'.step = "setaside" /\ run'.at = At
    <3>1. run'.counter \in Nat
      BY SMTT(60), <2>5, <2>6
    <3> QED BY <2>3, <2>4, <2>5, <2>6, <3>1 DEF Continued, Same, Fields, PlacementFields
  <2>8. Renames(disk', a, b)
    BY <2>1, <2>2, <2>3, <2>4, MoveIs DEF DiskInv
  <2>9. DiskInv(disk', Owed, edits) /\ Touches(disk', At, run.temp)
    BY <2>1, <2>2, <2>3, <2>4, <2>8, Renaming
  <2>10. EntryInv(run', disk', Owed, edits)
    <3>1. /\ b \in DOMAIN disk' /\ disk'[b].ino = "temp" /\ disk'[b].bytes = "new" /\ disk'[b].durable
      BY <2>1, <2>2, <2>4, <2>8 DEF Renames, DiskInv, DurableInv
    <3>2. Untouched(At, edits) => Path(At) \in DOMAIN disk' /\ Displaced(disk'[Path(At)])
      BY <2>1, <2>4, <2>8 DEF Renames
    <3> QED BY <2>1, <2>4, <2>6, <2>7, <3>1, <3>2
          DEF EntryInv, StepInv, TheirsInv, OldStepInv, LiveTemp, LiveAside, Whole, Staging
  <2>11. LiveTemp(run') /\ \A n \in DOMAIN disk' : n = b \/ (n \in DOMAIN disk /\ n # a)
    BY <2>1, <2>7, <2>8 DEF LiveTemp, Renames
  <2> QED BY <2>1, <2>6, <2>7, <2>9, <2>10, <2>11, <1>Continues
\* delete's first look.
<1>CheckDeletedStep. ASSUME IInv, CheckDeleted
                     PROVE  After(run', disk')
  <2> USE <1>CheckDeletedStep
  <2> USE DEF At
  <2>1. /\ run.step = "check" /\ run.step # "none" /\ ~LiveTemp(run) /\ ~LiveAside(run)
        /\ manifest[At].action = "delete" /\ disk' = disk
    BY DEF CheckDeleted, LiveTemp, LiveAside, IInv, EntryInv, StepInv
  <2>2. /\ DiskInv(disk', Owed, edits) /\ Touches(disk', At, run.temp) /\ Cleared(disk')
        /\ At \in Entries
    BY <2>1, <1>Stays, <1>Placing DEF Cleared
  <2>3. CASE Path(At) \notin DOMAIN disk
    <3>1. run' = Ended(Settled({At}, "skip", FALSE))
      BY <2>3 DEF CheckDeleted, Exists, EndedAs
    <3>2. Concluded(run', "skip")
      BY <2>1, <3>1, <1>EndedAsRun
    <3>3. Held(At, disk', changed, Reached(disk'))
      BY <2>1, <2>2, <2>3 DEF Held, Goal, Reached
    <3> QED BY <2>1, <2>2, <3>2, <3>3, <1>Concludes
  <2>4. CASE run' = EndedAs("conflict")
    <3>1. Concluded(run', "conflict")
      BY <2>1, <2>4, <1>EndedAsRun DEF EndedAs
    <3> QED BY <2>1, <2>2, <3>1, <1>Concludes DEF Advances
  <2>5. CASE run' = Goto("setaside")
    <3>1. Continued(run') /\ run'.step = "setaside" /\ run'.at = At
      BY <2>5, <1>GotoContinued
    <3>2. EntryInv(run', disk', Owed, edits)
      BY <2>1, <3>1 DEF EntryInv, StepInv, TheirsInv, OldStepInv, LiveTemp, LiveAside, Untouched
    <3> QED BY <2>1, <2>2, <3>1, <3>2, <1>Continues
  <2> QED BY <2>3, <2>4, <2>5 DEF CheckDeleted, Exists
\* The old file, or the one to delete, set aside.
<1>SetAsideStep. ASSUME IInv, SetAside
                 PROVE  After(run', disk')
  <2> USE <1>SetAsideStep
  <2> USE DEF At
  <2> DEFINE a == Path(At)
             b == Aside(At)
             t == run.temp
  <2>1. /\ run.step = "setaside" /\ run.step # "none" /\ ~LiveAside(run) /\ b \notin DOMAIN disk
        /\ manifest[At].action # "create"
        /\ manifest[At].action = "replace" => ~host.exchange
        /\ LiveTemp(run) <=> manifest[At].action = "replace"
        /\ Untouched(At, edits) => Displaced(disk[a])
    BY DEF SetAside, LiveTemp, LiveAside, IInv, EntryInv, StepInv, OldStepInv, Exists
  <2>2. /\ At \in Entries /\ At \in Nat /\ scene \in Scenes /\ DiskInv(disk, Owed, edits)
        /\ t[1] # "path" /\ t[1] # "aside" /\ manifest[At].action \in {"replace", "delete"}
    BY <2>1, <1>Placing, EntriesAre
  <2>3. a[1] = "path" /\ b[1] = "aside" /\ a # b /\ t # a /\ t # b /\ b \in Name
    BY SMTT(60), <2>2, NamesDiffer, NamesAreNames
  <2>4. manifest[At].action = "replace" =>
          Whole(disk, t) /\ disk[t].durable
    BY <2>1 DEF IInv, EntryInv, StepInv
  <2>5. CASE a \in DOMAIN disk
    <3>1. disk' = Move(a, b) /\ run' = Goto("verifyaside")
      BY <2>5 DEF SetAside, Exists
    <3>2. Renames(disk', a, b)
      BY <2>2, <2>3, <2>5, <3>1, MoveIs DEF DiskInv
    <3>3. DiskInv(disk', Owed, edits) /\ Touches(disk', At, t)
      <4>1. disk[a].durable
        BY <2>2, <2>3, <2>5 DEF DiskInv, DurableInv
      <4>2. Untouched(At, edits) => ~host.exchange
        BY <2>1 DEF Untouched
      <4> QED BY <2>1, <2>2, <2>3, <2>5, <3>2, <4>1, <4>2, Renaming
    <3>4. Continued(run') /\ run'.step = "verifyaside" /\ run'.at = At /\ run'.temp = t
      BY <3>1, <1>GotoContinued
    <3>5. /\ manifest[At].action = "replace" => Whole(disk', t) /\ disk'[t].durable
          /\ b \in DOMAIN disk' /\ a \notin DOMAIN disk'
      BY <2>3, <2>4, <3>2 DEF Whole, Staging, Renames
    <3>6. EntryInv(run', disk', Owed, edits)
      BY <2>1, <2>2, <3>4, <3>5 DEF EntryInv, StepInv, TheirsInv, OldStepInv, LiveTemp, LiveAside
    <3>7. manifest[At].action = "delete" => Held(At, disk', changed, Reached(disk'))
      BY <2>2, <3>5 DEF Held, Goal, Reached
    <3>8. /\ LiveAside(run') /\ (LiveTemp(run') <=> LiveTemp(run))
          /\ \A n \in DOMAIN disk' : n \in DOMAIN disk \/ n = b
      BY <2>1, <3>2, <3>4 DEF LiveAside, LiveTemp, Renames
    <3> QED BY <2>1, <2>2, <3>3, <3>4, <3>6, <3>7, <3>8, <1>Continues
  <2>6. CASE a \notin DOMAIN disk
    <3>1. /\ disk' = disk
          /\ run' = IF manifest[At].action = "delete" THEN EndedAs("skip")
                    ELSE GotoEnding("unstage", "conflict")
      BY <2>6 DEF SetAside, Exists
    <3>2. DiskInv(disk', Owed, edits) /\ Touches(disk', At, t)
      BY <3>1, <1>Stays
    <3>3. CASE manifest[At].action = "delete"
      <4>1. Concluded(run', "skip")
        BY <2>1, <3>1, <3>3, <1>EndedAsRun DEF EndedAs
      <4>2. Held(At, disk', changed, Reached(disk')) /\ Cleared(disk')
        BY <2>1, <2>2, <2>6, <3>1, <3>3 DEF Held, Goal, Reached, Cleared
      <4> QED BY <2>1, <3>2, <4>1, <4>2, <1>Concludes
    <3>4. CASE manifest[At].action = "replace"
      <4>1. Continued(run') /\ run'.step = "unstage" /\ run'.at = At /\ run'.temp = t
            /\ run'.ending = "conflict"
        BY SMTT(60), <3>1, <3>4, <1>EndingContinued
      <4>2. EntryInv(run', disk', Owed, edits)
        BY <2>1, <2>4, <3>1, <3>4, <4>1 DEF EntryInv, StepInv, TheirsInv, OldStepInv, LiveTemp, LiveAside
      <4>3. LiveTemp(run')
        BY <3>4, <4>1 DEF LiveTemp
      <4> QED BY <2>1, <3>1, <3>2, <4>1, <4>2, <4>3, <1>Continues
    <3> QED BY <2>2, <3>3, <3>4
  <2> QED BY <2>5, <2>6
\* A record that goes on may count a name and report it.
<1>CountedContinued. ASSUME NEW r, Continued(r), NEW n
                     PROVE  /\ Continued(Reporting(r, n)) /\ Reporting(r, n).step = r.step /\ Reporting(r, n).at = r.at
                            /\ Reporting(r, n).temp = r.temp /\ Reporting(r, n).ending = r.ending
  <2> USE <1>CountedContinued
  <2> DEFINE s == Reporting(r, n)
  <2>1. IsRun(r) /\ r.counter \in Nat
    BY DEF Continued, Same
  <2>2. /\ Same(r, s, {"counter", "reported"}) /\ s.counter = r.counter + 1
        /\ s.reported = r.reported \union {n}
    BY <2>1, CountedRun DEF Reporting
  <2> HIDE DEF s
  <2>3. s.counter \in Nat
    BY SMTT(60), <2>1, <2>2
  <2>4. s.step = r.step /\ s.at = r.at /\ s.temp = r.temp /\ s.ending = r.ending
    BY <2>2 DEF Same, Fields
  <2>5. Continued(s)
    BY <2>2, <2>3, <2>4 DEF Continued, Same, Fields, PlacementFields
  <2> QED BY <2>4, <2>5 DEF s
\* An entry whose old file is put back concludes with its temporary gone, goes on to
\* remove it, or crashes the landing.
<1>PuttingBack. ASSUME IInv, run.step \in {"verifyaside", "putback"},
                       NEW then, PutBack(At, then, Crashed),
                       \/ manifest[At].action = "delete" /\ then = EndedAs("undone")
                       \/ /\ manifest[At].action = "replace" /\ Continued(then) /\ then.step = "unstage"
                          /\ then.at = At /\ then.temp = run.temp
                          /\ then.ending \in {"failed", "undone", "conflict"}
                PROVE  After(run', disk')
  <2> USE <1>PuttingBack
  <2> USE DEF At
  <2> DEFINE a == Aside(At)
             t == run.temp
  <2>1. /\ run.step # "none" /\ run.step # "place" /\ LiveAside(run) /\ a \in DOMAIN disk
        /\ run.counter \in Nat
        /\ LiveTemp(run) <=> manifest[At].action = "replace"
        /\ manifest[At].action = "replace" => ~host.exchange
        /\ manifest[At].action = "replace" => Whole(disk, t) /\ disk[t].durable
    BY DEF LiveTemp, LiveAside, IInv, EntryInv, StepInv, RunInv, RunType
  <2>2. /\ At \in Entries /\ scene \in Scenes /\ DiskInv(disk, Owed, edits)
        /\ t[1] # "path" /\ t[1] # "aside" /\ t # a
    BY SMTT(60), <2>1, <1>Placing, NamesDiffer
  <2>3. CASE run' = Counting(Crashed) /\ disk' = disk
    <3>1. Concluded(Crashed, "failed")
      BY <2>1, <1>EndedAsRun DEF Crashed
    <3>2. Concluded(run', "failed")
      BY <2>3, <3>1, <1>CountedConcluded DEF Counting
    <3>3. DiskInv(disk', Owed, edits) /\ Touches(disk', At, t)
      BY <2>3, <1>Stays
    <3> QED BY <2>1, <3>2, <3>3, <1>Concludes DEF Advances
  <2>4. ASSUME NEW b, b[1] \in {"path", "kept"}, b \notin DOMAIN disk, Renames(disk', a, b),
               DiskInv(disk', Owed, edits), Touches(disk', At, t),
               run' = then \/ run' = Reporting(then, b)
        PROVE  After(run', disk')
    <3>1. \A n \in DOMAIN disk' : n = b \/ (n \in DOMAIN disk /\ n # a)
      BY <2>4 DEF Renames
    <3>2. CASE manifest[At].action = "delete" /\ then = EndedAs("undone")
      <4>1. Concluded(then, "undone")
        BY <2>1, <3>2, <1>EndedAsRun DEF EndedAs
      <4>2. Concluded(run', "undone")
        <5>1. CASE run' = then
          BY <4>1, <5>1
        <5>2. CASE run' = Reporting(then, b)
          BY <4>1, <5>2, <1>CountedConcluded DEF Reporting
        <5> QED BY <2>4, <5>1, <5>2
      <4>3. Cleared(disk')
        BY <2>1, <2>4, <3>1, <3>2 DEF Cleared
      <4> QED BY <2>1, <2>4, <4>2, <4>3, <1>Concludes DEF Advances
    <3>3. CASE /\ manifest[At].action = "replace" /\ Continued(then) /\ then.step = "unstage"
               /\ then.at = At /\ then.temp = run.temp
               /\ then.ending \in {"failed", "undone", "conflict"}
      <4>1. /\ Continued(run') /\ run'.step = "unstage" /\ run'.at = At /\ run'.temp = t
            /\ run'.ending \in {"failed", "undone", "conflict"}
        <5>1. CASE run' = then
          BY <3>3, <5>1
        <5>2. CASE run' = Reporting(then, b)
          BY <3>3, <5>2, <1>CountedContinued
        <5> QED BY <2>4, <5>1, <5>2
      <4>2. Whole(disk', t) /\ disk'[t].durable
        BY <2>1, <2>2, <2>4, <3>3 DEF Whole, Staging, Renames
      <4>3. EntryInv(run', disk', Owed, edits)
        BY <2>1, <3>3, <4>1, <4>2 DEF EntryInv, StepInv, TheirsInv, OldStepInv, LiveTemp, LiveAside
      <4>4. LiveTemp(run')
        BY <3>3, <4>1 DEF LiveTemp
      <4> QED BY <2>1, <2>4, <3>1, <4>1, <4>3, <4>4, <1>Continues
    <3> QED BY <3>2, <3>3
  <2>5. \/ \E b : /\ b[1] \in {"path", "kept"} /\ b \notin DOMAIN disk /\ Renames(disk', a, b)
                  /\ DiskInv(disk', Owed, edits) /\ Touches(disk', At, t)
                  /\ \/ run' = then
                     \/ run' = Reporting(then, b)
        \/ run' = Counting(Crashed) /\ disk' = disk
    BY SMTT(60), <2>1, <2>2, PutBackIs
  <2> QED BY SMTT(60), <2>3, <2>4, <2>5
\* What was moved aside verified.
<1>VerifyAsideStep. ASSUME IInv, VerifyAside
                    PROVE  After(run', disk')
  <2> USE <1>VerifyAsideStep
  <2> USE DEF At
  <2> DEFINE a == Aside(At)
             t == run.temp
  <2>1. /\ run.step = "verifyaside" /\ run.step # "none" /\ LiveAside(run) /\ a \in DOMAIN disk
        /\ LiveTemp(run) <=> manifest[At].action = "replace"
        /\ manifest[At].action = "replace" => ~host.exchange
        /\ manifest[At].action = "replace" => Whole(disk, t) /\ disk[t].durable
        /\ manifest[At].action = "delete" => Held(At, disk, changed, reached)
        /\ manifest[At].action # "create"
    BY DEF VerifyAside, LiveTemp, LiveAside, IInv, EntryInv, StepInv, HeldInv
  <2>2. /\ At \in Entries /\ scene \in Scenes /\ DiskInv(disk, Owed, edits)
        /\ t[1] # "path" /\ t[1] # "aside" /\ manifest[At].action \in {"replace", "delete"}
        /\ a # Path(At) /\ a[1] = "aside" /\ a[2] = At
    BY SMTT(60), <2>1, <1>Placing, EntriesAre, NamesDiffer
  <2>3. CASE AsideIsWitnessed(At) /\ manifest[At].action = "delete"
    <3>1. disk' = Without({a}) /\ run' = Ended(Settled({At}, "written", FALSE))
      BY <2>3 DEF VerifyAside, EndedAs
    <3>2. disk[a].bytes \notin Owed
      BY <2>1, <2>2, <2>3, OwnBytes DEF AsideIsWitnessed, DiskInv, LossInv
    <3>3. DiskInv(disk', Owed, edits) /\ Touches(disk', At, t)
      BY <2>2, <2>3, <3>1, <3>2, Removal DEF Untouched
    <3>4. DOMAIN disk' = DOMAIN disk \ {a} /\ \A n \in DOMAIN disk' : disk'[n] = disk[n]
      BY <3>1, WithoutIs
    <3>5. Cleared(disk')
      BY <2>1, <2>3, <3>4 DEF Cleared
    <3>6. Concluded(run', "written")
      BY <2>1, <3>1, <1>EndedAsRun
    <3>7. Held(At, disk', changed, Reached(disk'))
      BY <2>1, <2>2, <2>3, <3>4, HeldKept
    <3> QED BY <2>1, <3>3, <3>5, <3>6, <3>7, <1>Concludes
  <2>4. CASE AsideIsWitnessed(At) /\ manifest[At].action = "replace"
    <3>1. disk' = disk /\ run' = Goto("take") /\ Displaced(disk[a])
      BY <2>4 DEF VerifyAside, AsideIsWitnessed
    <3>2. DiskInv(disk', Owed, edits) /\ Touches(disk', At, t)
      BY <3>1, <1>Stays
    <3>3. Continued(run') /\ run'.step = "take" /\ run'.at = At /\ run'.temp = t
      BY <3>1, <1>GotoContinued
    <3>4. EntryInv(run', disk', Owed, edits)
      BY <2>1, <2>4, <3>1, <3>3 DEF EntryInv, StepInv, TheirsInv, OldStepInv, LiveTemp, LiveAside
    <3>5. LiveTemp(run') /\ LiveAside(run')
      BY <2>4, <3>3 DEF LiveTemp, LiveAside
    <3> QED BY <2>1, <3>1, <3>2, <3>3, <3>4, <3>5, <1>Continues
  <2>5. CASE ~AsideIsWitnessed(At)
    <3> DEFINE then == IF manifest[At].action = "delete" THEN EndedAs("undone")
                       ELSE GotoEnding("unstage", "undone")
    <3>1. PutBack(At, then, Crashed)
      BY <2>5 DEF VerifyAside
    <3>2. manifest[At].action = "replace" =>
            /\ Continued(then) /\ then.step = "unstage" /\ then.at = At /\ then.temp = t
            /\ then.ending = "undone"
      BY SMTT(60), <1>EndingContinued
    <3>3. manifest[At].action = "delete" => then = EndedAs("undone")
      OBVIOUS
    <3> HIDE DEF then
    <3> QED BY <2>1, <2>2, <3>1, <3>2, <3>3, <1>PuttingBack
  <2> QED BY <2>2, <2>3, <2>4, <2>5
\* The temporary takes the path.
<1>TakeNameStep. ASSUME IInv, TakeName
                 PROVE  After(run', disk')
  <2> USE <1>TakeNameStep
  <2> USE DEF At
  <2> DEFINE a == Aside(At)
             b == Path(At)
             t == run.temp
  <2>1. /\ run.step = "take" /\ run.step # "none" /\ LiveAside(run) /\ a \in DOMAIN disk
        /\ LiveTemp(run) /\ manifest[At].action = "replace" /\ ~host.exchange
        /\ Whole(disk, t) /\ disk[t].durable /\ Displaced(disk[a])
    BY DEF TakeName, LiveTemp, LiveAside, IInv, EntryInv, StepInv
  <2>2. /\ At \in Entries /\ At \in Nat /\ scene \in Scenes /\ DiskInv(disk, Owed, edits)
        /\ t[1] # "path" /\ t[1] # "aside"
    BY <2>1, <1>Placing
  <2>3. t \in DOMAIN disk /\ a # t /\ b # t /\ a # b /\ b \in Name /\ b[1] = "path"
    BY SMTT(60), <2>1, <2>2, NamesDiffer, NamesAreNames DEF Whole, Staging
  <2>4. CASE b \notin DOMAIN disk /\ disk' = Move(t, b) /\ run' = Goto("removeold")
    <3>1. Renames(disk', t, b)
      BY <2>2, <2>3, <2>4, MoveIs DEF DiskInv
    <3>2. DiskInv(disk', Owed, edits) /\ Touches(disk', At, t)
      <4>1. OurFile(disk[t]) /\ disk[t].bytes = "new"
        BY <2>1 DEF OurFile, Whole, Staging
      <4> QED BY <2>1, <2>2, <2>3, <2>4, <3>1, <4>1, Renaming
    <3>3. Continued(run') /\ run'.step = "removeold" /\ run'.at = At
      BY <2>4, <1>GotoContinued
    <3>4. /\ a \in DOMAIN disk' /\ disk'[a] = disk[a] /\ b \in DOMAIN disk'
          /\ disk'[b].bytes = "new"
          /\ \A n \in DOMAIN disk' : n = b \/ (n \in DOMAIN disk /\ n # t)
      BY <2>1, <2>3, <3>1 DEF Renames, Whole, Staging
    <3>5. EntryInv(run', disk', Owed, edits)
      BY <2>1, <3>3, <3>4 DEF EntryInv, StepInv, TheirsInv, OldStepInv, LiveTemp, LiveAside
    <3>6. Held(At, disk', changed, Reached(disk')) /\ LiveAside(run')
      BY <2>1, <2>2, <3>3, <3>4 DEF Held, Goal, Reached, LiveAside
    <3> QED BY <2>1, <2>3, <3>2, <3>3, <3>4, <3>5, <3>6, <1>Continues
  <2>5. ASSUME NEW e \in {"failed", "undone"}, disk' = disk, run' = GotoEnding("putback", e)
        PROVE  After(run', disk')
    <3>1. DiskInv(disk', Owed, edits) /\ Touches(disk', At, t)
      BY <2>5, <1>Stays
    <3>2. Continued(run') /\ run'.step = "putback" /\ run'.at = At /\ run'.temp = t /\ run'.ending = e
      BY SMTT(60), <2>5, <1>EndingContinued
    <3>3. EntryInv(run', disk', Owed, edits)
      BY <2>1, <2>5, <3>2 DEF EntryInv, StepInv, TheirsInv, OldStepInv, LiveTemp, LiveAside
    <3>4. LiveTemp(run') /\ LiveAside(run')
      BY <2>1, <3>2 DEF LiveTemp, LiveAside
    <3> QED BY <2>1, <2>5, <3>1, <3>2, <3>3, <3>4, <1>Continues
  <2> QED BY <2>4, <2>5 DEF TakeName, Exists
\* The old file put back.
<1>PutOldBackStep. ASSUME IInv, PutOldBack
                   PROVE  After(run', disk')
  <2> USE <1>PutOldBackStep
  <2> USE DEF At
  <2> DEFINE then == Goto("unstage")
  <2>1. /\ run.step = "putback" /\ manifest[At].action = "replace"
        /\ run.ending \in {"failed", "undone", "conflict"} /\ PutBack(At, then, Crashed)
    BY DEF PutOldBack, IInv, EntryInv, StepInv
  <2>2. /\ Continued(then) /\ then.step = "unstage" /\ then.at = At /\ then.temp = run.temp
        /\ then.ending = run.ending
    BY <1>GotoContinued
  <2> HIDE DEF then
  <2> QED BY <2>1, <2>2, <1>PuttingBack
\* The temporary of an entry undone removed.
<1>UnstageStep. ASSUME IInv, Unstage
                PROVE  After(run', disk')
  <2> USE <1>UnstageStep
  <2> USE DEF At
  <2> DEFINE t == run.temp
  <2>1. /\ run.step = "unstage" /\ run.step # "none" /\ ~LiveAside(run) /\ LiveTemp(run)
        /\ disk' = Without({t}) /\ run' \in Endings
    BY DEF Unstage, LiveTemp, LiveAside, IInv, EntryInv, StepInv
  <2>2. /\ At \in Entries /\ scene \in Scenes /\ DiskInv(disk, Owed, edits)
        /\ t[1] # "path" /\ t[1] # "aside" /\ t # Aside(At) /\ disk[t].bytes \notin Owed
    BY SMTT(60), <2>1, <1>Placing, NamesDiffer, <1>TempToPlace, OwnBytes
  <2>3. DiskInv(disk', Owed, edits) /\ Touches(disk', At, t)
    BY <2>1, <2>2, Removal
  <2>4. DOMAIN disk' = DOMAIN disk \ {t}
    BY <2>1, WithoutIs
  <2>5. Cleared(disk')
    BY <2>1, <2>4 DEF Cleared
  <2>6. PICK o \in {"failed", "undone", "conflict"} : Concluded(run', o)
    BY <2>1, <1>EndingsRun
  <2> QED BY <2>1, <2>3, <2>5, <2>6, <1>Concludes DEF Advances
\* The old file of an entry whose new one is in place removed.
<1>RemoveOldStep. ASSUME IInv, RemoveOld
                  PROVE  After(run', disk')
  <2> USE <1>RemoveOldStep
  <2> USE DEF At
  <2> DEFINE a == Aside(At)
  <2>1. /\ run.step = "removeold" /\ run.step # "none" /\ LiveAside(run) /\ ~LiveTemp(run)
        /\ disk' = Without({a}) /\ run' = Ended(Settled({At}, "written", FALSE))
        /\ Displaced(disk[a]) /\ Held(At, disk, changed, reached)
        /\ Untouched(At, edits) => Path(At) \in DOMAIN disk
    BY DEF RemoveOld, LiveTemp, LiveAside, IInv, EntryInv, StepInv, OldStepInv, HeldInv, EndedAs
  <2>2. /\ At \in Entries /\ scene \in Scenes /\ DiskInv(disk, Owed, edits)
        /\ run.temp[1] # "path" /\ run.temp[1] # "aside" /\ a # Path(At)
    BY SMTT(60), <2>1, <1>Placing, NamesDiffer
  <2>3. disk[a].bytes \notin Owed
    BY <2>1, OwnBytes DEF Displaced
  <2>4. DiskInv(disk', Owed, edits) /\ Touches(disk', At, run.temp)
    BY <2>1, <2>2, <2>3, Removal
  <2>5. DOMAIN disk' = DOMAIN disk \ {a} /\ \A n \in DOMAIN disk' : disk'[n] = disk[n]
    BY SMTT(60), <2>1, WithoutIs
  <2>6. Cleared(disk')
    BY <2>1, <2>5 DEF Cleared
  <2>7. Concluded(run', "written")
    BY <2>1, <1>EndedAsRun
  <2>8. Held(At, disk', changed, Reached(disk'))
    BY <2>1, <2>2, <2>5, HeldKept
  <2> QED BY <2>1, <2>4, <2>6, <2>7, <2>8, <1>Concludes
\* A step the host refuses.
<1>HostRefusesStep. ASSUME IInv, HostRefuses
                    PROVE  After(run', disk')
  <2> USE <1>HostRefusesStep
  <2> USE DEF At
  <2> DEFINE t == run.temp
             S == {n \in {t} : n[1] = "descriptor"}
  <2>1. run.step # "none" /\ disk' = Without(S) /\ run' \in {Ended(r) : r \in Refused({At})}
    BY DEF HostRefuses
  <2>2. /\ At \in Entries /\ scene \in Scenes /\ DiskInv(disk, Owed, edits)
        /\ t[1] # "path" /\ t[1] # "aside" /\ t # Aside(At)
    BY SMTT(60), <2>1, <1>Placing, NamesDiffer
  <2>3. (\A n \in S : n = t /\ n[1] = "descriptor") /\ (t[1] = "descriptor" => t \in S)
    OBVIOUS
  <2> HIDE DEF S
  <2>4. \A n \in S : n \in DOMAIN disk => disk[n].bytes \notin Owed
    BY <2>2, <2>3, OwnBytes DEF DiskInv, LossInv
  <2>5. DiskInv(disk', Owed, edits) /\ Touches(disk', At, t)
    BY SMTT(60), <2>1, <2>2, <2>3, <2>4, Removal
  <2>6. t[1] = "descriptor" => t \notin DOMAIN disk'
    BY <2>1, <2>3, WithoutIs
  <2>7. PICK c \in BOOLEAN : run' = Ended(Settled({At}, "failed", c))
    BY <2>1 DEF Refused
  <2>8. Concluded(run', "failed")
    BY <2>1, <2>7, <1>EndedAsRun
  <2> QED BY <2>1, <2>5, <2>6, <2>8, <1>Concludes DEF Advances
<1> QED BY <1>LinkCreateStep, <1>PlaceAsideStep, <1>OpenOldStep, <1>ExchangeNamesStep, <1>VerifyExchangedStep,
  <1>RemoveOwnTempStep, <1>RestageStep, <1>CheckDeletedStep, <1>SetAsideStep, <1>VerifyAsideStep, <1>TakeNameStep,
  <1>PutOldBackStep, <1>UnstageStep, <1>RemoveOldStep, <1>HostRefusesStep DEF Place

==============================================================================
