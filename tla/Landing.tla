------------------------------ MODULE Landing -------------------------------
(***************************************************************************)
(* The landing engine: a volume's overlay written onto a directory of the  *)
(* host that other programs go on changing.  One landing id, its attempts  *)
(* and their crashes; files created, replaced and deleted in one           *)
(* directory.  One action is one host call that changes the disk, with the *)
(* reads that only this landing's names can answer.                        *)
(***************************************************************************)
EXTENDS Integers, Sequences, FiniteSets, Functions

CONSTANTS
  Scenes,  \* [manifest, host, room, edits, attempts]: a sequence of [action, racy] in
           \* class order, what the filesystem offers ([exchange, unnamed]), the files of
           \* a batch, and the bounds on the steps of outsiders and the landing's runs
  Bytes    \* contents outsiders write

ASSUME LandingAssumption ==
  /\ \A s \in Scenes :
       /\ s.manifest \in Seq([action : {"create", "replace", "delete"}, racy : BOOLEAN])
       /\ \A i \in DOMAIN s.manifest : s.manifest[i].action = "create" => ~s.manifest[i].racy
       /\ s.host \in [exchange : BOOLEAN, unnamed : BOOLEAN]
       /\ s.room \in Nat \ {0} /\ s.edits \in 0..Cardinality(Bytes) /\ s.attempts \in Nat
  /\ Bytes \cap {"base", "new", "part"} = {}

VARIABLES
  scene,    \* one of Scenes, chosen at the start
  disk,     \* the directory: a file at each name that exists
  overlay,  \* the entries still in the volume's overlay
  run,      \* the LandingRun, gone with its process
  attempt,  \* the runs so far
  edits,    \* the steps outsiders may still take
  mine,     \* contents outsiders wrote and have not removed themselves
  exposed,  \* history: those of them written where the landing does not look again
  changed,  \* the paths outsiders changed since the run began
  reached,  \* the entries whose path has held the overlay's state since then
  synced    \* what the run's directory sync covered: see SyncDir

landVars == <<scene, disk, overlay, run, attempt, edits, mine, exposed, changed, reached, synced>>
----------------------------------------------------------------------------
(* Names and files. *)

manifest == scene.manifest
host == scene.host
Entries == DOMAIN manifest
Path(i) == <<"path", i>>
Aside(i) == <<"aside", i>>
HiddenName(n) == <<"hidden", n>>
KeptName(n) == <<"kept", n>>
NoName == <<"none", 0>>

\* create_temp: a file without a name goes with the descriptor that holds it.
TempName(n) == IF host.unnamed THEN <<"descriptor", n>> ELSE HiddenName(n)

Exists(n) == n \in DOMAIN disk
Without(names) == Restrict(disk, DOMAIN disk \ names)
With(d, n, f) == [m \in DOMAIN d \union {n} |-> IF m = n THEN f ELSE d[m]]

\* A rename changes a file's ctime and nothing else of it.
Renamed(f) == [f EXCEPT !.ctime = "later"]
Move(a, b) == With(Without({a}), b, Renamed(disk[a]))
Exchanged(a, b) == [disk EXCEPT ![a] = Renamed(disk[b]), ![b] = Renamed(disk[a])]

\* A content that is told apart from those in use, whichever of Bytes it is.
Fresh(used) == IF Bytes \subseteq used THEN {} ELSE {CHOOSE b \in Bytes : b \notin used}

NewFile(ino, bytes, durable) ==
  [ino |-> ino, bytes |-> bytes, mtime |-> "later", ctime |-> "later", durable |-> durable]

\* The witnessed file in all but its ctime.
SameFile(f) == f.ino = "base" /\ f.mtime = "witnessed"

\* The witness's fingerprint, with the ctime the sweep's own put-back left.
Fingerprint(i, f) ==
  SameFile(f) /\ f.ctime = (IF i \in run.restored THEN "restored" ELSE "witnessed")

\* displaced_matches: a file this landing moved is the witnessed one by its bytes.
Displaced(f) == SameFile(f) /\ f.bytes = "base"

AsideIsWitnessed(i) ==
  \/ manifest[i].action = "replace" /\ Displaced(disk[Aside(i)])
  \/ manifest[i].action = "delete" /\ SameFile(disk[Aside(i)])

\* What entry i is to leave at its path.
Goal(i, d) ==
  IF manifest[i].action = "delete" THEN Path(i) \notin DOMAIN d
  ELSE Path(i) \in DOMAIN d /\ d[Path(i)].bytes = "new"
----------------------------------------------------------------------------
(* The run. *)

NoRun ==
  [phase |-> "none", todo |-> {}, next |-> 1, verdict |-> <<>>, outcome |-> <<>>, class |-> "none",
   copy |-> NoName, staged |-> <<>>, placing |-> FALSE, barrier |-> "idle",
   step |-> "none", at |-> 0, temp |-> NoName, before |-> FALSE, ending |-> "none",
   counter |-> 0, crashed |-> FALSE, unsynced |-> FALSE, restored |-> {}, reported |-> {}]

Running == run.phase \in {"sweep", "validate", "write", "sync", "advance"}

Init ==
  /\ scene \in Scenes
  /\ \E unseen \in {{}} \union {{i} : i \in {j \in Entries : manifest[j].racy}}, b \in Fresh({}) :
       /\ disk = [n \in {Path(i) : i \in {j \in Entries : manifest[j].action # "create"}} |->
                    [ino |-> "base", bytes |-> IF n[2] \in unseen THEN b ELSE "base",
                     mtime |-> "witnessed", ctime |-> "witnessed", durable |-> TRUE]]
       /\ mine = IF unseen = {} THEN {} ELSE {b}
       /\ exposed = {c \in mine : \E i \in unseen : manifest[i].action = "delete"}
       /\ edits = scene.edits - (IF unseen = {} THEN 0 ELSE 1) /\ edits >= 0
  /\ overlay = Entries /\ run = NoRun /\ attempt = 0
  /\ changed = {} /\ reached = {} /\ synced = {}

\* Mutant: the aside names an attempt left are not swept.
BeginMissingAsides ==
  /\ run.phase \in {"none", "aborted", "refused"} /\ attempt < scene.attempts
  /\ attempt' = attempt + 1
  /\ run' = [NoRun EXCEPT !.phase = "sweep", !.todo = {n \in DOMAIN disk : n[1] = "hidden"}]
  /\ changed' = {} /\ synced' = {}
  /\ UNCHANGED <<disk, overlay, edits, mine, exposed>>

\* A landing begun, or resumed under the id its hidden names carry: an aborted or
\* refused one keeps its presentation, a finished one has consumed it.
Begin ==
  /\ run.phase \in {"none", "aborted", "refused"} /\ attempt < scene.attempts
  /\ attempt' = attempt + 1
  /\ run' = [NoRun EXCEPT !.phase = "sweep",
                          !.todo = {n \in DOMAIN disk : n[1] \in {"hidden", "aside"}}]
  /\ changed' = {} /\ synced' = {}
  /\ UNCHANGED <<disk, overlay, edits, mine, exposed>>

\* The process dies or the run is abandoned: nothing is advanced, and what the
\* descriptors held goes with them.
Abandon ==
  /\ Running
  /\ run' = NoRun
  /\ disk' = Without({n \in DOMAIN disk : n[1] = "descriptor"})
  /\ UNCHANGED <<overlay, attempt, edits, mine, exposed, changed, synced>>

\* put_back: the entry moved aside returns to its path, or is kept beside it under a
\* name no sweep removes and reported; then is the run after it, failed the run when
\* the kept name is taken too.
PutBack(i, then, failed) ==
  \/ /\ ~Exists(Path(i))
     /\ disk' = Move(Aside(i), Path(i)) /\ run' = then
  \/ /\ Exists(Path(i)) /\ ~Exists(KeptName(run.counter))
     /\ disk' = Move(Aside(i), KeptName(run.counter))
     /\ run' = [then EXCEPT !.counter = @ + 1, !.reported = @ \union {KeptName(run.counter)}]
  \/ /\ Exists(Path(i)) /\ Exists(KeptName(run.counter))
     /\ run' = [failed EXCEPT !.counter = @ + 1] /\ UNCHANGED disk
----------------------------------------------------------------------------
(* The sweep of what an earlier attempt left, and the verdicts. *)

\* Mutant: the witnessed entry is removed although its path is free.
ResolveAsideRemoves(i, swept, left) ==
  IF AsideIsWitnessed(i) \/ (manifest[i].action = "replace" /\ disk[Aside(i)].bytes = "new")
  THEN disk' = Without({Aside(i)}) /\ run' = swept
  ELSE PutBack(i, swept, left)

\* resolve_aside: the witnessed entry goes back if its path is free, and is removed
\* if not; this landing's own leftover is removed; anything else is put back.
ResolveAside(i, swept, left) ==
  IF AsideIsWitnessed(i)
  THEN IF manifest[i].action = "replace" /\ ~Exists(Path(i))
       THEN /\ disk' = With(Without({Aside(i)}), Path(i), [disk[Aside(i)] EXCEPT !.ctime = "restored"])
            /\ run' = [swept EXCEPT !.restored = @ \union {i}]
       ELSE disk' = Without({Aside(i)}) /\ run' = swept
  ELSE IF manifest[i].action = "replace" /\ disk[Aside(i)].bytes = "new"
       THEN disk' = Without({Aside(i)}) /\ run' = swept
       ELSE PutBack(i, swept, left)

\* One hidden sibling of an earlier attempt; one the host refuses to settle is left
\* and reported.
Sweep(n) ==
  LET swept == [run EXCEPT !.todo = @ \ {n}]
      left == [swept EXCEPT !.reported = @ \union {n}]
  IN /\ run.phase = "sweep"
     /\ \/ n[1] = "hidden" /\ disk' = Without({n}) /\ run' = swept
        \/ n[1] = "aside" /\ ResolveAside(n[2], swept, left)
        \/ run' = left /\ UNCHANGED disk
     /\ UNCHANGED <<overlay, attempt, edits, mine, exposed, changed, synced>>

\* The table of verdict.rs for a file created, replaced or deleted.
Verdict(i) ==
  LET f == disk[Path(i)] IN
  CASE manifest[i].action = "create" ->
         IF ~Exists(Path(i)) THEN "apply" ELSE IF f.bytes = "new" THEN "skip" ELSE "conflict"
    [] manifest[i].action = "replace" ->
         IF ~Exists(Path(i)) THEN "conflict"
         ELSE IF Fingerprint(i, f) /\ (manifest[i].racy => f.bytes = "base") THEN "apply"
         ELSE IF f.bytes = "new" THEN "identical" ELSE "conflict"
    [] manifest[i].action = "delete" ->
         IF ~Exists(Path(i)) THEN "skip" ELSE IF Fingerprint(i, f) THEN "apply" ELSE "conflict"

\* The phases before the first write: every entry has its verdict, and one conflict
\* (or a target that cannot be read) refuses the landing.
Validate ==
  /\ \/ run.phase = "sweep" /\ run.todo = {} /\ run' = [run EXCEPT !.phase = "validate"]
     \/ /\ run.phase = "validate" /\ run.next \in Entries
        /\ \/ run' = [run EXCEPT !.verdict = Append(@, Verdict(run.next)), !.next = @ + 1]
           \/ run' = [run EXCEPT !.phase = "aborted"]
     \/ /\ run.phase = "validate" /\ run.next \notin Entries
        /\ run' = IF \E i \in Entries : run.verdict[i] = "conflict"
                  THEN [run EXCEPT !.phase = "refused"]
                  ELSE [run EXCEPT !.phase = "write", !.next = 1,
                                   !.outcome = [i \in Entries |-> "none"]]
  /\ UNCHANGED <<disk, overlay, attempt, edits, mine, exposed, changed, synced>>
----------------------------------------------------------------------------
(* The write phase: entries in class order, files staged in batches, a batch *)
(* placed only after its barrier.                                            *)

Hold == <<overlay, attempt, edits, mine, exposed, changed, synced>>

\* write_unit runs one of the next four actions, none while a placement is under way.
Writing == run.phase = "write" /\ run.step = "none"

\* The entries given an outcome; one that crashed the landing ends it.
Settled(entries, outcome, crashed) ==
  [run EXCEPT !.outcome = [i \in Entries |-> IF i \in entries THEN outcome ELSE @[i]],
              !.crashed = @ \/ crashed]

\* written_of: a full disk fails the entry, any other refusal the landing too.
Refused(entries) == {Settled(entries, "failed", crashed) : crashed \in BOOLEAN}

Fenced(entries) == Settled(entries, "fenced", FALSE)

InBatch == {run.staged[k].entry : k \in DOMAIN run.staged}
BatchTemps == {run.staged[k].temp : k \in DOMAIN run.staged}
Unstaged(r) == [r EXCEPT !.staged = <<>>, !.placing = FALSE, !.barrier = "idle"]

Stages(i) == run.verdict[i] = "apply" /\ manifest[i].action # "delete"

BatchCloses ==
  \/ run.crashed
  \/ run.next \in Entries =>
       \/ manifest[run.next].action # run.class
       \/ Stages(run.next) /\ Len(run.staged) >= scene.room

Closing == run.staged # <<>> /\ (run.placing \/ BatchCloses)

\* begin_entry: what its verdict says, a file's temporary created or a delete begun.
BeginEntry ==
  LET i == run.next
      begun(r) == [r EXCEPT !.next = @ + 1, !.class = manifest[i].action]
  IN
  /\ Writing /\ run.barrier = "idle" /\ run.copy = NoName /\ ~Closing
  /\ i \in Entries /\ ~run.crashed
  /\ \/ /\ run.verdict[i] # "apply"
        /\ run' = begun(Settled({i}, run.verdict[i], FALSE)) /\ UNCHANGED disk
     \/ /\ run.verdict[i] = "apply"
        /\ run' = begun(Fenced({i})) /\ UNCHANGED disk
     \/ /\ Stages(i)
        /\ run' \in {[begun(r) EXCEPT !.counter = @ + 1] : r \in Refused({i})} /\ UNCHANGED disk
     \/ /\ Stages(i) /\ ~Exists(TempName(run.counter))
        /\ disk' = With(disk, TempName(run.counter), NewFile("temp", "part", FALSE))
        /\ run' = [begun(run) EXCEPT !.copy = TempName(run.counter), !.counter = @ + 1]
     \/ /\ run.verdict[i] = "apply" /\ ~Stages(i)
        /\ run' = [begun(run) EXCEPT !.step = "check", !.at = i] /\ UNCHANGED disk
  /\ UNCHANGED Hold

\* The rest of the copy: staged, or dropped when it is refused or the grant or lease
\* has ended.
CopyFile ==
  LET i == run.next - 1
      copied(r) == [r EXCEPT !.copy = NoName]
  IN
  /\ Writing /\ run.copy # NoName
  /\ \/ /\ disk' = [disk EXCEPT ![run.copy].bytes = "new"]
        /\ run' = [copied(run) EXCEPT !.staged = Append(@, [entry |-> i, temp |-> run.copy])]
     \/ /\ disk' = Without({run.copy})
        /\ run' \in {copied(r) : r \in {Fenced({i})} \union Refused({i})}
  /\ UNCHANGED Hold

\* Mutant: a batch that closes is placed without its barrier.
TakeNoBarrier ==
  /\ Writing /\ run.barrier = "idle" /\ run.copy = NoName /\ Closing /\ ~run.placing
  /\ run' = [run EXCEPT !.placing = TRUE]
  /\ UNCHANGED <<disk, Hold>>

\* A batch that closes takes its barrier, which runs away from the run; a batch that
\* is fenced, refused or abandoned by a crashed landing is removed unplaced.
TakeBarrier ==
  /\ Writing /\ run.barrier = "idle" /\ run.copy = NoName /\ Closing /\ ~run.placing
  /\ \/ ~run.crashed /\ run' = [run EXCEPT !.barrier = "running"] /\ UNCHANGED disk
     \/ /\ disk' = Without(BatchTemps)
        /\ run' \in {Unstaged(r) : r \in IF run.crashed THEN {run}
                                         ELSE {Fenced(InBatch)} \union Refused(InBatch)}
  /\ UNCHANGED Hold

\* The barrier's own thread: every staged file durable, or a refusal.
RunBarrier ==
  /\ run.barrier = "running"
  /\ \/ /\ disk' = [n \in DOMAIN disk |->
                      IF n \in BatchTemps THEN [disk[n] EXCEPT !.durable = TRUE] ELSE disk[n]]
        /\ run' = [run EXCEPT !.barrier = "held"]
     \/ run' = [run EXCEPT !.barrier = "refused"] /\ UNCHANGED disk
  /\ UNCHANGED Hold

EndBarrier ==
  /\ Writing
  /\ \/ /\ run.barrier = "held"
        /\ run' = [run EXCEPT !.barrier = "idle", !.placing = TRUE] /\ UNCHANGED disk
     \/ /\ run.barrier = "refused"
        /\ disk' = Without(BatchTemps)
        /\ run' \in {Unstaged(r) : r \in Refused(InBatch)}
  /\ UNCHANGED Hold

\* place_staged: the next file of the batch begins its placement, or is removed
\* because the grant or lease ended; a crashed landing removes them all.
PlaceStaged ==
  LET file == Head(run.staged)
      taken(r) == [r EXCEPT !.staged = Tail(@), !.placing = Len(run.staged) > 1]
  IN
  /\ Writing /\ run.placing
  /\ \/ /\ run.crashed
        /\ disk' = Without(BatchTemps) /\ run' = Unstaged(run)
     \/ /\ ~run.crashed
        /\ run' = [taken(run) EXCEPT !.step = "place", !.at = file.entry, !.temp = file.temp]
        /\ UNCHANGED disk
     \/ /\ ~run.crashed
        /\ disk' = Without({file.temp}) /\ run' = taken(Fenced({file.entry}))
  /\ UNCHANGED Hold
----------------------------------------------------------------------------
(* One entry's placement or removal, a host call to a step. *)

At == run.at
Goto(step) == [run EXCEPT !.step = step]
GotoEnding(step, ending) == [run EXCEPT !.step = step, !.ending = ending]

\* The entry's outcome recorded.
Ended(r) == [r EXCEPT !.step = "none", !.at = 0, !.temp = NoName, !.before = FALSE, !.ending = "none"]
EndedAs(outcome) == Ended(Settled({At}, outcome, FALSE))
Endings == IF run.ending = "failed" THEN {Ended(r) : r \in Refused({At})} ELSE {EndedAs(run.ending)}
Crashed == Ended(Settled({At}, "failed", TRUE))

\* link_create: a path that appeared meanwhile is a conflict.
LinkCreate ==
  /\ run.step = "place" /\ manifest[At].action = "create"
  /\ IF Exists(Path(At))
     THEN disk' = Without({run.temp}) /\ run' = EndedAs("conflict")
     ELSE disk' = Move(run.temp, Path(At)) /\ run' = EndedAs("written")
  /\ UNCHANGED Hold

\* swap_replace: the complete temporary takes the entry's aside name.
PlaceAside ==
  /\ run.step = "place" /\ manifest[At].action = "replace" /\ ~Exists(Aside(At))
  /\ disk' = Move(run.temp, Aside(At)) /\ run' = Goto("open")
  /\ UNCHANGED Hold

\* The old file opened and its fingerprint read: one that is gone is a conflict, and
\* without an exchange also one that is not the witnessed file.
OpenOld ==
  /\ run.step = "open"
  /\ IF ~Exists(Path(At)) \/ (~host.exchange /\ ~Fingerprint(At, disk[Path(At)]))
     THEN disk' = Without({Aside(At)}) /\ run' = EndedAs("conflict")
     ELSE /\ run' = [Goto(IF host.exchange THEN "exchange" ELSE "restage") EXCEPT
                       !.before = Fingerprint(At, disk[Path(At)])]
          /\ UNCHANGED disk
  /\ UNCHANGED Hold

\* A path that is gone ends the entry, the temporary where it is.
ExchangeNames ==
  /\ run.step = "exchange"
  /\ IF Exists(Path(At))
     THEN disk' = Exchanged(Aside(At), Path(At)) /\ run' = Goto("verify")
     ELSE UNCHANGED disk /\ run' = EndedAs("skipped")
  /\ UNCHANGED Hold

\* The displaced file is removed if it is the witnessed one; if not, or if it cannot
\* be read, the two are exchanged back.
VerifyExchanged ==
  /\ run.step = "verify"
  /\ \/ /\ run.before /\ Displaced(disk[Aside(At)])
        /\ disk' = Without({Aside(At)}) /\ run' = EndedAs("written")
     \/ /\ Exists(Path(At))
        /\ disk' = Exchanged(Aside(At), Path(At))
        /\ run' \in {GotoEnding("own", "failed")} \union
             (IF run.before /\ Displaced(disk[Aside(At)]) THEN {} ELSE {GotoEnding("own", "undone")})
     \/ ~Exists(Path(At)) /\ run' = EndedAs("skipped") /\ UNCHANGED disk
  /\ UNCHANGED Hold

\* Mutant: whatever is at the aside name is removed.
RemoveTempByName ==
  /\ run.step = "own"
  /\ disk' = Without({Aside(At)}) /\ run' \in Endings
  /\ UNCHANGED Hold

\* remove_own_temp: what is not the temporary is kept.
RemoveOwnTemp ==
  /\ run.step = "own"
  /\ \/ /\ disk[Aside(At)].ino = "temp"
        /\ disk' = Without({Aside(At)}) /\ run' \in Endings
     \/ /\ disk[Aside(At)].ino # "temp" /\ ~Exists(KeptName(run.counter))
        /\ disk' = Move(Aside(At), KeptName(run.counter))
        /\ run' \in {[r EXCEPT !.counter = @ + 1, !.reported = @ \union {KeptName(run.counter)}] :
                       r \in Endings}
  /\ UNCHANGED Hold

\* replace_by_renames: the temporary leaves the aside name to the old file.
Restage ==
  /\ run.step = "restage" /\ ~Exists(HiddenName(run.counter))
  /\ disk' = Move(Aside(At), HiddenName(run.counter))
  /\ run' = [Goto("setaside") EXCEPT !.temp = HiddenName(run.counter), !.counter = @ + 1]
  /\ UNCHANGED Hold

\* delete's first look at the entry.
CheckDeleted ==
  /\ run.step = "check"
  /\ run' = IF ~Exists(Path(At)) THEN EndedAs("skip")
            ELSE IF Fingerprint(At, disk[Path(At)]) THEN Goto("setaside") ELSE EndedAs("conflict")
  /\ UNCHANGED <<disk, Hold>>

\* The old file, or the one to delete, is moved aside.
SetAside ==
  /\ run.step = "setaside" /\ ~Exists(Aside(At))
  /\ IF Exists(Path(At))
     THEN disk' = Move(Path(At), Aside(At)) /\ run' = Goto("verifyaside")
     ELSE /\ run' = IF manifest[At].action = "delete" THEN EndedAs("skip")
                    ELSE GotoEnding("unstage", "conflict")
          /\ UNCHANGED disk
  /\ UNCHANGED Hold

\* What was moved is the witnessed file, or goes back.
VerifyAside ==
  /\ run.step = "verifyaside"
  /\ IF AsideIsWitnessed(At)
     THEN IF manifest[At].action = "delete"
          THEN disk' = Without({Aside(At)}) /\ run' = EndedAs("written")
          ELSE run' = Goto("take") /\ UNCHANGED disk
     ELSE PutBack(At, IF manifest[At].action = "delete" THEN EndedAs("undone")
                      ELSE GotoEnding("unstage", "undone"), Crashed)
  /\ UNCHANGED Hold

\* The temporary takes the path; if it was made again meanwhile, or the host refuses,
\* the old file goes back and the temporary goes.
TakeName ==
  /\ run.step = "take"
  /\ \/ /\ ~Exists(Path(At))
        /\ disk' = Move(run.temp, Path(At)) /\ run' = Goto("removeold")
     \/ Exists(Path(At)) /\ run' = GotoEnding("putback", "undone") /\ UNCHANGED disk
     \/ run' = GotoEnding("putback", "failed") /\ UNCHANGED disk
  /\ UNCHANGED Hold

PutOldBack ==
  /\ run.step = "putback"
  /\ PutBack(At, Goto("unstage"), Crashed)
  /\ UNCHANGED Hold

Unstage ==
  /\ run.step = "unstage"
  /\ disk' = Without({run.temp}) /\ run' \in Endings
  /\ UNCHANGED Hold

RemoveOld ==
  /\ run.step = "removeold"
  /\ disk' = Without({Aside(At)}) /\ run' = EndedAs("written")
  /\ UNCHANGED Hold

\* The host refuses a step: the entry fails where it is, its names left for a sweep.
HostRefuses ==
  /\ run.step \notin {"none", "take"}
  /\ disk' = Without({n \in {run.temp} : n[1] = "descriptor"})
  /\ run' \in {Ended(r) : r \in Refused({At})}
  /\ UNCHANGED Hold

Place ==
  \/ LinkCreate \/ PlaceAside \/ OpenOld \/ ExchangeNames \/ VerifyExchanged \/ RemoveOwnTemp
  \/ Restage \/ CheckDeleted \/ SetAside \/ VerifyAside \/ TakeName \/ PutOldBack \/ Unstage
  \/ RemoveOld \/ HostRefuses
----------------------------------------------------------------------------
(* The sync, the advance, outsiders. *)

EndWrites ==
  /\ Writing /\ run.barrier = "idle" /\ run.copy = NoName /\ run.staged = <<>>
  /\ run.next \notin Entries \/ run.crashed
  /\ run' = [run EXCEPT !.phase = "sync"]
  /\ UNCHANGED <<disk, Hold>>

\* sync_one: what the directory holds now survives; synced are the entries it holds
\* in the overlay's state, and those an outsider has changed since.
SyncDir ==
  /\ run.phase = "sync"
  /\ \/ /\ synced' = {i \in Entries : Goal(i, disk) \/ i \in changed}
        /\ run' = [run EXCEPT !.phase = "advance"]
     \/ /\ run' \in {[run EXCEPT !.phase = "advance", !.unsynced = TRUE, !.crashed = @ \/ crashed] :
                       crashed \in BOOLEAN}
        /\ UNCHANGED synced
  /\ UNCHANGED <<disk, overlay, attempt, edits, mine, exposed, changed>>

\* The outcomes that take an entry out of the overlay.
Advances == {"written", "identical", "skip"}

\* Mutant: a sync the host refused does not keep the entries in the overlay.
AdvanceUnsynced ==
  LET landed == {i \in Entries : run.outcome[i] \in Advances} IN
  /\ run.phase = "advance"
  /\ overlay' = IF run.crashed THEN overlay ELSE overlay \ landed
  /\ run' = [run EXCEPT !.phase = IF run.crashed THEN "aborted"
                                  ELSE IF landed = Entries THEN "done" ELSE "partial"]
  /\ UNCHANGED <<disk, attempt, edits, mine, exposed, changed, synced>>

\* The finish: its records commit as one, so it is one step.
Advance ==
  LET landed == {i \in Entries : run.outcome[i] \in Advances} IN
  /\ run.phase = "advance"
  /\ overlay' = IF run.crashed \/ run.unsynced THEN overlay ELSE overlay \ landed
  /\ run' = [run EXCEPT !.phase = IF run.crashed THEN "aborted"
                                  ELSE IF landed = Entries /\ ~run.unsynced THEN "done" ELSE "partial"]
  /\ UNCHANGED <<disk, attempt, edits, mine, exposed, changed, synced>>

\* Another program edits the file at a path, puts another in its place, removes it or
\* changes its metadata only.  It may write what the overlay holds.
Outsider(i) ==
  LET here == IF Exists(Path(i)) THEN {disk[Path(i)].bytes} ELSE {}
      written == {"new"} \union Fresh(mine \union exposed \union {disk[n].bytes : n \in DOMAIN disk})
      unverified == run.at = i /\ run.step = "verify" /\ disk[Path(i)].ino = "temp"
  IN
    /\ edits > 0
    /\ \/ \E c \in written :
            /\ mine' = (mine \ here) \union ({c} \ {"new"})
            /\ \/ /\ Exists(Path(i))
                  /\ disk' = [disk EXCEPT ![Path(i)] = NewFile(@.ino, c, TRUE)]
                  /\ exposed' = IF unverified THEN exposed \union ({c} \ {"new"}) ELSE exposed
               \/ disk' = With(disk, Path(i), NewFile("out", c, TRUE)) /\ UNCHANGED exposed
       \/ Exists(Path(i)) /\ disk' = Without({Path(i)}) /\ mine' = mine \ here /\ UNCHANGED exposed
       \/ /\ Exists(Path(i))
          /\ disk' = [disk EXCEPT ![Path(i)].ctime = "later"] /\ UNCHANGED <<mine, exposed>>
    /\ edits' = edits - 1 /\ changed' = changed \union {i}
    /\ UNCHANGED <<overlay, run, attempt, synced>>

Next ==
  /\ \/ Begin \/ Abandon \/ (\E n \in run.todo : Sweep(n)) \/ Validate
     \/ BeginEntry \/ CopyFile \/ TakeBarrier \/ RunBarrier \/ EndBarrier \/ PlaceStaged \/ Place
     \/ EndWrites \/ SyncDir \/ Advance
     \/ \E i \in Entries : Outsider(i)
  /\ reached' = {i \in Entries : Goal(i, disk')} \union (IF attempt' = attempt THEN reached ELSE {})
  /\ UNCHANGED scene

Spec == Init /\ [][Next]_landVars
----------------------------------------------------------------------------
\* "nothing an outsider put at a name is removed in the witnessed entry's place"
\* (engine.rs:20): what an outsider wrote and has not removed itself is at some name of the
\* directory, whatever the landing moved, removed or put back, and wherever it stopped.
NothingIsLost == mine \subseteq {disk[n].bytes : n \in DOMAIN disk}

\* A landing loses nothing of an outsider's but what was written in one of two places: in
\* place into the landing's own file, between the exchange and its undoing, or into a file
\* the overlay deletes, inside the timestamp window of its witness (exchange_and_verify,
\* remove_own_temp, set_file_aside, delete, resolve_aside).
NoOutsiderLoss == mine \ exposed \subseteq {disk[n].bytes : n \in DOMAIN disk}

\* A path never holds a file of the landing's whose bytes are not all written and
\* durable: the barrier of the batch precedes every placement, so a power loss leaves
\* the old file or the new one (barrier_unit, place_staged).
NeverTorn == \A i \in Entries : Exists(Path(i)) => disk[Path(i)].durable

\* A file that is replaced and that no outsider has touched is old or new at its path
\* at every moment; without an exchange it may be absent, and the old one is then
\* aside (swap_replace, replace_by_renames, resolve_aside).
OldOrNew ==
  \A i \in Entries :
    (manifest[i].action = "replace" /\ edits = scene.edits) =>
      \/ Exists(Path(i)) /\ disk[Path(i)].bytes \in {"base", "new"}
      \/ ~host.exchange /\ Exists(Aside(i)) /\ disk[Aside(i)].bytes = "base"

\* An entry leaves the overlay only after its path has held the overlay's state and,
\* unless an outsider changed it since, a directory sync has made that durable
\* (durable, advance_step, advances).
WorkIsKept == \A i \in Entries \ overlay : i \in reached /\ i \in synced

\* A landing that reports Done has left nothing at its hidden names that it has not
\* reported, those of earlier attempts included (sweep_parent, Degradation::Leftover).
DoneLeavesNothing ==
  run.phase = "done" =>
    \A n \in DOMAIN disk : n[1] \in {"path", "kept"} \/ n \in run.reported
=============================================================================
