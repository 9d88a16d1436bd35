------------------------------ MODULE Runtime ------------------------------
(***************************************************************************)
(* One slot of the shard registry (crates/rt/src/registry.rs), the shard   *)
(* that holds it (rt/src/shard.rs), the parking protocol between the shard *)
(* and its senders (rt/src/parking.rs) and the ring the wakes travel on    *)
(* (MpscRing).  Senders run on threads of their own; the owner is the      *)
(* thread that starts the shard, shuts it down, joins it and retires the   *)
(* slot.  A sender addresses a wake word to the slot and a control message *)
(* to one registration of it (SlotHolder).                                 *)
(*                                                                         *)
(* Left out: the pair rings between two shards (their kick is              *)
(* unconditional), what a task does when it is woken, the idle spin before *)
(* a park (it only looks), and the wake-time measurement.  The driver's    *)
(* wait may end for a timer or a completion at any time, and nothing       *)
(* relies on it.                                                           *)
(***************************************************************************)
EXTENDS MpscRing, FiniteSets

CONSTANTS Peer,             \* the senders that are workers of the shard's runtime
          Programs,         \* what the senders may send: "word" or "control", in order
          Batch,            \* config.batch: messages one step drains
          ControlBound,     \* the control channel's capacity
          MaxRegistrations  \* times the slot is registered (a bound)

\* Every caller and the shard run on threads of their own.
ASSUME RuntimeAssumption ==
  /\ IsFiniteSet(Sender) /\ Peer \subseteq Sender
  /\ Owner \notin Sender /\ Shard \notin Sender \cup {Owner}
  /\ \A senders \in Programs : senders \in [Sender -> Seq({"word", "control"})]

VARIABLES program,  \* what each sender sends in this behaviour
          at,       \* where each caller of the registry is in its code
          sends,    \* sends each sender has begun
          task,     \* what each caller sends, to whom, and the entry it reached
          shard,    \* the shard's loop
          pending,  \* ControlFlag.pending
          control,  \* the control channel, oldest first
          kicked,   \* the driver's sticky kick
          slot,     \* the registry slot
          owner,    \* where the owner is in the slot's life
          taken     \* the word the shard is handling

ringVars == <<memory, buffer, tail, head, reg>>
vars == <<memory, buffer, tail, head, reg, program, at, sends, task, shard, pending,
          control, kicked, slot, owner, taken>>

Caller == Sender \cup {Owner}
Word ==
  UNION {{[by |-> p, n |-> n] : n \in DOMAIN senders[p]} : p \in Sender, senders \in Programs}
Registration == {2 * g : g \in 1 .. MaxRegistrations}

\* What a caller holds between two calls, and a wake word's task: no holder.
NoTask == [kind |-> "word", to |-> 0, entry |-> 0]

\* Entry fields of a registration: nothing queued or pending, nobody parked.
NewMemory ==
  [location \in RingLocation \cup {Parked} |->
     IF location = Parked THEN FALSE ELSE NewRing[location]]
NewShard == [pc |-> "take", work |-> FALSE, drained |-> 0, shuttingDown |-> FALSE]

Init ==
  /\ memory = NewMemory
  /\ buffer = [t \in Thread |-> <<>>]
  /\ tail = 0
  /\ head = 0
  /\ reg = [p \in Sender |-> 0]
  /\ program \in Programs
  /\ at = [c \in Caller |-> "idle"]
  /\ sends = [p \in Sender |-> 0]
  /\ task = [c \in Caller |-> NoTask]
  /\ shard = [NewShard EXCEPT !.pc = "reclaimed"]
  /\ pending = FALSE
  /\ control = <<>>
  /\ kicked = FALSE
  /\ slot = [generation |-> 1, entry |-> 0, heap |-> 0, readers |-> 0, exited |-> FALSE]
  /\ owner = "free"
  /\ taken = NoWord

Goto(c, pc) == at' = [at EXCEPT ![c] = pc]

\* The reader's count drops as it leaves: for good, or to come back and try
\* again; the registers of its call are gone.
Leave(c, pc) ==
  /\ Goto(c, pc)
  /\ task' = IF pc = "idle" THEN [task EXCEPT ![c] = NoTask] ELSE task
  /\ reg' = [p \in Sender |-> IF p = c THEN 0 ELSE reg[p]]
  /\ slot' = [slot EXCEPT !.readers = @ - 1]
  /\ UNCHANGED <<memory, buffer, tail, head>>

-----------------------------------------------------------------------------
(* with_entry: a caller counts itself, reads the entry, and works on it *)

\* A sender starts: a wake word to the slot, or a control message to a holder
\* it read from the slot earlier (holder_of), which may be gone by now.
Send(p) ==
  /\ at[p] = "idle"
  /\ p \in Peer => owner \in {"running", "stopping"}
  /\ sends[p] < Len(program[p])
  /\ sends' = [sends EXCEPT ![p] = @ + 1]
  /\ IF program[p][sends[p] + 1] = "word"
     THEN UNCHANGED task
     ELSE \E g \in {r \in Registration : r <= slot.generation} :
            task' = [task EXCEPT ![p] = [kind |-> "control", to |-> g, entry |-> 0]]
  /\ Goto(p, "read")
  /\ slot' = [slot EXCEPT !.readers = @ + 1]
  /\ UNCHANGED <<ringVars, program, shard, pending, control, kicked, owner, taken>>

\* A word handed back by a full ring, and the owner's refused shutdown, again.
Retry(c) ==
  /\ at[c] = "retry"
  /\ Goto(c, "read")
  /\ slot' = [slot EXCEPT !.readers = @ + 1]
  /\ UNCHANGED <<ringVars, program, sends, task, shard, pending, control, kicked, owner, taken>>

ReadEntry(c) ==
  /\ at[c] = "read"
  /\ IF slot.entry = 0
     THEN Leave(c, "idle")
     ELSE /\ Goto(c, "inside")
          /\ task' = [task EXCEPT ![c].entry = slot.entry]
          /\ UNCHANGED <<ringVars, slot>>
  /\ UNCHANGED <<program, sends, shard, pending, control, kicked, owner, taken>>

-----------------------------------------------------------------------------
(* try_send_foreign: a wake word *)

BeginPush(p) ==
  /\ at[p] = "inside"
  /\ task[p].kind = "word"
  /\ IF slot.exited
     THEN Leave(p, "idle")
     ELSE Goto(p, "check") /\ LoadTail(p) /\ UNCHANGED <<task, slot>>
  /\ UNCHANGED <<program, sends, shard, pending, control, kicked, owner, taken>>

\* The slot's sequence decides: claim it, follow the tail, or refuse and kick.
CheckSlot(p) ==
  /\ at[p] = "check"
  /\ \/ Free(p) /\ Goto(p, "claim") /\ UNCHANGED <<ringVars, kicked, task, slot>>
     \/ Overtaken(p) /\ LoadTail(p) /\ UNCHANGED <<at, kicked, task, slot>>
     \/ Full(p) /\ kicked' = TRUE /\ Leave(p, "retry")
  /\ UNCHANGED <<program, sends, shard, pending, control, owner, taken>>

WordInHand(p) == [by |-> p, n |-> sends[p]]

\* The claim; the stores that publish the word follow it into the buffer.
ClaimSlot(p) ==
  /\ at[p] = "claim"
  /\ \/ ClaimAndPublish(p, WordInHand(p)) /\ Goto(p, "fence")
     \/ MissedClaim(p) /\ Goto(p, "check")
  /\ UNCHANGED <<program, sends, task, shard, pending, control, kicked, slot, owner, taken>>

-----------------------------------------------------------------------------
(* send_control_to, reached by holder (a sender) or by slot (the owner) *)

\* Mutant: the holder is not compared.
TrySendToAnyone(c) ==
  /\ at[c] = "inside"
  /\ task[c].kind # "word"
  /\ IF shard.pc # "reclaimed" /\ Len(control) < ControlBound
     THEN /\ control' = Append(control, [kind |-> task[c].kind, to |-> task[c].to])
          /\ Goto(c, "flag")
          /\ UNCHANGED <<ringVars, task, slot>>
     ELSE /\ Leave(c, IF shard.pc # "reclaimed" /\ c = Owner THEN "retry" ELSE "idle")
          /\ UNCHANGED control
  /\ UNCHANGED <<program, sends, shard, pending, kicked, owner, taken>>

\* The message is queued, or refused: another registration holds the slot, the
\* receiver is gone, or the channel is full (the owner tries again: stop).
TrySend(c) ==
  /\ at[c] = "inside"
  /\ task[c].kind # "word"
  /\ LET refused == \/ task[c].kind = "control" /\ task[c].to # task[c].entry
                    \/ shard.pc = "reclaimed"
         full == Len(control) >= ControlBound
     IN IF ~refused /\ ~full
        THEN /\ control' = Append(control, [kind |-> task[c].kind, to |-> task[c].to])
             /\ Goto(c, "flag")
             /\ UNCHANGED <<ringVars, task, slot>>
        ELSE /\ Leave(c, IF ~refused /\ c = Owner THEN "retry" ELSE "idle")
             /\ UNCHANGED control
  /\ UNCHANGED <<program, sends, shard, pending, kicked, owner, taken>>

\* ControlFlag::publish.
PublishFlag(c) ==
  /\ at[c] = "flag"
  /\ pending' = TRUE
  /\ Goto(c, "fence")
  /\ UNCHANGED <<ringVars, program, sends, task, shard, control, kicked, slot, owner, taken>>

-----------------------------------------------------------------------------
(* Parking::kick_if_parked *)

\* Mutant: no fence before the announcement is read.
KickUnfenced(c) ==
  /\ at[c] = "fence"
  /\ IF memory[Parked]
     THEN Goto(c, "kick") /\ UNCHANGED <<ringVars, task, slot>>
     ELSE Leave(c, "idle")
  /\ UNCHANGED <<program, sends, shard, pending, control, kicked, owner, taken>>

KickIfParked(c) ==
  /\ at[c] = "fence"
  /\ Fence(c)
  /\ IF memory[Parked]
     THEN Goto(c, "kick") /\ UNCHANGED <<ringVars, task, slot>>
     ELSE Leave(c, "idle")
  /\ UNCHANGED <<program, sends, shard, pending, control, kicked, owner, taken>>

Kick(c) ==
  /\ at[c] = "kick"
  /\ kicked' = TRUE
  /\ Leave(c, "idle")
  /\ UNCHANGED <<program, sends, shard, pending, control, owner, taken>>

-----------------------------------------------------------------------------
(* the shard: run, step, drain_control, drain_inbound, park *)

senderVars == <<program, at, sends, task>>

\* ControlFlag::take, one read-modify-write (it drains the thread's stores, as on
\* the hosts built for); a step begins with it.
TakeControl ==
  /\ shard.pc = "take"
  /\ Fence(Shard)
  /\ pending' = FALSE
  /\ shard' = [shard EXCEPT !.pc = IF pending THEN "receive" ELSE "pop", !.work = FALSE]
  /\ UNCHANGED <<ringVars, senderVars, control, kicked, slot, owner, taken>>

\* Mutant: a drain that stops at its batch leaves the flag down.
ReceiveOnce ==
  /\ shard.pc = "receive"
  /\ IF control = <<>>
     THEN /\ shard' = [shard EXCEPT !.pc = "pop", !.drained = 0]
          /\ UNCHANGED control
     ELSE LET last == shard.drained + 1 = Batch
          IN /\ control' = Tail(control)
             /\ shard' = [pc |-> IF last THEN "pop" ELSE "receive",
                          work |-> TRUE,
                          drained |-> IF last THEN 0 ELSE shard.drained + 1,
                          shuttingDown |-> \/ shard.shuttingDown
                                           \/ Head(control).kind = "shutdown"]
  /\ UNCHANGED <<ringVars, senderVars, pending, kicked, slot, owner, taken>>

\* One message of the drain; the batch's last one arms the flag again.
Receive ==
  /\ shard.pc = "receive"
  /\ IF control = <<>>
     THEN /\ shard' = [shard EXCEPT !.pc = "pop", !.drained = 0]
          /\ UNCHANGED <<control, pending>>
     ELSE LET last == shard.drained + 1 = Batch
          IN /\ control' = Tail(control)
             /\ pending' = (pending \/ last)
             /\ shard' = [pc |-> IF last THEN "pop" ELSE "receive",
                          work |-> TRUE,
                          drained |-> IF last THEN 0 ELSE shard.drained + 1,
                          shuttingDown |-> \/ shard.shuttingDown
                                           \/ Head(control).kind = "shutdown"]
  /\ UNCHANGED <<ringVars, senderVars, kicked, slot, owner, taken>>

StoreParked(value) ==
  /\ buffer' = [buffer EXCEPT ![Shard] = Append(@, Store(Parked, value))]
  /\ UNCHANGED <<memory, tail, head, reg>>

ShardGoto(pc) == shard' = [shard EXCEPT !.pc = pc, !.drained = 0]

\* Mutant: the loop is left without note_exited.
SettleUnnoted ==
  \/ /\ shard.shuttingDown
     /\ ShardGoto("exited")
     /\ UNCHANGED <<ringVars, slot>>
  \/ /\ ~shard.shuttingDown
     /\ shard.work
     /\ ShardGoto("take")
     /\ UNCHANGED <<ringVars, slot>>
  \/ /\ ~shard.shuttingDown
     /\ ~shard.work
     /\ ShardGoto("recheck")
     /\ StoreParked(TRUE)
     /\ UNCHANGED slot

\* The end of a step: leave the loop (note_exited), go round again, or announce
\* a park.
Settle ==
  \/ /\ shard.shuttingDown
     /\ ShardGoto("exited")
     /\ slot' = [slot EXCEPT !.exited = TRUE]
     /\ UNCHANGED ringVars
  \/ /\ ~shard.shuttingDown
     /\ shard.work
     /\ ShardGoto("take")
     /\ UNCHANGED <<ringVars, slot>>
  \/ /\ ~shard.shuttingDown
     /\ ~shard.work
     /\ ShardGoto("recheck")
     /\ StoreParked(TRUE)
     /\ UNCHANGED slot

\* One word of drain_inbound; an unpublished head or a whole batch ends it, and
\* the step with it.
PopWord ==
  /\ shard.pc = "pop"
  /\ IF Ready /\ shard.drained < Batch
     THEN /\ Pop
          /\ taken' = Oldest
          /\ shard' = [shard EXCEPT !.work = TRUE, !.drained = @ + 1]
          /\ UNCHANGED slot
     ELSE /\ Settle
          /\ taken' = NoWord
  /\ UNCHANGED <<senderVars, pending, control, kicked, owner>>

\* Mutant: the announcement is not fenced from the re-check.
RecheckUnfenced ==
  /\ shard.pc = "recheck"
  /\ IF Ready \/ pending
     THEN StoreParked(FALSE) /\ ShardGoto("take")
     ELSE UNCHANGED ringVars /\ ShardGoto("wait")
  /\ UNCHANGED <<senderVars, pending, control, kicked, slot, owner, taken>>

\* has_inbound: a waiting word or message withdraws the announcement.
Recheck ==
  /\ shard.pc = "recheck"
  /\ Fence(Shard)
  /\ IF Ready \/ pending
     THEN StoreParked(FALSE) /\ ShardGoto("take")
     ELSE UNCHANGED ringVars /\ ShardGoto("wait")
  /\ UNCHANGED <<senderVars, pending, control, kicked, slot, owner, taken>>

\* The driver's wait ends for a kick sent during it or before it.
Woken ==
  /\ shard.pc = "wait"
  /\ kicked
  /\ kicked' = FALSE
  /\ StoreParked(FALSE)
  /\ ShardGoto("take")
  /\ UNCHANGED <<senderVars, pending, control, slot, owner, taken>>

\* It ends for a timer or a completion.
WaitEnds ==
  /\ shard.pc = "wait"
  /\ StoreParked(FALSE)
  /\ ShardGoto("take")
  /\ UNCHANGED <<senderVars, pending, control, kicked, slot, owner, taken>>

\* reclaim_context: the context and the channel's receiver go; the thread ends.
Reclaim ==
  /\ shard.pc = "exited"
  /\ Fence(Shard)
  /\ ShardGoto("reclaimed")
  /\ UNCHANGED <<ringVars, senderVars, pending, control, kicked, slot, owner, taken>>

-----------------------------------------------------------------------------
(* the owner: register_slot, stop and unregister *)

Register ==
  /\ owner = "free"
  /\ slot.generation + 1 \in Registration
  /\ slot' = [slot EXCEPT !.generation = @ + 1, !.entry = slot.generation + 1,
                          !.heap = slot.generation + 1, !.exited = FALSE]
  /\ shard' = NewShard
  /\ owner' = "running"
  /\ UNCHANGED <<ringVars, senderVars, pending, control, kicked, taken>>

\* stop sends the shutdown ...
Stop ==
  /\ owner = "running"
  /\ owner' = "stopping"
  /\ task' = [task EXCEPT ![Owner] = [kind |-> "shutdown", to |-> slot.generation, entry |-> 0]]
  /\ Goto(Owner, "read")
  /\ slot' = [slot EXCEPT !.readers = @ + 1]
  /\ UNCHANGED <<ringVars, program, sends, shard, pending, control, kicked, taken>>

\* ... joins the thread and the runtime's others, and only then unregisters: the
\* pointer goes first ...
JoinAndClear ==
  /\ owner = "stopping"
  /\ at[Owner] = "idle"
  /\ \A p \in Peer : at[p] = "idle"
  /\ shard.pc = "reclaimed"
  /\ slot' = [slot EXCEPT !.entry = 0]
  /\ owner' = "clearing"
  /\ UNCHANGED <<ringVars, senderVars, shard, pending, control, kicked, taken>>

\* Mutant: the entry is dropped under its readers.
RetireAtOnce ==
  /\ owner = "clearing"
  /\ slot' = [slot EXCEPT !.heap = 0, !.generation = @ + 1]
  /\ memory' = NewMemory
  /\ tail' = 0
  /\ head' = 0
  /\ pending' = FALSE
  /\ control' = <<>>
  /\ kicked' = FALSE
  /\ owner' = "free"
  /\ UNCHANGED <<buffer, reg, senderVars, shard, taken>>

\* ... the entry once no reader is counted, with all it holds, and then the
\* generation.  The next registration allocates a new one.
Retire ==
  /\ owner = "clearing"
  /\ slot.readers = 0
  /\ slot' = [slot EXCEPT !.heap = 0, !.generation = @ + 1]
  /\ memory' = NewMemory
  /\ tail' = 0
  /\ head' = 0
  /\ pending' = FALSE
  /\ control' = <<>>
  /\ kicked' = FALSE
  /\ owner' = "free"
  /\ UNCHANGED <<buffer, reg, senderVars, shard, taken>>

-----------------------------------------------------------------------------
FlushStore(t) ==
  /\ Flush(t)
  /\ UNCHANGED <<senderVars, shard, pending, control, kicked, slot, owner, taken>>

CallerStep(c) ==
  \/ Retry(c) \/ ReadEntry(c) \/ TrySend(c) \/ PublishFlag(c)
  \/ KickIfParked(c) \/ Kick(c)

PushStep(p) == BeginPush(p) \/ CheckSlot(p) \/ ClaimSlot(p)

ShardStep ==
  \/ TakeControl \/ Receive \/ PopWord \/ Recheck \/ Woken \/ Reclaim

Next ==
  \/ \E p \in Sender : Send(p) \/ PushStep(p)
  \/ \E c \in Caller : CallerStep(c)
  \/ \E t \in Thread : FlushStore(t)
  \/ ShardStep
  \/ WaitEnds
  \/ Register \/ Stop \/ JoinAndClear \/ Retire

\* Every thread keeps running and every store reaches memory.  Nobody has to
\* send, stop the shard or start another, and no timer has to fire.
Fairness ==
  /\ \A p \in Sender : WF_vars(PushStep(p))
  /\ \A c \in Caller : WF_vars(CallerStep(c))
  /\ \A t \in Thread : WF_vars(FlushStore(t))
  /\ WF_vars(ShardStep)
  /\ WF_vars(JoinAndClear \/ Retire)

Spec == Init /\ [][Next]_vars /\ Fairness

-----------------------------------------------------------------------------
(* Properties *)

Using(c) == at[c] \in {"inside", "check", "claim", "flag", "fence", "kick"}

\* A foreign reader works only on the registration that is allocated: unregister
\* drops the entry after the pointer is gone and no reader is counted, however
\* long a reader is descheduled between its count and its read (registry.rs,
\* with_entry against unregister).
NoUseAfterFree == \A c \in Caller : Using(c) => task[c].entry = slot.heap

\* A control message addressed to one registration never waits in the channel of
\* a later one (SlotHolder, send_control_to_holder).
NoStranger == \A i \in DOMAIN control : control[i].to = slot.heap

\* A shard asleep with work it could see and no kick on its way has a sender
\* that published that work and has still to look at the announcement, which it
\* will find in memory (parking.rs: the announcement, the two fences, the
\* re-check).
NoLostWake ==
  shard.pc = "wait" /\ ~kicked /\ (Ready \/ pending) =>
    /\ \E c \in Caller : at[c] \in {"fence", "kick"}
    /\ Load(Shard, Parked) = TRUE /\ memory[Parked] = TRUE

\* The word at a claimed position: still in its sender's hands, or in memory.
WordAt(position) ==
  LET holders == {p \in Sender : reg[p] = position /\ buffer[p] # <<>>}
  IN IF holders = {} THEN memory[WordOf(Slot(position))]
     ELSE WordInHand(CHOOSE p \in holders : TRUE)

Queue ==
  INSTANCE BoundedQueue
    WITH queue <- [i \in 1 .. tail - head |-> WordAt(head + i - 1)], taken <- taken

\* The ring, its claims and its buffered stores included, is a bounded queue: no
\* word is lost, doubled or overtaken, and the shard takes the word that was
\* pushed (mpsc.rs, push and pop).
RingIsAQueue == Queue!Spec

Waiting(w) == \E i \in 1 .. tail - head : WordAt(head + i - 1) = w

\* Every word pushed is taken by the shard or goes with its registration: no wake
\* is slept through (shard.rs park, registry.rs try_send_foreign).
EveryWordIsTaken == \A w \in Word : Waiting(w) ~> ~Waiting(w)

\* Every send returns: a sender never spins on the full ring of a shard that has
\* left its loop (registry.rs send_foreign, note_exited).
EverySendReturns == \A p \in Sender : at[p] # "idle" ~> at[p] = "idle"

\* A stop ends: the shutdown is delivered past a full channel and a batch-limited
\* drain, the shard leaves its loop and the slot is freed (runtime.rs stop).
EveryStopEnds == owner = "stopping" ~> owner = "free"
=============================================================================
