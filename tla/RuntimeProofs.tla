---------------------------- MODULE RuntimeProofs ---------------------------
(***************************************************************************)
(* Proofs about the runtime of one shard: the registry's part of the       *)
(* invariant (the readers counted in a slot are the callers inside it, and *)
(* a retired entry is freed only once there are none), the whole invariant *)
(* with the ring's (RingProofs), and the theorems.                         *)
(***************************************************************************)
EXTENDS RingProofs, FiniteSetTheorems

\* Zenon proves a leaf, but where it names the SMT solver.
USE ZenonT(20)

USE RuntimeAssumption, CapacityAssumption

\* The readers are finitely many.
LEMMA ReadersFinite == IsFiniteSet(Readers) /\ Cardinality(Readers) \in Nat
<1>1. IsFiniteSet(Caller)
  BY FS_AddElement DEF Caller
<1>2. Readers \in SUBSET Caller
  BY DEF Readers
<1> QED
  BY <1>1, <1>2, FS_Subset, FS_CardinalityType

\* The registry's part of the invariant is inductive by itself.
LEMMA RegistryStep == RegistryInv /\ [Next]_vars => RegistryInv'
(* The registry. *)
\* A caller that counts itself in or out changes the slot's count alone.
<1>CountType. ASSUME slot \in SlotType,
                     slot' = [slot EXCEPT !.readers = @ + 1] \/ slot' = [slot EXCEPT !.readers = @ - 1]
              PROVE  /\ slot' \in SlotType
                     /\ slot'.entry = slot.entry /\ slot'.heap = slot.heap
                     /\ slot'.generation = slot.generation /\ slot'.exited = slot.exited
  <2> USE <1>CountType
  <2>1. \E n \in Int : slot' = [slot EXCEPT !.readers = n]
    BY SMTT(60) DEF SlotType
  <2> QED
    BY <2>1 DEF SlotType
\* The entry a caller reads changes nothing else of what it sends.
<1>EntryType. ASSUME task \in [Caller -> TaskType], NEW c \in Caller, NEW e \in Nat,
                     task' = [task EXCEPT ![c].entry = e]
              PROVE  /\ task' \in [Caller -> TaskType]
                     /\ task'[c].entry = e
                     /\ \A d \in Caller : task'[d].kind = task[d].kind /\ task'[d].to = task[d].to
                     /\ \A d \in Caller \ {c} : task'[d] = task[d]
  <2> USE <1>EntryType
  <2>1. \E t \in TaskType : /\ t.entry = e /\ t.kind = task[c].kind /\ t.to = task[c].to
                            /\ task' = [task EXCEPT ![c] = t]
    <3>1. [task[c] EXCEPT !.entry = e] \in TaskType
      BY DEF TaskType
    <3> QED
      BY <3>1 DEF TaskType
  <2> QED
    BY <2>1
\* A caller that counts itself is counted ...
<1>Enters. ASSUME RegistryType, Counted, NEW c \in Caller, at[c] \in {"idle", "retry"},
                  at' = [at EXCEPT ![c] = "read"], slot' = [slot EXCEPT !.readers = @ + 1]
           PROVE  Counted'
  <2> USE <1>Enters
  <2>1. Readers' = Readers \cup {c} /\ c \notin Readers
    BY SMTT(60) DEF RegistryType, Readers
  <2>2. slot'.readers = slot.readers + 1
    BY DEF RegistryType, SlotType
  <2> QED
    BY <2>1, <2>2, ReadersFinite, FS_AddElement DEF Counted
\* ... one that leaves no longer is ...
<1>Leaves. ASSUME RegistryType, Counted, NEW c \in Caller, at[c] \notin {"idle", "retry"},
                  NEW pc \in {"idle", "retry"}, Leave(c, pc)
           PROVE  Counted'
  <2> USE <1>Leaves
  <2>1. Readers' = Readers \ {c} /\ c \in Readers
    BY DEF RegistryType, Readers, Leave, Goto
  <2>2. slot'.readers = slot.readers - 1
    BY DEF RegistryType, Leave, SlotType
  <2> QED
    BY <2>1, <2>2, ReadersFinite, FS_RemoveElement DEF Counted
\* ... and one that works on its entry stays counted.
<1>Stays. ASSUME RegistryType, Counted, NEW c \in Caller, at[c] \notin {"idle", "retry"},
                 NEW pc \in Points \ {"idle", "retry"}, at' = [at EXCEPT ![c] = pc],
                 slot'.readers = slot.readers
          PROVE  Counted'
  <2> USE <1>Stays
  <2>1. Readers' = Readers
    BY DEF RegistryType, Readers
  <2> QED
    BY <2>1 DEF Counted
\* A caller that leaves disturbs nothing the registry promises.
<1>LeaveKeepsRegistry. ASSUME RegistryInv, NEW c \in Caller, at[c] \notin {"idle", "retry"},
                              NEW pc \in {"idle", "retry"}, Leave(c, pc),
                              UNCHANGED <<program, sends, shard, pending, control, owner>>, kicked' \in BOOLEAN
                       PROVE  RegistryInv'
  <2> USE <1>LeaveKeepsRegistry
  <2> USE DEF RegistryInv
  <2>1. /\ at' = [at EXCEPT ![c] = pc]
        /\ slot' = [slot EXCEPT !.readers = @ - 1]
        /\ task' = IF pc = "idle" THEN [task EXCEPT ![c] = NoTask] ELSE task
    BY DEF Leave, Goto
  <2>2. RegistryType'
    <3>1. task' \in [Caller -> TaskType]
      BY <2>1 DEF RegistryType, NoTask, TaskType
    <3>2. slot' \in SlotType
      BY <2>1, <1>CountType DEF RegistryType
    <3>4. at' \in [Caller -> Points]
      BY <2>1 DEF RegistryType, Points
    <3>3. \A p \in Sender : sends[p] <= Len(program[p]) /\ (at'[p] # "idle" => sends[p] > 0)
      BY <2>1 DEF RegistryType, Caller
    <3> QED
      BY <3>1, <3>2, <3>3, <3>4 DEF RegistryType
  <2>3. Counted'
    BY <1>Leaves
  <2>4. Life' /\ NoStranger'
    BY <2>1 DEF Life, NoStranger, RegistryType, SlotType
  <2>5. Inside' /\ OwnerCall'
    BY <2>1 DEF SlotType, Inside, OwnerCall, RegistryType, Using, NoTask, Caller
  <2> QED
    BY <2>2, <2>3, <2>4, <2>5
\* One that goes on with its entry neither.
<1>StayKeepsRegistry. ASSUME RegistryInv, NEW c \in Caller, Using(c), NEW pc \in Points, pc \notin {"idle", "retry", "read"},
                             at' = [at EXCEPT ![c] = pc],
                             UNCHANGED <<program, sends, task, shard, slot, owner>>,
                             pending' \in BOOLEAN, kicked' \in BOOLEAN, control' \in Seq([kind : {"control", "shutdown"}, to : Nat]),
                             \A i \in DOMAIN control' : control'[i].to = slot.heap
                      PROVE  RegistryInv'
  <2> USE <1>StayKeepsRegistry
  <2> USE DEF RegistryInv
  <2>1. RegistryType'
    BY DEF RegistryType, Using, Caller
  <2>2. Counted'
    BY <1>Stays DEF Using
  <2>3. owner # "free"
    BY DEF Inside, Life
  <2>4. Life' /\ NoStranger'
    BY <2>3 DEF Life, NoStranger, RegistryType
  <2>5. Inside' /\ OwnerCall'
    BY DEF Inside, OwnerCall, RegistryType, Using, Caller
  <2> QED
    BY <2>1, <2>2, <2>4, <2>5
\* One that counts itself neither, whatever it is about to send.
<1>EnterKeepsRegistry. ASSUME RegistryInv, NEW c \in Caller, at[c] \in {"idle", "retry"},
                              at' = [at EXCEPT ![c] = "read"], slot' = [slot EXCEPT !.readers = @ + 1],
                              UNCHANGED <<program, shard, pending, control, kicked>>,
                              sends' \in [Sender -> Nat],
                              \A p \in Sender : sends'[p] <= Len(program[p]) /\ (at'[p] # "idle" => sends'[p] > 0),
                              task' \in [Caller -> TaskType],
                              \A d \in Caller \ {c} : task'[d] = task[d],
                              owner' = owner \/ (owner = "running" /\ owner' = "stopping"),
                              OwnerCall'
                       PROVE  RegistryInv'
  <2> USE <1>EnterKeepsRegistry
  <2> USE DEF RegistryInv
  <2>1. slot' \in SlotType /\ slot'.entry = slot.entry /\ slot'.heap = slot.heap
        /\ slot'.generation = slot.generation
    BY <1>CountType DEF RegistryType
  <2>2. RegistryType'
    BY <2>1 DEF RegistryType, Points
  <2>3. Counted'
    BY <1>Enters
  <2>4. Life' /\ NoStranger'
    BY <2>1 DEF Life, NoStranger, RegistryType
  <2>5. Inside'
    BY <2>1 DEF Inside, RegistryType, Using
  <2> QED
    BY <2>2, <2>3, <2>4, <2>5
\* A send begins without disturbing it.
<1>SendKeepsRegistry. ASSUME RegistryInv, NEW p \in Sender, Send(p)
                      PROVE  RegistryInv'
  <2> USE <1>SendKeepsRegistry
  <2> USE DEF RegistryInv
  <2>1. p \in Caller /\ p # Owner
    BY DEF Caller
  <2>2. /\ sends' \in [Sender -> Nat]
        /\ \A q \in Sender : sends'[q] <= Len(program[q]) /\ (at'[q] # "idle" => sends'[q] > 0)
    <3>1. sends' = [sends EXCEPT ![p] = @ + 1] /\ sends[p] < Len(program[p]) /\ at' = [at EXCEPT ![p] = "read"]
      BY DEF Send, Goto
    <3>2. program[p] \in Seq({"word", "control"}) /\ Len(program[p]) \in Nat
      BY SMTT(60) DEF RegistryType
    <3> QED
      BY SMTT(60), <3>1, <3>2, <2>1 DEF RegistryType, Caller
  <2>3. /\ task' \in [Caller -> TaskType]
        /\ \A d \in Caller \ {p} : task'[d] = task[d]
        /\ \A d \in Sender : task'[d].kind # "shutdown"
    <3>1. CASE task' = task
      BY <3>1 DEF RegistryType, OwnerCall
    <3>2. CASE \E g \in Registration :
                 task' = [task EXCEPT ![p] = [kind |-> "control", to |-> g, entry |-> 0]]
      BY SMTT(60), <3>2, <2>1 DEF RegistryType, OwnerCall, Registration, Caller, TaskType
    <3> QED
      BY <3>1, <3>2 DEF Send
  <2>4. OwnerCall'
    BY <2>1, <2>3, <1>CountType DEF Send, Goto, OwnerCall, RegistryType, SlotType, Caller
  <2> QED
    BY <2>1, <2>2, <2>3, <2>4, <1>EnterKeepsRegistry DEF Send, Goto
\* A caller's steps up to its push or its message.
<1>CallerKeepsRegistry. ASSUME RegistryInv, NEW c \in Caller, CallerStep(c)
                        PROVE  RegistryInv'
  <2> USE <1>CallerKeepsRegistry
  <2> USE DEF RegistryInv
  <2>1. CASE Retry(c)
    <3>1. OwnerCall'
      BY <2>1, <1>CountType DEF Retry, Goto, OwnerCall, RegistryType, SlotType, Caller
    <3>2. \A p \in Sender : sends[p] <= Len(program[p]) /\ (at'[p] # "idle" => sends[p] > 0)
      BY <2>1 DEF Retry, Goto, RegistryType, Caller
    <3> QED
      BY <2>1, <3>1, <3>2, <1>EnterKeepsRegistry DEF Retry, Goto, RegistryType
  <2>2. CASE ReadEntry(c)
    <3>1. CASE slot.entry = 0
      BY <2>2, <3>1, <1>LeaveKeepsRegistry DEF ReadEntry, RegistryType
    <3>2. CASE slot.entry # 0
      <4>1. /\ at[c] = "read" /\ at' = [at EXCEPT ![c] = "inside"]
            /\ task' = [task EXCEPT ![c].entry = slot.entry]
            /\ UNCHANGED <<program, sends, shard, pending, control, kicked, owner, slot>>
        BY <2>2, <3>2 DEF ReadEntry, Goto
      <4>2. slot.entry \in Nat /\ slot.entry = slot.heap
        BY <3>2 DEF RegistryType, SlotType, Life
      <4>3. /\ task' \in [Caller -> TaskType]
            /\ task'[c].entry = slot.entry
            /\ \A d \in Caller : task'[d].kind = task[d].kind /\ task'[d].to = task[d].to
            /\ \A d \in Caller \ {c} : task'[d] = task[d]
        BY <4>1, <4>2, <1>EntryType DEF RegistryType
      <4>4. RegistryType'
        BY <4>1, <4>3 DEF RegistryType, Points, Caller
      <4>5. Counted'
        BY <4>1, <1>Stays DEF Points
      <4>6. Life' /\ NoStranger'
        BY <4>1 DEF Life, NoStranger
      <4>7. Inside' /\ OwnerCall'
        BY SMTT(60), <3>2, <4>1, <4>2, <4>3 DEF Inside, OwnerCall, RegistryType, Using, Caller
      <4> QED
        BY <4>4, <4>5, <4>6, <4>7
    <3> QED
      BY <3>1, <3>2
  <2>3. CASE TrySend(c)
    <3>1. at[c] = "inside" /\ Using(c)
      BY <2>3 DEF TrySend, Using
    <3>2. CASE /\ control' = Append(control, [kind |-> task[c].kind, to |-> task[c].to])
               /\ ~(task[c].kind = "control" /\ task[c].to # task[c].entry)
               /\ Goto(c, "flag") /\ UNCHANGED <<task, slot>>
      <4>1. task[c].kind \in {"control", "shutdown"} /\ task[c].to \in Nat
        BY <2>3 DEF TrySend, RegistryType, TaskType
      <4>2. task[c].to = slot.heap
        BY <3>1, <3>2, <4>1 DEF Inside, OwnerCall, Caller
      <4>3. control' \in Seq([kind : {"control", "shutdown"}, to : Nat])
        BY SMTT(60), <3>2, <4>1 DEF RegistryType
      <4>4. \A i \in DOMAIN control' : control'[i].to = slot.heap
        BY SMTT(60), <3>2, <4>1, <4>2 DEF NoStranger, RegistryType
      <4> QED
        BY <2>3, <3>1, <3>2, <4>3, <4>4, <1>StayKeepsRegistry DEF TrySend, Goto, Points, RegistryType
    <3>3. CASE \E pc \in {"idle", "retry"} : Leave(c, pc) /\ UNCHANGED control
      BY SMTT(60), <2>3, <3>1, <3>3, <1>LeaveKeepsRegistry DEF TrySend, RegistryType
    <3> QED
      BY <2>3, <3>2, <3>3 DEF TrySend
  <2>4. CASE PublishFlag(c)
    BY <2>4, <1>StayKeepsRegistry DEF PublishFlag, Goto, Using, Points, RegistryType, NoStranger
  <2>5. CASE KickIfParked(c)
    <3>1. CASE memory[Parked]
      BY <2>5, <3>1, <1>StayKeepsRegistry DEF KickIfParked, Goto, Using, Points, RegistryType, NoStranger
    <3>2. CASE ~memory[Parked]
      BY <2>5, <3>2, <1>LeaveKeepsRegistry DEF KickIfParked, RegistryType
    <3> QED
      BY <3>1, <3>2
  <2>6. CASE Kick(c)
    BY <2>6, <1>LeaveKeepsRegistry DEF Kick
  <2> QED
    BY <2>1, <2>2, <2>3, <2>4, <2>5, <2>6 DEF CallerStep
\* A push neither.
<1>PushKeepsRegistry. ASSUME RegistryInv, NEW p \in Sender, PushStep(p)
                      PROVE  RegistryInv'
  <2> USE <1>PushKeepsRegistry
  <2> USE DEF RegistryInv
  <2>0. p \in Caller
    BY DEF Caller
  <2>1. CASE BeginPush(p)
    <3>1. CASE slot.exited
      BY <2>0, <2>1, <3>1, <1>LeaveKeepsRegistry DEF BeginPush, RegistryType
    <3>2. CASE ~slot.exited
      BY <2>0, <2>1, <3>2, <1>StayKeepsRegistry
      DEF BeginPush, Goto, Using, Points, RegistryType, NoStranger
    <3> QED
      BY <3>1, <3>2
  <2>2. CASE CheckSlot(p)
    <3>1. CASE Leave(p, "retry")
      BY <2>0, <2>2, <3>1, <1>LeaveKeepsRegistry DEF CheckSlot, RegistryType
    <3>2. CASE Goto(p, "claim") /\ UNCHANGED <<kicked, task, slot>>
      BY <2>0, <2>2, <3>2, <1>StayKeepsRegistry
      DEF CheckSlot, Goto, Using, Points, RegistryType, NoStranger
    <3>3. CASE UNCHANGED <<at, kicked, task, slot>>
      <4>1. at' = [at EXCEPT ![p] = "check"]
        BY <2>0, <2>2, <3>3 DEF CheckSlot, RegistryType
      <4> QED
        BY <2>0, <2>2, <3>3, <4>1, <1>StayKeepsRegistry
        DEF CheckSlot, Using, Points, RegistryType, NoStranger
    <3> QED
      BY <2>2, <3>1, <3>2, <3>3 DEF CheckSlot
  <2>3. CASE ClaimSlot(p)
    <3>1. \E pc \in {"fence", "check"} : at' = [at EXCEPT ![p] = pc]
      BY <2>3 DEF ClaimSlot, Goto
    <3> QED
      BY <2>0, <2>3, <3>1, <1>StayKeepsRegistry
      DEF ClaimSlot, Using, Points, RegistryType, NoStranger
  <2> QED
    BY <2>1, <2>2, <2>3 DEF PushStep
\* The shard's own steps keep its loop's type ...
<1>ShardTyped. ASSUME shard \in ShardType, pending \in BOOLEAN, ShardStep \/ WaitEnds
               PROVE  shard' \in ShardType
  <2> USE <1>ShardTyped
  <2>1. ASSUME NEW pc \in ShardPoints, ShardGoto(pc) PROVE shard' \in ShardType
    BY <2>1 DEF ShardGoto, ShardType
  <2>2. CASE TakeControl
    BY <2>2 DEF TakeControl, ShardType, ShardPoints
  <2>3. CASE Receive
    <3>1. shard.drained + 1 \in Nat
      BY SMTT(60) DEF ShardType
    <3> DEFINE last == shard.drained + 1 = Batch
    <3>2. CASE shard' = [shard EXCEPT !.pc = "pop", !.drained = 0]
      BY <3>2 DEF ShardType, ShardPoints
    <3>3. CASE shard' = [pc |-> IF last THEN "pop" ELSE "receive",
                         work |-> TRUE,
                         drained |-> IF last THEN 0 ELSE shard.drained + 1,
                         shuttingDown |-> shard.shuttingDown \/ Head(control).kind = "shutdown"]
      <4> HIDE DEF last
      <4> QED
        BY <3>1, <3>3 DEF ShardType, ShardPoints
    <3> QED
      BY <2>3, <3>2, <3>3 DEF Receive
  <2>4. CASE PopWord
    <3>1. CASE Settle
      BY <2>1, <3>1 DEF Settle, ShardPoints
    <3>2. CASE shard' = [shard EXCEPT !.work = TRUE, !.drained = @ + 1]
      <4>1. shard.drained + 1 \in Nat
        BY SMTT(60) DEF ShardType
      <4> QED
        BY <3>2, <4>1 DEF ShardType
    <3> QED
      BY <2>4, <3>1, <3>2 DEF PopWord
  <2>5. CASE Recheck \/ Woken \/ Reclaim \/ WaitEnds
    BY <2>1, <2>5 DEF Recheck, Woken, Reclaim, WaitEnds, ShardPoints
  <2> QED
    BY <2>2, <2>3, <2>4, <2>5 DEF ShardStep
\* ... and change nothing the registry relies on.
<1>ShardKeepsRegistry. ASSUME RegistryInv, ShardStep \/ WaitEnds
                       PROVE  RegistryInv'
  <2> USE <1>ShardKeepsRegistry
  <2> USE DEF RegistryInv
  <2>1. UNCHANGED <<program, at, sends, task, owner>>
    BY DEF ShardStep, TakeControl, Receive, PopWord, Recheck, Woken, Reclaim, WaitEnds, senderVars
  <2>2. /\ shard.pc # "reclaimed"
        /\ pending' \in BOOLEAN /\ kicked' \in BOOLEAN
    BY DEF ShardStep, TakeControl, Receive, PopWord, Recheck, Woken, Reclaim, WaitEnds, RegistryType
  <2>3. shard' \in ShardType
    BY <1>ShardTyped DEF RegistryType
  <2>4. control' = control \/ (control # <<>> /\ control' = Tail(control))
    BY DEF ShardStep, TakeControl, Receive, PopWord, Recheck, Woken, Reclaim, WaitEnds
  <2>5. slot' = slot \/ slot' = [slot EXCEPT !.exited = TRUE]
    BY DEF ShardStep, TakeControl, Receive, PopWord, Recheck, Woken, Reclaim, WaitEnds, Settle
  <2>6. /\ slot' \in SlotType
        /\ slot'.entry = slot.entry /\ slot'.heap = slot.heap
        /\ slot'.generation = slot.generation /\ slot'.readers = slot.readers
    BY <2>5 DEF RegistryType, SlotType
  <2>7. /\ control' \in Seq([kind : {"control", "shutdown"}, to : Nat])
        /\ control = <<>> => control' = <<>>
        /\ \A i \in DOMAIN control' : control'[i].to = slot.heap
    <3>1. control \in Seq([kind : {"control", "shutdown"}, to : Nat])
      BY DEF RegistryType
    <3>2. CASE control' = control
      BY <3>1, <3>2 DEF NoStranger
    <3>3. CASE control # <<>> /\ control' = Tail(control)
      <4>1. /\ control' \in Seq([kind : {"control", "shutdown"}, to : Nat])
            /\ \A i \in DOMAIN control' : i + 1 \in DOMAIN control /\ control'[i] = control[i + 1]
        BY SMTT(60), <3>1, <3>3
      <4> QED
        BY <3>3, <4>1 DEF NoStranger
    <3> QED
      BY <2>4, <3>2, <3>3
  <2>8. RegistryType'
    BY <2>1, <2>2, <2>3, <2>6, <2>7 DEF RegistryType
  <2>9. Counted'
    BY <2>1, <2>6 DEF Counted, Readers
  <2>10. Life'
    BY <2>1, <2>2, <2>6, <2>7 DEF Life
  <2>11. Inside' /\ OwnerCall' /\ NoStranger'
    BY <2>1, <2>6, <2>7 DEF Inside, OwnerCall, NoStranger, Using
  <2> QED
    BY <2>8, <2>9, <2>10, <2>11
\* Registration, stop and retirement: the entry goes when nobody is counted.
<1>OwnerKeepsRegistry. ASSUME RegistryInv, Register \/ Stop \/ JoinAndClear \/ Retire
                       PROVE  RegistryInv'
  <2> USE <1>OwnerKeepsRegistry
  <2> USE DEF RegistryInv
  <2>0. Owner \in Caller
    BY DEF Caller
  <2>1. CASE Register
    <3>1. UNCHANGED <<program, at, sends, task, pending, control, kicked>>
      BY <2>1 DEF Register, senderVars
    <3>2. \A c \in Caller : ~Using(c)
      BY <2>1 DEF Register, Life, Inside
    <3>3. /\ slot' \in SlotType
          /\ slot'.entry = slot'.heap /\ slot'.heap = slot'.generation /\ slot'.heap # 0
          /\ slot'.readers = slot.readers
      <4> DEFINE g == slot.generation + 1
      <4>1. slot \in SlotType
        BY DEF RegistryType
      <4>2. g \in Nat /\ g # 0
        BY SMTT(60), <4>1 DEF SlotType
      <4>3. slot' = [slot EXCEPT !.generation = g, !.entry = g, !.heap = g, !.exited = FALSE]
        BY <2>1 DEF Register
      <4> HIDE DEF g
      <4> QED
        BY <4>1, <4>2, <4>3 DEF SlotType
    <3>4. RegistryType'
      BY <2>1, <3>1, <3>3 DEF Register, RegistryType, NewShard, ShardType, ShardPoints
    <3>5. Counted'
      BY <3>1, <3>3 DEF Counted, Readers
    <3>6. control = <<>>
      BY <2>1 DEF Register, Life
    <3>7. Life' /\ NoStranger'
      BY SMTT(60), <2>1, <3>1, <3>3, <3>6 DEF Life, NoStranger, Register
    <3>8. Inside' /\ OwnerCall'
      BY <2>1, <3>1, <3>2 DEF Inside, OwnerCall, Register, Using
    <3> QED
      BY <3>4, <3>5, <3>7, <3>8
  <2>2. CASE Stop
    <3>1. at[Owner] = "idle"
      BY <2>2 DEF Stop, OwnerCall
    <3>2. slot.generation \in Nat /\ slot.generation = slot.heap
      BY <2>2 DEF Stop, RegistryType, SlotType, Life
    <3>3. task' = [task EXCEPT ![Owner] = [kind |-> "shutdown", to |-> slot.generation, entry |-> 0]]
      BY <2>2 DEF Stop
    <3>4. /\ task' \in [Caller -> TaskType]
          /\ \A d \in Caller \ {Owner} : task'[d] = task[d]
          /\ task'[Owner].kind = "shutdown" /\ task'[Owner].to = slot.heap
      BY <2>0, <3>2, <3>3 DEF RegistryType, TaskType
    <3>5. slot'.heap = slot.heap
      BY <2>2, <1>CountType DEF Stop, RegistryType
    <3>6. OwnerCall'
      BY <2>2, <3>4, <3>5 DEF Stop, OwnerCall, Caller
    <3>7. \A p \in Sender : sends[p] <= Len(program[p]) /\ (at'[p] # "idle" => sends[p] > 0)
      BY <2>2 DEF Stop, Goto, RegistryType, Caller
    <3> QED
      BY <2>0, <2>2, <3>1, <3>4, <3>6, <3>7, <1>EnterKeepsRegistry DEF Stop, Goto, RegistryType
  <2>3. CASE JoinAndClear
    <3>1. UNCHANGED <<program, at, sends, task, shard, pending, control, kicked>>
      BY <2>3 DEF JoinAndClear, senderVars
    <3>2. slot' \in SlotType /\ slot'.entry = 0 /\ slot'.heap = slot.heap /\ slot'.readers = slot.readers
      BY <2>3 DEF JoinAndClear, RegistryType, SlotType
    <3>3. RegistryType'
      BY <2>3, <3>1, <3>2 DEF JoinAndClear, RegistryType
    <3>4. Counted' /\ NoStranger'
      BY <3>1, <3>2 DEF Counted, Readers, NoStranger
    <3>5. Life' /\ Inside' /\ OwnerCall'
      BY <2>3, <3>1, <3>2 DEF JoinAndClear, Life, Inside, OwnerCall, Using
    <3> QED
      BY <3>3, <3>4, <3>5
  <2>4. CASE Retire
    <3>1. UNCHANGED <<program, at, sends, task, shard>> /\ pending' = FALSE /\ kicked' = FALSE /\ control' = <<>>
      BY <2>4 DEF Retire, senderVars
    <3>2. /\ slot' \in SlotType /\ slot'.entry = slot.entry /\ slot'.heap = 0
          /\ slot'.readers = slot.readers
      <4> DEFINE g == slot.generation + 1
      <4>1. slot \in SlotType
        BY DEF RegistryType
      <4>2. g \in Nat
        BY SMTT(60), <4>1 DEF SlotType
      <4>3. slot' = [slot EXCEPT !.heap = 0, !.generation = g]
        BY <2>4 DEF Retire
      <4> HIDE DEF g
      <4> QED
        BY <4>1, <4>2, <4>3 DEF SlotType
    <3>3. RegistryType'
      <4>1. owner' = "free" /\ control' \in Seq([kind : {"control", "shutdown"}, to : Nat])
        BY SMTT(60), <2>4, <3>1 DEF Retire
      <4> QED
        BY <3>1, <3>2, <4>1 DEF RegistryType
    <3>4. Counted' /\ NoStranger'
      BY SMTT(60), <3>1, <3>2 DEF Counted, Readers, NoStranger
    <3>5. \A c \in Caller : ~Using(c)
      <4>1. Readers = {}
        BY <2>4, ReadersFinite, FS_EmptySet DEF Retire, Counted
      <4> QED
        BY <4>1 DEF Readers, Using
    <3>6. Life' /\ Inside' /\ OwnerCall'
      BY <2>4, <3>1, <3>2, <3>5 DEF Retire, Life, Inside, OwnerCall, Using
    <3> QED
      BY <3>3, <3>4, <3>6
  <2> QED
    BY <2>1, <2>2, <2>3, <2>4
<1> SUFFICES ASSUME RegistryInv, [Next]_vars PROVE RegistryInv'
  OBVIOUS
<1>1. CASE \E t \in Thread : FlushStore(t)
  BY <1>1 DEF FlushStore, senderVars, RegistryInv, RegistryType, Counted, Readers, Life, Inside,
              OwnerCall, NoStranger, Using
<1>2. CASE UNCHANGED vars
  BY <1>2 DEF vars, RegistryInv, RegistryType, Counted, Readers, Life, Inside,
              OwnerCall, NoStranger, Using
<1> QED
  BY <1>1, <1>2, <1>SendKeepsRegistry, <1>PushKeepsRegistry, <1>CallerKeepsRegistry, <1>ShardKeepsRegistry,
     <1>OwnerKeepsRegistry DEF Next

\* Nobody is counted in a free slot.
LEMMA RegistryInit == Init => RegistryInv
<1> SUFFICES ASSUME Init PROVE RegistryInv
  OBVIOUS
<1>1. RegistryType
  <2>1. shard \in ShardType /\ slot \in SlotType /\ shard.pc = "reclaimed"
    <3>1. shard = [pc |-> "reclaimed", work |-> FALSE, drained |-> 0, shuttingDown |-> FALSE]
      BY DEF Init, NewShard
    <3>2. shard \in ShardType
      BY <3>1 DEF ShardType, ShardPoints
    <3> QED
      BY SMTT(60), <3>1, <3>2 DEF Init, SlotType
  <2>2. task \in [Caller -> TaskType] /\ at \in [Caller -> Points]
    BY DEF Init, NoTask, TaskType, Points
  <2>3. \A p \in Sender : sends[p] <= Len(program[p]) /\ at[p] = "idle"
    <3> TAKE p \in Sender
    <3>1. Len(program[p]) \in Nat
      BY SMTT(60) DEF Init
    <3> QED
      BY SMTT(60), <3>1 DEF Init, Caller
  <2>4. /\ program \in Programs /\ sends \in [Sender -> Nat] /\ owner = "free"
        /\ pending = FALSE /\ kicked = FALSE
        /\ control \in Seq([kind : {"control", "shutdown"}, to : Nat])
    BY SMTT(60) DEF Init
  <2> QED
    BY <2>1, <2>2, <2>3, <2>4 DEF RegistryType
<1>2. Readers = {}
  BY DEF Init, Readers
<1>3. Counted
  BY <1>2, FS_EmptySet DEF Init, Counted
<1>4. Life /\ NoStranger
  BY SMTT(60) DEF Init, Life, NoStranger, NewShard
<1>5. Inside /\ OwnerCall
  BY DEF Init, Inside, OwnerCall, Using, Caller, NoTask
<1> QED
  BY <1>1, <1>3, <1>4, <1>5 DEF RegistryInv
\* The slot is retired with nobody inside.
LEMMA RetireAlone == RegistryInv /\ Retire => Readers = {}
BY ReadersFinite, FS_EmptySet DEF Retire, Counted, RegistryInv


(* The theorems. *)

\* The invariant holds of every behaviour.
LEMMA Inductive == Spec => []IInv
<1>1. Init => IInv
  <2> SUFFICES ASSUME Init PROVE Announced /\ Awaited
    BY RegistryInit, RingInit DEF IInv
  <2>1. shard.pc = "reclaimed"
    BY DEF Init, NewShard
  <2> QED
    BY <2>1 DEF Announced, Awaited
<1>2. IInv /\ [Next]_vars => IInv'
  BY RegistryStep, RetireAlone, RingStep, WakeStep DEF IInv, WakeInv
<1> QED
  BY <1>1, <1>2, PTL DEF Spec

\* No caller works on an entry that was dropped: registry.rs, with_entry against
\* unregister, for any number of callers and registrations.
THEOREM NobodyUsesAFreedEntry == Spec => []NoUseAfterFree
<1>1. IInv => NoUseAfterFree
  BY DEF IInv, RegistryInv, Inside, NoUseAfterFree
<1> QED
  BY <1>1, Inductive, PTL

\* No control message waits in the channel of a registration it was not sent to.
THEOREM NoMessageReachesAStranger == Spec => []NoStranger
<1>1. IInv => NoStranger
  BY DEF IInv, RegistryInv
<1> QED
  BY <1>1, Inductive, PTL

\* A shard asleep with work and no kick has a sender about to find it parked.
THEOREM NoWakeIsLost == Spec => []NoLostWake
<1>1. IInv => NoLostWake
  <2> SUFFICES ASSUME IInv, shard.pc = "wait", ~kicked, Ready \/ pending PROVE NoLostWake
    BY DEF NoLostWake
  <2>1. buffer[Shard] = <<>> /\ memory[Parked] = TRUE
    BY DEF IInv, Announced
  <2>2. \A l : Load(Shard, l) = memory[l]
    BY <2>1, LoadsMemory
  <2>3. Ready => SeqAt(head) = head + 1
    BY <2>2 DEF Ready, SeqAt
  <2> QED
    BY <2>1, <2>2, <2>3 DEF IInv, Awaited, NoLostWake
<1> QED
  BY <1>1, Inductive, PTL
-----------------------------------------------------------------------------
\* The ring is a bounded queue (mpsc.rs, push and pop, on buffered stores), for any number
\* of senders and any capacity: no word is lost, doubled or overtaken.
THEOREM RingImplementsQueue == Spec => RingIsAQueue
<1>1. Init => Queue!Init
  <2> SUFFICES ASSUME Init PROVE Contents = <<>> /\ taken = NoWord
    BY DEF Queue!Init, Contents
  <2> QED
    BY SMTT(60) DEF Init, Contents
<1>2. IInv /\ IInv' /\ [Next]_vars => [Queue!Next]_<<Contents, taken>>
  <2> SUFFICES ASSUME IInv, IInv', [Next]_vars PROVE [Queue!Next]_<<Contents, taken>>
    OBVIOUS
  <2>1. RegistryInv /\ RingInv /\ RingInv'
    BY DEF IInv
  <2> QED
    BY <2>1, QueueStep DEF Queue!Next, Queue!Push, Queue!Pop, Queue!Handled, Queue!Drop, Contents
<1> QED
  BY <1>1, <1>2, Inductive, PTL DEF Spec, RingIsAQueue, Queue!Spec, Contents
=============================================================================
