--------------------------------- MODULE Db ---------------------------------
(***************************************************************************)
(* A partition's database (crates/db/src/replay.rs) over its log ring      *)
(* (db/src/record.rs) and its two snapshot slots (anchor/src/segment.rs).  *)
(* The segment outlives the daemon; the daemon's memory does not.  Every   *)
(* store to the segment is a step of its own, so that the daemon may be    *)
(* killed between any two.                                                 *)
(*                                                                         *)
(* The partition is the sequence of transactions applied to it.  Records   *)
(* take one cell of the ring each.  trim always empties the ring: it is    *)
(* called with the next sequence, which every record is below.             *)
(***************************************************************************)
EXTENDS Naturals, Sequences

CONSTANTS Transaction,
          Capacity,       \* records the ring holds
          SnapshotEvery,  \* records between two maintenance snapshots (the policy)
          MaxFaults,      \* publications refused and kills (a bound of the model)
          CrashAt         \* the points of its code it may be killed at

ASSUME DbAssumption == Capacity \in Nat \ {0}

VARIABLES ring,      \* the ring's words and cells: head, tail, base, cells
          slots,     \* the two snapshot slots
          partition, \* memory: the transactions applied
          nextSeq,   \* memory: the next record's sequence
          nextSlot,  \* memory: the slot the next snapshot goes to
          since,     \* memory: records appended since the last snapshot
          pc,        \* memory: where the daemon's code is
          job,       \* memory: the operation in progress
          faults     \* publications refused and kills so far (for the bound)

segment == <<ring, slots>>
memory == <<partition, nextSeq, nextSlot, since>>

Nothing == <<>>
Blank == [seq |-> 0, entry |-> Nothing]  \* a cell never written, or half written
\* A slot is readable unless it was never published or its publication is in
\* progress (its generation word is zero or odd).
Unreadable == [seq |-> 0, readable |-> FALSE, partition |-> Nothing]
Cell(offset) == offset % Capacity
SameSlot(slot) == slot      \* mutant: every snapshot goes to one slot
Other(slot) == 1 - slot
MaxOf(a, b) == IF a >= b THEN a ELSE b
Full == ring.tail - ring.head = Capacity

-----------------------------------------------------------------------------
(* what a restart rebuilds from a log r and its snapshot slots s *)

\* Snapshots that read back; the first of two with one sequence is kept.
Readable(s) == {n \in {0, 1} : s[n].readable}

Newest(s) ==
  CHOOSE n \in Readable(s) :
    \A m \in Readable(s) : s[m].seq < s[n].seq \/ (s[m].seq = s[n].seq /\ n <= m)

FromSeq(s) == IF Readable(s) = {} THEN 0 ELSE s[Newest(s)].seq + 1

\* The record i places past the head carries the sequence expected of it.
Verifies(r, i) == LET record == r.cells[Cell(r.head + i)] IN record # Blank /\ record.seq = r.base + i

\* Records from the head on that verify.
Verified(r) ==
  CHOOSE k \in 0 .. r.tail - r.head :
    /\ \A i \in 0 .. k - 1 : Verifies(r, i)
    /\ k = r.tail - r.head \/ ~Verifies(r, k)

\* Those the snapshot does not cover.  Their sequences run on from the base, so the
\* covered ones come first.
Replayed(r, s) ==
  LET covered == IF FromSeq(s) > r.base THEN FromSeq(s) - r.base ELSE 0
  IN [i \in 1 .. Verified(r) - covered |-> r.cells[Cell(r.head + covered + i - 1)].entry]

\* derive_partition.
DerivePartition(r, s) ==
  (IF Readable(s) = {} THEN <<>> ELSE s[Newest(s)].partition) \o Replayed(r, s)

Derived == DerivePartition(ring, slots)

-----------------------------------------------------------------------------
Goto(there) == pc' = there
NoJob == [entry |-> Nothing, batched |-> FALSE, why |-> "none", result |-> "none"]

DbInit ==
  /\ ring = [head |-> 0, tail |-> 0, base |-> 0, cells |-> [c \in 0 .. Capacity - 1 |-> Blank]]
  /\ slots = [s \in {0, 1} |-> Unreadable]
  /\ partition = <<>>
  /\ nextSeq = 0
  /\ nextSlot = 0
  /\ since = 0
  /\ pc = "idle"
  /\ job = NoJob
  /\ faults = 0

-----------------------------------------------------------------------------
(* Db::mutate and Db::commit: append, and the snapshots they lead to *)

\* begin, the mutations applied to the partition, and commit.
Transact(entry, result) ==
  /\ pc = "idle"
  /\ job' = [entry |-> entry, batched |-> TRUE, why |-> "none", result |-> result]
  /\ partition' = Append(partition, entry)
  /\ Goto("append")
  /\ UNCHANGED <<segment, nextSeq, nextSlot, since, faults>>

\* One mutation outside a transaction: applied once it is durable.
Mutate(entry, result) ==
  /\ pc = "idle"
  /\ job' = [entry |-> entry, batched |-> FALSE, why |-> "none", result |-> result]
  /\ Goto("append")
  /\ UNCHANGED <<segment, memory, faults>>

\* A full ring takes a snapshot; otherwise the record's bytes start to go in.
AppendRecord ==
  /\ pc = "append"
  /\ IF Full
     THEN /\ job' = [job EXCEPT !.why = IF job.batched THEN "commit" ELSE "retry"]
          /\ Goto("publish")
          /\ UNCHANGED ring
     ELSE /\ ring' = [ring EXCEPT !.cells[Cell(ring.tail)] = Blank]
          /\ Goto("write")
          /\ UNCHANGED job
  /\ UNCHANGED <<slots, memory, faults>>

WriteRecord ==
  /\ pc = "write"
  /\ ring' = [ring EXCEPT !.cells[Cell(ring.tail)] = [seq |-> nextSeq, entry |-> job.entry]]
  /\ Goto(IF ring.head = ring.tail THEN "base" ELSE "tail")
  /\ UNCHANGED <<slots, memory, job, faults>>

\* The first record of an empty ring names the base.
StoreBase ==
  /\ pc = "base"
  /\ ring' = [ring EXCEPT !.base = nextSeq]
  /\ Goto("tail")
  /\ UNCHANGED <<slots, memory, job, faults>>

\* The record is durable with this store; maintain follows.
StoreTail ==
  /\ pc = "tail"
  /\ ring' = [ring EXCEPT !.tail = @ + 1]
  /\ partition' = IF job.batched THEN partition ELSE Append(partition, job.entry)
  /\ nextSeq' = nextSeq + 1
  /\ since' = since + 1
  /\ job' = [job EXCEPT !.why = "maintain"]
  /\ Goto(IF since + 1 < SnapshotEvery THEN "reply" ELSE "publish")
  /\ UNCHANGED <<slots, nextSlot, faults>>

-----------------------------------------------------------------------------
(* Db::snapshot: publish into the alternate slot, then trim the log *)

BeginPublish ==
  /\ pc = "publish"
  /\ slots' = [slots EXCEPT ![nextSlot] = Unreadable]
  /\ Goto("published")
  /\ UNCHANGED <<ring, memory, job, faults>>

\* Mutant: the snapshot is labelled with the next sequence.
EndPublishAhead ==
  /\ pc = "published"
  /\ slots' = [slots EXCEPT ![nextSlot] =
                 [seq |-> nextSeq, readable |-> TRUE, partition |-> partition]]
  /\ Goto("trim")
  /\ UNCHANGED <<ring, memory, job, faults>>

EndPublish ==
  /\ pc = "published"
  /\ slots' = [slots EXCEPT ![nextSlot] =
                 [seq |-> nextSeq - 1, readable |-> TRUE, partition |-> partition]]
  /\ Goto("trim")
  /\ UNCHANGED <<ring, memory, job, faults>>

TrimBase ==
  /\ pc = "trim"
  /\ ring' = [ring EXCEPT !.base = @ + (ring.tail - ring.head)]
  /\ Goto("trimHead")
  /\ UNCHANGED <<slots, memory, job, faults>>

TrimHead ==
  /\ pc = "trimHead"
  /\ ring' = [ring EXCEPT !.head = 0]
  /\ Goto("trimTail")
  /\ UNCHANGED <<slots, memory, job, faults>>

\* The log is empty; a commit the snapshot carried skips its own sequence.
TrimTail ==
  /\ pc = "trimTail"
  /\ ring' = [ring EXCEPT !.tail = 0]
  /\ nextSlot' = Other(nextSlot)
  /\ since' = 0
  /\ nextSeq' = IF job.why = "commit" THEN nextSeq + 1 ELSE nextSeq
  /\ Goto(IF job.why = "retry" THEN "append" ELSE "reply")
  /\ UNCHANGED <<slots, partition, job, faults>>

\* Mutant: a commit that is refused leaves its effects in memory.
RefuseWithoutRollback ==
  /\ pc = "publish"
  /\ faults < MaxFaults
  /\ faults' = faults + 1
  /\ job' = [job EXCEPT !.result = IF job.why = "maintain" THEN @ ELSE "unpublished"]
  /\ Goto("reply")
  /\ UNCHANGED <<segment, memory>>

\* The publication is refused with nothing written: maintenance is deferred, a
\* commit is rolled back to what the segment holds, a mutation is refused.
RefusePublish ==
  /\ pc = "publish"
  /\ faults < MaxFaults
  /\ faults' = faults + 1
  /\ IF job.why = "maintain"
     THEN UNCHANGED <<job, partition>>
     ELSE /\ job' = [job EXCEPT !.result = "unpublished"]
          /\ partition' = IF job.why = "commit" THEN Derived ELSE partition
  /\ Goto("reply")
  /\ UNCHANGED <<segment, nextSeq, nextSlot, since>>

-----------------------------------------------------------------------------
(* the daemon is killed, and its successor recovers *)

Crash ==
  /\ pc \in CrashAt
  /\ faults < MaxFaults
  /\ faults' = faults + 1
  /\ Goto("down")
  /\ job' = NoJob
  /\ partition' = <<>>
  /\ nextSeq' = 0
  /\ nextSlot' = 0
  /\ since' = 0
  /\ UNCHANGED segment

\* recover: what verifies is replayed, and a torn tail is cut.
Recover ==
  /\ pc = "down"
  /\ partition' = Derived
  /\ nextSeq' = MaxOf(ring.base + Verified(ring), FromSeq(slots))
  /\ nextSlot' = IF Readable(slots) = {} THEN 0 ELSE Other(Newest(slots))
  /\ since' = Verified(ring)
  /\ ring' = [ring EXCEPT !.tail = ring.head + Verified(ring)]
  /\ Goto("idle")
  /\ UNCHANGED <<slots, job, faults>>

DbStep ==
  \/ AppendRecord \/ WriteRecord \/ StoreBase \/ StoreTail
  \/ BeginPublish \/ EndPublish \/ TrimBase \/ TrimHead \/ TrimTail \/ RefusePublish
=============================================================================
