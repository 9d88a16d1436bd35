--------------------------- MODULE RequestsProofs ---------------------------
(***************************************************************************)
(* Proofs about the database and the requests served from it, for every    *)
(* number of requests, capacity of the ring, snapshot interval, bound on   *)
(* completions, and number of crashes and refusals.                        *)
(*                                                                         *)
(* The argument has two layers.  The first (StoreInv) holds wherever the   *)
(* daemon is killed.  It says what a killed daemon leaves in the segment:  *)
(* between the ring's head and tail every record verifies (Sound), or,     *)
(* from the first store of a trim to the last, the first one does not      *)
(* (Cut), so that a restart replays all of the records or none; and every  *)
(* acknowledgement anywhere in the system was sent by the client, which    *)
(* sends none past a request that is open to it (Open) without giving the  *)
(* request up (released).                                                  *)
(*                                                                         *)
(* The second (JournalInv) needs that the daemon is not killed between the *)
(* publication of a snapshot and the first store of its trim               *)
(* (TrimFollows): the run requests_tie shows what happens otherwise.  It   *)
(* says that the slot the next snapshot goes to is never the newest one,   *)
(* that the newest one is older than the log's last record, and how memory *)
(* and segment differ at each point of the daemon's code: by the           *)
(* transaction in progress, from when it is applied to when it is durable. *)
(***************************************************************************)
EXTENDS Requests, SequenceTheorems, WellFoundedInduction, TLAPS

\* Zenon proves a leaf, but where it names the SMT solver.
USE ZenonT(20)

\* What the log may hold: verbs, and acknowledgements up to a, the last one sent.
Sent(a) == {Verb(n) : n \in Request} \union {Ack(n) : n \in 1 .. a}

RecordType(a) == [seq : Nat, entry : Sent(a) \union {Nothing}]
CellsType(a) == [0 .. Capacity - 1 -> RecordType(a)]
RingType(a) == [head : {0}, tail : 0 .. Capacity, base : Nat, cells : CellsType(a)]
SlotType(a) == [seq : Nat, readable : BOOLEAN, partition : Seq(Sent(a))]
SlotsType(a) == [{0, 1} -> SlotType(a)]

Appending == {"append", "write", "base", "tail"}
Publishing == {"publish", "published"}
Trimming == {"trim", "trimHead", "trimTail"}
Point == {"idle", "reply", "down"} \union Appending \union Publishing \union Trimming

JobType(a) ==
  [entry : Sent(a) \union {Nothing}, batched : BOOLEAN,
   why : {"none", "commit", "retry", "maintain"},
   result : {"none", "done", "duplicate", "owed", "unpublished"}]

ReplyType == {"none", "awaited", "done", "duplicate", "owed", "unpublished"}

\* The variables' types.
TypeInv ==
  /\ ring \in RingType(ackSent)
  /\ slots \in SlotsType(ackSent)
  /\ partition \in Seq(Sent(ackSent))
  /\ nextSeq \in Nat
  /\ nextSlot \in {0, 1}
  /\ pc \in Point
  /\ job \in JobType(ackSent)
  /\ issued \in 0 .. MaxRequest
  /\ replies \in [Request -> ReplyType]
  /\ pending \in [Request -> ReplyType \ {"awaited"}]
  /\ retryable \in SUBSET (1 .. issued)
  /\ ackSent \in 0 .. issued

-----------------------------------------------------------------------------
(* The first layer *)

\* Every record between the head and the tail verifies.
Sound(r) ==
  \A i \in 0 .. r.tail - 1 : r.cells[i].seq = r.base + i /\ r.cells[i].entry # Nothing

\* The first record does not.
Cut(r) == r.tail > 0 /\ r.cells[0].seq # r.base

\* Every snapshot that reads back is labelled below a sequence.
Below(s, sequence) == \A n \in {0, 1} : s[n].readable => s[n].seq < sequence

\* The ring and the sequences, at each point of the daemon's code.
RingInv ==
  /\ pc \in {"trimHead", "trimTail"} => Cut(ring)
  /\ pc \notin {"trimHead", "trimTail", "down"} => Sound(ring)
  /\ pc = "down" => Sound(ring) \/ Cut(ring)
  /\ pc \in Publishing \union Trimming => ring.tail > 0
  /\ pc \in {"write", "base", "tail"} => ring.tail < Capacity
  /\ pc = "base" => ring.tail = 0
  /\ pc \in {"base", "tail"} => ring.cells[ring.tail] = [seq |-> nextSeq, entry |-> job.entry]
  /\ pc = "tail" => nextSeq = ring.base + ring.tail
  /\ (pc \notin {"trimHead", "trimTail", "down"} /\ ring.tail > 0) => nextSeq = ring.base + ring.tail
  /\ pc \in Appending \union Publishing \union Trimming => job.entry # Nothing
  /\ pc # "down" => Below(slots, nextSeq)
  /\ (pc = "down" /\ Sound(ring) /\ ring.tail > 0) => Below(slots, ring.base + ring.tail)

\* A request the client awaits, keeps for a retry, or was refused Unpublished.
Open(n) ==
  \/ n \in retryable
  \/ "unpublished" \in {replies[n], pending[n]}
  \/ replies[n] = "awaited" /\ pending[n] = "none"

\* The client acknowledged past no open request it has not given up, and the shard
\* answers as duplicates only requests acknowledged.
ClientInv ==
  /\ \A n \in Request : n > issued => replies[n] = "none" /\ pending[n] = "none"
  /\ \A n \in Request : replies[n] = "unpublished" => n \in retryable \union released
  /\ \A n \in 1 .. ackSent : Open(n) => n \in released
  /\ job.result = "duplicate" => \E n \in 1 .. ackSent : job.entry = Verb(n)
  /\ AwaitedNeverRefused

StoreInv == TypeInv /\ RingInv /\ ClientInv

-----------------------------------------------------------------------------
(* The second layer *)

\* The daemon is not killed between a snapshot's publication and its trim.
TrimFollows == "trim" \notin CrashAt

\* Slot n holds no snapshot, or one older than the other slot's.
Older(s, n) == s[n].readable => s[1 - n].readable /\ s[n].seq < s[1 - n].seq

SlotInv ==
  /\ pc \notin Trimming \union {"down"} => Older(slots, nextSlot)
  /\ pc \in Trimming => /\ Older(slots, 1 - nextSlot)
                        /\ slots[nextSlot].readable
                        /\ slots[nextSlot].seq = nextSeq - 1
  /\ pc = "down" => Older(slots, 0) \/ Older(slots, 1)
  /\ (pc \notin Trimming \union {"down"} /\ ring.tail > 0) => Below(slots, nextSeq - 1)
  /\ (pc = "down" /\ Sound(ring) /\ ring.tail > 0) => Below(slots, ring.base + ring.tail - 1)

\* A transaction is in memory and not yet durable.
InFlight ==
  \/ pc \in Appending /\ job.batched
  \/ pc \in Publishing /\ job.why = "commit"

\* The operation in progress is durable.
Stored ==
  \/ pc \in Publishing /\ job.why = "maintain"
  \/ pc \in Trimming /\ job.why # "retry"
  \/ pc = "reply" /\ job.result = "done"

IsVerb(e) == \E n \in Request : e = Verb(n)

JobInv ==
  /\ pc \in Publishing \union Trimming => job.why # "none"
  /\ pc \in Appending => (job.batched <=> IsVerb(job.entry))
  /\ (pc \in Publishing \union Trimming /\ job.why = "retry") => ~job.batched /\ ~IsVerb(job.entry)
  /\ (pc \in Publishing \union Trimming /\ job.why = "commit") => job.batched

MemoryInv ==
  /\ pc # "down" => partition = IF InFlight THEN Append(Derived, job.entry) ELSE Derived
  /\ pc = "down" => partition = <<>>
  /\ InFlight => job.entry \notin Range(Derived)
  /\ Stored => job.entry \in Range(Derived)

\* No verb occurs twice.
Once(history) ==
  \A i, j \in DOMAIN history : history[i] = history[j] /\ history[i][1] = "verb" => i = j

JournalInv == SlotInv /\ JobInv /\ MemoryInv /\ Once(Derived) /\ RepliedIsDurable

IInv == StoreInv /\ JournalInv

-----------------------------------------------------------------------------
(* The ring's places *)

\* Cell, of a place below the capacity, is the place (record.rs: offsets modulo the
\* capacity).
LEMMA CellOfPlace ==
  ASSUME NEW c \in 0 .. Capacity - 1
  PROVE  Cell(c) = c
<1> USE DbAssumption
<1>1. Capacity \in Nat /\ Capacity > 0 /\ c \in Nat /\ c < Capacity
  BY SMTT(60)
<1> DEFINE q == c \div Capacity
           p == c % Capacity
<1>2. c = Capacity * q + p /\ p \in 0 .. Capacity - 1 /\ q \in Nat
  BY SMTT(60), <1>1
<1> HIDE DEF q, p
<1>3. ASSUME q >= 1 PROVE FALSE
  <2>1. Capacity * q >= Capacity
    BY SMTT(60), <1>1, <1>2, <1>3
  <2> QED BY SMTT(60), <2>1, <1>1, <1>2
<1>4. q = 0
  BY SMTT(60), <1>2, <1>3
<1>5. Capacity * q = 0
  BY SMTT(60), <1>4, <1>1
<1>6. c = p
  BY SMTT(60), <1>5, <1>2, <1>1
<1> QED BY <1>6 DEF Cell, p

-----------------------------------------------------------------------------
(* The records and their fields *)

\* The fields of a ring.
LEMMA RingFields ==
  ASSUME NEW a, NEW r \in RingType(a)
  PROVE  /\ r.head = 0
         /\ r.tail \in 0 .. Capacity
         /\ r.base \in Nat
         /\ r.cells \in CellsType(a)
BY DEF RingType

\* A store to the tail word.
LEMMA RingTail ==
  ASSUME NEW a, NEW r \in RingType(a), NEW t \in 0 .. Capacity
  PROVE  LET q == [r EXCEPT !.tail = t]
         IN  /\ q \in RingType(a)
             /\ q.head = 0 /\ q.tail = t /\ q.base = r.base /\ q.cells = r.cells
BY DEF RingType

\* A store to the base word.
LEMMA RingBase ==
  ASSUME NEW a, NEW r \in RingType(a), NEW b \in Nat
  PROVE  LET q == [r EXCEPT !.base = b]
         IN  /\ q \in RingType(a)
             /\ q.head = 0 /\ q.tail = r.tail /\ q.base = b /\ q.cells = r.cells
BY DEF RingType

\* A store to a cell.
LEMMA RingCell ==
  ASSUME NEW a, NEW r \in RingType(a), NEW c \in 0 .. Capacity - 1, NEW x \in RecordType(a)
  PROVE  LET q == [r EXCEPT !.cells[c] = x]
         IN  /\ q \in RingType(a)
             /\ q.head = 0 /\ q.tail = r.tail /\ q.base = r.base
             /\ q.cells[c] = x
             /\ \A i \in 0 .. Capacity - 1 : i # c => q.cells[i] = r.cells[i]
<1>1. r.cells \in CellsType(a)
  BY RingFields
<1>2. [r.cells EXCEPT ![c] = x] \in CellsType(a)
  BY <1>1 DEF CellsType
<1> DEFINE d == [r.cells EXCEPT ![c] = x]
           q == [r EXCEPT !.cells = d]
<1>3. d[c] = x /\ \A i \in 0 .. Capacity - 1 : i # c => d[i] = r.cells[i]
  BY <1>1 DEF CellsType
<1>4. q = [r EXCEPT !.cells[c] = x]
  BY DEF RingType
<1> HIDE DEF d
<1>5. q \in RingType(a) /\ q.head = 0 /\ q.tail = r.tail /\ q.base = r.base /\ q.cells = d
  BY <1>2 DEF RingType, d
<1> QED BY <1>3, <1>4, <1>5

\* The fields of a slot.
LEMMA SlotFields ==
  ASSUME NEW a, NEW s \in SlotsType(a), NEW n \in {0, 1}
  PROVE  s[n].seq \in Nat /\ s[n].readable \in BOOLEAN /\ s[n].partition \in Seq(Sent(a))
<1>1. s[n] \in SlotType(a)
  BY DEF SlotsType
<1> QED BY <1>1 DEF SlotType

\* The fields of a job.
LEMMA JobFields ==
  ASSUME NEW a, NEW j \in JobType(a)
  PROVE  /\ j.entry \in Sent(a) \union {Nothing}
         /\ j.batched \in BOOLEAN
         /\ j.why \in {"none", "commit", "retry", "maintain"}
         /\ j.result \in {"none", "done", "duplicate", "owed", "unpublished"}
BY DEF JobType

\* A job whose reason or result is set.
LEMMA JobWhy ==
  ASSUME NEW a, NEW j \in JobType(a), NEW w \in {"none", "commit", "retry", "maintain"}
  PROVE  LET k == [j EXCEPT !.why = w]
         IN  /\ k \in JobType(a)
             /\ k.entry = j.entry /\ k.batched = j.batched /\ k.why = w /\ k.result = j.result
BY DEF JobType

\* Giving the job its result changes its result alone.
LEMMA JobResult ==
  ASSUME NEW a, NEW j \in JobType(a),
         NEW w \in {"none", "done", "duplicate", "owed", "unpublished"}
  PROVE  LET k == [j EXCEPT !.result = w]
         IN  /\ k \in JobType(a)
             /\ k.entry = j.entry /\ k.batched = j.batched /\ k.why = j.why /\ k.result = w
BY DEF JobType

\* Between operations there is no job.
LEMMA NoJobFields ==
  ASSUME NEW a
  PROVE  /\ NoJob \in JobType(a)
         /\ NoJob.entry = Nothing /\ NoJob.batched = FALSE
         /\ NoJob.why = "none" /\ NoJob.result = "none"
BY DEF NoJob, JobType

-----------------------------------------------------------------------------
(* What a restart rebuilds *)

\* A sound ring verifies whole, and one that is cut not at all.
LEMMA VerifiedSound ==
  ASSUME NEW a, NEW r \in RingType(a), Sound(r)
  PROVE  Verified(r) = r.tail
<1>1. r.head = 0 /\ r.tail \in 0 .. Capacity /\ Capacity \in Nat
  BY RingFields, DbAssumption
<1>2. ASSUME NEW i \in 0 .. r.tail - 1 PROVE Verifies(r, i)
  <2>1. i \in 0 .. Capacity - 1 /\ Cell(r.head + i) = i
    BY SMTT(60), <1>1, CellOfPlace
  <2>2. r.cells[i].seq = r.base + i /\ r.cells[i].entry # Nothing
    BY DEF Sound
  <2>3. r.cells[i] # Blank
    BY SMTT(60), <2>2 DEF Blank
  <2> QED BY <2>1, <2>2, <2>3 DEF Verifies
<1> DEFINE P(k) == /\ \A i \in 0 .. k - 1 : Verifies(r, i)
                   /\ k = r.tail - r.head \/ ~Verifies(r, k)
<1>3. P(r.tail) /\ r.tail \in 0 .. r.tail - r.head
  BY SMTT(60), <1>1, <1>2
<1>4. \A k \in 0 .. r.tail - r.head : P(k) => k = r.tail
  BY SMTT(60), <1>1, <1>2
<1>5. Verified(r) = CHOOSE k \in 0 .. r.tail - r.head : P(k)
  BY DEF Verified
<1> HIDE DEF P
<1> QED BY <1>3, <1>4, <1>5

\* A restart verifies nothing of a cut ring.
LEMMA VerifiedCut ==
  ASSUME NEW a, NEW r \in RingType(a), Cut(r)
  PROVE  Verified(r) = 0
<1>1. r.head = 0 /\ r.tail \in 0 .. Capacity /\ Capacity \in Nat /\ r.base \in Nat
  BY RingFields, DbAssumption
<1>2. r.tail > 0 /\ r.cells[0].seq # r.base
  BY DEF Cut
<1>3. Cell(r.head + 0) = 0
  BY SMTT(60), <1>1, <1>2, CellOfPlace
<1>4. ~Verifies(r, 0)
  BY SMTT(60), <1>1, <1>2, <1>3 DEF Verifies
<1> DEFINE P(k) == /\ \A i \in 0 .. k - 1 : Verifies(r, i)
                   /\ k = r.tail - r.head \/ ~Verifies(r, k)
<1>5. P(0) /\ 0 \in 0 .. r.tail - r.head
  BY SMTT(60), <1>1, <1>2, <1>4
<1>6. \A k \in 0 .. r.tail - r.head : P(k) => k = 0
  <2> TAKE k \in 0 .. r.tail - r.head
  <2> SUFFICES ASSUME P(k), k # 0 PROVE FALSE
    OBVIOUS
  <2>1. 0 \in 0 .. k - 1
    BY SMTT(60), <1>1
  <2> QED BY <2>1, <1>4
<1>7. Verified(r) = CHOOSE k \in 0 .. r.tail - r.head : P(k)
  BY DEF Verified
<1> HIDE DEF P
<1> QED BY <1>5, <1>6, <1>7

\* An empty ring is sound.
LEMMA VerifiedEmpty ==
  ASSUME NEW a, NEW r \in RingType(a), r.tail = 0
  PROVE  Verified(r) = 0
<1>1. Sound(r)
  BY SMTT(60) DEF Sound
<1> QED BY <1>1, VerifiedSound

\* newest_snapshot returns a snapshot that reads back, labelled at least as late as
\* any other.
LEMMA NewestIsReadable ==
  ASSUME NEW a, NEW s \in SlotsType(a), Readable(s) # {}
  PROVE  /\ Newest(s) \in {0, 1} /\ s[Newest(s)].readable
         /\ \A n \in {0, 1} : s[n].readable => s[n].seq <= s[Newest(s)].seq
<1>1. \A n \in {0, 1} : s[n].seq \in Nat
  BY SlotFields
<1> DEFINE P(n) == \A m \in Readable(s) : s[m].seq < s[n].seq \/ (s[m].seq = s[n].seq /\ n <= m)
<1>2. \E n \in Readable(s) : P(n)
  <2>1. CASE Readable(s) = {0}
    BY SMTT(60), <2>1, <1>1
  <2>2. CASE Readable(s) = {1}
    BY SMTT(60), <2>2, <1>1
  <2>3. CASE Readable(s) = {0, 1} /\ s[0].seq >= s[1].seq
    BY SMTT(60), <2>3, <1>1
  <2>4. CASE Readable(s) = {0, 1} /\ s[0].seq < s[1].seq
    BY SMTT(60), <2>4, <1>1
  <2>5. Readable(s) \in {{0}, {1}, {0, 1}}
    BY DEF Readable
  <2> QED BY SMTT(60), <2>1, <2>2, <2>3, <2>4, <2>5, <1>1
<1>3. Newest(s) = CHOOSE n \in Readable(s) : P(n)
  BY DEF Newest
<1>4. Newest(s) \in Readable(s) /\ P(Newest(s))
  <2> HIDE DEF P
  <2> QED BY <1>2, <1>3
<1> QED BY SMTT(60), <1>4, <1>1 DEF Readable

\* When slot n is the older one, the other holds the newest snapshot, if there is one.
LEMMA NewestIsOther ==
  ASSUME NEW a, NEW s \in SlotsType(a), NEW n \in {0, 1}, Older(s, n)
  PROVE  /\ s[1 - n].readable => Readable(s) # {} /\ Newest(s) = 1 - n
         /\ ~s[1 - n].readable => Readable(s) = {}
<1>1. \A m \in {0, 1} : s[m].seq \in Nat /\ s[m].readable \in BOOLEAN
  BY SlotFields
<1>2. 1 - n \in {0, 1} /\ \A m \in {0, 1} : m = n \/ m = 1 - n
  BY SMTT(60)
<1>3. ASSUME s[1 - n].readable PROVE Readable(s) # {} /\ Newest(s) = 1 - n
  <2>1. Readable(s) # {}
    BY <1>2, <1>3 DEF Readable
  <2>2. Newest(s) \in {0, 1} /\ s[Newest(s)].readable /\ s[1 - n].seq <= s[Newest(s)].seq
    BY <2>1, <1>2, <1>3, NewestIsReadable
  <2>3. Newest(s) # n
    BY SMTT(60), <2>2, <1>1, <1>2 DEF Older
  <2> QED BY <2>1, <2>2, <2>3, <1>2
<1>4. ASSUME ~s[1 - n].readable PROVE Readable(s) = {}
  BY <1>4, <1>2 DEF Older, Readable
<1> QED BY <1>3, <1>4

\* A snapshot slot's partition, and the first sequence replayed after it.
SnapOf(s, n) == IF s[n].readable THEN s[n].partition ELSE <<>>
FromOf(s, n) == IF s[n].readable THEN s[n].seq + 1 ELSE 0

\* The entries of a ring's records from a sequence on.
LogFrom(r, from) ==
  LET covered == IF from > r.base THEN from - r.base ELSE 0
  IN  [i \in 1 .. r.tail - covered |-> r.cells[covered + i - 1].entry]

\* The entries of a sound ring are a sequence.
LEMMA LogType ==
  ASSUME NEW a, NEW r \in RingType(a), Sound(r), NEW from \in Nat
  PROVE  LogFrom(r, from) \in Seq(Sent(a))
<1>1. r.tail \in 0 .. Capacity /\ r.base \in Nat /\ r.cells \in CellsType(a) /\ Capacity \in Nat
  BY RingFields, DbAssumption
<1> DEFINE covered == IF from > r.base THEN from - r.base ELSE 0
           n == IF r.tail > covered THEN r.tail - covered ELSE 0
<1>2. covered \in Nat /\ n \in Nat /\ 1 .. r.tail - covered = 1 .. n
  BY SMTT(60), <1>1
<1> HIDE DEF covered, n
<1>3. ASSUME NEW i \in 1 .. r.tail - covered PROVE r.cells[covered + i - 1].entry \in Sent(a)
  <2>1. covered + i - 1 \in 0 .. r.tail - 1 /\ covered + i - 1 \in 0 .. Capacity - 1
    BY SMTT(60), <1>1, <1>2
  <2>2. r.cells[covered + i - 1] \in RecordType(a)
    BY <2>1, <1>1 DEF CellsType
  <2>3. r.cells[covered + i - 1].entry \in Sent(a) \union {Nothing}
    BY <2>2 DEF RecordType
  <2>4. r.cells[covered + i - 1].entry # Nothing
    BY <2>1 DEF Sound
  <2> QED BY <2>3, <2>4
<1>4. LogFrom(r, from) = [i \in 1 .. n |-> r.cells[covered + i - 1].entry]
  BY <1>2 DEF LogFrom, covered
<1>5. [i \in 1 .. n |-> r.cells[covered + i - 1].entry] \in [1 .. n -> Sent(a)]
  BY <1>2, <1>3
<1>6. [1 .. n -> Sent(a)] \subseteq Seq(Sent(a))
  BY <1>2, SeqDef
<1> QED BY <1>4, <1>5, <1>6

\* A restart rebuilds, from a sound ring, the newest snapshot and the records after
\* it (derive_partition).
LEMMA DerivedSound ==
  ASSUME NEW a, NEW r \in RingType(a), NEW s \in SlotsType(a), NEW n \in {0, 1},
         Sound(r), Older(s, n)
  PROVE  DerivePartition(r, s) = SnapOf(s, 1 - n) \o LogFrom(r, FromOf(s, 1 - n))
<1>1. r.head = 0 /\ r.tail \in 0 .. Capacity /\ r.base \in Nat /\ Capacity \in Nat
  BY RingFields, DbAssumption
<1>2. Verified(r) = r.tail
  BY VerifiedSound
<1>3. FromSeq(s) = FromOf(s, 1 - n)
  BY NewestIsOther DEF FromSeq, FromOf
<1>4. FromSeq(s) \in Nat
  BY SMTT(60), <1>3, SlotFields DEF FromOf
<1> DEFINE covered == IF FromSeq(s) > r.base THEN FromSeq(s) - r.base ELSE 0
<1>5. covered \in Nat
  BY SMTT(60), <1>1, <1>4
<1>6. Replayed(r, s) = [i \in 1 .. r.tail - covered |-> r.cells[Cell(r.head + covered + i - 1)].entry]
  BY <1>2 DEF Replayed
<1> HIDE DEF covered
<1>7. \A i \in 1 .. r.tail - covered : Cell(r.head + covered + i - 1) = covered + i - 1
  <2> TAKE i \in 1 .. r.tail - covered
  <2>1. covered + i - 1 \in 0 .. Capacity - 1 /\ r.head + covered + i - 1 = covered + i - 1
    BY SMTT(60), <1>1, <1>5
  <2> QED BY <2>1, CellOfPlace
<1>8. Replayed(r, s) = LogFrom(r, FromOf(s, 1 - n))
  BY <1>3, <1>6, <1>7 DEF LogFrom, covered
<1>9. (IF Readable(s) = {} THEN <<>> ELSE s[Newest(s)].partition) = SnapOf(s, 1 - n)
  BY NewestIsOther DEF SnapOf
<1> QED BY <1>8, <1>9 DEF DerivePartition

\* Nothing is replayed from a ring none of whose records verifies.
LEMMA ReplayedNone ==
  ASSUME NEW a, NEW r \in RingType(a), NEW s \in SlotsType(a), Verified(r) = 0
  PROVE  Replayed(r, s) = <<>>
<1>1. FromSeq(s) \in Nat /\ r.base \in Nat
  BY SMTT(60), RingFields, SlotFields, NewestIsReadable DEF FromSeq
<1> DEFINE covered == IF FromSeq(s) > r.base THEN FromSeq(s) - r.base ELSE 0
           log == [i \in 1 .. 0 - covered |-> r.cells[Cell(r.head + covered + i - 1)].entry]
<1>2. covered \in Nat
  BY SMTT(60), <1>1
<1>3. 1 .. 0 - covered = {}
  BY SMTT(60), <1>2
<1>4. log \in [1 .. 0 -> {}]
  BY SMTT(60), <1>3
<1> HIDE DEF log, covered
<1>5. log \in Seq({})
  BY SMTT(60), <1>4, SeqDef
<1>6. Len(log) = 0
  BY SMTT(60), <1>4, <1>5, LenProperties
<1>7. log = <<>>
  BY <1>5, <1>6, EmptySeq
<1> QED BY <1>7 DEF Replayed, log, covered

\* A restart that verifies nothing derives the newest snapshot.
LEMMA DerivedCut ==
  ASSUME NEW a, NEW r \in RingType(a), NEW s \in SlotsType(a), NEW n \in {0, 1},
         Verified(r) = 0, Older(s, n)
  PROVE  DerivePartition(r, s) = SnapOf(s, 1 - n)
<1>1. Replayed(r, s) = <<>>
  BY ReplayedNone
<1>2. (IF Readable(s) = {} THEN <<>> ELSE s[Newest(s)].partition) = SnapOf(s, 1 - n)
  BY NewestIsOther DEF SnapOf
<1>3. SnapOf(s, 1 - n) \in Seq(Sent(a))
  BY SMTT(60), SlotFields DEF SnapOf
<1> QED BY <1>1, <1>2, <1>3, ConcatEmptySeq DEF DerivePartition

\* What a restart rebuilds is a sequence of entries.
LEMMA DerivedType ==
  ASSUME NEW a, NEW r \in RingType(a), NEW s \in SlotsType(a), Sound(r) \/ Cut(r)
  PROVE  /\ DerivePartition(r, s) \in Seq(Sent(a))
         /\ FromSeq(s) \in Nat
         /\ Verified(r) \in Nat
         /\ Sound(r) => Verified(r) = r.tail
         /\ Cut(r) => Verified(r) = 0
<1>1. r.head = 0 /\ r.tail \in 0 .. Capacity /\ r.base \in Nat /\ Capacity \in Nat
  BY RingFields, DbAssumption
<1>2. FromSeq(s) \in Nat
  BY SMTT(60), SlotFields, NewestIsReadable DEF FromSeq
<1>3. (IF Readable(s) = {} THEN <<>> ELSE s[Newest(s)].partition) \in Seq(Sent(a))
  BY SMTT(60), SlotFields, NewestIsReadable
<1>4. CASE Cut(r)
  <2>1. Verified(r) = 0
    BY <1>4, VerifiedCut
  <2>2. Replayed(r, s) = <<>>
    BY <2>1, ReplayedNone
  <2>3. DerivePartition(r, s) \in Seq(Sent(a))
    BY <1>3, <2>2, ConcatEmptySeq DEF DerivePartition
  <2>4. Sound(r) => Verified(r) = r.tail
    BY VerifiedSound
  <2> QED BY SMTT(60), <1>2, <2>1, <2>3, <2>4
<1>5. CASE Sound(r)
  <2>1. Verified(r) = r.tail
    BY <1>5, VerifiedSound
  <2> DEFINE covered == IF FromSeq(s) > r.base THEN FromSeq(s) - r.base ELSE 0
  <2>2. covered \in Nat
    BY SMTT(60), <1>1, <1>2
  <2>3. Replayed(r, s) = [i \in 1 .. r.tail - covered |-> r.cells[Cell(r.head + covered + i - 1)].entry]
    BY <2>1 DEF Replayed
  <2> HIDE DEF covered
  <2>4. \A i \in 1 .. r.tail - covered : Cell(r.head + covered + i - 1) = covered + i - 1
    <3> TAKE i \in 1 .. r.tail - covered
    <3>1. covered + i - 1 \in 0 .. Capacity - 1 /\ r.head + covered + i - 1 = covered + i - 1
      BY SMTT(60), <1>1, <2>2
    <3> QED BY <3>1, CellOfPlace
  <2>5. Replayed(r, s) = LogFrom(r, FromSeq(s))
    BY <2>3, <2>4 DEF LogFrom, covered
  <2>6. LogFrom(r, FromSeq(s)) \in Seq(Sent(a))
    BY <1>2, <1>5, LogType
  <2>7. DerivePartition(r, s) \in Seq(Sent(a))
    BY <1>3, <2>5, <2>6, ConcatProperties DEF DerivePartition
  <2>8. Cut(r) => Verified(r) = 0
    BY VerifiedCut
  <2> QED BY SMTT(60), <1>1, <1>2, <2>1, <2>7, <2>8
<1> QED BY <1>4, <1>5

-----------------------------------------------------------------------------
(* Entries, watermarks and acknowledgements *)

\* A non-empty set of naturals has a least element.
LEMMA LeastNatural ==
  ASSUME NEW T \in SUBSET Nat, T # {}
  PROVE  \E m \in T : \A n \in T : m <= n
<1> DEFINE R == OpToRel(<, Nat)
<1>1. IsWellFoundedOn(R, Nat)
  BY NatLessThanWellFounded
<1>2. \A m, n \in Nat : <<m, n>> \in R <=> m < n
  BY DEF OpToRel
<1> HIDE DEF R
<1>3. PICK m \in T : \A n \in T : ~ (<<n, m>> \in R)
  BY <1>1, WFMin
<1>4. m \in Nat /\ \A n \in T : n \in Nat
  OBVIOUS
<1>5. \A n \in T : ~ (n < m)
  BY <1>2, <1>3, <1>4
<1> QED BY SMTT(60), <1>4, <1>5

\* A non-empty set of naturals below a bound has a greatest element.
LEMMA GreatestNatural ==
  ASSUME NEW N \in Nat, NEW T \in SUBSET (0 .. N), T # {}
  PROVE  \E m \in T : \A n \in T : m >= n
<1>0. \A n \in T : n \in Int /\ N - n \in Nat
  BY SMTT(60)
<1>a. \A x, y \in Int : N - x <= N - y => x >= y
  BY SMTT(60)
<1> DEFINE U == {N - n : n \in T}
<1>1. U \in SUBSET Nat /\ U # {}
  BY <1>0
<1>2. PICK u \in U : \A v \in U : u <= v
  BY <1>1, LeastNatural
<1>3. PICK m \in T : u = N - m
  BY <1>2
<1>4. \A n \in T : N - m <= N - n
  BY <1>2, <1>3
<1>5. \A n \in T : m >= n
  BY <1>0, <1>a, <1>3, <1>4
<1> QED BY <1>5

\* Entries are told apart by their kind and their number.
LEMMA EntryKinds ==
  ASSUME NEW m, NEW n
  PROVE  /\ Verb(m) # Nothing /\ Ack(m) # Nothing
         /\ Verb(m) # Ack(n)
         /\ Verb(m) = Verb(n) => m = n
         /\ Ack(m) = Ack(n) => m = n
         /\ Verb(m)[1] = "verb" /\ Ack(m)[1] # "verb"
BY DEF Verb, Ack, Nothing

\* A later acknowledgement leaves everything of its type.
LEMMA SentGrows ==
  ASSUME NEW a \in Nat, NEW b \in Nat, a <= b
  PROVE  /\ Sent(a) \subseteq Sent(b)
         /\ RingType(a) \subseteq RingType(b)
         /\ SlotsType(a) \subseteq SlotsType(b)
         /\ Seq(Sent(a)) \subseteq Seq(Sent(b))
         /\ JobType(a) \subseteq JobType(b)
<1>1. Sent(a) \subseteq Sent(b)
  BY SMTT(60) DEF Sent
<1>2. Seq(Sent(a)) \subseteq Seq(Sent(b))
  BY <1>1, SeqMonotonic
<1>3. RecordType(a) \subseteq RecordType(b)
  BY <1>1 DEF RecordType
<1>4. CellsType(a) \subseteq CellsType(b)
  BY <1>3 DEF CellsType
<1>5. RingType(a) \subseteq RingType(b)
  BY <1>4 DEF RingType
<1>6. SlotType(a) \subseteq SlotType(b)
  BY <1>2 DEF SlotType
<1>7. SlotsType(a) \subseteq SlotsType(b)
  BY <1>6 DEF SlotsType
<1>8. JobType(a) \subseteq JobType(b)
  BY <1>1 DEF JobType
<1> QED BY <1>1, <1>2, <1>5, <1>7, <1>8

\* The elements of a sequence, and of a longer one.
LEMMA ElementsAppend ==
  ASSUME NEW S, NEW s \in Seq(S), NEW e \in S
  PROVE  Range(s) \subseteq S /\ Range(Append(s, e)) = Range(s) \union {e}
<1>1. DOMAIN s = 1 .. Len(s) /\ Len(s) \in Nat
  BY LenProperties
<1>2. Append(s, e) \in Seq(S) /\ Len(Append(s, e)) = Len(s) + 1
  BY AppendProperties
<1>3. DOMAIN Append(s, e) = 1 .. Len(s) + 1
  BY <1>2, LenProperties
<1>4. \A i \in 1 .. Len(s) : Append(s, e)[i] = s[i]
  BY SMTT(60), AppendProperties
<1>5. Append(s, e)[Len(s) + 1] = e
  BY AppendProperties
<1>6. Range(s) \subseteq S
  BY <1>1, ElementOfSeq DEF Range
<1>7. ASSUME NEW x \in Range(Append(s, e)) PROVE x \in Range(s) \union {e}
  <2>1. PICK i \in 1 .. Len(s) + 1 : x = Append(s, e)[i]
    BY <1>3 DEF Range
  <2>2. CASE i = Len(s) + 1
    BY <2>1, <2>2, <1>5
  <2>3. CASE i \in 1 .. Len(s)
    BY <2>1, <2>3, <1>4, <1>1 DEF Range
  <2> QED BY SMTT(60), <2>2, <2>3, <1>1
<1>8. ASSUME NEW x \in Range(s) \union {e} PROVE x \in Range(Append(s, e))
  <2>1. CASE x = e
    BY SMTT(60), <2>1, <1>1, <1>3, <1>5 DEF Range
  <2>2. CASE x \in Range(s)
    <3>1. PICK i \in 1 .. Len(s) : x = s[i]
      BY <2>2, <1>1 DEF Range
    <3>2. i \in 1 .. Len(s) + 1 /\ x = Append(s, e)[i]
      BY SMTT(60), <3>1, <1>1, <1>4
    <3> QED BY <3>2, <1>3 DEF Range
  <2> QED BY <2>1, <2>2
<1> QED BY <1>6, <1>7, <1>8

\* The watermark a partition holds is zero or an acknowledgement it holds, and none of
\* those is above it (ClientWindow::acknowledge).
LEMMA WatermarkOfWindow ==
  ASSUME NEW p
  PROVE  /\ AcknowledgedUpTo(p) \in 0 .. MaxRequest
         /\ AcknowledgedUpTo(p) > 0 => Ack(AcknowledgedUpTo(p)) \in Range(p)
<1> DEFINE T == {0} \cup {n \in Request : Ack(n) \in Range(p)}
<1>1. T \in SUBSET (0 .. MaxRequest) /\ T # {} /\ MaxRequest \in Nat
  BY SMTT(60), RequestsAssumption DEF Request
<1>2. \E m \in T : \A n \in T : m >= n
  BY <1>1, GreatestNatural
<1>3. AcknowledgedUpTo(p) \in T
  <2>1. AcknowledgedUpTo(p) = CHOOSE m \in T : \A n \in T : m >= n
    BY DEF AcknowledgedUpTo, Max
  <2> HIDE DEF T
  <2> QED BY <2>1, <1>2
<1> QED BY SMTT(60), <1>1, <1>3

\* A request at or below a partition's watermark was acknowledged by the client.
LEMMA AcknowledgedWasSent ==
  ASSUME NEW a \in Nat, NEW p \in Seq(Sent(a)), NEW n \in Request, n <= AcknowledgedUpTo(p)
  PROVE  n \in 1 .. a
<1> DEFINE m == AcknowledgedUpTo(p)
<1>1. m \in 0 .. MaxRequest /\ n \in 1 .. MaxRequest /\ MaxRequest \in Nat /\ m >= n
  BY WatermarkOfWindow, RequestsAssumption DEF Request
<1>2. Ack(m) \in Range(p)
  BY SMTT(60), <1>1, WatermarkOfWindow
<1>3. PICK i \in DOMAIN p : p[i] = Ack(m)
  BY <1>2 DEF Range
<1> HIDE DEF m
<1>4. Ack(m) \in Sent(a)
  BY <1>3, ElementOfSeq, LenProperties
<1>5. m \in 1 .. a
  BY <1>4, EntryKinds DEF Sent
<1> QED BY SMTT(60), <1>1, <1>5

\* The client's watermark stays below what it keeps for a retry and what it awaits
\* (ack_watermark).
LEMMA WatermarkOfClient ==
  ASSUME issued \in 0 .. MaxRequest, MaxRequest \in Nat, retryable \in SUBSET (1 .. issued)
  PROVE  /\ Watermark \in 0 .. issued
         /\ \A n \in 1 .. Watermark : /\ n \notin retryable
                                      /\ ~(replies[n] = "awaited" /\ pending[n] = "none")
<1> DEFINE open == retryable \union {n \in 1 .. issued : replies[n] = "awaited" /\ pending[n] = "none"}
<1>1. CASE open = {}
  <2>1. Watermark = issued
    BY <1>1 DEF Watermark
  <2> QED BY SMTT(60), <2>1, <1>1
<1>2. CASE open # {}
  <2>1. open \in SUBSET Nat
    <3>1. open \subseteq 1 .. issued
      OBVIOUS
    <3>2. 1 .. issued \subseteq Nat
      BY SMTT(60)
    <3> QED BY <3>1, <3>2
  <2>2. \E m \in open : \A n \in open : m <= n
    BY <2>1, <1>2, LeastNatural
  <2>3. Watermark = Min(open) - 1
    BY <1>2 DEF Watermark
  <2>4. Min(open) \in open /\ \A n \in open : Min(open) <= n
    <3>1. Min(open) = CHOOSE m \in open : \A n \in open : m =< n
      BY DEF Min
    <3> HIDE DEF open
    <3> QED BY <3>1, <2>2
  <2> DEFINE m == Min(open)
  <2>5. m \in 1 .. issued /\ Watermark = m - 1 /\ \A n \in open : m <= n
    BY <2>3, <2>4
  <2> HIDE DEF m
  <2>6. \A n \in 1 .. m - 1 : n \in 1 .. issued /\ n \notin open
    BY SMTT(60), <2>5
  <2> QED BY SMTT(60), <2>5, <2>6
<1> QED BY <1>1, <1>2

-----------------------------------------------------------------------------
(* The first layer, an action to a lemma *)

\* A store past the tail leaves a ring sound.
LEMMA SoundPastTail ==
  ASSUME NEW a, NEW r \in RingType(a), Sound(r), r.tail < Capacity, NEW x \in RecordType(a)
  PROVE  LET q == [r EXCEPT !.cells[Cell(r.tail)] = x]
         IN  /\ q \in RingType(a) /\ Sound(q)
             /\ q.tail = r.tail /\ q.base = r.base /\ q.cells[r.tail] = x
             /\ \A i \in 0 .. r.tail - 1 : q.cells[i] = r.cells[i]
<1>1. r.tail \in 0 .. Capacity - 1 /\ Capacity \in Nat
  BY SMTT(60), RingFields, DbAssumption
<1>2. Cell(r.tail) = r.tail
  BY <1>1, CellOfPlace
<1> DEFINE q == [r EXCEPT !.cells[r.tail] = x]
<1>3. /\ q \in RingType(a)
      /\ q.tail = r.tail /\ q.base = r.base /\ q.cells[r.tail] = x
      /\ \A i \in 0 .. Capacity - 1 : i # r.tail => q.cells[i] = r.cells[i]
  BY SMTT(60), <1>1, RingCell
<1> HIDE DEF q
<1>4. \A i \in 0 .. r.tail - 1 : q.cells[i] = r.cells[i]
  BY SMTT(60), <1>1, <1>3
<1>5. Sound(q)
  BY <1>3, <1>4 DEF Sound
<1> QED BY <1>2, <1>3, <1>4, <1>5 DEF q

\* A blank cell, an empty slot and a record have their types.
LEMMA BlankTypes ==
  ASSUME NEW a
  PROVE  Blank \in RecordType(a) /\ Unreadable \in SlotType(a)
<1>1. <<>> \in Seq(Sent(a))
  BY EmptySeq
<1> QED BY <1>1 DEF Blank, RecordType, Unreadable, SlotType, Nothing

\* The store stays sound over the decision to append or to publish first.
LEMMA AppendRecordStores ==
  ASSUME StoreInv, AppendRecord, UNCHANGED clientVars
  PROVE  StoreInv'
<1> USE DEF StoreInv
<1>1. /\ ring \in RingType(ackSent) /\ job \in JobType(ackSent) /\ Sound(ring)
      /\ ring.head = 0 /\ ring.tail \in 0 .. Capacity /\ Capacity \in Nat \ {0}
      /\ pc = "append" /\ job.entry # Nothing
  BY RingFields, DbAssumption DEF TypeInv, RingInv, AppendRecord, Appending
<1>2. CASE Full
  <2>1. pc' = "publish" /\ UNCHANGED <<ring, slots, memory, clientVars>>
    BY <1>2 DEF AppendRecord, Goto
  <2>2. job' \in {[job EXCEPT !.why = "commit"], [job EXCEPT !.why = "retry"]}
    BY <1>2 DEF AppendRecord
  <2>3. job' \in JobType(ackSent) /\ job'.entry = job.entry /\ job'.result = job.result
    <3>1. CASE job' = [job EXCEPT !.why = "commit"]
      BY <1>1, <3>1, JobWhy
    <3>2. CASE job' = [job EXCEPT !.why = "retry"]
      BY <1>1, <3>2, JobWhy
    <3> QED BY <2>2, <3>1, <3>2
  <2>4. ring.tail > 0
    BY SMTT(60), <1>1, <1>2 DEF Full
  <2>5. TypeInv'
    BY <2>1, <2>3 DEF TypeInv, memory, clientVars, Point, Publishing
  <2>6. RingInv'
    BY <1>1, <2>1, <2>3, <2>4 DEF RingInv, memory, clientVars, Appending, Publishing, Trimming
  <2>7. ClientInv'
    BY <2>1, <2>3 DEF ClientInv, AwaitedNeverRefused, Open, memory, clientVars
  <2> QED BY <2>5, <2>6, <2>7
<1>3. CASE ~Full
  <2>1. /\ pc' = "write" /\ ring' = [ring EXCEPT !.cells[Cell(ring.tail)] = Blank]
        /\ UNCHANGED <<slots, memory, job, clientVars>>
    BY <1>3 DEF AppendRecord, Goto
  <2>2. ring.tail < Capacity
    BY SMTT(60), <1>1, <1>3 DEF Full
  <2>3. ring' \in RingType(ackSent) /\ Sound(ring') /\ ring'.tail = ring.tail /\ ring'.base = ring.base
    BY SMTT(60), <1>1, <2>1, <2>2, SoundPastTail, BlankTypes
  <2>4. TypeInv'
    BY <2>1, <2>3 DEF TypeInv, memory, clientVars, Point, Appending
  <2>5. RingInv'
    BY <1>1, <2>1, <2>2, <2>3 DEF RingInv, memory, clientVars, Appending, Publishing, Trimming
  <2>6. ClientInv'
    BY <2>1 DEF ClientInv, AwaitedNeverRefused, Open, memory, clientVars
  <2> QED BY <2>4, <2>5, <2>6
<1> QED BY <1>2, <1>3

\* The store stays sound over the write of a record's cell.
LEMMA WriteRecordStores ==
  ASSUME StoreInv, WriteRecord, UNCHANGED clientVars
  PROVE  StoreInv'
<1> USE DEF StoreInv
<1>1. /\ ring \in RingType(ackSent) /\ job \in JobType(ackSent) /\ Sound(ring)
      /\ ring.head = 0 /\ ring.tail \in 0 .. Capacity /\ ring.tail < Capacity
      /\ pc = "write" /\ job.entry # Nothing /\ nextSeq \in Nat
  BY RingFields DEF TypeInv, RingInv, WriteRecord, Appending
<1> DEFINE x == [seq |-> nextSeq, entry |-> job.entry]
<1>2. x \in RecordType(ackSent)
  BY <1>1, JobFields DEF RecordType
<1>3. /\ pc' = IF ring.tail = 0 THEN "base" ELSE "tail"
      /\ ring' = [ring EXCEPT !.cells[Cell(ring.tail)] = x]
      /\ UNCHANGED <<slots, memory, job, clientVars>>
  BY <1>1 DEF WriteRecord, Goto
<1>4. /\ ring' \in RingType(ackSent) /\ Sound(ring') /\ ring'.tail = ring.tail
      /\ ring'.base = ring.base /\ ring'.cells[ring.tail] = x
  <2> HIDE DEF x
  <2> QED BY SMTT(60), <1>1, <1>2, <1>3, SoundPastTail
<1>5. TypeInv'
  BY <1>3, <1>4 DEF TypeInv, memory, clientVars, Point, Appending
<1>6. RingInv'
  BY SMTT(60), <1>1, <1>3, <1>4 DEF RingInv, memory, clientVars, Appending, Publishing, Trimming
<1>7. ClientInv'
  BY <1>3 DEF ClientInv, AwaitedNeverRefused, Open, memory, clientVars
<1> QED BY <1>5, <1>6, <1>7

\* The store stays sound over the store of the base.
LEMMA StoreBaseStores ==
  ASSUME StoreInv, StoreBase, UNCHANGED clientVars
  PROVE  StoreInv'
<1> USE DEF StoreInv
<1>1. /\ ring \in RingType(ackSent) /\ Sound(ring) /\ ring.tail = 0 /\ pc = "base"
      /\ nextSeq \in Nat /\ job.entry # Nothing /\ ring.tail < Capacity
      /\ ring.cells[ring.tail] = [seq |-> nextSeq, entry |-> job.entry]
  BY DEF TypeInv, RingInv, StoreBase, Appending
<1>2. /\ pc' = "tail" /\ ring' = [ring EXCEPT !.base = nextSeq]
      /\ UNCHANGED <<slots, memory, job, clientVars>>
  BY DEF StoreBase, Goto
<1>3. /\ ring' \in RingType(ackSent) /\ ring'.tail = 0 /\ ring'.base = nextSeq
      /\ ring'.cells = ring.cells
  BY SMTT(60), <1>1, <1>2, RingBase
<1>4. Sound(ring')
  BY SMTT(60), <1>3 DEF Sound
<1>5. TypeInv'
  BY <1>2, <1>3 DEF TypeInv, memory, clientVars, Point, Appending
<1>6. RingInv'
  BY SMTT(60), <1>1, <1>2, <1>3, <1>4 DEF RingInv, memory, clientVars, Appending, Publishing, Trimming
<1>7. ClientInv'
  BY <1>2 DEF ClientInv, AwaitedNeverRefused, Open, memory, clientVars
<1> QED BY <1>5, <1>6, <1>7

\* The store stays sound over the store of the tail.
LEMMA StoreTailStores ==
  ASSUME StoreInv, StoreTail, UNCHANGED clientVars
  PROVE  StoreInv'
<1> USE DEF StoreInv
<1>1. /\ ring \in RingType(ackSent) /\ job \in JobType(ackSent) /\ Sound(ring) /\ pc = "tail"
      /\ ring.tail \in 0 .. Capacity /\ ring.tail < Capacity /\ Capacity \in Nat \ {0}
      /\ ring.base \in Nat /\ nextSeq \in Nat /\ job.entry # Nothing
      /\ ring.cells[ring.tail] = [seq |-> nextSeq, entry |-> job.entry]
      /\ nextSeq = ring.base + ring.tail
      /\ slots \in SlotsType(ackSent) /\ Below(slots, nextSeq)
      /\ partition \in Seq(Sent(ackSent))
  BY RingFields, DbAssumption DEF TypeInv, RingInv, StoreTail, Appending
<1> DEFINE t == ring.tail + 1
<1>2. t \in 0 .. Capacity /\ ring.tail + 1 \in Int
  BY SMTT(60), <1>1
<1>3. /\ ring' = [ring EXCEPT !.tail = t]
      /\ pc' \in {"reply", "publish"}
      /\ job' = [job EXCEPT !.why = "maintain"]
      /\ partition' = IF job.batched THEN partition ELSE Append(partition, job.entry)
      /\ nextSeq' = nextSeq + 1
      /\ UNCHANGED <<slots, nextSlot, clientVars>>
  BY DEF StoreTail, Goto
<1>4. /\ ring' \in RingType(ackSent) /\ ring'.tail = t /\ ring'.base = ring.base
      /\ ring'.cells = ring.cells
  <2> HIDE DEF t
  <2> QED BY SMTT(60), <1>1, <1>2, <1>3, RingTail
<1>5. job' \in JobType(ackSent) /\ job'.entry = job.entry /\ job'.result = job.result
  BY <1>1, <1>3, JobWhy
<1>6. Sound(ring')
  <2> SUFFICES ASSUME NEW i \in 0 .. ring.tail
               PROVE  ring.cells[i].seq = ring.base + i /\ ring.cells[i].entry # Nothing
    BY SMTT(60), <1>1, <1>4 DEF Sound
  <2>1. CASE i = ring.tail
    BY SMTT(60), <2>1, <1>1
  <2>2. CASE i \in 0 .. ring.tail - 1
    BY <2>2, <1>1 DEF Sound
  <2> QED BY SMTT(60), <2>1, <2>2, <1>1
<1>7. partition' \in Seq(Sent(ackSent))
  <2>1. job.entry \in Sent(ackSent)
    BY <1>1, JobFields
  <2> QED BY <2>1, <1>1, <1>3, AppendProperties
<1>8. TypeInv'
  BY SMTT(60), <1>1, <1>3, <1>4, <1>5, <1>7 DEF TypeInv, clientVars, Point, Publishing
<1>9. Below(slots', nextSeq')
  BY SMTT(60), <1>1, <1>3, SlotFields DEF Below
<1>10. RingInv'
  BY SMTT(60), <1>1, <1>3, <1>4, <1>5, <1>6, <1>9 DEF RingInv, Appending, Publishing, Trimming
<1>11. ClientInv'
  BY <1>3, <1>5 DEF ClientInv, AwaitedNeverRefused, Open, clientVars
<1> QED BY <1>8, <1>10, <1>11

\* The store stays sound over the start of a publication.
LEMMA BeginPublishStores ==
  ASSUME StoreInv, BeginPublish, UNCHANGED clientVars
  PROVE  StoreInv'
<1> USE DEF StoreInv
<1>1. slots \in SlotsType(ackSent) /\ nextSlot \in {0, 1} /\ pc = "publish"
  BY DEF TypeInv, BeginPublish
<1>2. /\ pc' = "published" /\ slots' = [slots EXCEPT ![nextSlot] = Unreadable]
      /\ UNCHANGED <<ring, memory, job, clientVars>>
  BY DEF BeginPublish, Goto
<1>3. slots' \in SlotsType(ackSent) /\ slots'[nextSlot] = Unreadable /\ slots'[1 - nextSlot] = slots[1 - nextSlot]
  BY SMTT(60), <1>1, <1>2, BlankTypes DEF SlotsType
<1>4. TypeInv'
  BY <1>2, <1>3 DEF TypeInv, memory, clientVars, Point, Publishing
<1>5. Below(slots, nextSeq) => Below(slots', nextSeq)
  BY SMTT(60), <1>1, <1>3 DEF Below, Unreadable
<1>6. RingInv'
  BY <1>1, <1>2, <1>5 DEF RingInv, memory, clientVars, Appending, Publishing, Trimming
<1>7. ClientInv'
  BY <1>2 DEF ClientInv, AwaitedNeverRefused, Open, memory, clientVars
<1> QED BY <1>4, <1>6, <1>7

\* The store stays sound over the end of a publication.
LEMMA EndPublishStores ==
  ASSUME StoreInv, EndPublish, UNCHANGED clientVars
  PROVE  StoreInv'
<1> USE DEF StoreInv
<1>1. /\ slots \in SlotsType(ackSent) /\ nextSlot \in {0, 1} /\ pc = "published"
      /\ nextSeq \in Nat /\ ring.tail \in 0 .. Capacity /\ ring.tail > 0 /\ ring.base \in Nat
      /\ nextSeq = ring.base + ring.tail /\ partition \in Seq(Sent(ackSent))
      /\ Below(slots, nextSeq)
  BY RingFields DEF TypeInv, RingInv, EndPublish, Publishing
<1>2. nextSeq - 1 \in Nat
  BY SMTT(60), <1>1, DbAssumption
<1> DEFINE x == [seq |-> nextSeq - 1, readable |-> TRUE, partition |-> partition]
<1>3. /\ pc' = "trim" /\ slots' = [slots EXCEPT ![nextSlot] = x]
      /\ UNCHANGED <<ring, memory, job, clientVars>>
  BY DEF EndPublish, Goto
<1>4. x \in SlotType(ackSent) /\ x.seq = nextSeq - 1
  <2> DEFINE m == nextSeq - 1
  <2>1. m \in Nat
    BY <1>2
  <2> HIDE DEF m
  <2>2. [seq |-> m, readable |-> TRUE, partition |-> partition] \in SlotType(ackSent)
    BY <2>1, <1>1 DEF SlotType
  <2> QED BY <2>2 DEF m
<1> HIDE DEF x
<1>5. slots' \in SlotsType(ackSent) /\ slots'[nextSlot] = x /\ slots'[1 - nextSlot] = slots[1 - nextSlot]
  BY SMTT(60), <1>1, <1>3, <1>4 DEF SlotsType
<1>6. TypeInv'
  BY <1>3, <1>5 DEF TypeInv, memory, clientVars, Point, Trimming
<1>7. Below(slots', nextSeq)
  <2>1. slots'[nextSlot].seq < nextSeq
    BY SMTT(60), <1>1, <1>4, <1>5
  <2>2. slots'[1 - nextSlot].readable => slots'[1 - nextSlot].seq < nextSeq
    BY SMTT(60), <1>1, <1>5 DEF Below
  <2> QED BY SMTT(60), <2>1, <2>2, <1>1 DEF Below
<1>8. RingInv'
  BY <1>1, <1>3, <1>7 DEF RingInv, memory, clientVars, Appending, Publishing, Trimming
<1>9. ClientInv'
  BY <1>3 DEF ClientInv, AwaitedNeverRefused, Open, memory, clientVars
<1> QED BY <1>6, <1>8, <1>9

\* The store stays sound over the first store of the trim.
LEMMA TrimBaseStores ==
  ASSUME StoreInv, TrimBase, UNCHANGED clientVars
  PROVE  StoreInv'
<1> USE DEF StoreInv
<1>1. /\ ring \in RingType(ackSent) /\ ring.head = 0 /\ ring.tail \in 0 .. Capacity /\ ring.tail > 0
      /\ ring.base \in Nat /\ Sound(ring) /\ Capacity \in Nat /\ pc = "trim" /\ job.entry # Nothing
  BY RingFields, DbAssumption DEF TypeInv, RingInv, TrimBase, Trimming
<1> DEFINE b == ring.base + (ring.tail - ring.head)
<1>2. b \in Nat /\ b # ring.base
  BY SMTT(60), <1>1
<1>3. /\ pc' = "trimHead" /\ ring' = [ring EXCEPT !.base = b]
      /\ UNCHANGED <<slots, memory, job, clientVars>>
  BY DEF TrimBase, Goto
<1> HIDE DEF b
<1>4. /\ ring' \in RingType(ackSent) /\ ring'.tail = ring.tail /\ ring'.base = b
      /\ ring'.cells = ring.cells
  BY SMTT(60), <1>1, <1>2, <1>3, RingBase
<1>5. ring.cells[0].seq = ring.base
  BY SMTT(60), <1>1 DEF Sound
<1>6. Cut(ring')
  BY <1>1, <1>2, <1>4, <1>5 DEF Cut
<1>7. TypeInv'
  BY <1>3, <1>4 DEF TypeInv, memory, clientVars, Point, Trimming
<1>8. RingInv'
  BY <1>1, <1>3, <1>4, <1>6 DEF RingInv, memory, clientVars, Appending, Publishing, Trimming
<1>9. ClientInv'
  BY <1>3 DEF ClientInv, AwaitedNeverRefused, Open, memory, clientVars
<1> QED BY <1>7, <1>8, <1>9

\* The store stays sound over the second store of the trim.
LEMMA TrimHeadStores ==
  ASSUME StoreInv, TrimHead, UNCHANGED clientVars
  PROVE  StoreInv' /\ ring' = ring
<1> USE DEF StoreInv
<1>1. ring \in RingType(ackSent) /\ ring.head = 0 /\ pc = "trimHead"
  BY RingFields DEF TypeInv, TrimHead
<1>2. /\ pc' = "trimTail" /\ ring' = [ring EXCEPT !.head = 0]
      /\ UNCHANGED <<slots, memory, job, clientVars>>
  BY DEF TrimHead, Goto
<1>3. ring' = ring
  BY <1>1, <1>2 DEF RingType
<1>4. TypeInv'
  BY <1>2, <1>3 DEF TypeInv, memory, clientVars, Point, Trimming
<1>5. RingInv'
  BY <1>1, <1>2, <1>3 DEF RingInv, memory, clientVars, Appending, Publishing, Trimming
<1>6. ClientInv'
  BY <1>2 DEF ClientInv, AwaitedNeverRefused, Open, memory, clientVars
<1> QED BY <1>3, <1>4, <1>5, <1>6

\* The store stays sound over the last store of the trim.
LEMMA TrimTailStores ==
  ASSUME StoreInv, TrimTail, UNCHANGED clientVars
  PROVE  StoreInv'
<1> USE DEF StoreInv
<1>1. /\ ring \in RingType(ackSent) /\ pc = "trimTail" /\ nextSeq \in Nat /\ nextSlot \in {0, 1}
      /\ job.entry # Nothing /\ slots \in SlotsType(ackSent) /\ Below(slots, nextSeq)
      /\ 0 \in 0 .. Capacity
  BY SMTT(60), DbAssumption DEF TypeInv, RingInv, TrimTail, Trimming
<1>2. /\ pc' \in {"append", "reply"} /\ ring' = [ring EXCEPT !.tail = 0]
      /\ nextSlot' = 1 - nextSlot
      /\ nextSeq' \in {nextSeq, nextSeq + 1}
      /\ UNCHANGED <<slots, partition, job, clientVars>>
  BY DEF TrimTail, Goto, Other
<1>3. ring' \in RingType(ackSent) /\ ring'.tail = 0
  BY <1>1, <1>2, RingTail
<1>4. Sound(ring')
  BY SMTT(60), <1>3 DEF Sound
<1>5. Below(slots', nextSeq')
  BY SMTT(60), <1>1, <1>2, SlotFields DEF Below
<1>6. TypeInv'
  BY SMTT(60), <1>1, <1>2, <1>3 DEF TypeInv, clientVars, Point, Appending
<1>7. RingInv'
  BY SMTT(60), <1>1, <1>2, <1>3, <1>4, <1>5 DEF RingInv, Appending, Publishing, Trimming
<1>8. ClientInv'
  BY <1>2 DEF ClientInv, AwaitedNeverRefused, Open, clientVars
<1> QED BY <1>6, <1>7, <1>8

\* The store stays sound over a publication the store refuses.
LEMMA RefusePublishStores ==
  ASSUME StoreInv, RefusePublish, UNCHANGED clientVars
  PROVE  StoreInv'
<1> USE DEF StoreInv
<1>1. /\ ring \in RingType(ackSent) /\ slots \in SlotsType(ackSent) /\ job \in JobType(ackSent)
      /\ Sound(ring) /\ pc = "publish" /\ partition \in Seq(Sent(ackSent))
  BY DEF TypeInv, RingInv, RefusePublish
<1>2. pc' = "reply" /\ UNCHANGED <<ring, slots, nextSeq, nextSlot, clientVars>>
  BY DEF RefusePublish, Goto, segment
<1>3. partition' \in Seq(Sent(ackSent))
  <2>1. Derived \in Seq(Sent(ackSent))
    BY <1>1, DerivedType DEF Derived
  <2>2. partition' = partition \/ partition' = Derived
    BY DEF RefusePublish
  <2> QED BY <1>1, <2>1, <2>2
<1>4. job' \in JobType(ackSent) /\ (job' = job \/ job'.result = "unpublished")
  <2>1. CASE job' = job
    BY <2>1, <1>1
  <2>2. CASE job' = [job EXCEPT !.result = "unpublished"]
    BY <2>2, <1>1, JobResult
  <2> QED BY <2>1, <2>2 DEF RefusePublish
<1>5. TypeInv'
  BY <1>2, <1>3, <1>4 DEF TypeInv, clientVars, Point
<1>6. RingInv'
  BY <1>1, <1>2 DEF RingInv, Appending, Publishing, Trimming
<1>7. ClientInv'
  BY <1>2, <1>4 DEF ClientInv, AwaitedNeverRefused, Open, clientVars
<1> QED BY <1>5, <1>6, <1>7

\* The store stays sound over a crash.
LEMMA CrashStores ==
  ASSUME StoreInv, Crash, UNCHANGED clientVars
  PROVE  StoreInv'
<1> USE DEF StoreInv
<1>1. /\ pc' = "down" /\ job' = NoJob /\ partition' = <<>> /\ nextSeq' = 0 /\ nextSlot' = 0
      /\ UNCHANGED <<ring, slots, clientVars>>
  BY DEF Crash, Goto, segment
<1>2. <<>> \in Seq(Sent(ackSent)) /\ NoJob \in JobType(ackSent) /\ NoJob.result = "none"
  BY EmptySeq, NoJobFields
<1>3. TypeInv'
  BY <1>1, <1>2 DEF TypeInv, clientVars, Point
<1>4. Cut(ring) => ~Sound(ring)
  <2>1. ring.tail \in 0 .. Capacity /\ ring.base \in Nat /\ Capacity \in Nat
    BY RingFields, DbAssumption DEF TypeInv
  <2> QED BY SMTT(60), <2>1 DEF Cut, Sound
<1>5. RingInv'
  <2>1. Sound(ring) \/ Cut(ring)
    BY DEF RingInv
  <2>2. Sound(ring) /\ ring.tail > 0 => Below(slots, ring.base + ring.tail)
    BY <1>4 DEF RingInv
  <2> QED BY <1>1, <2>1, <2>2 DEF RingInv, Appending, Publishing, Trimming
<1>6. ClientInv'
  BY <1>1, <1>2 DEF ClientInv, AwaitedNeverRefused, Open, clientVars
<1> QED BY <1>3, <1>5, <1>6

\* The store stays sound over a restart.
LEMMA RecoverStores ==
  ASSUME StoreInv, Recover, UNCHANGED clientVars
  PROVE  StoreInv'
<1> USE DEF StoreInv
<1>1. /\ ring \in RingType(ackSent) /\ slots \in SlotsType(ackSent) /\ job \in JobType(ackSent)
      /\ Sound(ring) \/ Cut(ring)
      /\ ring.head = 0 /\ ring.tail \in 0 .. Capacity /\ ring.base \in Nat /\ Capacity \in Nat
      /\ pc = "down"
      /\ Sound(ring) /\ ring.tail > 0 => Below(slots, ring.base + ring.tail)
  BY RingFields, DbAssumption DEF TypeInv, RingInv, Recover
<1> DEFINE v == Verified(ring)
           f == FromSeq(slots)
<1>2. /\ Derived \in Seq(Sent(ackSent)) /\ f \in Nat /\ v \in 0 .. Capacity
      /\ Sound(ring) => v = ring.tail
      /\ Cut(ring) => v = 0
  BY SMTT(60), <1>1, DerivedType DEF Derived
<1>3. /\ pc' = "idle" /\ ring' = [ring EXCEPT !.tail = ring.head + v]
      /\ partition' = Derived
      /\ nextSeq' = IF ring.base + v >= f THEN ring.base + v ELSE f
      /\ nextSlot' = IF Readable(slots) = {} THEN 0 ELSE 1 - Newest(slots)
      /\ UNCHANGED <<slots, job, clientVars>>
  BY DEF Recover, Goto, MaxOf, Other
<1> HIDE DEF v
<1>4. ring.head + v = v
  BY SMTT(60), <1>1, <1>2
<1>5. ring' \in RingType(ackSent) /\ ring'.tail = v /\ ring'.base = ring.base /\ ring'.cells = ring.cells
  BY SMTT(60), <1>1, <1>2, <1>3, <1>4, RingTail
<1>6. Sound(ring')
  BY SMTT(60), <1>1, <1>2, <1>5 DEF Sound
<1>7. Below(slots, f)
  BY SMTT(60), <1>1, SlotFields, NewestIsReadable DEF Below, FromSeq, Readable
<1>8. nextSlot' \in {0, 1}
  BY SMTT(60), <1>1, <1>3, NewestIsReadable
<1>9. nextSeq' \in Nat /\ Below(slots, nextSeq')
  <2>1. nextSeq' \in Nat /\ nextSeq' >= f
    BY SMTT(60), <1>1, <1>2, <1>3
  <2> HIDE DEF f
  <2> QED BY SMTT(60), <2>1, <1>1, <1>2, <1>7, SlotFields DEF Below
<1>10. ring'.tail > 0 => nextSeq' = ring'.base + ring'.tail
  <2> SUFFICES ASSUME v > 0 PROVE nextSeq' = ring.base + v
    BY <1>5
  <2>1. Sound(ring) /\ v = ring.tail
    BY SMTT(60), <1>1, <1>2
  <2>2. Below(slots, ring.base + v)
    BY <2>1, <1>1
  <2>3. ring.base + v >= f
    BY SMTT(60), <2>2, <1>1, <1>2, SlotFields, NewestIsReadable DEF Below, FromSeq
  <2> QED BY <2>3, <1>3
<1>11. TypeInv'
  BY <1>2, <1>3, <1>5, <1>8, <1>9 DEF TypeInv, clientVars, Point
<1>12. RingInv'
  BY <1>3, <1>6, <1>9, <1>10 DEF RingInv, Appending, Publishing, Trimming
<1>13. ClientInv'
  BY <1>3 DEF ClientInv, AwaitedNeverRefused, Open, clientVars
<1> QED BY <1>11, <1>12, <1>13

\* The requests acknowledged are requests.
LEMMA AcknowledgedAreRequests ==
  ASSUME TypeInv
  PROVE  /\ issued \in 0 .. MaxRequest /\ MaxRequest \in Nat /\ ackSent \in 0 .. issued
         /\ 1 .. ackSent \subseteq 1 .. issued /\ 1 .. issued \subseteq Request
         /\ \A n \in Request : n \in 1 .. issued \/ n > issued
<1>1. issued \in 0 .. MaxRequest /\ MaxRequest \in Nat /\ ackSent \in 0 .. issued
  BY RequestsAssumption DEF TypeInv
<1> QED BY SMTT(60), <1>1 DEF Request

\* The store stays sound over a new request.
LEMMA IssueStores ==
  ASSUME StoreInv, Issue
  PROVE  StoreInv'
<1> USE DEF StoreInv
<1>1. /\ issued \in 0 .. MaxRequest /\ MaxRequest \in Nat /\ issued < MaxRequest
      /\ ackSent \in 0 .. issued /\ replies \in [Request -> ReplyType]
      /\ retryable \in SUBSET (1 .. issued)
  BY RequestsAssumption DEF TypeInv, Issue
<1>2. /\ issued' = issued + 1 /\ replies' = [replies EXCEPT ![issued + 1] = "awaited"]
      /\ UNCHANGED <<ring, slots, partition, nextSeq, nextSlot, pc, job, pending, retryable, ackSent, released>>
  BY DEF Issue, memory
<1>3. issued + 1 \in Request /\ replies' \in [Request -> ReplyType]
  BY SMTT(60), <1>1, <1>2 DEF Request, ReplyType
<1>4. TypeInv'
  <2>1. /\ issued' \in 0 .. MaxRequest /\ ackSent' \in 0 .. issued'
        /\ retryable' \in SUBSET (1 .. issued')
    BY SMTT(60), <1>1, <1>2
  <2> QED BY <1>2, <1>3, <2>1 DEF TypeInv
<1>5. RingInv'
  BY <1>2 DEF RingInv
<1>6. \A n \in Request : n # issued + 1 => replies'[n] = replies[n]
  BY <1>1, <1>2
<1>7. replies'[issued + 1] = "awaited"
  BY <1>1, <1>2, <1>3
<1>8. ClientInv'
  <2>1. \A n \in Request : n > issued' => n > issued /\ n # issued + 1
    BY SMTT(60), <1>1, <1>2 DEF Request
  <2>2. \A n \in 1 .. ackSent : n \in Request /\ n # issued + 1
    BY SMTT(60), <1>1 DEF Request
  <2>3. \A n \in Request : n > issued' => replies'[n] = "none" /\ pending'[n] = "none"
    BY <1>2, <1>6, <2>1 DEF ClientInv
  <2>4. \A n \in Request : replies'[n] = "unpublished" => n \in retryable' \union released'
    BY <1>2, <1>6, <1>7 DEF ClientInv
  <2>5. \A n \in 1 .. ackSent' : Open(n)' => n \in released'
    BY <1>2, <1>6, <2>2 DEF ClientInv, Open
  <2>6. AwaitedNeverRefused'
    <3> SUFFICES ASSUME NEW n \in Request, "duplicate" \in {replies'[n], pending'[n]}
                 PROVE  "duplicate" \in {replies[n], pending[n]} /\ UNCHANGED released
      BY DEF ClientInv, AwaitedNeverRefused
    <3> QED BY <1>2, <1>6, <1>7
  <2> QED BY <1>2, <2>3, <2>4, <2>5, <2>6 DEF ClientInv
<1> QED BY <1>4, <1>5, <1>8

\* The store stays sound over a reply taken by its caller.
LEMMA TakeReplyStores ==
  ASSUME StoreInv, NEW m \in Request, TakeReply(m)
  PROVE  StoreInv'
<1> USE DEF StoreInv
<1>1. /\ replies \in [Request -> ReplyType] /\ pending \in [Request -> ReplyType \ {"awaited"}]
      /\ retryable \in SUBSET (1 .. issued) /\ pending[m] # "none"
  BY DEF TypeInv, TakeReply
<1>2. /\ replies' = [replies EXCEPT ![m] = pending[m]] /\ pending' = [pending EXCEPT ![m] = "none"]
      /\ UNCHANGED <<ring, slots, partition, nextSeq, nextSlot, pc, job, issued, ackSent>>
  BY DEF TakeReply, memory
<1>3. /\ replies' \in [Request -> ReplyType] /\ pending' \in [Request -> ReplyType \ {"awaited"}]
      /\ \A n \in Request : n # m => replies'[n] = replies[n] /\ pending'[n] = pending[n]
      /\ replies'[m] = pending[m] /\ pending'[m] = "none" /\ pending[m] # "awaited"
  BY <1>1, <1>2 DEF ReplyType
<1>4. m \in 1 .. issued
  BY <1>1, AcknowledgedAreRequests DEF ClientInv
<1>5. /\ retryable' \subseteq retryable \union {m}
      /\ retryable \ retryable' \subseteq released' \union {m}
      /\ released \subseteq released'
      /\ m \in retryable' <=> pending[m] = "unpublished"
  <2>1. WithRoom \subseteq retryable
    BY DEF WithRoom
  <2>2. CASE pending[m] = "unpublished"
    BY <2>1, <2>2 DEF TakeReply
  <2>3. CASE pending[m] # "unpublished"
    BY <2>3 DEF TakeReply
  <2> QED BY <2>2, <2>3
<1>6. TypeInv'
  BY <1>1, <1>2, <1>3, <1>4, <1>5 DEF TypeInv
<1>7. RingInv'
  BY <1>2 DEF RingInv
<1>8. ClientInv'
  <2>1. 1 .. ackSent \subseteq Request
    BY AcknowledgedAreRequests
  <2>2. \A n \in Request : n > issued' => replies'[n] = "none" /\ pending'[n] = "none"
    BY <1>1, <1>2, <1>3 DEF ClientInv
  <2>3. \A n \in Request : replies'[n] = "unpublished" => n \in retryable' \union released'
    BY <1>3, <1>5 DEF ClientInv
  <2>4. ASSUME NEW n \in 1 .. ackSent, Open(n)' PROVE n \in released'
    <3>1. CASE n = m
      <4>1. pending[m] = "unpublished"
        BY <1>3, <1>5, <2>4, <3>1 DEF Open
      <4> QED BY <1>5, <3>1, <4>1 DEF ClientInv, Open
    <3>2. CASE n # m
      <4>1. Open(n)
        BY <1>3, <1>5, <2>1, <2>4, <3>2 DEF Open
      <4> QED BY <1>5, <4>1 DEF ClientInv
    <3> QED BY <3>1, <3>2
  <2>5. AwaitedNeverRefused'
    <3> SUFFICES ASSUME NEW n \in Request, "duplicate" \in {replies'[n], pending'[n]}
                 PROVE  "duplicate" \in {replies[n], pending[n]}
      BY <1>5 DEF ClientInv, AwaitedNeverRefused
    <3> QED BY <1>3
  <2> QED BY <1>2, <2>2, <2>3, <2>4, <2>5 DEF ClientInv
<1> QED BY <1>6, <1>7, <1>8

\* The store stays sound over a retry.
LEMMA RetryStores ==
  ASSUME StoreInv, NEW m \in Request, RetryUnpublished(m)
  PROVE  StoreInv'
<1> USE DEF StoreInv
<1>1. replies \in [Request -> ReplyType] /\ replies[m] = "unpublished"
  BY DEF TypeInv, RetryUnpublished
<1>2. /\ replies' = [replies EXCEPT ![m] = "awaited"]
      /\ UNCHANGED <<ring, slots, partition, nextSeq, nextSlot, pc, job, issued, pending, retryable,
                     ackSent, released>>
  BY DEF RetryUnpublished, memory
<1>3. replies' \in [Request -> ReplyType] /\ replies'[m] = "awaited"
  BY <1>1, <1>2 DEF ReplyType
<1>4. TypeInv'
  BY <1>2, <1>3 DEF TypeInv
<1>5. RingInv'
  BY <1>2 DEF RingInv
<1>6. Open(m) /\ ~(m > issued)
  BY <1>1 DEF ClientInv, Open
<1>7. \A n \in Request : n # m => replies'[n] = replies[n]
  BY <1>1, <1>2
<1>8. 1 .. ackSent \subseteq Request
  BY AcknowledgedAreRequests
<1>9. ClientInv'
  <2>1. \A n \in Request : n > issued' => replies'[n] = "none" /\ pending'[n] = "none"
    BY <1>2, <1>6, <1>7 DEF ClientInv
  <2>2. \A n \in Request : replies'[n] = "unpublished" => n \in retryable' \union released'
    BY <1>2, <1>3, <1>7 DEF ClientInv
  <2>3. \A n \in 1 .. ackSent : Open(n)' => Open(n)
    BY <1>2, <1>6, <1>7, <1>8 DEF Open
  <2>4. AwaitedNeverRefused'
    <3> SUFFICES ASSUME NEW n \in Request, "duplicate" \in {replies'[n], pending'[n]}
                 PROVE  "duplicate" \in {replies[n], pending[n]}
      BY <1>2 DEF ClientInv, AwaitedNeverRefused
    <3> QED BY <1>2, <1>3, <1>7
  <2> QED BY <1>2, <2>1, <2>2, <2>3, <2>4 DEF ClientInv
<1> QED BY <1>4, <1>5, <1>9

\* The store stays sound over an acknowledgement sent.
LEMMA SendAcknowledgeStores ==
  ASSUME StoreInv, SendAcknowledge
  PROVE  StoreInv'
<1> USE DEF StoreInv
<1> DEFINE a == ackSent
           b == Watermark
<1>1. /\ issued \in 0 .. MaxRequest /\ MaxRequest \in Nat /\ a \in 0 .. issued /\ b > a
      /\ retryable \in SUBSET (1 .. issued)
  BY RequestsAssumption DEF TypeInv, SendAcknowledge
<1>2. /\ b \in 0 .. issued
      /\ \A n \in 1 .. b : n \notin retryable /\ ~(replies[n] = "awaited" /\ pending[n] = "none")
  BY <1>1, WatermarkOfClient
<1>3. /\ ackSent' = b /\ released' = released \union {n \in 1 .. b : pending[n] = "unpublished"}
      /\ UNCHANGED <<ring, slots, partition, nextSeq, nextSlot, pc, job, issued, replies, pending, retryable>>
  BY DEF SendAcknowledge, memory
<1>4. a \in Nat /\ b \in Nat /\ a <= b
  BY SMTT(60), <1>1, <1>2
<1> HIDE DEF b
<1>5. TypeInv'
  <2>1. ring \in RingType(a) /\ slots \in SlotsType(a) /\ partition \in Seq(Sent(a)) /\ job \in JobType(a)
    BY DEF TypeInv
  <2>2. ring \in RingType(b) /\ slots \in SlotsType(b) /\ partition \in Seq(Sent(b)) /\ job \in JobType(b)
    BY <1>4, <2>1, SentGrows
  <2> QED BY <1>2, <1>3, <2>2 DEF TypeInv
<1>6. RingInv'
  BY <1>3 DEF RingInv
<1>7. ClientInv'
  <2>1. 1 .. a \subseteq 1 .. b /\ 1 .. b \subseteq Request
    BY SMTT(60), <1>1, <1>2, <1>4 DEF Request
  <2>2. ASSUME NEW n \in 1 .. b, Open(n)' PROVE n \in released'
    <3>1. CASE pending[n] = "unpublished"
      BY <1>3, <3>1
    <3>2. CASE pending[n] # "unpublished"
      <4>1. replies[n] = "unpublished"
        BY <1>2, <1>3, <2>2, <3>2 DEF Open
      <4> QED BY <1>2, <1>3, <2>1, <4>1 DEF ClientInv
    <3> QED BY <3>1, <3>2
  <2>3. AwaitedNeverRefused'
    BY <1>3 DEF ClientInv, AwaitedNeverRefused
  <2>4. \A n \in Request : replies'[n] = "unpublished" => n \in retryable' \union released'
    BY <1>3 DEF ClientInv
  <2>5. job'.result = "duplicate" => \E n \in 1 .. ackSent' : job'.entry = Verb(n)
    BY <1>3, <2>1 DEF ClientInv
  <2> QED BY <1>3, <2>2, <2>3, <2>4, <2>5 DEF ClientInv
<1> QED BY <1>5, <1>6, <1>7

\* The job of an answer from the window.
LEMMA AnswerJob ==
  ASSUME NEW a, NEW n \in Request, NEW result,
         result \in {"none", "done", "duplicate", "owed", "unpublished"}
  PROVE  LET j == [NoJob EXCEPT !.entry = Verb(n), !.result = result]
         IN  j \in JobType(a) /\ j.entry = Verb(n) /\ j.result = result
<1>1. Verb(n) \in Sent(a)
  BY DEF Sent
<1> DEFINE e == Verb(n)
<1> HIDE DEF e
<1>2. LET j == [NoJob EXCEPT !.entry = e, !.result = result]
      IN  j \in JobType(a) /\ j.entry = e /\ j.result = result
  BY <1>1 DEF NoJob, JobType, e
<1> QED BY <1>2 DEF e

\* The store stays sound over an answer.
LEMMA AnswerStores ==
  ASSUME StoreInv, NEW m \in Request, NEW result, pc = "idle", Answer(m, result), UNCHANGED clientVars,
         result \in {"none", "done", "duplicate", "owed", "unpublished"},
         result = "duplicate" => m \in 1 .. ackSent
  PROVE  StoreInv'
<1> USE DEF StoreInv
<1>1. /\ job' = [NoJob EXCEPT !.entry = Verb(m), !.result = result] /\ pc' = "reply"
      /\ UNCHANGED <<ring, slots, partition, nextSeq, nextSlot, clientVars>>
  BY DEF Answer, Goto, segment, memory
<1>2. job' \in JobType(ackSent) /\ job'.entry = Verb(m) /\ job'.result = result
  BY <1>1, AnswerJob
<1>3. TypeInv'
  BY <1>1, <1>2 DEF TypeInv, clientVars, Point
<1>4. RingInv'
  BY <1>1 DEF RingInv, clientVars, Appending, Publishing, Trimming
<1>5. ClientInv'
  BY <1>1, <1>2 DEF ClientInv, AwaitedNeverRefused, Open, clientVars
<1> QED BY <1>3, <1>4, <1>5

\* The job of a transaction or a mutation.
LEMMA EntryJob ==
  ASSUME NEW a, NEW e \in Sent(a), NEW b \in BOOLEAN
  PROVE  LET j == [entry |-> e, batched |-> b, why |-> "none", result |-> "done"]
         IN  j \in JobType(a) /\ j.entry = e /\ j.batched = b /\ j.why = "none" /\ j.result = "done"
BY DEF JobType

\* The store stays sound over a transaction.
LEMMA TransactStores ==
  ASSUME StoreInv, NEW m \in Request, Transact(Verb(m), "done"), UNCHANGED clientVars
  PROVE  StoreInv'
<1> USE DEF StoreInv
<1>1. pc = "idle" /\ partition \in Seq(Sent(ackSent))
  BY DEF TypeInv, Transact
<1>2. /\ job' = [entry |-> Verb(m), batched |-> TRUE, why |-> "none", result |-> "done"]
      /\ partition' = Append(partition, Verb(m)) /\ pc' = "append"
      /\ UNCHANGED <<ring, slots, nextSeq, nextSlot, clientVars>>
  BY DEF Transact, Goto, segment
<1>3. Verb(m) \in Sent(ackSent) /\ Verb(m) # Nothing
  BY EntryKinds DEF Sent
<1>4. job' \in JobType(ackSent) /\ job'.entry = Verb(m) /\ job'.result = "done"
  BY <1>2, <1>3, EntryJob
<1>5. partition' \in Seq(Sent(ackSent))
  BY <1>1, <1>2, <1>3, AppendProperties
<1>6. TypeInv'
  BY <1>2, <1>4, <1>5 DEF TypeInv, clientVars, Point, Appending
<1>7. RingInv'
  BY <1>1, <1>2, <1>3, <1>4 DEF RingInv, clientVars, Appending, Publishing, Trimming
<1>8. ClientInv'
  BY <1>2, <1>4 DEF ClientInv, AwaitedNeverRefused, Open, clientVars
<1> QED BY <1>6, <1>7, <1>8

\* The store stays sound over a request served.
LEMMA ServeStores ==
  ASSUME StoreInv, NEW m \in Request, Serve(m)
  PROVE  StoreInv'
<1>1. pc = "idle" /\ UNCHANGED clientVars
  BY DEF Serve
<1>2. CASE Answer(m, "done")
  BY <1>1, <1>2, AnswerStores
<1>3. CASE Answer(m, "owed")
  BY <1>1, <1>3, AnswerStores
<1>4. CASE Lookup(m) = "acknowledged" /\ Answer(m, "duplicate")
  <2>1. m <= AcknowledgedUpTo(partition)
    BY <1>4 DEF Lookup
  <2>2. partition \in Seq(Sent(ackSent)) /\ ackSent \in Nat
    BY SMTT(60), RequestsAssumption DEF StoreInv, TypeInv
  <2>3. m \in 1 .. ackSent
    BY <2>1, <2>2, AcknowledgedWasSent
  <2> QED BY <1>1, <1>4, <2>3, AnswerStores
<1>5. CASE Transact(Verb(m), "done")
  BY <1>1, <1>5, TransactStores
<1> QED BY <1>2, <1>3, <1>4, <1>5 DEF Serve

\* The store stays sound over an acknowledgement served.
LEMMA ServeAcknowledgeStores ==
  ASSUME StoreInv, NEW m \in Request, ServeAcknowledge(m)
  PROVE  StoreInv'
<1> USE DEF StoreInv
<1>1. pc = "idle" /\ m \in 1 .. ackSent
  BY DEF ServeAcknowledge, Mutate
<1>2. /\ job' = [entry |-> Ack(m), batched |-> FALSE, why |-> "none", result |-> "done"]
      /\ pc' = "append"
      /\ UNCHANGED <<ring, slots, partition, nextSeq, nextSlot, clientVars>>
  BY DEF ServeAcknowledge, Mutate, Goto, segment, memory
<1>3. Ack(m) \in Sent(ackSent) /\ Ack(m) # Nothing
  BY <1>1, EntryKinds DEF Sent
<1>4. job' \in JobType(ackSent) /\ job'.entry = Ack(m) /\ job'.result = "done"
  BY <1>2, <1>3, EntryJob
<1>5. TypeInv'
  BY <1>2, <1>4 DEF TypeInv, clientVars, Point, Appending
<1>6. RingInv'
  BY <1>1, <1>2, <1>3, <1>4 DEF RingInv, clientVars, Appending, Publishing, Trimming
<1>7. ClientInv'
  BY <1>2, <1>4 DEF ClientInv, AwaitedNeverRefused, Open, clientVars
<1> QED BY <1>5, <1>6, <1>7

\* The store stays sound over a reply.
LEMMA ReplyStores ==
  ASSUME StoreInv, Reply
  PROVE  StoreInv'
<1> USE DEF StoreInv
<1> DEFINE heeded == {n \in Request :
                        Verb(n) = job.entry /\ replies[n] = "awaited" /\ pending[n] = "none"}
           held == {n \in heeded : Noted(n, job.result)}
<1>1. /\ pc = "reply" /\ job \in JobType(ackSent)
      /\ replies \in [Request -> ReplyType] /\ pending \in [Request -> ReplyType \ {"awaited"}]
  BY DEF TypeInv, Reply
<1>2. /\ pending' = [n \in Request |-> IF n \in held THEN job.result ELSE pending[n]]
      /\ replies' = [n \in Request |-> IF n \in heeded \ held THEN job.result ELSE replies[n]]
      /\ job' = NoJob /\ pc' = "idle"
      /\ UNCHANGED <<ring, slots, partition, nextSeq, nextSlot, issued, retryable, ackSent, released>>
  BY DEF Reply, Goto, segment, memory
<1>3. job.result \in ReplyType \ {"awaited"}
  BY <1>1, JobFields DEF ReplyType
<1>4. replies' \in [Request -> ReplyType] /\ pending' \in [Request -> ReplyType \ {"awaited"}]
  <2>1. \A n \in Request : replies[n] \in ReplyType /\ pending[n] \in ReplyType \ {"awaited"}
    BY <1>1
  <2> HIDE DEF heeded, held
  <2> QED BY <1>2, <1>3, <2>1
<1>5. NoJob \in JobType(ackSent) /\ NoJob.result = "none"
  BY NoJobFields
<1>6. TypeInv'
  BY <1>2, <1>4, <1>5 DEF TypeInv, Point
<1>7. RingInv'
  BY <1>1, <1>2 DEF RingInv, Appending, Publishing, Trimming
<1>8. \A n \in Request : n \notin heeded => replies'[n] = replies[n] /\ pending'[n] = pending[n]
  BY <1>2
<1>9. \A n \in heeded : Open(n) /\ Verb(n) = job.entry /\ ~(n > issued)
  BY DEF Open, ClientInv
<1>10. \A n \in heeded : \/ replies'[n] = "awaited" /\ pending'[n] = job.result
                         \/ replies'[n] = job.result /\ pending'[n] = "none" /\ ~Noted(n, job.result)
  BY <1>2
<1> HIDE DEF heeded, held
<1>11. 1 .. ackSent \subseteq Request
  BY AcknowledgedAreRequests
<1>12. ClientInv'
  <2>1. \A n \in Request : n > issued' => replies'[n] = "none" /\ pending'[n] = "none"
    BY <1>2, <1>8, <1>9 DEF ClientInv
  <2>2. \A n \in Request : replies'[n] = "unpublished" => n \in retryable' \union released'
    <3> SUFFICES ASSUME NEW n \in Request, replies'[n] = "unpublished" PROVE replies[n] = "unpublished"
      BY <1>2 DEF ClientInv
    <3>1. n \notin heeded
      BY <1>10 DEF Noted
    <3> QED BY <1>8, <3>1
  <2>3. \A n \in 1 .. ackSent : Open(n)' => Open(n)
    <3> SUFFICES ASSUME NEW n \in 1 .. ackSent, Open(n)', n \notin heeded PROVE Open(n)
      BY <1>9
    <3> QED BY <1>2, <1>8, <1>11 DEF Open
  <2>4. ASSUME NEW n \in Request, "duplicate" \in {replies'[n], pending'[n]} PROVE n \in released
    <3>1. CASE n \in heeded
      <4>1. job.result = "duplicate" /\ Verb(n) = job.entry /\ Open(n)
        BY <1>9, <1>10, <2>4, <3>1
      <4>2. PICK k \in 1 .. ackSent : job.entry = Verb(k)
        BY <4>1 DEF ClientInv
      <4>3. k = n
        BY <4>1, <4>2, EntryKinds
      <4> QED BY <4>1, <4>2, <4>3 DEF ClientInv
    <3>2. CASE n \notin heeded
      BY <1>8, <2>4, <3>2 DEF ClientInv, AwaitedNeverRefused
    <3> QED BY <3>1, <3>2
  <2>5. AwaitedNeverRefused'
    BY <1>2, <2>4 DEF AwaitedNeverRefused
  <2>6. job'.result # "duplicate"
    BY <1>2, <1>5
  <2> QED BY <1>2, <2>1, <2>2, <2>3, <2>5, <2>6 DEF ClientInv
<1> QED BY <1>6, <1>7, <1>12

\* The store starts sound.
LEMMA StoreInit ==
  ASSUME Init
  PROVE  StoreInv
<1> USE DEF Init, DbInit, ClientInit
<1>1. Capacity \in Nat \ {0} /\ MaxRequest \in Nat
  BY DbAssumption, RequestsAssumption
<1>2. Blank \in RecordType(0) /\ Unreadable \in SlotType(0) /\ <<>> \in Seq(Sent(0))
  BY BlankTypes, EmptySeq
<1>3. NoJob \in JobType(0) /\ NoJob.result = "none"
  BY NoJobFields
<1>4. ring \in RingType(0) /\ ring.tail = 0
  <2> DEFINE d == [c \in 0 .. Capacity - 1 |-> Blank]
  <2>1. d \in CellsType(0)
    BY <1>2 DEF CellsType
  <2>2. ring = [head |-> 0, tail |-> 0, base |-> 0, cells |-> d]
    OBVIOUS
  <2> HIDE DEF d
  <2> QED BY SMTT(60), <1>1, <2>1, <2>2 DEF RingType
<1>5. slots \in SlotsType(0) /\ \A n \in {0, 1} : slots[n] = Unreadable
  BY <1>2 DEF SlotsType
<1>6. TypeInv
  BY SMTT(60), <1>1, <1>2, <1>3, <1>4, <1>5 DEF TypeInv, Point, ReplyType
<1>7. Sound(ring) /\ Below(slots, 0)
  BY SMTT(60), <1>4, <1>5 DEF Sound, Below, Unreadable
<1>8. RingInv
  BY SMTT(60), <1>4, <1>7 DEF RingInv, Appending, Publishing, Trimming
<1>9. ClientInv
  BY SMTT(60), <1>3 DEF ClientInv, AwaitedNeverRefused, Open
<1> QED BY <1>6, <1>8, <1>9 DEF StoreInv

\* The first layer is inductive, wherever the daemon is killed.
LEMMA StoreStep ==
  ASSUME StoreInv, [Next]_vars
  PROVE  StoreInv'
<1>1. CASE Issue
  BY <1>1, IssueStores
<1>2. CASE SendAcknowledge
  BY <1>2, SendAcknowledgeStores
<1>3. CASE Reply
  BY <1>3, ReplyStores
<1>4. CASE Storage
  BY <1>4, AppendRecordStores, WriteRecordStores, StoreBaseStores, StoreTailStores,
     BeginPublishStores, EndPublishStores, TrimBaseStores, TrimHeadStores, TrimTailStores,
     RefusePublishStores, CrashStores, RecoverStores
     DEF Storage, DbStep
<1>5. CASE \E n \in Request : TakeReply(n) \/ RetryUnpublished(n) \/ Serve(n) \/ ServeAcknowledge(n)
  BY <1>5, TakeReplyStores, RetryStores, ServeStores, ServeAcknowledgeStores
<1>6. CASE UNCHANGED vars
  BY SMTT(60), <1>6 DEF vars, StoreInv, TypeInv, RingInv, ClientInv, AwaitedNeverRefused, Open
<1> QED BY <1>1, <1>2, <1>3, <1>4, <1>5, <1>6 DEF Next

\* No request is refused as a duplicate but those the client gave up: past its bound on
\* the ids it keeps for a retry, or refused Unpublished and acknowledged past before its
\* caller took the refusal.  Wherever the daemon is killed: the watermark the shard
\* refuses by is an acknowledgement the client sent, and it sends none at or above a
\* request it awaits or keeps (client.rs ack_watermark, note_reply, verbs.rs
\* DuplicateRequest).
THEOREM NoAwaitedRequestIsRefused == Spec => []AwaitedNeverRefused
<1>1. Init => StoreInv
  BY StoreInit
<1>2. StoreInv /\ [Next]_vars => StoreInv'
  BY StoreStep
<1>3. StoreInv => AwaitedNeverRefused
  BY DEF StoreInv, ClientInv
<1> QED BY <1>1, <1>2, <1>3, PTL DEF Spec

-----------------------------------------------------------------------------
(* The second layer: how the stores of the daemon change what a restart rebuilds *)

\* No record of a ring is at or past the sequence that follows its last.
LEMMA LogEmpty ==
  ASSUME NEW a, NEW r \in RingType(a), Sound(r), NEW from \in Nat, from = r.base + r.tail
  PROVE  LogFrom(r, from) = <<>>
<1>1. r.tail \in 0 .. Capacity /\ r.base \in Nat /\ Capacity \in Nat
  BY RingFields, DbAssumption
<1>2. LogFrom(r, from) \in Seq(Sent(a))
  BY LogType
<1>3. DOMAIN LogFrom(r, from) = {}
  <2> DEFINE covered == IF from > r.base THEN from - r.base ELSE 0
  <2>1. covered = r.tail
    BY SMTT(60), <1>1
  <2>2. 1 .. r.tail - covered = {}
    BY SMTT(60), <2>1, <1>1
  <2>3. DOMAIN LogFrom(r, from) = 1 .. r.tail - covered
    BY DEF LogFrom
  <2> QED BY <2>2, <2>3
<1>4. Len(LogFrom(r, from)) = 0
  BY SMTT(60), <1>2, <1>3, LenProperties
<1> QED BY <1>2, <1>4, EmptySeq

\* Rings that agree up to their tails hold the same records.
LEMMA LogSame ==
  ASSUME NEW a, NEW r \in RingType(a), NEW q \in RingType(a), NEW from \in Nat,
         q.tail = r.tail, q.base = r.base,
         \A i \in 0 .. r.tail - 1 : q.cells[i] = r.cells[i]
  PROVE  LogFrom(q, from) = LogFrom(r, from)
<1>1. r.tail \in 0 .. Capacity /\ r.base \in Nat /\ Capacity \in Nat
  BY RingFields, DbAssumption
<1> DEFINE covered == IF from > r.base THEN from - r.base ELSE 0
<1>2. covered \in Nat
  BY SMTT(60), <1>1
<1>3. \A i \in 1 .. r.tail - covered : covered + i - 1 \in 0 .. r.tail - 1
  <2> HIDE DEF covered
  <2> QED BY SMTT(60), <1>1, <1>2
<1>4. \A i \in 1 .. r.tail - covered : q.cells[covered + i - 1] = r.cells[covered + i - 1]
  BY <1>3
<1>5. /\ LogFrom(r, from) = [i \in 1 .. r.tail - covered |-> r.cells[covered + i - 1].entry]
      /\ LogFrom(q, from) = [i \in 1 .. r.tail - covered |-> q.cells[covered + i - 1].entry]
  BY DEF LogFrom
<1> HIDE DEF covered
<1> QED BY <1>4, <1>5

\* A store to the tail adds the record before it.
LEMMA LogGrows ==
  ASSUME NEW a, NEW r \in RingType(a), NEW q \in RingType(a), Sound(r), Sound(q),
         NEW from \in Nat, from <= r.base + r.tail,
         q.tail = r.tail + 1, q.base = r.base, q.cells = r.cells,
         NEW e \in Sent(a), e = r.cells[r.tail].entry
  PROVE  LogFrom(q, from) = Append(LogFrom(r, from), e)
<1>1. r.tail \in 0 .. Capacity /\ r.base \in Nat /\ Capacity \in Nat
  BY RingFields, DbAssumption
<1> DEFINE covered == IF from > r.base THEN from - r.base ELSE 0
           old == LogFrom(r, from)
           new == LogFrom(q, from)
<1>2. covered \in 0 .. r.tail
  BY SMTT(60), <1>1
<1>3. old \in Seq(Sent(a)) /\ new \in Seq(Sent(a))
  BY LogType
<1>4. /\ old = [i \in 1 .. r.tail - covered |-> r.cells[covered + i - 1].entry]
      /\ new = [i \in 1 .. q.tail - covered |-> q.cells[covered + i - 1].entry]
  BY DEF LogFrom
<1> HIDE DEF covered, old, new
<1>5. Len(old) = r.tail - covered /\ Len(new) = r.tail + 1 - covered
  <2>1. DOMAIN old = 1 .. r.tail - covered /\ DOMAIN new = 1 .. q.tail - covered
    BY <1>4
  <2>2. DOMAIN old = 1 .. Len(old) /\ DOMAIN new = 1 .. Len(new) /\ Len(old) \in Nat /\ Len(new) \in Nat
    BY <1>3, LenProperties
  <2>3. r.tail - covered \in Nat /\ q.tail - covered \in Nat /\ q.tail - covered = r.tail + 1 - covered
    BY SMTT(60), <1>1, <1>2
  <2>4. \A m, n \in Nat : 1 .. m = 1 .. n => m = n
    BY SMTT(60)
  <2> QED BY <2>1, <2>2, <2>3, <2>4
<1> DEFINE t == Append(old, e)
<1>6. /\ t \in Seq(Sent(a)) /\ Len(t) = Len(old) + 1
      /\ \A i \in 1 .. Len(old) : t[i] = old[i]
      /\ t[Len(old) + 1] = e
  BY SMTT(60), <1>3, AppendProperties
<1> HIDE DEF t
<1>7. Len(new) = Len(t)
  BY SMTT(60), <1>1, <1>2, <1>5, <1>6
<1>8. ASSUME NEW i \in 1 .. Len(new) PROVE new[i] = t[i]
  <2>1. i \in 1 .. r.tail + 1 - covered /\ new[i] = r.cells[covered + i - 1].entry
    <3>1. q.tail - covered = r.tail + 1 - covered
      BY SMTT(60), <1>1, <1>2
    <3>2. i \in 1 .. q.tail - covered
      BY <3>1, <1>5
    <3> QED BY <3>1, <3>2, <1>4
  <2>2. CASE i = Len(old) + 1
    <3>1. covered + i - 1 = r.tail
      BY SMTT(60), <2>2, <1>1, <1>2, <1>5
    <3> QED BY <2>1, <2>2, <3>1, <1>6
  <2>3. CASE i \in 1 .. Len(old)
    <3>1. old[i] = r.cells[covered + i - 1].entry
      BY <2>3, <1>4, <1>5
    <3> QED BY <2>1, <2>3, <3>1, <1>6
  <2> QED BY SMTT(60), <2>1, <2>2, <2>3, <1>1, <1>2, <1>5
<1>9. new = t
  BY <1>3, <1>6, <1>7, <1>8, SeqEqual
<1> QED BY <1>9 DEF new, t, old

\* What a restart rebuilds then gains one entry.
LEMMA DerivedGrows ==
  ASSUME NEW a, NEW r \in RingType(a), NEW q \in RingType(a), Sound(r), Sound(q),
         NEW s \in SlotsType(a), NEW n \in {0, 1}, Older(s, n), Below(s, r.base + r.tail),
         q.tail = r.tail + 1, q.base = r.base, q.cells = r.cells,
         NEW e \in Sent(a), e = r.cells[r.tail].entry
  PROVE  DerivePartition(q, s) = Append(DerivePartition(r, s), e)
<1> DEFINE p == SnapOf(s, 1 - n)
           from == FromOf(s, 1 - n)
           old == LogFrom(r, from)
           new == LogFrom(q, from)
<1>1. r.tail \in 0 .. Capacity /\ r.base \in Nat /\ Capacity \in Nat
  BY RingFields, DbAssumption
<1>2. from \in Nat /\ from <= r.base + r.tail
  BY SMTT(60), <1>1, SlotFields DEF FromOf, Below
<1>3. p \in Seq(Sent(a))
  BY SMTT(60), SlotFields, EmptySeq DEF SnapOf
<1>4. DerivePartition(r, s) = p \o old /\ DerivePartition(q, s) = p \o new
  BY DerivedSound
<1> HIDE DEF from, p
<1>5. new = Append(old, e) /\ old \in Seq(Sent(a))
  BY <1>2, LogGrows, LogType
<1> HIDE DEF old, new
<1>6. new = old \o <<e>> /\ <<e>> \in Seq(Sent(a))
  BY SMTT(60), <1>5, AppendIsConcat
<1>7. p \o (old \o <<e>>) = (p \o old) \o <<e>>
  BY SMTT(60), <1>3, <1>5, <1>6, ConcatAssociative
<1>8. p \o old \in Seq(Sent(a))
  BY <1>3, <1>5, ConcatProperties
<1>9. Append(p \o old, e) = (p \o old) \o <<e>>
  BY <1>8, AppendIsConcat
<1> QED BY <1>4, <1>6, <1>7, <1>9

\* A verb that is new to a history, or an entry that is none, leaves every verb in it
\* once.
LEMMA OnceGrows ==
  ASSUME NEW a, NEW h \in Seq(Sent(a)), Once(h), NEW e \in Sent(a), IsVerb(e) => e \notin Range(h)
  PROVE  Once(Append(h, e))
<1>1. Len(h) \in Nat /\ DOMAIN h = 1 .. Len(h)
  BY LenProperties
<1> DEFINE t == Append(h, e)
<1>2. /\ t \in Seq(Sent(a)) /\ Len(t) = Len(h) + 1
      /\ \A i \in 1 .. Len(h) : t[i] = h[i]
      /\ t[Len(h) + 1] = e
  BY SMTT(60), AppendProperties
<1> HIDE DEF t
<1>3. DOMAIN t = 1 .. Len(h) + 1
  BY <1>2, LenProperties
<1>4. e[1] = "verb" => IsVerb(e)
  <2>1. e \in Sent(a)
    OBVIOUS
  <2>2. CASE \E n \in 1 .. a : e = Ack(n)
    BY <2>2, EntryKinds
  <2>3. CASE \E n \in Request : e = Verb(n)
    BY <2>3 DEF IsVerb
  <2> QED BY <2>1, <2>2, <2>3 DEF Sent
<1>5. ASSUME NEW i \in 1 .. Len(h), h[i] = e, e[1] = "verb" PROVE FALSE
  BY <1>1, <1>4, <1>5 DEF Range
<1>6. ASSUME NEW i \in DOMAIN t, NEW j \in DOMAIN t, t[i] = t[j], t[i][1] = "verb" PROVE i = j
  <2>1. (i \in 1 .. Len(h) \/ i = Len(h) + 1) /\ (j \in 1 .. Len(h) \/ j = Len(h) + 1)
    BY SMTT(60), <1>1, <1>3
  <2>2. CASE i \in 1 .. Len(h) /\ j \in 1 .. Len(h)
    BY <2>2, <1>1, <1>2, <1>6 DEF Once
  <2>3. CASE i \in 1 .. Len(h) /\ j = Len(h) + 1
    BY <2>3, <1>2, <1>5, <1>6
  <2>4. CASE i = Len(h) + 1 /\ j \in 1 .. Len(h)
    BY <2>4, <1>2, <1>5, <1>6
  <2> QED BY <2>1, <2>2, <2>3, <2>4
<1>7. Once(t)
  BY <1>6 DEF Once
<1> QED BY <1>7 DEF t

\* Rings that agree up to their tails are rebuilt alike.
LEMMA DerivedSame ==
  ASSUME NEW a, NEW r \in RingType(a), NEW q \in RingType(a), Sound(r), Sound(q),
         NEW s \in SlotsType(a), NEW n \in {0, 1}, Older(s, n),
         q.tail = r.tail, q.base = r.base,
         \A i \in 0 .. r.tail - 1 : q.cells[i] = r.cells[i]
  PROVE  DerivePartition(q, s) = DerivePartition(r, s)
<1>1. FromOf(s, 1 - n) \in Nat
  BY SMTT(60), SlotFields DEF FromOf
<1>2. LogFrom(q, FromOf(s, 1 - n)) = LogFrom(r, FromOf(s, 1 - n))
  BY <1>1, LogSame
<1> QED BY <1>2, DerivedSound

\* What a restart would rebuild is a sequence of entries in every state.
LEMMA DerivedIsASequence ==
  ASSUME StoreInv
  PROVE  Derived \in Seq(Sent(ackSent))
<1>1. ring \in RingType(ackSent) /\ slots \in SlotsType(ackSent) /\ (Sound(ring) \/ Cut(ring))
  BY DEF StoreInv, TypeInv, RingInv
<1> QED BY <1>1, DerivedType DEF Derived

\* A step that changes neither what a restart rebuilds nor what the client was told.
LEMMA JournalKept ==
  ASSUME JournalInv, Derived' = Derived, UNCHANGED <<replies, pending>>
  PROVE  Once(Derived') /\ RepliedIsDurable'
BY DEF JournalInv, RepliedIsDurable

\* A step that makes the operation in progress durable.
LEMMA JournalGrown ==
  ASSUME StoreInv, JournalInv, job.entry \in Sent(ackSent),
         IsVerb(job.entry) => job.entry \notin Range(Derived),
         Derived' = Append(Derived, job.entry), UNCHANGED <<replies, pending>>
  PROVE  /\ Once(Derived') /\ RepliedIsDurable'
         /\ job.entry \in Range(Derived')
<1>1. Derived \in Seq(Sent(ackSent))
  BY DerivedIsASequence
<1>2. Once(Derived')
  BY <1>1, OnceGrows DEF JournalInv
<1>3. Range(Derived') = Range(Derived) \union {job.entry}
  BY SMTT(60), <1>1, ElementsAppend
<1>4. RepliedIsDurable'
  BY <1>3 DEF JournalInv, RepliedIsDurable
<1> QED BY <1>2, <1>3, <1>4

\* What a restart would derive survives the decision to append or to publish first.
LEMMA AppendRecordJournals ==
  ASSUME StoreInv, JournalInv, AppendRecord, UNCHANGED clientVars, StoreInv'
  PROVE  JournalInv' /\ Derived' = Derived
<1>1. /\ ring \in RingType(ackSent) /\ slots \in SlotsType(ackSent) /\ job \in JobType(ackSent)
      /\ Sound(ring) /\ nextSlot \in {0, 1} /\ pc = "append" /\ Older(slots, nextSlot)
      /\ ring.head = 0 /\ ring.tail \in 0 .. Capacity /\ Capacity \in Nat
  BY RingFields, DbAssumption
     DEF StoreInv, TypeInv, RingInv, JournalInv, SlotInv, AppendRecord, Trimming
<1>2. UNCHANGED <<slots, partition, nextSeq, nextSlot, replies, pending>>
  BY DEF AppendRecord, memory, clientVars
<1>3. CASE Full
  <2>1. pc' = "publish" /\ ring' = ring
    BY <1>3 DEF AppendRecord, Goto
  <2>2. Derived' = Derived
    BY <1>2, <2>1 DEF Derived
  <2>3. job'.batched = job.batched /\ job'.entry = job.entry /\ job'.why = IF job.batched THEN "commit" ELSE "retry"
    <3>1. CASE job.batched
      <4>1. job' = [job EXCEPT !.why = "commit"]
        BY <1>3, <3>1 DEF AppendRecord
      <4>2. /\ job'.batched = job.batched /\ job'.entry = job.entry
            /\ job'.why = "commit"
        BY <1>1, <4>1, JobWhy
      <4> QED BY <3>1, <4>2
    <3>2. CASE ~job.batched
      <4>1. job' = [job EXCEPT !.why = "retry"]
        BY <1>3, <3>2 DEF AppendRecord
      <4> QED BY <1>1, <3>2, <4>1, JobWhy
    <3> QED BY <3>1, <3>2
  <2>4. SlotInv'
    BY <1>1, <1>2, <2>1 DEF JournalInv, SlotInv, Trimming
  <2>5. JobInv'
    BY <1>1, <2>1, <2>3 DEF JournalInv, JobInv, Appending, Publishing, Trimming
  <2>6. MemoryInv'
    BY <1>1, <1>2, <2>1, <2>2, <2>3
       DEF JournalInv, MemoryInv, InFlight, Stored, Appending, Publishing, Trimming
  <2> QED BY <1>2, <2>2, <2>4, <2>5, <2>6, JournalKept DEF JournalInv
<1>4. CASE ~Full
  <2>1. pc' = "write" /\ ring' = [ring EXCEPT !.cells[Cell(ring.tail)] = Blank] /\ job' = job
    BY <1>4 DEF AppendRecord, Goto
  <2>2. ring.tail < Capacity
    BY SMTT(60), <1>1, <1>4 DEF Full
  <2>3. /\ ring' \in RingType(ackSent) /\ Sound(ring') /\ ring'.tail = ring.tail
        /\ ring'.base = ring.base /\ \A i \in 0 .. ring.tail - 1 : ring'.cells[i] = ring.cells[i]
    BY SMTT(60), <1>1, <2>1, <2>2, SoundPastTail, BlankTypes
  <2>4. Derived' = Derived
    <3> DEFINE q == ring'
    <3>1. DerivePartition(q, slots) = DerivePartition(ring, slots)
      BY <1>1, <2>3, DerivedSame
    <3> QED BY <3>1, <1>2 DEF Derived
  <2>5. SlotInv'
    BY <1>1, <1>2, <2>1, <2>3 DEF JournalInv, SlotInv, Trimming
  <2>6. JobInv'
    BY <1>1, <2>1 DEF JournalInv, JobInv, Appending, Publishing, Trimming
  <2>7. MemoryInv'
    BY <1>1, <1>2, <2>1, <2>4
       DEF JournalInv, MemoryInv, InFlight, Stored, Appending, Publishing, Trimming
  <2> QED BY <1>2, <2>4, <2>5, <2>6, <2>7, JournalKept DEF JournalInv
<1> QED BY <1>3, <1>4

\* What a restart would derive survives the write of a record's cell.
LEMMA WriteRecordJournals ==
  ASSUME StoreInv, JournalInv, WriteRecord, UNCHANGED clientVars, StoreInv'
  PROVE  JournalInv' /\ Derived' = Derived
<1>1. /\ ring \in RingType(ackSent) /\ slots \in SlotsType(ackSent) /\ job \in JobType(ackSent)
      /\ Sound(ring) /\ nextSlot \in {0, 1} /\ pc = "write" /\ Older(slots, nextSlot)
      /\ ring.tail < Capacity /\ nextSeq \in Nat
  BY DEF StoreInv, TypeInv, RingInv, JournalInv, SlotInv, WriteRecord, Trimming
<1>2. UNCHANGED <<slots, partition, nextSeq, nextSlot, replies, pending, job>> /\ pc' \in {"base", "tail"}
  BY DEF WriteRecord, memory, clientVars, Goto
<1> DEFINE x == [seq |-> nextSeq, entry |-> job.entry]
<1>3. x \in RecordType(ackSent)
  BY <1>1, JobFields DEF RecordType
<1>4. ring' = [ring EXCEPT !.cells[Cell(ring.tail)] = x]
  BY DEF WriteRecord
<1> HIDE DEF x
<1>5. /\ ring' \in RingType(ackSent) /\ Sound(ring') /\ ring'.tail = ring.tail
      /\ ring'.base = ring.base /\ \A i \in 0 .. ring.tail - 1 : ring'.cells[i] = ring.cells[i]
  BY SMTT(60), <1>1, <1>3, <1>4, SoundPastTail
<1>6. Derived' = Derived
  <2> DEFINE q == ring'
  <2>1. DerivePartition(q, slots) = DerivePartition(ring, slots)
    BY <1>1, <1>5, DerivedSame
  <2> QED BY <2>1, <1>2 DEF Derived
<1>7. SlotInv'
  BY <1>1, <1>2, <1>5 DEF JournalInv, SlotInv, Trimming
<1>8. JobInv'
  BY <1>1, <1>2 DEF JournalInv, JobInv, Appending, Publishing, Trimming
<1>9. MemoryInv'
  BY <1>1, <1>2, <1>6 DEF JournalInv, MemoryInv, InFlight, Stored, Appending, Publishing, Trimming
<1> QED BY <1>2, <1>6, <1>7, <1>8, <1>9, JournalKept DEF JournalInv

\* What a restart would derive survives the store of the base.
LEMMA StoreBaseJournals ==
  ASSUME StoreInv, JournalInv, StoreBase, UNCHANGED clientVars, StoreInv'
  PROVE  JournalInv' /\ Derived' = Derived
<1>1. /\ ring \in RingType(ackSent) /\ slots \in SlotsType(ackSent) /\ ring.tail = 0
      /\ nextSlot \in {0, 1} /\ pc = "base" /\ Older(slots, nextSlot) /\ nextSeq \in Nat
  BY DEF StoreInv, TypeInv, RingInv, JournalInv, SlotInv, StoreBase, Trimming
<1>2. UNCHANGED <<slots, partition, nextSeq, nextSlot, replies, pending, job>> /\ pc' = "tail"
  BY DEF StoreBase, memory, clientVars, Goto
<1>3. ring' = [ring EXCEPT !.base = nextSeq]
  BY DEF StoreBase
<1>4. ring' \in RingType(ackSent) /\ ring'.tail = 0
  BY SMTT(60), <1>1, <1>3, RingBase
<1>5. Derived' = Derived
  <2> DEFINE q == ring'
  <2>1. Verified(ring) = 0 /\ Verified(q) = 0
    BY <1>1, <1>4, VerifiedEmpty
  <2>2. DerivePartition(q, slots) = DerivePartition(ring, slots)
    BY <1>1, <1>4, <2>1, DerivedCut
  <2> QED BY <2>2, <1>2 DEF Derived
<1>6. SlotInv'
  BY <1>1, <1>2, <1>4 DEF JournalInv, SlotInv, Trimming
<1>7. JobInv'
  BY <1>1, <1>2 DEF JournalInv, JobInv, Appending, Publishing, Trimming
<1>8. MemoryInv'
  BY <1>1, <1>2, <1>5 DEF JournalInv, MemoryInv, InFlight, Stored, Appending, Publishing, Trimming
<1> QED BY <1>2, <1>5, <1>6, <1>7, <1>8, JournalKept DEF JournalInv

\* The store that makes the record durable (record.rs append, replay.rs commit).
LEMMA StoreTailJournals ==
  ASSUME StoreInv, JournalInv, StoreTail, UNCHANGED clientVars, StoreInv'
  PROVE  JournalInv' /\ Derived' = Append(Derived, job.entry) /\ job.entry \in Sent(ackSent)
<1>1. /\ ring \in RingType(ackSent) /\ slots \in SlotsType(ackSent) /\ job \in JobType(ackSent)
      /\ Sound(ring) /\ nextSlot \in {0, 1} /\ pc = "tail" /\ Older(slots, nextSlot)
      /\ nextSeq \in Nat /\ nextSeq = ring.base + ring.tail /\ Below(slots, nextSeq)
      /\ ring.cells[ring.tail] = [seq |-> nextSeq, entry |-> job.entry]
      /\ job.entry # Nothing
      /\ ring.tail \in 0 .. Capacity /\ ring.tail < Capacity /\ Capacity \in Nat
  BY RingFields, DbAssumption
     DEF StoreInv, TypeInv, RingInv, JournalInv, SlotInv, StoreTail, Trimming, Appending
<1>2. /\ pc' \in {"reply", "publish"} /\ job' = [job EXCEPT !.why = "maintain"]
      /\ partition' = IF job.batched THEN partition ELSE Append(partition, job.entry)
      /\ nextSeq' = nextSeq + 1
      /\ ring' = [ring EXCEPT !.tail = ring.tail + 1]
      /\ UNCHANGED <<slots, nextSlot, replies, pending>>
  BY DEF StoreTail, Goto, clientVars
<1>3. /\ job'.entry = job.entry /\ job'.batched = job.batched /\ job'.why = "maintain"
      /\ job'.result = job.result
  BY <1>1, <1>2, JobWhy
<1>4. /\ ring' \in RingType(ackSent) /\ ring'.tail = ring.tail + 1 /\ ring'.base = ring.base
      /\ ring'.cells = ring.cells
  <2> DEFINE t == ring.tail + 1
  <2>1. t \in 0 .. Capacity
    BY SMTT(60), <1>1
  <2> HIDE DEF t
  <2>2. ring' = [ring EXCEPT !.tail = t]
    BY <1>2 DEF t
  <2>3. /\ ring' \in RingType(ackSent) /\ ring'.tail = t /\ ring'.base = ring.base
        /\ ring'.cells = ring.cells
    BY SMTT(60), <1>1, <2>1, <2>2, RingTail
  <2> QED BY <2>3 DEF t
<1>5. Sound(ring')
  BY <1>2 DEF StoreInv, RingInv
<1>6. job.entry \in Sent(ackSent) /\ job.entry = ring.cells[ring.tail].entry
  BY SMTT(60), <1>1, JobFields
<1>7. Derived' = Append(Derived, job.entry)
  <2> DEFINE q == ring'
  <2>1. DerivePartition(q, slots) = Append(DerivePartition(ring, slots), job.entry)
    BY SMTT(60), <1>1, <1>4, <1>5, <1>6, DerivedGrows
  <2> QED BY <2>1, <1>2 DEF Derived
<1>8. IsVerb(job.entry) => job.entry \notin Range(Derived)
  BY <1>1 DEF JournalInv, JobInv, MemoryInv, InFlight, Appending
<1>9. Once(Derived') /\ RepliedIsDurable' /\ job.entry \in Range(Derived')
  BY <1>2, <1>6, <1>7, <1>8, JournalGrown
<1>10. SlotInv'
  <2>1. nextSeq' - 1 = nextSeq
    BY SMTT(60), <1>1, <1>2
  <2> QED BY <1>1, <1>2, <2>1 DEF JournalInv, SlotInv, Trimming
<1>11. JobInv'
  BY <1>1, <1>2, <1>3 DEF JournalInv, JobInv, Appending, Publishing, Trimming
<1>12. partition' = Derived'
  BY <1>1, <1>2, <1>7 DEF JournalInv, MemoryInv, InFlight, Appending, Publishing
<1>13. MemoryInv'
  <2>1. ~InFlight' /\ pc' # "down"
    BY <1>2, <1>3 DEF InFlight, Appending, Publishing
  <2>2. job'.entry \in Range(Derived')
    BY <1>3, <1>9
  <2> QED BY <1>12, <2>1, <2>2 DEF MemoryInv
<1> QED BY <1>6, <1>7, <1>9, <1>10, <1>11, <1>13 DEF JournalInv

\* What a restart would derive survives the start of a publication.
LEMMA BeginPublishJournals ==
  ASSUME StoreInv, JournalInv, BeginPublish, UNCHANGED clientVars, StoreInv'
  PROVE  JournalInv' /\ Derived' = Derived
<1>1. /\ ring \in RingType(ackSent) /\ slots \in SlotsType(ackSent)
      /\ Sound(ring) /\ nextSlot \in {0, 1} /\ pc = "publish" /\ Older(slots, nextSlot)
  BY DEF StoreInv, TypeInv, RingInv, JournalInv, SlotInv, BeginPublish, Trimming
<1>2. /\ UNCHANGED <<ring, partition, nextSeq, nextSlot, replies, pending, job, ackSent>> /\ pc' = "published"
      /\ slots' = [slots EXCEPT ![nextSlot] = Unreadable]
  BY DEF BeginPublish, memory, clientVars, Goto
<1> DEFINE t == slots'
<1>3. t \in SlotsType(ackSent)
  BY <1>2 DEF StoreInv, TypeInv
<1>4. /\ ~t[nextSlot].readable /\ t[1 - nextSlot] = slots[1 - nextSlot]
      /\ \A n \in {0, 1} : t[n].readable => slots[n].readable /\ t[n].seq = slots[n].seq
  BY SMTT(60), <1>1, <1>2 DEF SlotsType, Unreadable
<1>5. Older(t, nextSlot)
  BY <1>4 DEF Older
<1> HIDE DEF t
<1>6. SnapOf(t, 1 - nextSlot) = SnapOf(slots, 1 - nextSlot)
      /\ FromOf(t, 1 - nextSlot) = FromOf(slots, 1 - nextSlot)
  BY <1>4 DEF SnapOf, FromOf
<1>7. DerivePartition(ring, t) = DerivePartition(ring, slots)
  BY <1>1, <1>3, <1>5, <1>6, DerivedSound
<1>8. Derived' = Derived
  BY <1>7, <1>2 DEF Derived, t
<1>9. SlotInv'
  <2>1. Below(slots, nextSeq - 1) => Below(t, nextSeq - 1)
    BY <1>4 DEF Below
  <2> QED BY <1>1, <1>2, <1>5, <2>1 DEF JournalInv, SlotInv, Trimming, t
<1>10. JobInv'
  BY <1>1, <1>2 DEF JournalInv, JobInv, Appending, Publishing, Trimming
<1>11. MemoryInv'
  BY <1>1, <1>2, <1>8 DEF JournalInv, MemoryInv, InFlight, Stored, Appending, Publishing, Trimming
<1> QED BY <1>2, <1>8, <1>9, <1>10, <1>11, JournalKept DEF JournalInv

\* The store that makes the snapshot readable: memory becomes what a restart
\* rebuilds (snapshot.rs publish).
LEMMA EndPublishJournals ==
  ASSUME StoreInv, JournalInv, EndPublish, UNCHANGED clientVars, StoreInv'
  PROVE  /\ JournalInv' /\ job.entry \in Sent(ackSent)
         /\ Derived' \in {Derived, Append(Derived, job.entry)}
<1>1. /\ ring \in RingType(ackSent) /\ slots \in SlotsType(ackSent) /\ job \in JobType(ackSent)
      /\ Sound(ring) /\ nextSlot \in {0, 1} /\ pc = "published" /\ Older(slots, nextSlot)
      /\ ring.tail > 0 /\ ring.tail \in 0 .. Capacity /\ ring.base \in Nat /\ Capacity \in Nat
      /\ nextSeq = ring.base + ring.tail /\ Below(slots, nextSeq - 1)
      /\ partition \in Seq(Sent(ackSent)) /\ job.entry # Nothing
  BY RingFields, DbAssumption
     DEF StoreInv, TypeInv, RingInv, JournalInv, SlotInv, EndPublish, Trimming, Publishing
<1>2. /\ UNCHANGED <<ring, partition, nextSeq, nextSlot, replies, pending, job, ackSent>> /\ pc' = "trim"
      /\ slots' = [slots EXCEPT ![nextSlot] =
                     [seq |-> nextSeq - 1, readable |-> TRUE, partition |-> partition]]
  BY DEF EndPublish, memory, clientVars, Goto
<1> DEFINE t == slots'
           m == 1 - nextSlot
<1>3. t \in SlotsType(ackSent)
  BY <1>2 DEF StoreInv, TypeInv
<1>4. /\ t[nextSlot].readable /\ t[nextSlot].seq = nextSeq - 1 /\ t[nextSlot].partition = partition
      /\ t[m] = slots[m] /\ m \in {0, 1} /\ 1 - m = nextSlot
  BY SMTT(60), <1>1, <1>2 DEF SlotsType
<1>5. Older(t, m)
  BY <1>1, <1>4 DEF Older, Below
<1> HIDE DEF t, m
<1>6. SnapOf(t, nextSlot) = partition /\ FromOf(t, nextSlot) = ring.base + ring.tail
  BY SMTT(60), <1>1, <1>4 DEF SnapOf, FromOf
<1>7. LogFrom(ring, FromOf(t, nextSlot)) = <<>>
  BY SMTT(60), <1>1, <1>6, LogEmpty
<1>8. DerivePartition(ring, t) = partition
  <2>1. DerivePartition(ring, t) = partition \o <<>>
    BY <1>1, <1>3, <1>4, <1>5, <1>6, <1>7, DerivedSound
  <2> QED BY <2>1, <1>1, ConcatEmptySeq
<1>9. Derived' = partition
  BY <1>8, <1>2 DEF Derived, t
<1>10. Derived' = IF job.why = "commit" THEN Append(Derived, job.entry) ELSE Derived
  BY <1>1, <1>9 DEF JournalInv, MemoryInv, InFlight, Appending, Publishing
<1>11. job.entry \in Sent(ackSent)
  BY <1>1, JobFields
<1>12. /\ Once(Derived') /\ RepliedIsDurable'
       /\ job.why # "retry" => job.entry \in Range(Derived')
  <2>1. CASE job.why = "commit"
    <3>1. job.entry \notin Range(Derived)
      BY <1>1, <2>1 DEF JournalInv, MemoryInv, InFlight, Publishing
    <3> QED BY <1>2, <1>10, <1>11, <2>1, <3>1, JournalGrown
  <2>2. CASE job.why # "commit"
    <3>1. Derived' = Derived
      BY <1>10, <2>2
    <3>2. job.why # "retry" => job.why = "maintain"
      BY <1>1, <2>2, JobFields DEF JournalInv, JobInv, Publishing
    <3>3. job.why # "retry" => job.entry \in Range(Derived)
      BY <1>1, <3>2 DEF JournalInv, MemoryInv, Stored, Publishing
    <3> QED BY <1>2, <3>1, <3>3, JournalKept
  <2> QED BY <2>1, <2>2
<1>13. SlotInv'
  BY <1>2, <1>4, <1>5 DEF SlotInv, Trimming, t, m
<1>14. JobInv'
  BY <1>1, <1>2 DEF JournalInv, JobInv, Appending, Publishing, Trimming
<1>15. MemoryInv'
  BY <1>2, <1>9, <1>12 DEF MemoryInv, InFlight, Stored, Appending, Publishing, Trimming
<1> QED BY <1>10, <1>11, <1>12, <1>13, <1>14, <1>15 DEF JournalInv

\* The first store of the trim unmakes the log the snapshot covers.
LEMMA TrimBaseJournals ==
  ASSUME StoreInv, JournalInv, TrimBase, UNCHANGED clientVars, StoreInv'
  PROVE  JournalInv' /\ Derived' = Derived
<1> DEFINE m == 1 - nextSlot
<1>1. /\ ring \in RingType(ackSent) /\ slots \in SlotsType(ackSent)
      /\ Sound(ring) /\ nextSlot \in {0, 1} /\ pc = "trim"
      /\ ring.tail > 0 /\ ring.tail \in 0 .. Capacity /\ ring.base \in Nat /\ Capacity \in Nat
      /\ nextSeq = ring.base + ring.tail
      /\ Older(slots, m) /\ slots[nextSlot].readable /\ slots[nextSlot].seq = nextSeq - 1
  BY RingFields, DbAssumption
     DEF StoreInv, TypeInv, RingInv, JournalInv, SlotInv, TrimBase, Trimming, Publishing
<1>2. /\ UNCHANGED <<slots, partition, nextSeq, nextSlot, replies, pending, job, ackSent>>
      /\ pc' = "trimHead"
  BY DEF TrimBase, memory, clientVars, Goto
<1>3. m \in {0, 1} /\ 1 - m = nextSlot
  BY SMTT(60), <1>1
<1> HIDE DEF m
<1> DEFINE q == ring'
<1>4. q \in RingType(ackSent) /\ Cut(q)
  BY <1>2 DEF StoreInv, TypeInv, RingInv
<1> HIDE DEF q
<1>5. Verified(q) = 0
  BY <1>4, VerifiedCut
<1>6. DerivePartition(q, slots) = SnapOf(slots, nextSlot)
  BY <1>1, <1>3, <1>4, <1>5, DerivedCut
<1>7. FromOf(slots, nextSlot) = ring.base + ring.tail
  BY SMTT(60), <1>1 DEF FromOf
<1>8. LogFrom(ring, FromOf(slots, nextSlot)) = <<>>
  BY SMTT(60), <1>1, <1>7, LogEmpty
<1>9. SnapOf(slots, nextSlot) \in Seq(Sent(ackSent))
  BY <1>1, SlotFields DEF SnapOf
<1>10. DerivePartition(ring, slots) = SnapOf(slots, nextSlot)
  <2>1. DerivePartition(ring, slots) = SnapOf(slots, nextSlot) \o <<>>
    <3>1. DerivePartition(ring, slots) = SnapOf(slots, 1 - m) \o LogFrom(ring, FromOf(slots, 1 - m))
      BY <1>1, <1>3, DerivedSound
    <3> QED BY <3>1, <1>3, <1>8
  <2> QED BY <2>1, <1>9, ConcatEmptySeq
<1>11. Derived' = Derived
  BY <1>2, <1>6, <1>10 DEF Derived, q
<1>12. SlotInv'
  BY <1>1, <1>2 DEF SlotInv, Trimming, m
<1>13. JobInv'
  BY <1>1, <1>2 DEF JournalInv, JobInv, Appending, Publishing, Trimming
<1>14. MemoryInv'
  BY <1>1, <1>2, <1>11 DEF JournalInv, MemoryInv, InFlight, Stored, Appending, Publishing, Trimming
<1> QED BY <1>2, <1>11, <1>12, <1>13, <1>14, JournalKept DEF JournalInv

\* What a restart would derive survives the second store of the trim.
LEMMA TrimHeadJournals ==
  ASSUME StoreInv, JournalInv, TrimHead, UNCHANGED clientVars
  PROVE  JournalInv' /\ Derived' = Derived
<1>1. ring' = ring
  BY TrimHeadStores
<1>2. /\ UNCHANGED <<slots, partition, nextSeq, nextSlot, replies, pending, job, ackSent>>
      /\ pc = "trimHead" /\ pc' = "trimTail"
  BY DEF TrimHead, memory, clientVars, Goto
<1>3. Derived' = Derived
  BY <1>1, <1>2 DEF Derived
<1>4. SlotInv'
  BY <1>1, <1>2 DEF JournalInv, SlotInv, Trimming
<1>5. JobInv'
  BY <1>2 DEF JournalInv, JobInv, Appending, Publishing, Trimming
<1>6. MemoryInv'
  BY <1>2, <1>3 DEF JournalInv, MemoryInv, InFlight, Stored, Appending, Publishing, Trimming
<1> QED BY <1>2, <1>3, <1>4, <1>5, <1>6, JournalKept DEF JournalInv

\* The last store of the trim; the other slot is written next.
LEMMA TrimTailJournals ==
  ASSUME StoreInv, JournalInv, TrimTail, UNCHANGED clientVars, StoreInv'
  PROVE  JournalInv' /\ Derived' = Derived
<1> DEFINE m == 1 - nextSlot
<1>1. /\ ring \in RingType(ackSent) /\ slots \in SlotsType(ackSent) /\ job \in JobType(ackSent)
      /\ Cut(ring) /\ nextSlot \in {0, 1} /\ pc = "trimTail"
      /\ Older(slots, m)
  BY DEF StoreInv, TypeInv, RingInv, JournalInv, SlotInv, TrimTail, Trimming
<1>2. /\ UNCHANGED <<slots, partition, replies, pending, job, ackSent>>
      /\ pc' = IF job.why = "retry" THEN "append" ELSE "reply"
      /\ nextSlot' = m
      /\ ring' = [ring EXCEPT !.tail = 0]
  BY <1>1 DEF TrimTail, clientVars, Goto, Other, m
<1>3. m \in {0, 1} /\ 1 - m = nextSlot
  BY SMTT(60), <1>1
<1> HIDE DEF m
<1>4. ring' \in RingType(ackSent) /\ ring'.tail = 0
  <2>1. 0 \in 0 .. Capacity
    BY SMTT(60), DbAssumption
  <2> QED BY <1>1, <1>2, <2>1, RingTail
<1>5. Derived' = Derived
  <2> DEFINE q == ring'
  <2>1. Verified(ring) = 0 /\ Verified(q) = 0
    BY <1>1, <1>4, VerifiedEmpty, VerifiedCut
  <2>2. DerivePartition(q, slots) = DerivePartition(ring, slots)
    BY <1>1, <1>3, <1>4, <2>1, DerivedCut
  <2> QED BY <2>2, <1>2 DEF Derived
<1>6. SlotInv'
  BY SMTT(60), <1>1, <1>2, <1>4 DEF SlotInv, Trimming
<1>7. JobInv'
  BY <1>1, <1>2 DEF JournalInv, JobInv, Appending, Publishing, Trimming
<1>8. MemoryInv'
  BY <1>1, <1>2, <1>5 DEF JournalInv, JobInv, MemoryInv, InFlight, Stored, Appending, Publishing, Trimming
<1> QED BY <1>2, <1>5, <1>6, <1>7, <1>8, JournalKept DEF JournalInv

\* A refused commit is rolled back to what the segment holds (replay.rs rollback).
LEMMA RefusePublishJournals ==
  ASSUME StoreInv, JournalInv, RefusePublish, UNCHANGED clientVars
  PROVE  JournalInv' /\ Derived' = Derived
<1>1. job \in JobType(ackSent) /\ pc = "publish" /\ job.why \in {"commit", "retry", "maintain"}
  BY JobFields DEF StoreInv, TypeInv, JournalInv, JobInv, RefusePublish, Publishing
<1>2. pc' = "reply" /\ UNCHANGED <<ring, slots, nextSeq, nextSlot, replies, pending>>
  BY DEF RefusePublish, Goto, segment, clientVars
<1>3. Derived' = Derived
  BY <1>2 DEF Derived
<1>4. partition' = Derived
  BY <1>1 DEF RefusePublish, JournalInv, MemoryInv, InFlight, Appending, Publishing
<1>5. job'.result = "done" => job.why = "maintain" /\ job'.entry = job.entry
  <2>1. CASE job.why = "maintain"
    BY <2>1 DEF RefusePublish
  <2>2. CASE job.why # "maintain"
    <3>1. job' = [job EXCEPT !.result = "unpublished"]
      BY <2>2 DEF RefusePublish
    <3>2. job'.result = "unpublished"
      BY <1>1, <3>1, JobResult
    <3> QED BY <3>2
  <2> QED BY <2>1, <2>2
<1>6. SlotInv'
  BY <1>1, <1>2 DEF JournalInv, SlotInv, Trimming
<1>7. JobInv'
  BY <1>2 DEF JobInv, Appending, Publishing, Trimming
<1>8. MemoryInv'
  <2>1. ~InFlight'
    BY <1>2 DEF InFlight, Appending, Publishing
  <2>2. Stored' => job'.entry \in Range(Derived)
    BY <1>1, <1>2, <1>5 DEF JournalInv, MemoryInv, Stored, Publishing, Trimming
  <2>3. pc' # "down" /\ Range(Derived') = Range(Derived)
    BY <1>2, <1>3
  <2> QED BY <1>3, <1>4, <2>1, <2>2, <2>3 DEF MemoryInv
<1> QED BY <1>2, <1>3, <1>6, <1>7, <1>8, JournalKept DEF JournalInv

\* The daemon is killed: the segment is left as it is, with one slot older than the
\* other.  Here the hypothesis on crashes is used: between a publication and its trim
\* the newest snapshot is labelled as the log's last record is.
LEMMA CrashJournals ==
  ASSUME TrimFollows, StoreInv, JournalInv, Crash, UNCHANGED clientVars
  PROVE  JournalInv' /\ Derived' = Derived
<1>1. /\ ring \in RingType(ackSent) /\ nextSlot \in {0, 1} /\ pc # "trim" /\ pc \in Point
  BY DEF StoreInv, TypeInv, Crash, TrimFollows
<1>2. /\ pc' = "down" /\ partition' = <<>> /\ UNCHANGED <<ring, slots, replies, pending>>
  BY DEF Crash, Goto, segment, clientVars
<1>3. Derived' = Derived
  BY <1>2 DEF Derived
<1>4. Older(slots, 0) \/ Older(slots, 1)
  <2>1. CASE pc = "down"
    BY <2>1 DEF JournalInv, SlotInv, Trimming
  <2>2. CASE pc \in Trimming
    BY SMTT(60), <1>1, <2>2 DEF JournalInv, SlotInv
  <2>3. CASE pc \notin Trimming \union {"down"}
    BY <1>1, <2>3 DEF JournalInv, SlotInv
  <2> QED BY <2>1, <2>2, <2>3
<1>5. Sound(ring) /\ ring.tail > 0 => Below(slots, ring.base + ring.tail - 1)
  <2> SUFFICES ASSUME Sound(ring), ring.tail > 0
               PROVE  Below(slots, ring.base + ring.tail - 1)
    OBVIOUS
  <2>0. ring.tail \in 0 .. Capacity /\ ring.base \in Nat /\ Capacity \in Nat
    BY <1>1, RingFields, DbAssumption
  <2>1. ~Cut(ring)
    BY SMTT(60), <2>0 DEF Cut, Sound
  <2>2. pc \notin {"trimHead", "trimTail"}
    BY <2>1 DEF StoreInv, RingInv
  <2>3. pc \notin Trimming
    BY <1>1, <2>2 DEF Trimming
  <2>4. CASE pc = "down"
    BY <2>4 DEF JournalInv, SlotInv
  <2>5. CASE pc # "down"
    <3>1. nextSeq = ring.base + ring.tail
      BY <2>2, <2>5 DEF StoreInv, RingInv
    <3>2. Below(slots, nextSeq - 1)
      BY <2>3, <2>5 DEF JournalInv, SlotInv
    <3>3. nextSeq - 1 = ring.base + ring.tail - 1
      BY SMTT(60), <2>0, <3>1
    <3> QED BY <3>2, <3>3
  <2> QED BY <2>4, <2>5
<1>6. SlotInv'
  BY <1>2, <1>4, <1>5 DEF SlotInv, Trimming
<1>7. JobInv'
  BY <1>2 DEF JobInv, Appending, Publishing, Trimming
<1>8. MemoryInv'
  BY <1>2 DEF MemoryInv, InFlight, Stored, Appending, Publishing, Trimming
<1> QED BY <1>2, <1>3, <1>6, <1>7, <1>8, JournalKept DEF JournalInv

\* The successor recovers: memory is what was durable, and the older slot is written
\* next (replay.rs recover).
LEMMA RecoverJournals ==
  ASSUME StoreInv, JournalInv, Recover, UNCHANGED clientVars, StoreInv'
  PROVE  JournalInv' /\ Derived' = Derived
<1>1. /\ ring \in RingType(ackSent) /\ slots \in SlotsType(ackSent) /\ pc = "down"
      /\ Sound(ring) \/ Cut(ring)
      /\ ring.head = 0 /\ ring.tail \in 0 .. Capacity /\ ring.base \in Nat /\ Capacity \in Nat
  BY RingFields, DbAssumption DEF StoreInv, TypeInv, RingInv, Recover
<1>2. PICK n \in {0, 1} : Older(slots, n)
  BY <1>1 DEF JournalInv, SlotInv, Trimming
<1> DEFINE v == Verified(ring)
<1>3. /\ v \in 0 .. Capacity
      /\ Sound(ring) => v = ring.tail
      /\ Cut(ring) => v = 0
  BY SMTT(60), <1>1, VerifiedSound, VerifiedCut
<1>4. /\ pc' = "idle" /\ ring' = [ring EXCEPT !.tail = ring.head + v]
      /\ partition' = Derived
      /\ nextSlot' = IF Readable(slots) = {} THEN 0 ELSE 1 - Newest(slots)
      /\ UNCHANGED <<slots, job, replies, pending, ackSent>>
  BY DEF Recover, Goto, Other, clientVars
<1> HIDE DEF v
<1>5. ring.head + v = v
  BY SMTT(60), <1>1, <1>3
<1>6. /\ ring' \in RingType(ackSent) /\ ring'.tail = v /\ ring'.base = ring.base
      /\ ring'.cells = ring.cells
  BY SMTT(60), <1>1, <1>3, <1>4, <1>5, RingTail
<1>7. Sound(ring')
  BY <1>4 DEF StoreInv, RingInv
<1>8. Derived' = Derived
  <2> DEFINE q == ring'
  <2>1. DerivePartition(q, slots) = DerivePartition(ring, slots)
    <3>1. CASE Sound(ring)
      BY <1>1, <1>2, <1>3, <1>6, <1>7, <3>1, DerivedSame
    <3>2. CASE Cut(ring)
      <4>1. Verified(ring) = 0 /\ Verified(q) = 0
        BY <1>1, <1>3, <1>6, <3>2, VerifiedCut, VerifiedEmpty
      <4> QED BY <1>1, <1>2, <1>6, <4>1, DerivedCut
    <3> QED BY <1>1, <3>1, <3>2
  <2> QED BY <2>1, <1>4 DEF Derived
<1>9. Older(slots, nextSlot')
  <2>1. CASE slots[1 - n].readable
    <3>1. nextSlot' = n
      BY SMTT(60), <1>1, <1>2, <1>4, <2>1, NewestIsOther
    <3> QED BY <1>2, <3>1
  <2>2. CASE ~slots[1 - n].readable
    <3>1. Readable(slots) = {}
      BY <1>1, <1>2, <2>2, NewestIsOther
    <3>2. nextSlot' = 0 /\ ~slots[0].readable
      BY <1>1, <1>4, <3>1 DEF Readable
    <3> QED BY <3>2 DEF Older
  <2> QED BY <2>1, <2>2
<1>10. ring'.tail > 0 => Below(slots, nextSeq' - 1)
  <2> SUFFICES ASSUME v > 0 PROVE Below(slots, nextSeq' - 1)
    BY <1>6
  <2>1. Sound(ring) /\ v = ring.tail
    BY SMTT(60), <1>1, <1>3
  <2>2. Below(slots, ring.base + ring.tail - 1)
    BY <1>1, <2>1 DEF JournalInv, SlotInv
  <2>3. nextSeq' = ring.base + ring.tail
    BY <1>4, <1>6, <2>1 DEF StoreInv, RingInv
  <2>4. nextSeq' - 1 = ring.base + ring.tail - 1
    BY SMTT(60), <1>1, <2>3
  <2> QED BY <2>2, <2>4
<1>11. SlotInv'
  BY <1>4, <1>9, <1>10 DEF SlotInv, Trimming
<1>12. JobInv'
  BY <1>4 DEF JobInv, Appending, Publishing, Trimming
<1>13. MemoryInv'
  BY <1>4, <1>8 DEF MemoryInv, InFlight, Stored, Appending, Publishing, Trimming
<1> QED BY <1>4, <1>8, <1>11, <1>12, <1>13, JournalKept DEF JournalInv

\* The client's own steps leave the daemon alone, and answer nothing.
LEMMA ClientJournals ==
  ASSUME StoreInv, JournalInv, UNCHANGED <<ring, slots, memory, pc, job>>,
         \A n \in Request :
        "done" \in {replies'[n], pending'[n]} => "done" \in {replies[n], pending[n]}
  PROVE  JournalInv' /\ Derived' = Derived
<1>1. UNCHANGED <<ring, slots, partition, nextSeq, nextSlot, pc, job>>
  BY DEF memory
<1>2. Derived' = Derived
  BY <1>1 DEF Derived
<1>3. SlotInv' /\ JobInv'
  BY SMTT(60), <1>1 DEF JournalInv, SlotInv, JobInv
<1>4. MemoryInv'
  BY <1>1, <1>2 DEF JournalInv, MemoryInv, InFlight, Stored
<1>5. Once(Derived') /\ RepliedIsDurable'
  BY <1>2 DEF JournalInv, RepliedIsDurable
<1> QED BY <1>2, <1>3, <1>4, <1>5 DEF JournalInv

\* What a restart would derive survives a new request.
LEMMA IssueJournals ==
  ASSUME StoreInv, JournalInv, Issue
  PROVE  JournalInv' /\ Derived' = Derived
<1>1. \A n \in Request :
        "done" \in {replies'[n], pending'[n]} => "done" \in {replies[n], pending[n]}
  BY DEF StoreInv, TypeInv, Issue
<1>2. UNCHANGED <<ring, slots, memory, pc, job>>
  BY DEF Issue
<1> QED BY <1>1, <1>2, ClientJournals

\* What a restart would derive survives a reply taken by its caller.
LEMMA TakeReplyJournals ==
  ASSUME StoreInv, JournalInv, NEW m \in Request, TakeReply(m)
  PROVE  JournalInv' /\ Derived' = Derived
<1>1. \A n \in Request :
        "done" \in {replies'[n], pending'[n]} => "done" \in {replies[n], pending[n]}
  <2>1. /\ replies \in [Request -> ReplyType] /\ replies' = [replies EXCEPT ![m] = pending[m]]
        /\ pending \in [Request -> ReplyType \ {"awaited"}] /\ pending' = [pending EXCEPT ![m] = "none"]
    BY DEF StoreInv, TypeInv, TakeReply
  <2>2. \A n \in Request : /\ n # m => replies'[n] = replies[n] /\ pending'[n] = pending[n]
                           /\ n = m => replies'[n] = pending[n] /\ pending'[n] = "none"
    BY <2>1
  <2> QED BY <2>2
<1>2. UNCHANGED <<ring, slots, memory, pc, job>>
  BY DEF TakeReply
<1> QED BY <1>1, <1>2, ClientJournals

\* What a restart would derive survives a retry.
LEMMA RetryJournals ==
  ASSUME StoreInv, JournalInv, NEW m \in Request, RetryUnpublished(m)
  PROVE  JournalInv' /\ Derived' = Derived
<1>1. \A n \in Request :
        "done" \in {replies'[n], pending'[n]} => "done" \in {replies[n], pending[n]}
  BY DEF StoreInv, TypeInv, RetryUnpublished
<1>2. UNCHANGED <<ring, slots, memory, pc, job>>
  BY DEF RetryUnpublished
<1> QED BY <1>1, <1>2, ClientJournals

\* What a restart would derive survives an acknowledgement sent.
LEMMA SendAcknowledgeJournals ==
  ASSUME StoreInv, JournalInv, SendAcknowledge
  PROVE  JournalInv' /\ Derived' = Derived
<1>1. \A n \in Request :
        "done" \in {replies'[n], pending'[n]} => "done" \in {replies[n], pending[n]}
  BY DEF SendAcknowledge
<1>2. UNCHANGED <<ring, slots, memory, pc, job>>
  BY DEF SendAcknowledge
<1> QED BY <1>1, <1>2, ClientJournals

\* A request already run is answered from the window, and was run durably.
LEMMA AnswerJournals ==
  ASSUME StoreInv, JournalInv, NEW m \in Request, NEW result, pc = "idle", Answer(m, result),
         UNCHANGED clientVars,
         result \in {"none", "done", "duplicate", "owed", "unpublished"},
         result = "done" => Verb(m) \in Range(partition)
  PROVE  JournalInv' /\ Derived' = Derived
<1>1. /\ job' = [NoJob EXCEPT !.entry = Verb(m), !.result = result] /\ pc' = "reply"
      /\ UNCHANGED <<ring, slots, partition, nextSeq, nextSlot, replies, pending>>
  BY DEF Answer, Goto, segment, memory, clientVars
<1>2. job'.entry = Verb(m) /\ job'.result = result
  BY <1>1, AnswerJob
<1>3. Derived' = Derived
  BY <1>1 DEF Derived
<1>4. partition = Derived
  BY DEF JournalInv, MemoryInv, InFlight, Appending, Publishing
<1>5. SlotInv'
  BY <1>1 DEF JournalInv, SlotInv, Trimming
<1>6. JobInv'
  BY <1>1 DEF JobInv, Appending, Publishing, Trimming
<1>7. MemoryInv'
  BY <1>1, <1>2, <1>3, <1>4 DEF MemoryInv, InFlight, Stored, Appending, Publishing, Trimming
<1> QED BY <1>1, <1>3, <1>5, <1>6, <1>7, JournalKept DEF JournalInv

\* A new request is one memory does not hold, so it is not durable either.
LEMMA TransactJournals ==
  ASSUME StoreInv, JournalInv, NEW m \in Request, Lookup(m) = "new", Transact(Verb(m), "done"),
         UNCHANGED clientVars
  PROVE  JournalInv' /\ Derived' = Derived
<1>1. /\ job' = [entry |-> Verb(m), batched |-> TRUE, why |-> "none", result |-> "done"]
      /\ partition' = Append(partition, Verb(m)) /\ pc = "idle" /\ pc' = "append"
      /\ UNCHANGED <<ring, slots, nextSeq, nextSlot, replies, pending>>
  BY DEF Transact, Goto, segment, clientVars
<1>2. job'.entry = Verb(m) /\ job'.batched = TRUE
  BY <1>1
<1>3. Derived' = Derived
  BY <1>1 DEF Derived
<1>4. partition = Derived
  BY <1>1 DEF JournalInv, MemoryInv, InFlight, Appending, Publishing
<1>5. Verb(m) \notin Range(Derived)
  <2>1. AcknowledgedUpTo(partition) \in 0 .. MaxRequest /\ MaxRequest \in Nat /\ m \in Nat
    BY SMTT(60), WatermarkOfWindow, RequestsAssumption DEF Request
  <2>2. ~(m <= AcknowledgedUpTo(partition)) /\ m \notin Retained(partition)
    BY DEF Lookup
  <2> QED BY SMTT(60), <1>4, <2>1, <2>2 DEF Retained
<1>6. SlotInv'
  BY <1>1 DEF JournalInv, SlotInv, Trimming
<1>7. JobInv'
  BY <1>1, <1>2 DEF JobInv, Appending, Publishing, Trimming, IsVerb
<1>8. MemoryInv'
  BY <1>1, <1>2, <1>3, <1>4, <1>5
     DEF MemoryInv, InFlight, Stored, Appending, Publishing, Trimming
<1> QED BY <1>1, <1>3, <1>6, <1>7, <1>8, JournalKept DEF JournalInv

\* What a restart would derive survives a request served.
LEMMA ServeJournals ==
  ASSUME StoreInv, JournalInv, NEW m \in Request, Serve(m)
  PROVE  JournalInv' /\ Derived' = Derived
<1>1. pc = "idle" /\ UNCHANGED clientVars
  BY DEF Serve
<1>2. CASE Lookup(m) = "completed" /\ Answer(m, "done")
  <2>1. m \in Retained(partition)
    BY <1>2 DEF Lookup
  <2>2. Verb(m) \in Range(partition)
    BY <2>1 DEF Retained
  <2> QED BY <1>1, <1>2, <2>2, AnswerJournals
<1>3. CASE Answer(m, "owed")
  BY <1>1, <1>3, AnswerJournals
<1>4. CASE Answer(m, "duplicate")
  BY <1>1, <1>4, AnswerJournals
<1>5. CASE Lookup(m) = "new" /\ Transact(Verb(m), "done")
  BY <1>1, <1>5, TransactJournals
<1> QED BY <1>2, <1>3, <1>4, <1>5 DEF Serve

\* What a restart would derive survives an acknowledgement served.
LEMMA ServeAcknowledgeJournals ==
  ASSUME StoreInv, JournalInv, NEW m \in Request, ServeAcknowledge(m)
  PROVE  JournalInv' /\ Derived' = Derived
<1>1. /\ job' = [entry |-> Ack(m), batched |-> FALSE, why |-> "none", result |-> "done"]
      /\ pc = "idle" /\ pc' = "append"
      /\ UNCHANGED <<ring, slots, partition, nextSeq, nextSlot, replies, pending>>
  BY DEF ServeAcknowledge, Mutate, Goto, segment, memory, clientVars
<1>2. job'.entry = Ack(m) /\ job'.batched = FALSE
  BY <1>1
<1>3. Derived' = Derived
  BY <1>1 DEF Derived
<1>4. partition = Derived
  BY <1>1 DEF JournalInv, MemoryInv, InFlight, Appending, Publishing
<1>5. ~IsVerb(Ack(m))
  BY EntryKinds DEF IsVerb
<1>6. SlotInv'
  BY <1>1 DEF JournalInv, SlotInv, Trimming
<1>7. JobInv'
  BY <1>1, <1>2, <1>5 DEF JobInv, Appending, Publishing, Trimming
<1>8. MemoryInv'
  BY <1>1, <1>2, <1>3, <1>4 DEF MemoryInv, InFlight, Stored, Appending, Publishing, Trimming
<1> QED BY <1>1, <1>3, <1>6, <1>7, <1>8, JournalKept DEF JournalInv

\* A reply of "done" leaves only once the operation is durable.
LEMMA ReplyJournals ==
  ASSUME StoreInv, JournalInv, Reply
  PROVE  JournalInv' /\ Derived' = Derived
<1>1. /\ \A n \in Request : replies'[n] # replies[n] => Verb(n) = job.entry /\ replies'[n] = job.result
      /\ \A n \in Request : pending'[n] # pending[n] => Verb(n) = job.entry /\ pending'[n] = job.result
      /\ pc = "reply" /\ pc' = "idle"
      /\ UNCHANGED <<ring, slots, partition, nextSeq, nextSlot>>
  BY DEF Reply, Goto, segment, memory
<1>2. Derived' = Derived
  BY <1>1 DEF Derived
<1>3. partition = Derived
  BY <1>1 DEF JournalInv, MemoryInv, InFlight, Appending, Publishing
<1>4. SlotInv'
  BY <1>1 DEF JournalInv, SlotInv, Trimming
<1>5. JobInv'
  BY <1>1 DEF JobInv, Appending, Publishing, Trimming
<1>6. MemoryInv'
  BY <1>1, <1>2, <1>3 DEF MemoryInv, InFlight, Stored, Appending, Publishing, Trimming
<1>7. ASSUME NEW n \in Request, "done" \in {replies'[n], pending'[n]} PROVE Verb(n) \in Range(Derived)
  <2>1. CASE "done" \in {replies[n], pending[n]}
    BY <2>1 DEF JournalInv, RepliedIsDurable
  <2>2. CASE "done" \notin {replies[n], pending[n]}
    <3>1. Verb(n) = job.entry /\ job.result = "done"
      BY <1>1, <1>7, <2>2
    <3>2. Stored
      BY <1>1, <3>1 DEF Stored
    <3> QED BY <3>1, <3>2 DEF JournalInv, MemoryInv
  <2> QED BY <2>1, <2>2
<1>8. RepliedIsDurable'
  BY <1>2, <1>7 DEF RepliedIsDurable
<1> QED BY <1>2, <1>4, <1>5, <1>6, <1>8 DEF JournalInv

\* At first a restart would rebuild nothing.
LEMMA JournalInit ==
  ASSUME Init
  PROVE  JournalInv /\ Derived = <<>>
<1> USE DEF Init, DbInit, ClientInit
<1>1. StoreInv
  BY StoreInit
<1>2. ring \in RingType(ackSent) /\ slots \in SlotsType(ackSent)
  BY <1>1 DEF StoreInv, TypeInv
<1>3. ring.tail = 0 /\ ~slots[0].readable /\ ~slots[1].readable
  BY DEF Unreadable
<1>4. Older(slots, 0)
  BY <1>3 DEF Older
<1>5. SnapOf(slots, 1 - 0) = <<>>
  BY SMTT(60), <1>3 DEF SnapOf
<1>6. Derived = <<>>
  BY <1>2, <1>3, <1>4, <1>5, VerifiedEmpty, DerivedCut DEF Derived
<1>7. SlotInv
  BY SMTT(60), <1>3, <1>4 DEF SlotInv, Trimming
<1>8. JobInv /\ MemoryInv
  BY <1>6 DEF JobInv, MemoryInv, InFlight, Stored, Appending, Publishing, Trimming
<1>9. Once(Derived) /\ RepliedIsDurable
  BY SMTT(60), <1>6 DEF Once, RepliedIsDurable
<1> QED BY <1>6, <1>7, <1>8, <1>9 DEF JournalInv

\* Every step keeps the second layer, and what a restart rebuilds stays as it is or
\* grows by the operation in progress.
LEMMA JournalStep ==
  ASSUME TrimFollows, IInv, [Next]_vars
  PROVE  /\ IInv'
         /\ Derived' = Derived \/ (job.entry \in Sent(ackSent) /\ Derived' = Append(Derived, job.entry))
<1>0. StoreInv /\ JournalInv /\ StoreInv'
  BY StoreStep DEF IInv
<1>1. CASE Issue
  BY <1>0, <1>1, IssueJournals DEF IInv
<1>2. CASE SendAcknowledge
  BY <1>0, <1>2, SendAcknowledgeJournals DEF IInv
<1>3. CASE Reply
  BY <1>0, <1>3, ReplyJournals DEF IInv
<1>4. CASE Storage
  <2>1. UNCHANGED clientVars
    BY <1>4 DEF Storage
  <2>2. CASE AppendRecord \/ WriteRecord \/ StoreBase \/ StoreTail
    BY <1>0, <2>1, <2>2, AppendRecordJournals, WriteRecordJournals, StoreBaseJournals,
       StoreTailJournals DEF IInv
  <2>3. CASE BeginPublish \/ EndPublish \/ RefusePublish
    BY <1>0, <2>1, <2>3, BeginPublishJournals, EndPublishJournals, RefusePublishJournals DEF IInv
  <2>4. CASE TrimBase \/ TrimHead \/ TrimTail
    BY <1>0, <2>1, <2>4, TrimBaseJournals, TrimHeadJournals, TrimTailJournals DEF IInv
  <2>5. CASE Crash \/ Recover
    BY <1>0, <2>1, <2>5, CrashJournals, RecoverJournals DEF IInv
  <2> QED BY <1>4, <2>2, <2>3, <2>4, <2>5 DEF Storage, DbStep
<1>5. CASE \E n \in Request : TakeReply(n) \/ RetryUnpublished(n) \/ Serve(n) \/ ServeAcknowledge(n)
  BY <1>0, <1>5, TakeReplyJournals, RetryJournals, ServeJournals, ServeAcknowledgeJournals DEF IInv
<1>6. CASE UNCHANGED vars
  <2>1. UNCHANGED <<ring, slots, memory, pc, job, replies, pending>>
    BY <1>6 DEF vars, memory
  <2> QED BY <1>0, <2>1, ClientJournals DEF IInv
<1> QED BY <1>1, <1>2, <1>3, <1>4, <1>5, <1>6 DEF Next

-----------------------------------------------------------------------------
(* What follows, when the daemon is not killed between a publication and its trim *)

\* No verb runs twice, in memory or in what a restart would rebuild, however often it
\* is sent, across crashes, refusals and recoveries (request.rs).
THEOREM RequestsRunOnce == ASSUME TrimFollows PROVE Spec => []ExactlyOnce
<1>1. Init => IInv
  BY StoreInit, JournalInit DEF IInv
<1>2. IInv /\ [Next]_vars => IInv'
  BY JournalStep
<1>3. IInv => ExactlyOnce
  <2> SUFFICES ASSUME IInv PROVE Once(partition) /\ Once(Derived)
    BY DEF ExactlyOnce, Once
  <2>1. Once(Derived) /\ Derived \in Seq(Sent(ackSent))
    BY DerivedIsASequence DEF IInv, JournalInv
  <2>2. CASE pc = "down"
    BY SMTT(60), <2>1, <2>2 DEF IInv, JournalInv, MemoryInv, Once
  <2>3. CASE pc # "down" /\ ~InFlight
    BY <2>1, <2>3 DEF IInv, JournalInv, MemoryInv
  <2>4. CASE pc # "down" /\ InFlight
    <3>1. pc \in Appending \union Publishing /\ job.entry # Nothing
      BY <2>4 DEF IInv, StoreInv, RingInv, InFlight
    <3>2. job.entry \in Sent(ackSent)
      BY <3>1, JobFields DEF IInv, StoreInv, TypeInv
    <3>3. partition = Append(Derived, job.entry) /\ job.entry \notin Range(Derived)
      BY <2>4 DEF IInv, JournalInv, MemoryInv
    <3> QED BY <2>1, <3>2, <3>3, OnceGrows
  <2> QED BY <2>1, <2>2, <2>3, <2>4
<1> QED BY <1>1, <1>2, <1>3, PTL DEF Spec

\* A request the client was told is done is in what a restart would rebuild, from then
\* on (replay.rs commit).
THEOREM RepliesAreDurable == ASSUME TrimFollows PROVE Spec => []RepliedIsDurable
<1>1. Init => IInv
  BY StoreInit, JournalInit DEF IInv
<1>2. IInv /\ [Next]_vars => IInv'
  BY JournalStep
<1>3. IInv => RepliedIsDurable
  BY DEF IInv, JournalInv
<1> QED BY <1>1, <1>2, <1>3, PTL DEF Spec

\* Between two operations memory is what a restart would rebuild (replay.rs rollback,
\* recover).
THEOREM MemoryIsWhatRestartRebuilds == ASSUME TrimFollows PROVE Spec => []MemoryIsDurable
<1>1. Init => IInv
  BY StoreInit, JournalInit DEF IInv
<1>2. IInv /\ [Next]_vars => IInv'
  BY JournalStep
<1>3. IInv => MemoryIsDurable
  BY DEF IInv, JournalInv, MemoryInv, MemoryIsDurable, InFlight, Appending, Publishing
<1> QED BY <1>1, <1>2, <1>3, PTL DEF Spec

\* The ring, the two slots and the order of the daemon's stores implement the journal:
\* what a restart would rebuild only grows, by one whole transaction at a time
\* (record.rs, snapshot.rs, replay.rs).
THEOREM DbImplementsJournal == ASSUME TrimFollows PROVE Spec => DbIsAJournal
<1>1. Init => IInv /\ Rebuilt!Init
  BY StoreInit, JournalInit DEF IInv, Rebuilt!Init
<1>2. IInv /\ [Next]_vars => IInv' /\ [Rebuilt!Next]_Derived
  <2> SUFFICES ASSUME IInv, [Next]_vars PROVE IInv' /\ [Rebuilt!Next]_Derived
    OBVIOUS
  <2>1. IInv'
    BY JournalStep
  <2>2. CASE Derived' = Derived
    BY <2>1, <2>2
  <2>3. CASE job.entry \in Sent(ackSent) /\ Derived' = Append(Derived, job.entry)
    <3>1. 1 .. ackSent \subseteq Request
      BY SMTT(60), RequestsAssumption DEF IInv, StoreInv, TypeInv, Request
    <3>2. job.entry \in Transaction
      BY <2>3, <3>1, RequestsAssumption DEF Sent
    <3> QED BY <2>1, <2>3, <3>2 DEF Rebuilt!Next, Rebuilt!Commit
  <2> QED BY <2>2, <2>3, JournalStep
<1> QED BY <1>1, <1>2, PTL DEF Spec, DbIsAJournal, Rebuilt!Spec
=============================================================================
