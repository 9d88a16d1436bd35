---------------------------- MODULE RingProofs ---------------------------
(***************************************************************************)
(* Proofs about the ring and the parking protocol of one shard, for every  *)
(* number of senders, whatever they send, and every capacity.              *)
(*                                                                         *)
(* The invariant of the whole runtime is stated here.  RegistryInv is the  *)
(* registry's part (RuntimeProofs shows its steps).  RingInv follows a     *)
(* position of the ring from the sender that claims it, over the store     *)
(* buffer that sender's two stores leave in order (InHand), to the shard   *)
(* that takes it; it is why a sequence word names exactly one lap.         *)
(* WakeInv says who still owes a parked shard its wake, with the stores    *)
(* that are not yet visible counted in.                                    *)
(***************************************************************************)
EXTENDS Runtime, TLAPS

\* Zenon proves a leaf, but where it names the SMT solver.
USE ZenonT(20)

USE RuntimeAssumption, CapacityAssumption

Points == {"idle", "retry", "read", "inside", "check", "claim", "flag", "fence", "kick"}
ShardPoints == {"take", "receive", "pop", "recheck", "wait", "exited", "reclaimed"}
Location == RingLocation \cup {Parked}
ShardStore == [location : Location, value : Nat \cup BOOLEAN]

SlotType == [generation : Nat, entry : Nat, heap : Nat, readers : Int, exited : BOOLEAN]
ShardType == [pc : ShardPoints, work : BOOLEAN, drained : Nat, shuttingDown : BOOLEAN]
TaskType == [kind : {"word", "control", "shutdown"}, to : Nat, entry : Nat]

\* The types of what the registry, the callers and the shard keep ...
RegistryType ==
  /\ program \in Programs
  /\ at \in [Caller -> Points]
  /\ sends \in [Sender -> Nat]
  /\ \A p \in Sender : sends[p] <= Len(program[p]) /\ (at[p] # "idle" => sends[p] > 0)
  /\ task \in [Caller -> TaskType]
  /\ shard \in ShardType
  /\ pending \in BOOLEAN /\ kicked \in BOOLEAN
  /\ control \in Seq([kind : {"control", "shutdown"}, to : Nat])
  /\ slot \in SlotType
  /\ owner \in {"free", "running", "stopping", "clearing"}

\* ... and of the ring.
RingType ==
  /\ DOMAIN memory = Location /\ DOMAIN buffer = Thread
  /\ buffer[Shard] \in Seq(ShardStore)
  /\ tail \in Nat /\ head \in Nat /\ reg \in [Sender -> Nat]

\* The callers counted in the slot.
Readers == {c \in Caller : at[c] \notin {"idle", "retry"}}

Counted == slot.readers = Cardinality(Readers)

\* What each stage of the slot's life says of its entry, its channel and its shard.
Life ==
  /\ owner = "free" => slot.entry = 0 /\ slot.heap = 0 /\ control = <<>>
  /\ owner = "clearing" => slot.entry = 0 /\ slot.heap # 0
  /\ owner \in {"running", "stopping"} =>
       slot.entry = slot.heap /\ slot.heap = slot.generation /\ slot.heap # 0
  /\ shard.pc # "reclaimed" => owner \in {"running", "stopping"}

\* A caller at work on an entry works on the one allocated.
Inside == \A c \in Caller : Using(c) => task[c].entry = slot.heap /\ slot.heap # 0

\* The owner calls only to stop the registration it holds; nobody else sends a shutdown.
OwnerCall ==
  /\ at[Owner] # "idle" =>
       owner = "stopping" /\ task[Owner].kind = "shutdown" /\ task[Owner].to = slot.heap
  /\ \A p \in Sender : task[p].kind # "shutdown"

RegistryInv == RegistryType /\ Counted /\ Life /\ Inside /\ OwnerCall /\ NoStranger

-----------------------------------------------------------------------------
SeqAt(q) == memory[SequenceOf(Slot(q))]
Released(q) == Store(SequenceOf(Slot(q)), q)

\* A sender with stores in its buffer has claimed a position and has yet to publish it.
InHand(p) ==
  LET position == reg[p]
      publishes == Store(SequenceOf(Slot(position)), position + 1)
  IN  /\ at[p] = "fence"
      /\ position \in head .. tail - 1
      /\ SeqAt(position) = position
      /\ \/ buffer[p] = <<Store(WordOf(Slot(position)), WordInHand(p)), publishes>>
         \/ buffer[p] = <<publishes>> /\ memory[WordOf(Slot(position))] = WordInHand(p)

Hands ==
  /\ \A p \in Sender : buffer[p] # <<>> => InHand(p)
  /\ \A p, r \in Sender : buffer[p] # <<>> /\ buffer[r] # <<>> /\ reg[p] = reg[r] => p = r
  /\ buffer[Owner] = <<>>

\* The positions claimed and not yet taken.
Claimed ==
  \A q \in head .. tail - 1 :
    SeqAt(q) = q + 1 \/ \E p \in Sender : buffer[p] # <<>> /\ reg[p] = q

\* The positions of the next lap: free, or released by a store still in the shard's buffer.
Unclaimed ==
  \A q \in tail .. head + Capacity - 1 :
    \/ SeqAt(q) = q
    \/ SeqAt(q) = q + 1 - Capacity /\ \E i \in DOMAIN buffer[Shard] : buffer[Shard][i] = Released(q)

\* What waits in the shard's buffer: announcements and releases, one for a slot.
Releases ==
  /\ \A i \in DOMAIN buffer[Shard] :
       \/ buffer[Shard][i].location = Parked
       \/ \E q \in tail .. head + Capacity - 1 :
            buffer[Shard][i] = Released(q) /\ SeqAt(q) = q + 1 - Capacity
  /\ \A i, j \in DOMAIN buffer[Shard] :
       buffer[Shard][i].location = buffer[Shard][j].location =>
         i = j \/ buffer[Shard][i].location = Parked
  /\ shard.pc = "reclaimed" => buffer[Shard] = <<>>

\* A producer between its check and its claim: if the tail has not moved, the slot is free.
Claiming ==
  \A p \in Sender :
    /\ at[p] \in {"check", "claim"} => reg[p] <= tail
    /\ at[p] = "claim" /\ reg[p] = tail => SeqAt(tail) = tail

RingInv ==
  /\ RingType
  /\ head <= tail /\ tail <= head + Capacity
  /\ Hands /\ Claimed /\ Unclaimed /\ Releases /\ Claiming

-----------------------------------------------------------------------------
\* The last store of a buffer.
Newest(b) == b[Len(b)]

\* A shard past its announcement has it in memory or last in its buffer; asleep, in memory.
Announced ==
  /\ shard.pc = "recheck" =>
       IF buffer[Shard] = <<>> THEN memory[Parked] = TRUE
       ELSE Newest(buffer[Shard]) = Store(Parked, TRUE)
  /\ shard.pc = "wait" => buffer[Shard] = <<>> /\ memory[Parked] = TRUE

\* Work that came while the shard sleeps has a sender about to look, or a kick.
Awaited ==
  shard.pc = "wait" /\ ~kicked /\ (SeqAt(head) = head + 1 \/ pending) =>
    \E c \in Caller : at[c] \in {"fence", "kick"}

IInv == RegistryInv /\ RingInv /\ Announced /\ Awaited
-----------------------------------------------------------------------------
(* The ring's places: positions less than a lap apart have slots of their own. *)

\* A position is so many laps and a slot of the ring.
LEMMA Division ==
  ASSUME NEW a \in Nat
  PROVE  /\ a = Capacity * (a \div Capacity) + (a % Capacity)
         /\ a % Capacity \in 0 .. Capacity - 1 /\ a \div Capacity \in Nat
  BY SMTT(60)

\* Laps subtract.
LEMMA LapsApart ==
  ASSUME NEW m \in Int, NEW n \in Int
  PROVE  Capacity * (m - n) = Capacity * m - Capacity * n
  BY SMTT(60)

\* A whole number of laps less than one is none.
LEMMA LessThanALap ==
  ASSUME NEW d \in Int, Capacity * d < Capacity, Capacity * d > 0 - Capacity
  PROVE  d = 0
  BY SMTT(60)

\* Laps and slot are determined by the position.
LEMMA DivisionUnique ==
  ASSUME NEW m \in Int, NEW n \in Int, NEW r \in 0 .. Capacity - 1, NEW s \in 0 .. Capacity - 1,
         Capacity * m + r = Capacity * n + s
  PROVE  m = n /\ r = s
<1>1. Capacity * m \in Int /\ Capacity * n \in Int /\ Capacity * (m - n) = Capacity * m - Capacity * n
  BY SMTT(60), LapsApart
<1>2. Capacity * (m - n) = s - r
  BY SMTT(60), <1>1
<1>3. m - n = 0
  BY SMTT(60), <1>2, LessThanALap
<1> QED
  BY SMTT(60), <1>3

\* Slots do not repeat within a lap.
LEMMA SlotDistinct ==
  ASSUME NEW a \in Nat, NEW b \in Nat, a <= b, b < a + Capacity, Slot(a) = Slot(b)
  PROVE  a = b
<1> DEFINE m == a \div Capacity
           n == b \div Capacity
           r == a % Capacity
<1>1. /\ a = Capacity * m + r /\ r \in 0 .. Capacity - 1 /\ m \in Nat
      /\ b = Capacity * n + r /\ n \in Nat
  BY Division DEF Slot
<1> HIDE DEF m, n, r
<1>2. Capacity * (n - m) = Capacity * n - Capacity * m /\ Capacity * m \in Int /\ Capacity * n \in Int
  BY SMTT(60), <1>1, LapsApart
<1>3. n - m = 0
  BY SMTT(60), <1>1, <1>2, LessThanALap
<1> QED
  BY SMTT(60), <1>1, <1>3

\* A lap further is the same slot.
LEMMA SlotNext ==
  ASSUME NEW a \in Nat
  PROVE  Slot(a + Capacity) = Slot(a)
<1>1. ASSUME NEW b \in Nat, b = a + Capacity PROVE b % Capacity = a % Capacity
  <2>1. b = Capacity * (b \div Capacity) + (b % Capacity) /\ b % Capacity \in 0 .. Capacity - 1
        /\ b \div Capacity \in Nat
    BY Division
  <2>2. a = Capacity * (a \div Capacity) + (a % Capacity) /\ a % Capacity \in 0 .. Capacity - 1
        /\ a \div Capacity \in Nat
    BY Division
  <2>3. Capacity * ((a \div Capacity) + 1) = Capacity * (a \div Capacity) + Capacity
    BY SMTT(60), <2>2
  <2>4. Capacity * ((a \div Capacity) + 1) + (a % Capacity) = Capacity * (b \div Capacity) + (b % Capacity)
    BY SMTT(60), <1>1, <2>1, <2>2, <2>3
  <2> DEFINE m == (a \div Capacity) + 1
             n == b \div Capacity
             r == a % Capacity
             s == b % Capacity
  <2>5. m \in Int /\ n \in Int /\ r \in 0 .. Capacity - 1 /\ s \in 0 .. Capacity - 1
    BY SMTT(60), <2>1, <2>2
  <2>6. Capacity * m + r = Capacity * n + s
    BY <2>4
  <2> HIDE DEF m, n, r, s
  <2>7. r = s
    BY SMTT(60), <2>5, <2>6, DivisionUnique
  <2> QED
    BY <2>7 DEF r, s
<1> QED
  BY SMTT(60), <1>1 DEF Slot

\* The first lap's slots are its positions.
LEMMA SlotFirst ==
  ASSUME NEW a \in Nat, a < Capacity
  PROVE  Slot(a) = a
<1>1. /\ a = Capacity * (a \div Capacity) + (a % Capacity)
      /\ a % Capacity \in 0 .. Capacity - 1 /\ a \div Capacity \in Nat
  BY Division
<1>2. Capacity * 0 + a = a /\ a \in 0 .. Capacity - 1
  BY SMTT(60)
<1> QED
  BY SMTT(60), <1>1, <1>2, DivisionUnique DEF Slot

\* No two of the ring's locations coincide, and the announcement is none of them.
LEMMA Places ==
  /\ \A i, j : SequenceOf(i) = SequenceOf(j) => i = j
  /\ \A i, j : WordOf(i) = WordOf(j) => i = j
  /\ \A i, j : SequenceOf(i) # WordOf(j)
  /\ \A i : SequenceOf(i) # Parked /\ WordOf(i) # Parked
  /\ \A q \in Nat : SequenceOf(Slot(q)) \in Location /\ WordOf(Slot(q)) \in Location
  /\ Parked \in Location
<1>1. \A q \in Nat : Slot(q) \in Index
  BY Division DEF Slot, Index
<1> QED
  BY <1>1 DEF SequenceOf, WordOf, Parked, Location, RingLocation

\* Within the lap from the head, positions have places of their own.
LEMMA Lap ==
  ASSUME head \in Nat, NEW a \in head .. head + Capacity - 1, NEW b \in head .. head + Capacity - 1
  PROVE  /\ SequenceOf(Slot(a)) = SequenceOf(Slot(b)) => a = b
         /\ WordOf(Slot(a)) = WordOf(Slot(b)) => a = b
<1>1. Slot(a) = Slot(b) => a = b
  BY SMTT(60), SlotDistinct
<1> QED
  BY <1>1, Places
-----------------------------------------------------------------------------
\* A sender's buffer is empty except after its claim.
LEMMA EmptyHands ==
  ASSUME RingInv, NEW c \in Caller, at[c] # "fence"
  PROVE  buffer[c] = <<>>
  BY DEF RingInv, Hands, InHand, Caller

\* A load past an empty buffer sees memory.
LEMMA LoadsMemory ==
  ASSUME NEW t, buffer[t] = <<>>, NEW l
  PROVE  Load(t, l) = memory[l]
  BY SMTT(60) DEF Load

\* A tail whose slot is free is less than a lap from the head.
LEMMA FreeIsWithinLap ==
  ASSUME RingInv, SeqAt(tail) = tail
  PROVE  tail < head + Capacity
<1> USE DEF RingInv
<1>1. tail \in Nat /\ head \in Nat
  BY DEF RingType
<1> SUFFICES ASSUME tail = head + Capacity PROVE FALSE
  BY SMTT(60), <1>1
<1>2. SeqAt(head) = tail
  BY <1>1, SlotNext DEF SeqAt
<1>3. head \in head .. tail - 1
  BY SMTT(60), <1>1
<1>4. SeqAt(head) = head + 1 \/ SeqAt(head) = head
  BY SMTT(60), <1>3 DEF Claimed, Hands, InHand
<1> QED
  BY SMTT(60), <1>1, <1>2, <1>4

\* What a published head means: claimed, in nobody's hands, and in memory.
LEMMA ReadyHead ==
  ASSUME RingInv, Ready
  PROVE  /\ SeqAt(head) = head + 1 /\ head < tail
         /\ Oldest = memory[WordOf(Slot(head))]
         /\ \A p \in Sender : buffer[p] # <<>> => reg[p] # head
<1> USE DEF RingInv
<1> DEFINE location == SequenceOf(Slot(head))
           own == {i \in DOMAIN buffer[Shard] : buffer[Shard][i].location = location}
<1>1. tail \in Nat /\ head \in Nat /\ head <= tail /\ tail <= head + Capacity
  BY DEF RingType
<1>2. location # Parked
  BY Places
<1>3. ASSUME NEW i \in own PROVE Load(Shard, location) = head
  <2>1. own = {i}
    BY <1>2 DEF Releases
  <2>2. PICK q \in tail .. head + Capacity - 1 : buffer[Shard][i] = Released(q)
    BY <1>2 DEF Releases
  <2>3. q \in head .. head + Capacity - 1 /\ head \in head .. head + Capacity - 1
    BY SMTT(60), <1>1
  <2>4. q = head
    BY SMTT(60), <1>1, <2>2, <2>3, Lap DEF Released, Store
  <2>5. Max(own) = i
    <3>1. i \in Int /\ Max({i}) = i
      BY SMTT(60) DEF Max, RingType
    <3> QED
      BY <2>1, <3>1
  <2>6. Load(Shard, location) = buffer[Shard][i].value
    BY <2>1, <2>5 DEF Load
  <2> QED
    BY SMTT(60), <2>2, <2>4, <2>6 DEF Released, Store
<1>4. own = {} /\ SeqAt(head) = head + 1
  <2>1. Load(Shard, location) = head + 1
    BY DEF Ready
  <2>2. own = {}
    BY SMTT(60), <1>1, <1>3, <2>1
  <2>3. Load(Shard, location) = memory[location]
    BY <2>2 DEF Load
  <2> QED
    BY <2>1, <2>2, <2>3 DEF SeqAt
<1>5. head < tail
  <2> SUFFICES ASSUME head = tail PROVE FALSE
    BY SMTT(60), <1>1
  <2>1. head \in tail .. head + Capacity - 1
    BY SMTT(60), <1>1
  <2>2. SeqAt(head) = head \/ SeqAt(head) = head + 1 - Capacity
    BY <2>1 DEF Unclaimed
  <2> QED
    BY SMTT(60), <1>1, <1>4, <2>2
<1>6. Oldest = memory[WordOf(Slot(head))]
  <2>1. \A i \in DOMAIN buffer[Shard] : buffer[Shard][i].location # WordOf(Slot(head))
    <3> SUFFICES ASSUME NEW i \in DOMAIN buffer[Shard]
                 PROVE  buffer[Shard][i].location # WordOf(Slot(head))
      OBVIOUS
    <3>1. \/ buffer[Shard][i].location = Parked
          \/ \E q : buffer[Shard][i] = Released(q)
      BY DEF Releases
    <3>2. \A q : Released(q).location = SequenceOf(Slot(q))
      BY DEF Released, Store
    <3> QED
      BY <3>1, <3>2, Places
  <2> QED
    BY <2>1 DEF Oldest, Load
<1>7. \A p \in Sender : buffer[p] # <<>> => reg[p] # head
  BY SMTT(60), <1>1, <1>4 DEF Hands, InHand
<1> QED
  BY <1>4, <1>5, <1>6, <1>7

\* A new entry's ring is free for its first lap.
LEMMA NewPlaces ==
  /\ DOMAIN NewMemory = Location
  /\ \A q \in 0 .. Capacity - 1 : NewMemory[SequenceOf(Slot(q))] = q
<1>1. DOMAIN NewMemory = Location
  BY DEF NewMemory, Location
<1>2. ASSUME NEW q \in 0 .. Capacity - 1 PROVE NewMemory[SequenceOf(Slot(q))] = q
  <2>1. Slot(q) = q
    BY SMTT(60), SlotFirst
  <2>2. SequenceOf(q) \in RingLocation /\ SequenceOf(q)[1] = "sequence" /\ SequenceOf(q)[2] = q
    BY DEF RingLocation, SequenceOf, Index
  <2>3. NewRing[SequenceOf(q)] = q
    BY <2>2 DEF NewRing
  <2> QED
    BY <2>1, <2>2, <2>3, Places DEF NewMemory
<1> QED
  BY <1>1, <1>2

\* The ring starts empty.
LEMMA RingInit == Init => RingInv
<1> SUFFICES ASSUME Init PROVE RingInv
  OBVIOUS
<1>1. /\ memory = NewMemory /\ tail = 0 /\ head = 0 /\ reg = [p \in Sender |-> 0]
      /\ buffer = [t \in Thread |-> <<>>] /\ \A p \in Sender : at[p] = "idle"
  BY DEF Init, Caller
<1>2. /\ \A t \in Thread : buffer[t] = <<>> 
      /\ Sender \subseteq Thread /\ Owner \in Thread /\ Shard \in Thread
  BY <1>1 DEF Thread
<1>3. RingType
  BY SMTT(60), <1>1, <1>2, NewPlaces DEF RingType
<1>4. Hands /\ Claimed
  BY SMTT(60), <1>1, <1>2 DEF Hands, Claimed
<1>5. Unclaimed
  BY SMTT(60), <1>1, NewPlaces DEF Unclaimed, SeqAt
<1>6. Releases /\ Claiming
  BY SMTT(60), <1>1, <1>2 DEF Releases, Claiming
<1> QED
  BY SMTT(60), <1>1, <1>3, <1>4, <1>5, <1>6 DEF RingInv

\* The ring's part of the invariant is inductive, given the registry's: it retires with
\* nobody inside.
LEMMA RingStep == RegistryInv /\ RingInv /\ (Retire => Readers = {}) /\ [Next]_vars => RingInv'
(* The ring. *)
\* A caller that touches only its own registers, with no store of its own on the way.
<1>CallerKeepsRing. ASSUME RingInv, NEW c \in Caller, buffer[c] = <<>>,
                           UNCHANGED <<memory, buffer, tail, head, shard>>,
                           \A p \in Sender \ {c} : at'[p] = at[p] /\ reg'[p] = reg[p] /\ sends'[p] = sends[p],
                           reg' \in [Sender -> Nat],
                           c \in Sender => /\ at'[c] \in {"check", "claim"} => reg'[c] <= tail
                                           /\ at'[c] = "claim" /\ reg'[c] = tail => SeqAt(tail) = tail
                    PROVE  RingInv'
  <2> USE <1>CallerKeepsRing
  <2> USE DEF RingInv
  <2>1. RingType' /\ head' <= tail' /\ tail' <= head' + Capacity
    BY DEF RingType
  <2>2. Hands'
    <3>1. ASSUME NEW p \in Sender, buffer[p] # <<>> PROVE InHand(p)'
      <4>1. p # c /\ InHand(p)
        BY <3>1 DEF Hands
      <4> QED
        BY <4>1 DEF InHand, SeqAt, WordInHand
    <3>2. \A p, r \in Sender : buffer[p] # <<>> /\ buffer[r] # <<>> /\ reg'[p] = reg'[r] => p = r
      BY DEF Hands
    <3> QED
      BY <3>1, <3>2 DEF Hands
  <2>3. Claimed'
    BY SMTT(60) DEF Claimed, SeqAt
  <2>4. Unclaimed' /\ Releases'
    BY DEF Unclaimed, Releases, SeqAt
  <2>5. Claiming'
    BY DEF Claiming, SeqAt
  <2> QED
    BY <2>1, <2>2, <2>3, <2>4, <2>5
\* A step that leaves the ring and its callers alone.
<1>ElseKeepsRing. ASSUME RingInv, UNCHANGED <<memory, buffer, tail, head, reg, at, sends>>,
                         shard'.pc = "reclaimed" => buffer[Shard] = <<>>
                  PROVE  RingInv'
  <2> USE <1>ElseKeepsRing
  <2> USE DEF RingInv
  <2>1. RingType' /\ head' <= tail' /\ tail' <= head' + Capacity
    BY DEF RingType
  <2>2. Hands'
    BY DEF Hands, InHand, SeqAt, WordInHand
  <2>3. Claimed' /\ Unclaimed'
    BY DEF Claimed, Unclaimed, SeqAt
  <2>4. Releases' /\ Claiming'
    BY DEF Claiming, SeqAt, Releases
  <2> QED
    BY <2>1, <2>2, <2>3, <2>4
\* The claim: the word and what publishes it go into the sender's hands.
<1>ClaimKeepsRing. ASSUME RingInv, RegistryInv, NEW p \in Sender, at[p] = "claim",
                          ClaimAndPublish(p, WordInHand(p)), at' = [at EXCEPT ![p] = "fence"],
                          UNCHANGED <<sends, shard>>
                   PROVE  RingInv'
  <2> USE <1>ClaimKeepsRing
  <2> USE DEF RingInv
  <2> DEFINE word == Store(WordOf(Slot(tail)), WordInHand(p))
             publishes == Store(SequenceOf(Slot(tail)), tail + 1)
  <2>1. p \in Caller /\ p # Shard /\ p \in Thread /\ Shard \in Thread
    BY DEF Caller, Thread
  <2>2. buffer[p] = <<>>
    BY <2>1, EmptyHands
  <2>3. /\ tail = reg[p] /\ tail' = tail + 1 /\ UNCHANGED <<memory, head, reg>>
        /\ buffer' = [buffer EXCEPT ![p] = <<word, publishes>>]
    BY SMTT(60), <2>2 DEF ClaimAndPublish
  <2> HIDE DEF word, publishes
  <2>4. /\ buffer'[p] = <<word, publishes>> /\ buffer'[p] # <<>>
        /\ \A t \in Thread \ {p} : buffer'[t] = buffer[t]
        /\ DOMAIN buffer' = Thread /\ buffer'[Shard] = buffer[Shard]
    BY <2>1, <2>3 DEF RingType
  <2>5. tail \in Nat /\ head \in Nat /\ head <= tail /\ at'[p] = "fence" /\ \A r \in Sender \ {p} : at'[r] = at[r]
    BY DEF RingType, RegistryInv, RegistryType, Caller
  <2>6. SeqAt(tail) = tail /\ \A q : SeqAt(q)' = SeqAt(q)
    BY <2>3 DEF Claiming, SeqAt
  <2>7. tail < head + Capacity
    BY <2>6, FreeIsWithinLap
  <2>8. RingType' /\ head' <= tail' /\ tail' <= head' + Capacity
    BY SMTT(60), <2>3, <2>4, <2>5, <2>7 DEF RingType
  <2>9. Hands'
    <3>1. InHand(p)'
      BY SMTT(60), <2>3, <2>4, <2>5, <2>6 DEF InHand, WordInHand, word, publishes
    <3>2. ASSUME NEW r \in Sender, r # p, buffer'[r] # <<>>
          PROVE  InHand(r)' /\ buffer[r] # <<>> /\ reg'[r] # reg'[p]
      <4>1. buffer'[r] = buffer[r] /\ InHand(r)
        BY <2>4, <3>2 DEF Hands, Thread
      <4> QED
        BY SMTT(60), <2>3, <2>5, <2>6, <3>2, <4>1 DEF InHand, WordInHand
    <3>3. buffer'[Owner] = <<>>
      BY <2>4 DEF Hands, Thread
    <3>4. \A r, u \in Sender : buffer'[r] # <<>> /\ buffer'[u] # <<>> /\ reg'[r] = reg'[u] => r = u
      BY <2>3, <3>2 DEF Hands
    <3> QED
      BY <3>1, <3>2, <3>3, <3>4 DEF Hands
  <2>10. Claimed'
    <3> SUFFICES ASSUME NEW q \in head .. tail
                 PROVE  SeqAt(q)' = q + 1 \/ \E r \in Sender : buffer'[r] # <<>> /\ reg'[r] = q
      <4>1. head' .. tail' - 1 = head .. tail
        BY SMTT(60), <2>3, <2>5
      <4> QED
        BY <4>1 DEF Claimed
    <3>1. CASE q = tail
      BY <2>3, <2>4, <3>1
    <3>2. CASE q # tail
      <4>1. q \in head .. tail - 1
        BY SMTT(60), <2>5, <3>2
      <4>2. \A r \in Sender : buffer[r] # <<>> => buffer'[r] # <<>> /\ reg'[r] = reg[r]
        BY <2>2, <2>3, <2>4 DEF Thread
      <4> QED
        BY <2>6, <4>1, <4>2 DEF Claimed
    <3> QED
      BY <3>1, <3>2
  <2>11. Unclaimed'
    BY SMTT(60), <2>3, <2>4, <2>5, <2>6 DEF Unclaimed, Released
  <2>12. Releases'
    <3>1. ASSUME NEW i \in DOMAIN buffer[Shard], buffer[Shard][i].location # Parked
          PROVE  \E q \in tail + 1 .. head + Capacity - 1 :
                   buffer[Shard][i] = Released(q) /\ SeqAt(q) = q + 1 - Capacity
      <4>1. PICK q \in tail .. head + Capacity - 1 :
                   buffer[Shard][i] = Released(q) /\ SeqAt(q) = q + 1 - Capacity
        BY <3>1 DEF Releases
      <4>2. q # tail
        BY SMTT(60), <2>5, <2>6, <4>1
      <4> QED
        BY SMTT(60), <2>5, <4>1, <4>2
    <3> QED
      BY SMTT(60), <2>3, <2>4, <2>6, <3>1 DEF Releases, Released
  <2>13. Claiming'
    BY SMTT(60), <2>3, <2>5 DEF Claiming, RingType
  <2> QED
    BY <2>8, <2>9, <2>10, <2>11, <2>12, <2>13
\* An announcement or its withdrawal joins the shard's buffer.
<1>ParkKeepsRing. ASSUME RingInv, NEW value \in BOOLEAN, StoreParked(value), UNCHANGED <<at, sends>>,
                         shard'.pc # "reclaimed"
                  PROVE  RingInv'
  <2> USE <1>ParkKeepsRing
  <2> USE DEF RingInv
  <2> DEFINE store == Store(Parked, value)
  <2>1. store \in ShardStore /\ store.location = Parked
    BY Places DEF Store, ShardStore
  <2>2. UNCHANGED <<memory, tail, head, reg>> /\ buffer' = [buffer EXCEPT ![Shard] = Append(@, store)]
    BY DEF StoreParked
  <2> HIDE DEF store
  <2>3. /\ DOMAIN buffer' = Thread /\ buffer'[Shard] = Append(buffer[Shard], store)
        /\ \A c \in Caller : buffer'[c] = buffer[c]
    BY <2>2 DEF RingType, Thread, Caller
  <2>4. /\ buffer'[Shard] \in Seq(ShardStore)
        /\ DOMAIN buffer[Shard] = 1 .. Len(buffer[Shard]) /\ Len(buffer[Shard]) \in Nat
        /\ DOMAIN buffer'[Shard] = 1 .. Len(buffer[Shard]) + 1
        /\ \A i \in DOMAIN buffer[Shard] : buffer'[Shard][i] = buffer[Shard][i]
        /\ buffer'[Shard][Len(buffer[Shard]) + 1] = store
    BY SMTT(60), <2>1, <2>3 DEF RingType
  <2>5. \A q : SeqAt(q)' = SeqAt(q) /\ Released(q)' = Released(q)
    BY <2>2 DEF SeqAt, Released
  <2>6. RingType' /\ head' <= tail' /\ tail' <= head' + Capacity
    BY <2>2, <2>3, <2>4 DEF RingType
  <2>7. Hands' /\ Claimed'
    BY SMTT(60), <2>2, <2>3, <2>5 DEF Hands, Claimed, InHand, WordInHand, Caller
  <2>8. Unclaimed'
    BY SMTT(60), <2>2, <2>4, <2>5 DEF Unclaimed
  <2>9. Releases'
    <3>1. ASSUME NEW i \in DOMAIN buffer'[Shard]
          PROVE  i \in DOMAIN buffer[Shard] \/ buffer'[Shard][i].location = Parked
      BY SMTT(60), <2>1, <2>4
    <3> QED
      BY SMTT(60), <2>2, <2>4, <2>5, <3>1 DEF Releases
  <2>10. Claiming'
    BY <2>2, <2>5 DEF Claiming
  <2> QED
    BY <2>6, <2>7, <2>8, <2>9, <2>10
\* The shard takes the word and releases the slot for the next lap.
<1>PopKeepsRing. ASSUME RingInv, Pop, UNCHANGED <<at, sends>>, shard'.pc # "reclaimed"
                 PROVE  RingInv'
  <2> USE <1>PopKeepsRing
  <2> USE DEF RingInv
  <2> DEFINE store == Released(head + Capacity)
  <2>1. tail \in Nat /\ head \in Nat /\ head <= tail /\ tail <= head + Capacity
    BY DEF RingType
  <2>2. /\ SeqAt(head) = head + 1 /\ head < tail
        /\ \A p \in Sender : buffer[p] # <<>> => reg[p] # head
    BY ReadyHead DEF Pop
  <2>3. store = Store(SequenceOf(Slot(head)), head + Capacity)
    BY <2>1, SlotNext DEF Released
  <2>4. store \in ShardStore /\ store.location = SequenceOf(Slot(head))
    BY SMTT(60), <2>1, <2>3, Places DEF Store, ShardStore
  <2>5. /\ UNCHANGED <<memory, tail, reg>> /\ head' = head + 1
        /\ buffer' = [buffer EXCEPT ![Shard] = Append(@, store)]
    BY <2>3 DEF Pop
  <2> HIDE DEF store
  <2>6. /\ DOMAIN buffer' = Thread /\ buffer'[Shard] = Append(buffer[Shard], store)
        /\ \A c \in Caller : buffer'[c] = buffer[c]
    BY <2>5 DEF RingType, Thread, Caller
  <2>7. /\ buffer'[Shard] \in Seq(ShardStore)
        /\ DOMAIN buffer[Shard] = 1 .. Len(buffer[Shard]) /\ Len(buffer[Shard]) \in Nat
        /\ DOMAIN buffer'[Shard] = 1 .. Len(buffer[Shard]) + 1
        /\ \A i \in DOMAIN buffer[Shard] : buffer'[Shard][i] = buffer[Shard][i]
        /\ buffer'[Shard][Len(buffer[Shard]) + 1] = store
    BY SMTT(60), <2>4, <2>6 DEF RingType
  <2>8. \A q : SeqAt(q)' = SeqAt(q) /\ Released(q)' = Released(q)
    BY <2>5 DEF SeqAt, Released
  <2>9. SeqAt(head + Capacity) = head + 1
    BY <2>1, <2>2, SlotNext DEF SeqAt
  <2>10. RingType' /\ head' <= tail' /\ tail' <= head' + Capacity
    BY SMTT(60), <2>1, <2>2, <2>5, <2>6, <2>7 DEF RingType
  <2>11. Hands'
    <3>1. ASSUME NEW p \in Sender, buffer[p] # <<>> PROVE InHand(p)'
      <4>1. InHand(p) /\ reg[p] # head
        BY <2>2, <3>1 DEF Hands
      <4> QED
        BY SMTT(60), <2>1, <2>5, <2>6, <2>8, <4>1 DEF InHand, WordInHand, Caller
    <3> QED
      BY <2>5, <2>6, <3>1 DEF Hands, Caller
  <2>12. Claimed'
    BY SMTT(60), <2>1, <2>5, <2>6, <2>8 DEF Claimed, Caller
  <2>13. Unclaimed'
    <3> SUFFICES ASSUME NEW q \in tail .. head + Capacity
                 PROVE  \/ SeqAt(q) = q
                        \/ SeqAt(q) = q + 1 - Capacity /\
                           \E i \in DOMAIN buffer'[Shard] : buffer'[Shard][i] = Released(q)
      BY SMTT(60), <2>1, <2>5, <2>8 DEF Unclaimed
    <3>1. CASE q = head + Capacity
      BY SMTT(60), <2>1, <2>7, <2>9, <3>1 DEF store
    <3>2. CASE q # head + Capacity
      <4>1. q \in tail .. head + Capacity - 1
        BY SMTT(60), <2>1, <3>2
      <4> QED
        BY SMTT(60), <2>7, <4>1 DEF Unclaimed
    <3> QED
      BY <3>1, <3>2
  <2>14. Releases'
    <3> DEFINE last == Len(buffer[Shard]) + 1
    <3>1. ASSUME NEW i \in DOMAIN buffer[Shard]
          PROVE  /\ buffer[Shard][i].location # SequenceOf(Slot(head))
                 /\ \/ buffer[Shard][i].location = Parked
                    \/ \E q \in tail .. head + Capacity :
                         buffer[Shard][i] = Released(q) /\ SeqAt(q) = q + 1 - Capacity
      <4>1. CASE buffer[Shard][i].location = Parked
        BY <4>1, Places
      <4>2. ASSUME NEW q \in tail .. head + Capacity - 1, buffer[Shard][i] = Released(q),
                   SeqAt(q) = q + 1 - Capacity
            PROVE  /\ buffer[Shard][i].location # SequenceOf(Slot(head))
                   /\ \E r \in tail .. head + Capacity :
                        buffer[Shard][i] = Released(r) /\ SeqAt(r) = r + 1 - Capacity
        <5>1. q \in head .. head + Capacity - 1 /\ head \in head .. head + Capacity - 1 /\ q # head
          BY SMTT(60), <2>1, <2>2
        <5>2. buffer[Shard][i].location # SequenceOf(Slot(head))
          BY SMTT(60), <2>1, <4>2, <5>1, Lap DEF Released, Store
        <5> QED
          BY SMTT(60), <2>1, <4>2, <5>2
      <4> QED
        BY <4>1, <4>2 DEF Releases
    <3>2. head + Capacity \in tail .. head + Capacity /\ SeqAt(head + Capacity) = head + Capacity + 1 - Capacity
      BY SMTT(60), <2>1, <2>9
    <3>3. \A i \in DOMAIN buffer'[Shard] : i \in DOMAIN buffer[Shard] \/ i = last
      BY SMTT(60), <2>7
    <3>4. \A i \in DOMAIN buffer'[Shard] :
            \/ buffer'[Shard][i].location = Parked
            \/ \E q \in tail .. head + Capacity :
                 buffer'[Shard][i] = Released(q) /\ SeqAt(q) = q + 1 - Capacity
      BY <2>7, <3>1, <3>2, <3>3 DEF store
    <3>5. \A i, j \in DOMAIN buffer'[Shard] :
            buffer'[Shard][i].location = buffer'[Shard][j].location =>
              i = j \/ buffer'[Shard][i].location = Parked
      BY ZenonT(60), <2>4, <2>7, <3>1, <3>3 DEF Releases
    <3> QED
      BY SMTT(60), <2>1, <2>5, <2>8, <3>4, <3>5 DEF Releases
  <2>15. Claiming'
    BY <2>5, <2>8 DEF Claiming
  <2> QED
    BY <2>10, <2>11, <2>12, <2>13, <2>14, <2>15
\* A sender's store reaches memory: the word, then what publishes it.
<1>SenderFlushKeepsRing. ASSUME RingInv, NEW p \in Sender, Flush(p), UNCHANGED <<at, sends, shard>>
                         PROVE  RingInv'
  <2> USE <1>SenderFlushKeepsRing
  <2> USE DEF RingInv
  <2> DEFINE position == reg[p]
             word == Store(WordOf(Slot(position)), WordInHand(p))
             publishes == Store(SequenceOf(Slot(position)), position + 1)
  <2>1. tail \in Nat /\ head \in Nat /\ head <= tail /\ tail <= head + Capacity /\ reg \in [Sender -> Nat]
    BY DEF RingType
  <2>2. p \in Thread /\ p # Shard /\ p # Owner /\ Shard \in Thread /\ Owner \in Thread /\ Sender \subseteq Thread
    BY DEF Thread
  <2>3. InHand(p) /\ buffer[p] # <<>>
    BY DEF Flush, Hands
  <2>4. position \in head .. tail - 1 /\ position \in head .. head + Capacity - 1 /\ position \in Nat
    BY SMTT(60), <2>1, <2>3 DEF InHand
  <2>5. UNCHANGED <<tail, head, reg>>
    BY DEF Flush
  <2>6. /\ DOMAIN buffer' = Thread /\ buffer'[p] = Tail(buffer[p])
        /\ \A t \in Thread \ {p} : buffer'[t] = buffer[t]
    BY <2>2 DEF Flush, RingType
  <2>7. DOMAIN memory' = Location
    BY DEF Flush, RingType
  <2>8. RingType' /\ head' <= tail' /\ tail' <= head' + Capacity
    BY <2>1, <2>2, <2>5, <2>6, <2>7 DEF RingType
  <2>9. ASSUME NEW r \in Sender, r # p, buffer[r] # <<>>
        PROVE  InHand(r) /\ reg[r] # position /\ reg[r] \in head .. head + Capacity - 1
    BY SMTT(60), <2>1, <2>3, <2>9 DEF Hands, InHand
  <2>10. CASE buffer[p] = <<word, publishes>>
    <3>1. /\ memory' = [memory EXCEPT ![WordOf(Slot(position))] = WordInHand(p)]
          /\ buffer'[p] = <<publishes>> /\ buffer'[p] # <<>>
      <4>1. word.location = WordOf(Slot(position)) /\ word.value = WordInHand(p)
        BY DEF Store
      <4> HIDE DEF word, publishes
      <4>2. Head(buffer[p]) = word /\ Tail(buffer[p]) = <<publishes>> /\ <<publishes>> # <<>>
        BY SMTT(60), <2>10
      <4> QED
        BY <2>6, <4>1, <4>2 DEF Flush
    <3>2. \A q \in Nat : SeqAt(q)' = SeqAt(q)
      BY <3>1, Places DEF SeqAt, RingType
    <3>3. Hands'
      <4>1. InHand(p)'
        <5>1. memory'[WordOf(Slot(position))] = WordInHand(p)
          BY <2>4, <3>1, Places DEF RingType
        <5> QED
          BY <2>3, <2>4, <2>5, <3>1, <3>2, <5>1 DEF InHand, WordInHand
      <4>2. ASSUME NEW r \in Sender, r # p, buffer[r] # <<>> PROVE InHand(r)'
        <5>1. WordOf(Slot(reg[r])) # WordOf(Slot(position))
          BY <2>1, <2>4, <2>9, <4>2, Lap
        <5>2. memory'[WordOf(Slot(reg[r]))] = memory[WordOf(Slot(reg[r]))]
          BY <2>1, <3>1, <5>1, Places DEF RingType
        <5>3. SeqAt(reg[r])' = SeqAt(reg[r]) /\ buffer'[r] = buffer[r]
          BY <2>1, <2>2, <2>5, <2>6, <3>2, <4>2
        <5> QED
          BY <2>5, <2>9, <4>2, <5>2, <5>3 DEF InHand, WordInHand
      <4> QED
        BY <2>2, <2>5, <2>6, <2>3, <4>1, <4>2 DEF Hands
    <3>4. Claimed'
      <4>1. \A r \in Sender : buffer[r] # <<>> => buffer'[r] # <<>>
        BY <2>2, <2>6, <3>1
      <4> QED
        BY SMTT(60), <2>1, <2>5, <3>2, <4>1 DEF Claimed
    <3>5. Unclaimed' /\ Releases'
      BY SMTT(60), <2>1, <2>2, <2>5, <2>6, <3>2 DEF Unclaimed, Releases, Released
    <3>6. Claiming'
      BY <2>1, <2>5, <3>2 DEF Claiming
    <3> QED
      BY <2>8, <3>3, <3>4, <3>5, <3>6
  <2>11. CASE buffer[p] = <<publishes>>
    <3>1. /\ memory' = [memory EXCEPT ![SequenceOf(Slot(position))] = position + 1]
          /\ buffer'[p] = <<>>
      <4>1. publishes.location = SequenceOf(Slot(position)) /\ publishes.value = position + 1
        BY DEF Store
      <4> HIDE DEF word, publishes
      <4>2. Head(buffer[p]) = publishes /\ Tail(buffer[p]) = <<>>
        BY SMTT(60), <2>11
      <4> QED
        BY <2>6, <4>1, <4>2 DEF Flush
    <3>2. /\ SeqAt(position)' = position + 1
          /\ \A q \in head .. head + Capacity - 1 : q # position => SeqAt(q)' = SeqAt(q)
      <4>1. SeqAt(position)' = position + 1
        BY <2>4, <2>5, <3>1, Places DEF SeqAt, RingType
      <4>2. ASSUME NEW q \in head .. head + Capacity - 1, q # position PROVE SeqAt(q)' = SeqAt(q)
        <5>1. SequenceOf(Slot(q)) # SequenceOf(Slot(position))
          BY <2>1, <2>4, <4>2, Lap
        <5> QED
          BY SMTT(60), <2>1, <3>1, <5>1, Places DEF SeqAt, RingType
      <4> QED
        BY <4>1, <4>2
    <3>3. \A q \in Nat : memory'[WordOf(Slot(q))] = memory[WordOf(Slot(q))]
      BY <3>1, Places DEF RingType
    <3>4. Hands'
      <4>1. ASSUME NEW r \in Sender, buffer'[r] # <<>> PROVE InHand(r)' /\ buffer[r] # <<>>
        <5>1. r # p /\ buffer'[r] = buffer[r] /\ buffer[r] # <<>>
          BY <2>2, <2>6, <3>1, <4>1
        <5>2. SeqAt(reg[r])' = SeqAt(reg[r]) /\ memory'[WordOf(Slot(reg[r]))] = memory[WordOf(Slot(reg[r]))]
          BY <2>1, <2>5, <2>9, <3>2, <3>3, <5>1
        <5> QED
          BY <2>5, <2>9, <5>1, <5>2 DEF InHand, WordInHand
      <4> QED
        BY <2>2, <2>5, <2>6, <4>1 DEF Hands
    <3>5. Claimed'
      <4> SUFFICES ASSUME NEW q \in head .. tail - 1
                   PROVE  SeqAt(q)' = q + 1 \/ \E r \in Sender : buffer'[r] # <<>> /\ reg[r] = q
        BY <2>5 DEF Claimed
      <4>1. CASE q = position
        BY <2>5, <3>2, <4>1
      <4>2. CASE q # position
        <5>1. q \in head .. head + Capacity - 1
          BY SMTT(60), <2>1
        <5>2. \A r \in Sender : buffer[r] # <<>> /\ reg[r] = q => buffer'[r] # <<>>
          BY <2>2, <2>6, <4>2
        <5> QED
          BY <3>2, <4>2, <5>1, <5>2 DEF Claimed
      <4> QED
        BY <4>1, <4>2
    <3>6. \A q \in tail .. head + Capacity - 1 : SeqAt(q)' = SeqAt(q)
      BY SMTT(60), <2>1, <2>4, <3>2
    <3>7. Unclaimed' /\ Releases'
      BY SMTT(60), <2>2, <2>5, <2>6, <3>6 DEF Unclaimed, Releases, Released
    <3>8. Claiming'
      <4>1. SeqAt(tail) = tail => SeqAt(tail)' = tail
        <5> SUFFICES ASSUME SeqAt(tail) = tail PROVE SeqAt(tail)' = tail
          OBVIOUS
        <5>1. tail \in tail .. head + Capacity - 1
          BY SMTT(60), <2>1, FreeIsWithinLap
        <5> QED
          BY <2>5, <3>6, <5>1
      <4> QED
        BY <2>5, <4>1 DEF Claiming
    <3> QED
      BY <2>8, <3>4, <3>5, <3>7, <3>8
  <2> QED
    BY <2>3, <2>10, <2>11 DEF InHand
\* A store of the shard reaches memory: an announcement, or the release of a slot.
<1>ShardFlushKeepsRing. ASSUME RingInv, Flush(Shard), UNCHANGED <<at, sends, shard>>
                        PROVE  RingInv'
  <2> USE <1>ShardFlushKeepsRing
  <2> USE DEF RingInv
  <2> DEFINE b == buffer[Shard]
  <2>1. tail \in Nat /\ head \in Nat /\ head <= tail /\ tail <= head + Capacity /\ reg \in [Sender -> Nat]
    BY DEF RingType
  <2>2. Shard \in Thread /\ Caller \subseteq Thread \ {Shard} /\ Sender \subseteq Caller /\ Owner \in Caller
    BY DEF Thread, Caller
  <2>3. b \in Seq(ShardStore) /\ b # <<>> /\ 1 \in DOMAIN b /\ Head(b) = b[1]
    BY SMTT(60) DEF Flush, RingType
  <2>4. /\ Tail(b) \in Seq(ShardStore) /\ Len(b) \in Nat /\ DOMAIN b = 1 .. Len(b)
        /\ DOMAIN Tail(b) = 1 .. Len(b) - 1
        /\ \A i \in DOMAIN Tail(b) : i + 1 \in DOMAIN b /\ Tail(b)[i] = b[i + 1] /\ i + 1 # 1
    BY SMTT(60), <2>3
  <2>5. UNCHANGED <<tail, head, reg>>
    BY DEF Flush
  <2>6. /\ DOMAIN buffer' = Thread /\ buffer'[Shard] = Tail(b)
        /\ \A c \in Caller : buffer'[c] = buffer[c]
    BY <2>2 DEF Flush, RingType
  <2>7. DOMAIN memory' = Location /\ memory' = [memory EXCEPT ![b[1].location] = b[1].value]
    BY <2>3 DEF Flush, RingType
  <2>8. RingType' /\ head' <= tail' /\ tail' <= head' + Capacity
    BY <2>1, <2>4, <2>5, <2>6, <2>7 DEF RingType
  <2>9. shard'.pc = "reclaimed" => FALSE
    BY <2>3 DEF Releases
  <2>10. \A r \in Nat : b[1].location # WordOf(Slot(r))
    <3>1. b[1].location = Parked \/ \E q : b[1] = Released(q)
      BY <2>3 DEF Releases
    <3>2. \A q : Released(q).location = SequenceOf(Slot(q))
      BY DEF Released, Store
    <3> QED
      BY <3>1, <3>2, Places
  <2>11. \A r \in Nat : memory'[WordOf(Slot(r))] = memory[WordOf(Slot(r))]
    BY <2>7, <2>10, Places DEF RingType
  <2>12. \A i, j \in DOMAIN Tail(b) :
           Tail(b)[i].location = Tail(b)[j].location => i = j \/ Tail(b)[i].location = Parked
    <3> SUFFICES ASSUME NEW i \in DOMAIN Tail(b), NEW j \in DOMAIN Tail(b),
                        Tail(b)[i].location = Tail(b)[j].location
                 PROVE  i = j \/ Tail(b)[i].location = Parked
      OBVIOUS
    <3>1. i + 1 = j + 1 \/ b[i + 1].location = Parked
      BY <2>4 DEF Releases
    <3> QED
      BY SMTT(60), <2>4, <3>1
  <2>13. CASE b[1].location = Parked
    <3>1. \A q \in Nat : SeqAt(q)' = SeqAt(q)
      BY <2>7, <2>13, Places DEF SeqAt, RingType
    <3>2. Hands'
      <4>1. ASSUME NEW r \in Sender, buffer[r] # <<>> PROVE InHand(r)'
        <5>1. InHand(r) /\ reg[r] \in Nat
          BY <2>1, <4>1 DEF Hands
        <5> QED
          BY <2>2, <2>5, <2>6, <2>11, <3>1, <5>1 DEF InHand, WordInHand
      <4> QED
        BY <2>2, <2>5, <2>6, <4>1 DEF Hands
    <3>3. Claimed' /\ Claiming'
      BY SMTT(60), <2>1, <2>2, <2>5, <2>6, <3>1 DEF Claimed, Claiming
    <3>4. Unclaimed'
      <4>0. \A q \in tail .. head + Capacity - 1 : q \in Nat
        BY SMTT(60), <2>1
      <4>u. ASSUME \A q \in tail .. head + Capacity - 1 :
                     SeqAt(q) # q => \E i \in DOMAIN Tail(b) : Tail(b)[i] = Released(q)
            PROVE  Unclaimed'
        BY <2>5, <2>6, <3>1, <4>0, <4>u DEF Unclaimed, Released
      <4> SUFFICES ASSUME NEW q \in tail .. head + Capacity - 1, SeqAt(q) # q
                   PROVE  \E i \in DOMAIN Tail(b) : Tail(b)[i] = Released(q)
        BY <4>u
      <4>1. PICK i \in DOMAIN b : b[i] = Released(q)
        BY DEF Unclaimed
      <4>2. i # 1
        BY SMTT(60), <2>13, <4>1, Places DEF Released, Store
      <4>3. i - 1 \in DOMAIN Tail(b) /\ (i - 1) + 1 = i
        BY SMTT(60), <2>4, <4>2
      <4> QED
        BY <2>4, <4>1, <4>3
    <3>5. Releases'
      <4>1. ASSUME NEW i \in DOMAIN Tail(b)
            PROVE  \/ Tail(b)[i].location = Parked
                   \/ \E q \in tail .. head + Capacity - 1 :
                        Tail(b)[i] = Released(q) /\ SeqAt(q) = q + 1 - Capacity
        BY SMTT(60), <2>4 DEF Releases
      <4> QED
        BY SMTT(60), <2>1, <2>5, <2>6, <2>9, <2>12, <3>1, <4>1 DEF Releases, Released
    <3> QED
      BY <2>8, <3>2, <3>3, <3>4, <3>5
  <2>14. ASSUME NEW n \in tail .. head + Capacity - 1, b[1] = Released(n), SeqAt(n) = n + 1 - Capacity
         PROVE  RingInv'
    <3>1. n \in Nat /\ n \in head .. head + Capacity - 1
      BY SMTT(60), <2>1
    <3>2. b[1].location = SequenceOf(Slot(n)) /\ b[1].value = n
      BY SMTT(60), <2>14 DEF Released, Store
    <3>3. /\ SeqAt(n)' = n
          /\ \A q \in head .. head + Capacity - 1 : q # n => SeqAt(q)' = SeqAt(q)
      <4>1. SeqAt(n)' = n
        BY <2>7, <3>1, <3>2, Places DEF SeqAt, RingType
      <4>2. ASSUME NEW q \in head .. head + Capacity - 1, q # n PROVE SeqAt(q)' = SeqAt(q)
        <5>1. SequenceOf(Slot(q)) # SequenceOf(Slot(n))
          BY <2>1, <3>1, <4>2, Lap
        <5> QED
          BY SMTT(60), <2>1, <2>7, <3>2, <5>1, Places DEF SeqAt, RingType
      <4> QED
        BY <4>1, <4>2
    <3>4. \A q \in head .. tail - 1 : SeqAt(q)' = SeqAt(q)
      BY SMTT(60), <2>1, <3>3
    <3>5. Hands'
      <4>1. ASSUME NEW r \in Sender, buffer[r] # <<>> PROVE InHand(r)'
        <5>1. InHand(r) /\ reg[r] \in Nat
          BY <2>1, <4>1 DEF Hands
        <5>2. SeqAt(reg[r])' = SeqAt(reg[r])
          BY <2>5, <3>4, <5>1 DEF InHand
        <5> QED
          BY <2>2, <2>5, <2>6, <2>11, <5>1, <5>2 DEF InHand, WordInHand
      <4> QED
        BY <2>2, <2>5, <2>6, <4>1 DEF Hands
    <3>6. Claimed'
      BY <2>2, <2>5, <2>6, <3>4 DEF Claimed
    <3>7. Unclaimed'
      <4> SUFFICES ASSUME NEW q \in tail .. head + Capacity - 1, SeqAt(q)' # q
                   PROVE  /\ SeqAt(q)' = q + 1 - Capacity
                          /\ \E i \in DOMAIN Tail(b) : Tail(b)[i] = Released(q)
        BY <2>1, <2>5, <2>6 DEF Unclaimed, Released
      <4>1. q # n /\ SeqAt(q)' = SeqAt(q)
        BY SMTT(60), <2>1, <3>3
      <4>2. PICK i \in DOMAIN b : b[i] = Released(q)
        BY <4>1 DEF Unclaimed
      <4>3. i # 1
        BY SMTT(60), <3>2, <4>1, <4>2 DEF Released, Store
      <4>4. i - 1 \in DOMAIN Tail(b) /\ (i - 1) + 1 = i
        BY SMTT(60), <2>4, <4>3
      <4> QED
        BY <2>4, <4>1, <4>2, <4>4 DEF Unclaimed
    <3>8. Releases'
      <4>1. ASSUME NEW i \in DOMAIN Tail(b), Tail(b)[i].location # Parked
            PROVE  \E q \in tail .. head + Capacity - 1 :
                     Tail(b)[i] = Released(q) /\ SeqAt(q)' = q + 1 - Capacity
        <5>1. i + 1 \in DOMAIN b /\ Tail(b)[i] = b[i + 1] /\ i + 1 # 1
          BY <2>4
        <5>2. PICK q \in tail .. head + Capacity - 1 : b[i + 1] = Released(q) /\ SeqAt(q) = q + 1 - Capacity
          BY <4>1, <5>1 DEF Releases
        <5>3. b[i + 1].location # b[1].location
          BY <2>3, <4>1, <5>1 DEF Releases
        <5>4. q # n
          BY <2>14, <5>2, <5>3
        <5> QED
          BY SMTT(60), <2>1, <3>3, <5>1, <5>2, <5>4
      <4> QED
        BY <2>1, <2>5, <2>6, <2>9, <2>12, <4>1 DEF Releases, Released
    <3>9. Claiming'
      <4>1. SeqAt(tail) = tail => SeqAt(tail)' = tail
        <5> SUFFICES ASSUME SeqAt(tail) = tail PROVE SeqAt(tail)' = tail
          OBVIOUS
        <5>1. tail \in head .. head + Capacity - 1
          BY SMTT(60), <2>1, FreeIsWithinLap
        <5> QED
          BY <2>5, <3>3, <5>1
      <4> QED
        BY <2>5, <4>1 DEF Claiming
    <3> QED
      BY <2>8, <3>5, <3>6, <3>7, <3>8, <3>9
  <2> QED
    BY <2>3, <2>13, <2>14 DEF Releases
\* Retirement finds every buffer empty: nobody is counted and the shard is reclaimed.
<1>RetireEmpties. ASSUME RegistryInv, RingInv, Retire, Readers = {}
                  PROVE  /\ \A c \in Caller : ~Using(c)
                         /\ \A t \in Thread : buffer[t] = <<>>
  <2> USE <1>RetireEmpties
  <2>1. \A c \in Caller : ~Using(c)
    BY DEF Readers, Using
  <2>2. \A c \in Caller : buffer[c] = <<>>
    BY <2>1, EmptyHands DEF Using
  <2>3. buffer[Shard] = <<>>
    BY DEF Retire, RegistryInv, Life, RingInv, Releases
  <2> QED
    BY <2>1, <2>2, <2>3 DEF Caller, Thread
\* The next registration finds a new ring.
<1>RetireKeepsRing. ASSUME RegistryInv, RingInv, Retire, Readers = {}
                    PROVE  RingInv'
  <2> USE <1>RetireKeepsRing
  <2>1. /\ memory' = NewMemory /\ tail' = 0 /\ head' = 0 /\ UNCHANGED <<reg, buffer, at, shard>>
    BY DEF Retire, senderVars
  <2>2. /\ \A t \in Thread : buffer[t] = <<>>
        /\ Sender \subseteq Thread /\ Owner \in Thread /\ Shard \in Thread
    BY <1>RetireEmpties DEF Thread
  <2>3. RingType'
    BY <2>1, NewPlaces DEF RingType, RingInv
  <2>4. Hands' /\ Claimed'
    BY SMTT(60), <2>1, <2>2 DEF Hands, Claimed
  <2>5. Unclaimed'
    BY SMTT(60), <2>1, NewPlaces DEF Unclaimed, SeqAt
  <2>6. Releases'
    BY SMTT(60), <2>1, <2>2 DEF Releases
  <2>7. Claiming'
    BY <2>1, <1>RetireEmpties DEF Claiming, Using, Caller
  <2> QED
    BY SMTT(60), <2>1, <2>3, <2>4, <2>5, <2>6, <2>7 DEF RingInv
\* A sender's own steps, but for its claim.
<1>PushKeepsRing. ASSUME RegistryInv, RingInv, NEW p \in Sender, Send(p) \/ PushStep(p)
                  PROVE  RingInv'
  <2> USE <1>PushKeepsRing
  <2>0. /\ p \in Caller /\ tail \in Nat /\ head \in Nat /\ reg \in [Sender -> Nat]
        /\ at \in [Caller -> Points] /\ sends \in [Sender -> Nat] /\ Sender \subseteq Caller
    BY DEF Caller, RingInv, RingType, RegistryInv, RegistryType
  <2>1. CASE Send(p)
    <3>1. /\ at[p] = "idle" /\ at' = [at EXCEPT ![p] = "read"] /\ sends' = [sends EXCEPT ![p] = @ + 1]
          /\ UNCHANGED <<memory, buffer, tail, head, reg, shard>>
      BY <2>1 DEF Send, Goto, ringVars
    <3> QED
      BY <2>0, <3>1, EmptyHands, <1>CallerKeepsRing
  <2>2. CASE BeginPush(p)
    <3>1. /\ at[p] = "inside" /\ UNCHANGED <<memory, buffer, tail, head, shard, sends>>
          /\ \/ at' = [at EXCEPT ![p] = "idle"] /\ reg' = [r \in Sender |-> IF r = p THEN 0 ELSE reg[r]]
             \/ at' = [at EXCEPT ![p] = "check"] /\ reg' = [reg EXCEPT ![p] = tail]
      BY <2>2 DEF BeginPush, Goto, Leave, LoadTail
    <3>2. /\ \A r \in Sender \ {p} : at'[r] = at[r] /\ reg'[r] = reg[r]
          /\ reg' \in [Sender -> Nat] /\ at'[p] # "claim"
          /\ at'[p] = "check" => reg'[p] <= tail
      <4>1. CASE at' = [at EXCEPT ![p] = "idle"] /\ reg' = [r \in Sender |-> IF r = p THEN 0 ELSE reg[r]]
        BY <2>0, <4>1
      <4>2. CASE at' = [at EXCEPT ![p] = "check"] /\ reg' = [reg EXCEPT ![p] = tail]
        BY SMTT(60), <2>0, <4>2
      <4> QED
        BY <3>1, <4>1, <4>2
    <3> QED
      BY <2>0, <3>1, <3>2, EmptyHands, <1>CallerKeepsRing
  <2>3. CASE CheckSlot(p)
    <3>1. at[p] = "check" /\ UNCHANGED <<memory, buffer, tail, head, shard, sends>> /\ reg[p] <= tail
      BY <2>3 DEF CheckSlot, LoadTail, Leave, ringVars, RingInv, Claiming
    <3>2. buffer[p] = <<>>
      BY <2>0, <3>1, EmptyHands
    <3>3. Free(p) => SeqAt(reg[p]) = reg[p]
      BY <3>2, LoadsMemory DEF Free, SeqAt
    <3>4. \/ at' = [at EXCEPT ![p] = "claim"] /\ reg' = reg /\ SeqAt(reg[p]) = reg[p]
          \/ at' = at /\ reg' = [reg EXCEPT ![p] = tail]
          \/ at' = [at EXCEPT ![p] = "retry"] /\ reg' = [r \in Sender |-> IF r = p THEN 0 ELSE reg[r]]
      BY <2>3, <3>3 DEF CheckSlot, LoadTail, Leave, Goto, ringVars
    <3>5. /\ \A r \in Sender \ {p} : at'[r] = at[r] /\ reg'[r] = reg[r]
          /\ reg' \in [Sender -> Nat]
          /\ at'[p] \in {"check", "claim"} => reg'[p] <= tail
          /\ at'[p] = "claim" /\ reg'[p] = tail => SeqAt(tail) = tail
      BY SMTT(60), <2>0, <3>1, <3>4
    <3> QED
      BY <2>0, <3>1, <3>2, <3>5, <1>CallerKeepsRing
  <2>4. CASE ClaimSlot(p)
    <3>1. CASE ClaimAndPublish(p, WordInHand(p)) /\ Goto(p, "fence")
      BY <2>4, <3>1, <1>ClaimKeepsRing DEF ClaimSlot, Goto
    <3>2. CASE MissedClaim(p) /\ Goto(p, "check")
      <4>1. /\ at[p] = "claim" /\ at' = [at EXCEPT ![p] = "check"] /\ reg' = [reg EXCEPT ![p] = tail]
            /\ UNCHANGED <<memory, buffer, tail, head, shard, sends>>
        BY <2>4, <3>2 DEF ClaimSlot, MissedClaim, LoadTail, Goto
      <4>2. /\ \A r \in Sender \ {p} : at'[r] = at[r] /\ reg'[r] = reg[r]
            /\ reg' \in [Sender -> Nat] /\ at'[p] = "check" /\ reg'[p] <= tail
        BY SMTT(60), <2>0, <4>1
      <4> QED
        BY <2>0, <4>1, <4>2, EmptyHands, <1>CallerKeepsRing
    <3> QED
      BY <2>4, <3>1, <3>2 DEF ClaimSlot
  <2> QED
    BY <2>1, <2>2, <2>3, <2>4 DEF PushStep
\* A caller's other steps.
<1>CallKeepsRing. ASSUME RegistryInv, RingInv, NEW c \in Caller, CallerStep(c)
                  PROVE  RingInv'
  <2> USE <1>CallKeepsRing
  <2>1. /\ at \in [Caller -> Points] /\ sends \in [Sender -> Nat] /\ Sender \subseteq Caller
        /\ reg \in [Sender -> Nat]
    BY DEF Caller, RingInv, RingType, RegistryInv, RegistryType
  <2>2. /\ buffer[c] = <<>>
        /\ UNCHANGED <<memory, buffer, tail, head, shard, sends>>
        /\ \E pc \in {"read", "idle", "retry", "inside", "flag", "fence", "kick"} : at' = [at EXCEPT ![c] = pc]
        /\ reg' = reg \/ reg' = [r \in Sender |-> IF r = c THEN 0 ELSE reg[r]]
    <3>1. CASE Retry(c) \/ PublishFlag(c)
      BY <3>1, EmptyHands DEF Retry, PublishFlag, Goto, ringVars
    <3>2. CASE ReadEntry(c) \/ Kick(c)
      BY <3>2, EmptyHands DEF ReadEntry, Kick, Goto, Leave, ringVars
    <3>3. CASE TrySend(c)
      BY <3>3, EmptyHands DEF TrySend, Goto, Leave, ringVars
    <3>4. CASE KickIfParked(c)
      BY <3>4 DEF KickIfParked, Fence, Goto, Leave, ringVars
    <3> QED
      BY <3>1, <3>2, <3>3, <3>4 DEF CallerStep
  <2>3. /\ \A r \in Sender \ {c} : at'[r] = at[r] /\ reg'[r] = reg[r]
        /\ reg' \in [Sender -> Nat]
        /\ at'[c] \notin {"check", "claim"}
    BY SMTT(60), <2>1, <2>2
  <2> QED
    BY <2>2, <2>3, <1>CallerKeepsRing
\* The shard's steps.
<1>ShardKeepsRing. ASSUME RegistryInv, RingInv, ShardStep \/ WaitEnds
                   PROVE  RingInv'
  <2> USE <1>ShardKeepsRing
  <2>0. shard \in ShardType /\ pending \in BOOLEAN
    BY DEF RegistryInv, RegistryType
  <2>1. ASSUME NEW pc, ShardGoto(pc) PROVE shard'.pc = pc
    BY <2>0, <2>1 DEF ShardGoto, ShardType
  <2>2. UNCHANGED <<at, sends>>
    BY DEF ShardStep, TakeControl, Receive, PopWord, Recheck, Woken, Reclaim, WaitEnds, senderVars
  <2>3. CASE TakeControl
    <3>1. shard'.pc # "reclaimed"
      BY <2>0, <2>3 DEF TakeControl, ShardType
    <3> QED
      BY <2>2, <2>3, <3>1, <1>ElseKeepsRing DEF TakeControl, ringVars
  <2>4. CASE Receive
    <3>1. shard'.pc \in {"pop", "receive"}
      <4>1. CASE control = <<>>
        BY <2>0, <2>4, <4>1 DEF Receive, ShardType
      <4>2. CASE control # <<>>
        <5>1. shard'.pc = IF shard.drained + 1 = Batch THEN "pop" ELSE "receive"
          BY SMTT(60), <2>4, <4>2 DEF Receive
        <5> QED
          BY <5>1
      <4> QED
        BY <4>1, <4>2
    <3> QED
      BY <2>2, <2>4, <3>1, <1>ElseKeepsRing DEF Receive, ringVars
  <2>5. CASE PopWord
    <3>1. CASE Pop /\ shard' = [shard EXCEPT !.work = TRUE, !.drained = @ + 1]
      <4>1. shard'.pc = "pop"
        BY <2>0, <2>5, <3>1 DEF PopWord, ShardType
      <4> QED
        BY <2>2, <3>1, <4>1, <1>PopKeepsRing
    <3>2. CASE Settle
      <4>1. CASE StoreParked(TRUE) /\ ShardGoto("recheck")
        BY <2>1, <2>2, <4>1, <1>ParkKeepsRing
      <4>2. CASE UNCHANGED ringVars /\ \E pc \in {"take", "exited"} : ShardGoto(pc)
        BY <2>1, <2>2, <4>2, <1>ElseKeepsRing DEF ringVars
      <4> QED
        BY <3>2, <4>1, <4>2 DEF Settle
    <3> QED
      BY <2>5, <3>1, <3>2 DEF PopWord
  <2>6. CASE Recheck
    <3>1. CASE StoreParked(FALSE) /\ ShardGoto("take")
      BY <2>1, <2>2, <3>1, <1>ParkKeepsRing
    <3>2. CASE UNCHANGED ringVars /\ ShardGoto("wait")
      BY <2>1, <2>2, <3>2, <1>ElseKeepsRing DEF ringVars
    <3> QED
      BY <2>6, <3>1, <3>2 DEF Recheck
  <2>7. CASE Woken \/ WaitEnds
    BY <2>1, <2>2, <2>7, <1>ParkKeepsRing DEF Woken, WaitEnds
  <2>8. CASE Reclaim
    BY <2>2, <2>8, <1>ElseKeepsRing DEF Reclaim, ringVars, Fence
  <2> QED
    BY <2>3, <2>4, <2>5, <2>6, <2>7, <2>8 DEF ShardStep
<1> SUFFICES ASSUME RegistryInv, RingInv, Retire => Readers = {}, [Next]_vars PROVE RingInv'
  OBVIOUS
<1>1. CASE \E t \in Thread : FlushStore(t)
  <2>1. PICK t \in Thread : FlushStore(t)
    BY <1>1
  <2>2. Flush(t) /\ UNCHANGED <<at, sends, shard>> /\ buffer[t] # <<>>
    BY <2>1 DEF FlushStore, senderVars, Flush
  <2>3. t \in Sender \/ t = Shard
    BY <2>2 DEF Thread, RingInv, Hands
  <2> QED
    BY <2>2, <2>3, <1>SenderFlushKeepsRing, <1>ShardFlushKeepsRing
<1>2. CASE UNCHANGED vars
  BY <1>2, <1>ElseKeepsRing DEF vars, RingInv, Releases
<1>3. CASE Register
  <2>1. shard'.pc = "take" /\ UNCHANGED <<memory, buffer, tail, head, reg, at, sends>>
    BY <1>3 DEF Register, NewShard, ringVars, senderVars
  <2> QED
    BY <2>1, <1>ElseKeepsRing
<1>4. CASE JoinAndClear
  BY <1>4, <1>ElseKeepsRing DEF JoinAndClear, ringVars, senderVars, RingInv, Releases
<1>5. CASE Stop
  <2>1. /\ Owner \in Caller /\ Owner \notin Sender
        /\ \A p \in Sender \ {Owner} : at'[p] = at[p]
        /\ UNCHANGED <<memory, buffer, tail, head, reg, sends, shard>>
        /\ buffer[Owner] = <<>> /\ reg \in [Sender -> Nat]
    BY <1>5 DEF Stop, Goto, ringVars, RingInv, RingType, Hands, Caller, RegistryInv, RegistryType
  <2> QED
    BY <2>1, <1>CallerKeepsRing
<1> QED
  BY <1>1, <1>2, <1>3, <1>4, <1>5, <1>PushKeepsRing, <1>CallKeepsRing, <1>ShardKeepsRing, <1>RetireKeepsRing DEF Next
-----------------------------------------------------------------------------
(* The wake. *)

WakeInv == Announced /\ Awaited

\* The wake's part of the invariant is inductive, given the other two.
LEMMA WakeStep == RegistryInv /\ RingInv /\ WakeInv /\ [Next]_vars => WakeInv'
\* A caller past its publication stays until it has looked: it leaves with a kick sent or
\* with the shard awake.
<1>CallerKeepsWake. ASSUME WakeInv, RegistryInv, NEW c \in Caller, NEW pc, at' = [at EXCEPT ![c] = pc],
                           UNCHANGED <<memory, head, shard>>, buffer'[Shard] = buffer[Shard],
                           kicked' = kicked \/ kicked' = TRUE,
                           pending' = pending \/ pc = "fence",
                           at[c] \in {"fence", "kick"} => pc = "kick" \/ kicked' = TRUE \/ shard.pc # "wait"
                    PROVE  WakeInv'
  <2> USE <1>CallerKeepsWake
  <2>1. Announced'
    BY DEF WakeInv, Announced
  <2>2. Awaited'
    <3> SUFFICES ASSUME shard.pc = "wait", ~kicked', SeqAt(head) = head + 1 \/ pending'
                 PROVE  \E d \in Caller : at'[d] \in {"fence", "kick"}
      BY DEF Awaited, SeqAt
    <3>1. at \in [Caller -> Points] /\ at'[c] = pc /\ ~kicked
      BY DEF RegistryInv, RegistryType
    <3>2. CASE pc = "fence"
      BY <3>1, <3>2
    <3>3. CASE pc # "fence"
      <4>1. PICK d \in Caller : at[d] \in {"fence", "kick"}
        BY SMTT(60), <3>1, <3>3 DEF WakeInv, Awaited
      <4> QED
        BY <3>1, <4>1
    <3> QED
      BY <3>2, <3>3
  <2> QED
    BY <2>1, <2>2 DEF WakeInv
\* Every caller's step is of that kind.
<1>CallKeepsWake. ASSUME WakeInv, RegistryInv, RingInv, NEW c \in Caller,
                         CallerStep(c) \/ (c \in Sender /\ (Send(c) \/ PushStep(c))) \/ (c = Owner /\ Stop)
                  PROVE  WakeInv'
  <2> USE <1>CallKeepsWake
  <2>0. at \in [Caller -> Points] /\ Shard # c
    BY DEF RegistryInv, RegistryType, Caller
  <2>1. CASE Send(c) \/ (c = Owner /\ Stop) \/ Retry(c) \/ PublishFlag(c)
    <3>1. c = Owner /\ Stop => at[c] = "idle"
      BY DEF Stop, RegistryInv, OwnerCall
    <3> QED
      BY <2>1, <3>1, <1>CallerKeepsWake DEF Send, Stop, Retry, PublishFlag, Goto, ringVars
  <2>2. CASE ReadEntry(c) \/ BeginPush(c)
    BY <2>2, <1>CallerKeepsWake DEF ReadEntry, BeginPush, Goto, Leave, LoadTail, ringVars
  <2>3. CASE CheckSlot(c)
    <3>1. at' = at => at' = [at EXCEPT ![c] = "check"]
      BY <2>0, <2>3 DEF CheckSlot
    <3> QED
      BY <2>3, <3>1, <1>CallerKeepsWake DEF CheckSlot, Goto, Leave, LoadTail, ringVars
  <2>4. CASE ClaimSlot(c)
    <3>1. buffer'[Shard] = buffer[Shard]
      BY <2>0, <2>4 DEF ClaimSlot, ClaimAndPublish, MissedClaim, LoadTail, RingInv, RingType, Thread
    <3>2. /\ \E pc \in {"fence", "check"} : at' = [at EXCEPT ![c] = pc]
          /\ UNCHANGED <<memory, head, shard, kicked, pending>> /\ at[c] = "claim"
      BY <2>4 DEF ClaimSlot, ClaimAndPublish, MissedClaim, LoadTail, Goto
    <3> QED
      BY <3>1, <3>2, <1>CallerKeepsWake
  <2>5. CASE TrySend(c)
    BY <2>5, <1>CallerKeepsWake DEF TrySend, Goto, Leave, ringVars
  <2>6. CASE KickIfParked(c)
    <3>1. shard.pc = "wait" => memory[Parked]
      BY DEF WakeInv, Announced
    <3>2. \/ at' = [at EXCEPT ![c] = "kick"]
          \/ at' = [at EXCEPT ![c] = "idle"] /\ shard.pc # "wait"
      BY <2>6, <3>1 DEF KickIfParked, Goto, Leave
    <3>3. UNCHANGED <<memory, head, shard, buffer, kicked, pending>>
      BY <2>6 DEF KickIfParked, Leave, ringVars
    <3> QED
      BY <3>2, <3>3, <1>CallerKeepsWake
  <2>7. CASE Kick(c)
    BY <2>7, <1>CallerKeepsWake DEF Kick, Goto, Leave
  <2> QED
    BY <2>1, <2>2, <2>3, <2>4, <2>5, <2>6, <2>7 DEF CallerStep, PushStep
\* The announcement, fenced, is what the re-check sleeps on.
<1>ShardKeepsWake. ASSUME WakeInv, RegistryInv, RingInv, ShardStep \/ WaitEnds
                   PROVE  WakeInv'
  <2> USE <1>ShardKeepsWake
  <2>0. shard \in ShardType /\ Shard \in Thread /\ DOMAIN buffer = Thread /\ buffer[Shard] \in Seq(ShardStore)
    BY DEF RegistryInv, RegistryType, RingInv, RingType, Thread
  <2>1. ASSUME NEW pc, ShardGoto(pc) PROVE shard'.pc = pc
    BY <2>0, <2>1 DEF ShardGoto, ShardType
  <2>2. shard'.pc \notin {"recheck", "wait"} => WakeInv'
    BY DEF WakeInv, Announced, Awaited
  <2>3. CASE TakeControl
    BY <2>0, <2>2, <2>3 DEF TakeControl, ShardType
  <2>4. CASE Receive
    <3>1. CASE control = <<>>
      BY <2>0, <2>2, <2>4, <3>1 DEF Receive, ShardType
    <3>2. CASE control # <<>>
      <4>1. shard'.pc = IF shard.drained + 1 = Batch THEN "pop" ELSE "receive"
        BY SMTT(60), <2>4, <3>2 DEF Receive
      <4> QED
        BY <2>2, <4>1
    <3> QED
      BY <3>1, <3>2
  <2>5. CASE PopWord
    <3>1. CASE Pop /\ shard' = [shard EXCEPT !.work = TRUE, !.drained = @ + 1]
      <4>1. shard'.pc = "pop"
        BY <2>0, <2>5, <3>1 DEF PopWord, ShardType
      <4> QED
        BY <2>2, <4>1
    <3>2. CASE StoreParked(TRUE) /\ ShardGoto("recheck")
      <4> DEFINE store == Store(Parked, TRUE)
      <4>1. store \in ShardStore
        BY Places DEF Store, ShardStore
      <4>2. buffer'[Shard] = Append(buffer[Shard], store)
        BY <2>0, <3>2 DEF StoreParked
      <4> HIDE DEF store
      <4>3. buffer'[Shard] # <<>> /\ Newest(buffer'[Shard]) = store
        BY SMTT(60), <2>0, <4>1, <4>2 DEF Newest
      <4> QED
        BY <2>1, <3>2, <4>3 DEF WakeInv, Announced, Awaited, store
    <3>3. CASE \E pc \in {"take", "exited"} : ShardGoto(pc)
      BY <2>1, <2>2, <3>3
    <3> QED
      BY <2>5, <3>1, <3>2, <3>3 DEF PopWord, Settle
  <2>6. CASE Recheck
    <3>1. CASE ShardGoto("take")
      BY <2>1, <2>2, <3>1
    <3>2. CASE ~Ready /\ ~pending /\ UNCHANGED <<ringVars, pending>> /\ ShardGoto("wait")
      <4>1. buffer[Shard] = <<>> /\ memory[Parked] = TRUE /\ shard.pc = "recheck"
        BY <2>6 DEF Recheck, Fence, WakeInv, Announced
      <4>2. SeqAt(head) # head + 1
        BY <3>2, <4>1, LoadsMemory DEF Ready, SeqAt
      <4> QED
        BY <2>1, <3>2, <4>1, <4>2 DEF WakeInv, Announced, Awaited, ringVars, SeqAt
    <3> QED
      BY <2>6, <3>1, <3>2 DEF Recheck
  <2>7. CASE Woken \/ WaitEnds \/ Reclaim
    BY <2>1, <2>2, <2>7 DEF Woken, WaitEnds, Reclaim
  <2> QED
    BY <2>3, <2>4, <2>5, <2>6, <2>7 DEF ShardStep
\* A buffer whose oldest store leaves keeps its newest, if another is left.
<1>TailNewest. ASSUME NEW S, NEW b \in Seq(S), b # <<>>
               PROVE  /\ Len(b) = 1 => Tail(b) = <<>> /\ Head(b) = Newest(b)
                      /\ Len(b) # 1 => Tail(b) # <<>> /\ Newest(Tail(b)) = Newest(b)
  <2> USE <1>TailNewest
  <2>1. Tail(b) \in Seq(S) /\ Len(Tail(b)) = Len(b) - 1 /\ Len(b) \in Nat
    BY SMTT(60)
  <2>0. Len(b) \in Nat \ {0}
    BY SMTT(60)
  <2>2. Len(b) = 1 => Tail(b) = <<>> /\ Head(b) = Newest(b)
    <3>1. Tail(b) # <<>> => Len(Tail(b)) \in Nat \ {0}
      BY SMTT(60), <2>1
    <3>2. Len(b) = 1 => Head(b) = Newest(b)
      BY SMTT(60) DEF Newest
    <3> QED
      BY SMTT(60), <2>1, <3>1, <3>2
  <2>3. Len(b) # 1 => Tail(b) # <<>>
    <3>1. Len(<<>>) = 0
      BY SMTT(60)
    <3> QED
      BY SMTT(60), <2>1, <2>0, <3>1
  <2>4. Len(b) # 1 => Newest(Tail(b)) = Newest(b)
    <3>1. Len(b) # 1 => Len(b) - 1 \in 1 .. Len(Tail(b))
      BY SMTT(60), <2>1, <2>0
    <3> QED
      BY SMTT(60), <2>1, <3>1 DEF Newest
  <2> QED
    BY <2>2, <2>3, <2>4
\* A store that reaches memory wakes nobody; the sender it belongs to has still to look.
<1>FlushKeepsWake. ASSUME WakeInv, RegistryInv, RingInv, NEW t \in Thread, FlushStore(t)
                   PROVE  WakeInv'
  <2> USE <1>FlushKeepsWake
  <2>1. Flush(t) /\ UNCHANGED <<at, shard, pending, kicked>> /\ buffer[t] # <<>> /\ head' = head
    BY DEF FlushStore, senderVars, Flush
  <2>2. DOMAIN buffer = Thread /\ DOMAIN memory = Location /\ Shard \in Thread /\ buffer[Shard] \in Seq(ShardStore)
    BY DEF RingInv, RingType, Thread
  <2>3. CASE t = Shard
    <3> DEFINE b == buffer[Shard]
    <3>1. /\ buffer'[Shard] = Tail(b) /\ b # <<>>
          /\ memory' = [memory EXCEPT ![Head(b).location] = Head(b).value]
      BY <2>1, <2>2, <2>3 DEF Flush
    <3>2. shard.pc # "wait"
      BY <3>1 DEF WakeInv, Announced
    <3>3. shard.pc = "recheck" =>
            IF buffer'[Shard] = <<>> THEN memory'[Parked] = TRUE
            ELSE Newest(buffer'[Shard]) = Store(Parked, TRUE)
      <4> SUFFICES ASSUME shard.pc = "recheck"
                   PROVE  IF Tail(b) = <<>> THEN memory'[Parked] = TRUE
                          ELSE Newest(Tail(b)) = Store(Parked, TRUE)
        BY <3>1
      <4>1. Newest(b) = Store(Parked, TRUE)
        BY <3>1 DEF WakeInv, Announced
      <4>2. CASE Len(b) = 1
        <5>1. Tail(b) = <<>> /\ Head(b) = Store(Parked, TRUE)
          BY <2>2, <3>1, <4>1, <4>2, <1>TailNewest
        <5> QED
          BY SMTT(60), <2>2, <3>1, <5>1, Places DEF Store
      <4>3. CASE Len(b) # 1
        BY <2>2, <3>1, <4>1, <4>3, <1>TailNewest
      <4> QED
        BY <4>2, <4>3
    <3> QED
      BY <2>1, <3>2, <3>3 DEF WakeInv, Announced, Awaited
  <2>4. CASE t \in Sender
    <3>1. InHand(t) /\ buffer'[Shard] = buffer[Shard] /\ reg \in [Sender -> Nat]
      BY <2>1, <2>2, <2>4 DEF RingInv, RingType, Hands, Flush
    <3>2. Head(buffer[t]).location # Parked
      BY SMTT(60), <3>1, Places DEF InHand, Store
    <3>3. memory'[Parked] = memory[Parked]
      BY <2>1, <2>2, <3>2, Places DEF Flush
    <3>4. t \in Caller /\ at[t] = "fence"
      BY <2>4, <3>1 DEF Caller, InHand
    <3> QED
      BY <2>1, <3>1, <3>3, <3>4 DEF WakeInv, Announced, Awaited
  <2> QED
    BY <2>1, <2>3, <2>4 DEF Thread, RingInv, Hands
<1> SUFFICES ASSUME RegistryInv, RingInv, WakeInv, [Next]_vars PROVE WakeInv'
  OBVIOUS
<1>1. CASE UNCHANGED vars
  BY <1>1 DEF vars, WakeInv, Announced, Awaited, SeqAt
<1>2. CASE Register
  <2>1. shard'.pc = "take"
    BY <1>2 DEF Register, NewShard
  <2> QED
    BY <2>1 DEF WakeInv, Announced, Awaited
<1>3. CASE JoinAndClear \/ Retire
  <2>1. shard.pc = "reclaimed" /\ shard' = shard
    BY <1>3 DEF JoinAndClear, Retire, RegistryInv, Life
  <2> QED
    BY <2>1 DEF WakeInv, Announced, Awaited
<1>4. Owner \in Caller /\ Sender \subseteq Caller
  BY DEF Caller
<1> QED
  BY <1>1, <1>2, <1>3, <1>4, <1>CallKeepsWake, <1>ShardKeepsWake, <1>FlushKeepsWake DEF Next

-----------------------------------------------------------------------------
(* The refinement. *)

Contents == [i \in 1 .. tail - head |-> WordAt(head + i - 1)]

\* ... and every other step leaves the queue as it is or drops it whole.
LEMMA QueueStep ==
  RegistryInv /\ RingInv /\ RingInv' /\ [Next]_vars =>
         \/ \E w \in Word : Len(Contents) < Capacity /\ Contents' = Append(Contents, w) /\ taken' = taken
         \/ Contents # <<>> /\ taken' = Head(Contents) /\ Contents' = Tail(Contents)
         \/ taken' = NoWord /\ Contents' = Contents
         \/ Contents' = <<>> /\ taken' = taken
         \/ Contents' = Contents /\ taken' = taken
\* A sequence that differs from another by one more element at its end ...
<1>Grows. ASSUME NEW n \in Nat, NEW f, NEW g, f = [i \in 1 .. n |-> f[i]], g = [i \in 1 .. n + 1 |-> g[i]],
                 \A i \in 1 .. n : g[i] = f[i]
          PROVE  g = Append(f, g[n + 1]) /\ Len(f) = n
  <2> USE <1>Grows
  <2> DEFINE S == {g[i] : i \in 1 .. n + 1}
  <2>1. f \in [1 .. n -> S] /\ g \in [1 .. n + 1 -> S] /\ g[n + 1] \in S
    <3>1. n + 1 \in 1 .. n + 1 /\ \A i \in 1 .. n : i \in 1 .. n + 1
      BY SMTT(60)
    <3>2. \A i \in 1 .. n + 1 : g[i] \in S
      OBVIOUS
    <3> HIDE DEF S
    <3>3. f \in [1 .. n -> S]
      BY <3>1, <3>2
    <3> QED
      BY <3>1, <3>2, <3>3
  <2> HIDE DEF S
  <2>2. f \in Seq(S) /\ g \in Seq(S) /\ Len(f) = n /\ Len(g) = n + 1
    BY SMTT(60), <2>1
  <2> DEFINE h == Append(f, g[n + 1])
  <2>3. /\ h \in Seq(S) /\ Len(h) = n + 1
        /\ \A i \in 1 .. n : h[i] = f[i]
        /\ h[n + 1] = g[n + 1]
    BY SMTT(60), <2>1, <2>2
  <2> HIDE DEF h
  <2>4. \A i \in 1 .. Len(g) : g[i] = h[i]
    <3>1. \A i \in 1 .. n + 1 : i \in 1 .. n \/ i = n + 1
      BY SMTT(60)
    <3> QED
      BY <2>2, <2>3, <3>1
  <2>5. g = h
    BY SMTT(60), <2>2, <2>3, <2>4
  <2> QED
    BY <2>2, <2>5 DEF h
\* ... or by its first element gone.
<1>Shrinks. ASSUME NEW n \in Nat \ {0}, NEW f, NEW g, f = [i \in 1 .. n |-> f[i]], g = [i \in 1 .. n - 1 |-> g[i]],
                   \A i \in 1 .. n - 1 : g[i] = f[i + 1]
            PROVE  f # <<>> /\ f[1] = Head(f) /\ g = Tail(f)
  <2> USE <1>Shrinks
  <2> DEFINE S == {f[i] : i \in 1 .. n}
  <2>1. f \in [1 .. n -> S]
    OBVIOUS
  <2>2. \A i \in 1 .. n - 1 : g[i] \in S
    <3> TAKE i \in 1 .. n - 1
    <3>1. i + 1 \in 1 .. n
      BY SMTT(60)
    <3> QED
      BY <3>1
  <2> HIDE DEF S
  <2>3. f \in Seq(S) /\ Len(f) = n
    BY SMTT(60), <2>1
  <2>4. g \in Seq(S) /\ Len(g) = n - 1
    <3>1. n - 1 \in Nat /\ g \in [1 .. n - 1 -> S]
      BY SMTT(60), <2>2
    <3> QED
      BY SMTT(60), <3>1
  <2>5. f # <<>>
    BY <2>3
  <2> DEFINE h == Tail(f)
  <2>6. h \in Seq(S) /\ Len(h) = n - 1 /\ \A i \in 1 .. n - 1 : h[i] = f[i + 1]
    BY SMTT(60), <2>3, <2>5
  <2> HIDE DEF h
  <2>7. \A i \in 1 .. Len(g) : g[i] = h[i]
    BY <2>4, <2>6
  <2>8. g = h
    BY SMTT(60), <2>4, <2>6, <2>7
  <2>9. Head(f) = f[1]
    BY SMTT(60), <2>3, <2>5
  <2> QED
    BY <2>5, <2>8, <2>9 DEF h
\* A position in a sender's hands has that sender's word.
<1>WordHeld. ASSUME RingInv, NEW p \in Sender, buffer[p] # <<>>
             PROVE  WordAt(reg[p]) = WordInHand(p)
  <2> USE <1>WordHeld
  <2>1. {r \in Sender : reg[r] = reg[p] /\ buffer[r] # <<>>} = {p}
    BY DEF RingInv, Hands
  <2> QED
    BY <2>1 DEF WordAt
\* A position in nobody's hands has its word in memory.
<1>WordInMemory. ASSUME NEW q, \A p \in Sender : buffer[p] # <<>> => reg[p] # q
                 PROVE  WordAt(q) = memory[WordOf(Slot(q))]
  <2> USE <1>WordInMemory
  <2>1. {r \in Sender : reg[r] = q /\ buffer[r] # <<>>} = {}
    OBVIOUS
  <2> QED
    BY <2>1 DEF WordAt
\* A step that leaves the hands and the words in memory alone leaves the words alone.
<1>SameWords. ASSUME RingInv, RingInv', NEW q \in Nat,
                     memory'[WordOf(Slot(q))] = memory[WordOf(Slot(q))],
                     \A p \in Sender : reg[p] = q /\ buffer[p] # <<>> <=> reg'[p] = q /\ buffer'[p] # <<>>,
                     \A p \in Sender : buffer[p] # <<>> => sends'[p] = sends[p]
              PROVE  WordAt(q)' = WordAt(q)
  <2> USE <1>SameWords
  <2>1. CASE \E p \in Sender : reg[p] = q /\ buffer[p] # <<>>
    <3>1. PICK p \in Sender : reg[p] = q /\ buffer[p] # <<>>
      BY <2>1
    <3>2. WordAt(q) = WordInHand(p)
      BY <3>1, <1>WordHeld
    <3>3. {r \in Sender : reg'[r] = q /\ buffer'[r] # <<>>} = {p}
      BY <3>1 DEF RingInv, Hands
    <3>4. WordAt(q)' = WordInHand(p)'
      BY <3>3 DEF WordAt
    <3> QED
      BY <3>1, <3>2, <3>4 DEF WordInHand
  <2>2. CASE \A p \in Sender : buffer[p] # <<>> => reg[p] # q
    <3>1. WordAt(q) = memory[WordOf(Slot(q))]
      BY <2>2, <1>WordInMemory
    <3>2. {r \in Sender : reg'[r] = q /\ buffer'[r] # <<>>} = {}
      BY <2>2
    <3> QED
      BY <3>1, <3>2 DEF WordAt
  <2> QED
    BY <2>1, <2>2
\* The queue is what its words are.
<1>SameContents. ASSUME RingInv, UNCHANGED <<tail, head>>, \A q \in head .. tail - 1 : WordAt(q)' = WordAt(q)
                 PROVE  Contents' = Contents
  <2> USE <1>SameContents
  <2>1. tail \in Nat /\ head \in Nat
    BY DEF RingInv, RingType
  <2>2. \A i \in 1 .. tail - head : head + i - 1 \in head .. tail - 1
    BY SMTT(60), <2>1
  <2>3. ASSUME NEW i \in 1 .. tail - head PROVE WordAt(head + i - 1)' = WordAt(head + i - 1)
    <3>1. \E q \in head .. tail - 1 : q = head + i - 1
      BY <2>2
    <3> QED
      BY <3>1
  <2> QED
    BY <2>1, <2>3 DEF Contents
\* A caller's step, a step of the shard between two words, an announcement: no word moves.
<1>StillContents. ASSUME RingInv, RingInv', UNCHANGED <<memory, tail, head>>,
                         \A p \in Sender : buffer'[p] = buffer[p],
                         \A p \in Sender : buffer[p] # <<>> => reg'[p] = reg[p] /\ sends'[p] = sends[p]
                  PROVE  Contents' = Contents
  <2> USE <1>StillContents
  <2>1. tail \in Nat /\ head \in Nat
    BY DEF RingInv, RingType
  <2>2. ASSUME NEW q \in head .. tail - 1 PROVE WordAt(q)' = WordAt(q)
    BY SMTT(60), <2>1, <1>SameWords
  <2> QED
    BY <2>2, <1>SameContents
\* A store that reaches memory changes no word: it was the position's already.
<1>FlushContents. ASSUME RingInv, RingInv', NEW t \in Thread, Flush(t), UNCHANGED sends
                  PROVE  Contents' = Contents
  <2> USE <1>FlushContents
  <2>1. /\ tail \in Nat /\ head \in Nat /\ head <= tail /\ tail <= head + Capacity
        /\ reg \in [Sender -> Nat] /\ UNCHANGED <<tail, head, reg>>
        /\ DOMAIN memory = Location /\ DOMAIN buffer = Thread /\ Sender \subseteq Thread
    BY DEF RingInv, RingType, Flush, Thread
  <2>2. /\ \A u \in Thread \ {t} : buffer'[u] = buffer[u]
        /\ buffer'[t] = Tail(buffer[t]) /\ buffer[t] # <<>>
        /\ memory' = [memory EXCEPT ![Head(buffer[t]).location] = Head(buffer[t]).value]
    BY <2>1 DEF Flush
  <2>3. CASE t = Shard
    <3>1. buffer[Shard] \in Seq(ShardStore) /\ 1 \in DOMAIN buffer[Shard] /\ Head(buffer[Shard]) = buffer[Shard][1]
      BY SMTT(60), <2>2, <2>3 DEF RingInv, RingType
    <3>2. Head(buffer[Shard]).location = Parked \/ \E q : Head(buffer[Shard]) = Released(q)
      BY <3>1 DEF RingInv, Releases
    <3>3. \A q : Released(q).location = SequenceOf(Slot(q))
      BY DEF Released, Store
    <3>4. ASSUME NEW q \in head .. tail - 1 PROVE WordAt(q)' = WordAt(q)
      <4>1. q \in Nat /\ WordOf(Slot(q)) # Head(buffer[Shard]).location
        BY SMTT(60), <2>1, <3>2, <3>3, Places
      <4>2. memory'[WordOf(Slot(q))] = memory[WordOf(Slot(q))]
        BY <2>1, <2>2, <2>3, <4>1, Places
      <4>3. \A p \in Sender : buffer'[p] = buffer[p]
        BY <2>1, <2>2, <2>3
      <4> QED
        BY <2>1, <4>1, <4>2, <4>3, <1>SameWords
    <3> QED
      BY <2>1, <3>4, <1>SameContents
  <2>4. CASE t \in Sender
    <3> DEFINE position == reg[t]
               word == Store(WordOf(Slot(position)), WordInHand(t))
               publishes == Store(SequenceOf(Slot(position)), position + 1)
    <3>1. InHand(t) /\ position \in head .. tail - 1 /\ position \in Nat
      BY <2>1, <2>2, <2>4 DEF RingInv, Hands, InHand
    <3>2. WordAt(position) = WordInHand(t)
      BY <2>2, <2>4, <1>WordHeld
    <3>3. \A p \in Sender \ {t} : buffer[p] # <<>> => reg[p] # position
      BY <2>2, <2>4 DEF RingInv, Hands
    <3>4. CASE buffer[t] = <<word, publishes>>
      <4>1. /\ memory' = [memory EXCEPT ![WordOf(Slot(position))] = WordInHand(t)]
            /\ buffer'[t] # <<>>
        <5>1. word.location = WordOf(Slot(position)) /\ word.value = WordInHand(t)
          BY DEF Store
        <5> HIDE DEF word, publishes
        <5>2. Head(buffer[t]) = word /\ Tail(buffer[t]) = <<publishes>> /\ <<publishes>> # <<>>
          BY SMTT(60), <3>4
        <5> QED
          BY <2>2, <5>1, <5>2
      <4>2. \A p \in Sender : buffer[p] # <<>> <=> buffer'[p] # <<>>
        BY <2>1, <2>2, <4>1
      <4>3. WordAt(position)' = WordInHand(t)
        <5>1. WordAt(reg[t])' = WordInHand(t)'
          <6>1. {r \in Sender : reg'[r] = reg'[t] /\ buffer'[r] # <<>>} = {t}
            BY <2>1, <2>4, <3>3, <4>1, <4>2
          <6> QED
            BY <6>1 DEF WordAt
        <5> QED
          BY <5>1 DEF WordInHand
      <4>4. ASSUME NEW q \in head .. tail - 1, q # position PROVE WordAt(q)' = WordAt(q)
        <5>1. q \in Nat /\ q \in head .. head + Capacity - 1 /\ position \in head .. head + Capacity - 1
          BY SMTT(60), <2>1, <3>1
        <5>2. WordOf(Slot(q)) # WordOf(Slot(position))
          BY <2>1, <4>4, <5>1, Lap
        <5>3. memory'[WordOf(Slot(q))] = memory[WordOf(Slot(q))]
          BY <2>1, <4>1, <5>1, <5>2, Places
        <5> QED
          BY <2>1, <4>2, <5>1, <5>3, <1>SameWords
      <4> QED
        BY <2>1, <3>2, <4>3, <4>4, <1>SameContents
    <3>5. CASE buffer[t] = <<publishes>> /\ memory[WordOf(Slot(position))] = WordInHand(t)
      <4>1. /\ memory' = [memory EXCEPT ![SequenceOf(Slot(position))] = position + 1]
            /\ buffer'[t] = <<>>
        <5>1. publishes.location = SequenceOf(Slot(position)) /\ publishes.value = position + 1
          BY DEF Store
        <5> HIDE DEF word, publishes
        <5>2. Head(buffer[t]) = publishes /\ Tail(buffer[t]) = <<>>
          BY SMTT(60), <3>5
        <5> QED
          BY <2>2, <5>1, <5>2
      <4>2. \A q \in Nat : memory'[WordOf(Slot(q))] = memory[WordOf(Slot(q))]
        BY <2>1, <4>1, Places
      <4>3. WordAt(position)' = WordInHand(t)
        <5>1. {r \in Sender : reg'[r] = reg'[t] /\ buffer'[r] # <<>>} = {}
          BY <2>1, <2>2, <3>3, <4>1
        <5>2. WordAt(reg[t])' = memory'[WordOf(Slot(reg'[t]))]
          BY <5>1 DEF WordAt
        <5> QED
          BY <2>1, <3>1, <3>5, <4>2, <5>2
      <4>4. ASSUME NEW q \in head .. tail - 1, q # position PROVE WordAt(q)' = WordAt(q)
        <5>1. q \in Nat
          BY SMTT(60), <2>1
        <5>2. \A p \in Sender : reg[p] = q /\ buffer[p] # <<>> <=> reg'[p] = q /\ buffer'[p] # <<>>
          BY <2>1, <2>2, <4>4
        <5> QED
          BY <4>2, <5>1, <5>2, <1>SameWords
      <4> QED
        BY <2>1, <3>2, <4>3, <4>4, <1>SameContents
    <3> QED
      BY <3>1, <3>4, <3>5 DEF InHand
  <2> QED
    BY <2>2, <2>3, <2>4 DEF Thread, RingInv, Hands
\* The claim is the push ...
<1>ClaimIsPush. ASSUME RegistryInv, RingInv, RingInv', NEW p \in Sender, ClaimSlot(p),
                       ClaimAndPublish(p, WordInHand(p))
                PROVE  /\ WordInHand(p) \in Word
                       /\ Len(Contents) < Capacity
                       /\ Contents' = Append(Contents, WordInHand(p))
  <2> USE <1>ClaimIsPush
  <2> DEFINE n == tail - head
  <2>1. /\ tail \in Nat /\ head \in Nat /\ head <= tail /\ n \in Nat /\ p \in Caller /\ p \in Thread
        /\ tail' = tail + 1 /\ head' = head /\ tail' - head' = n + 1 /\ UNCHANGED <<memory, reg, sends>>
        /\ reg[p] = tail /\ DOMAIN buffer = Thread /\ Sender \subseteq Thread
    <3>1. /\ tail \in Nat /\ head \in Nat /\ head <= tail /\ tail' = tail + 1 /\ head' = head
          /\ UNCHANGED <<memory, reg, sends>> /\ reg[p] = tail /\ p \in Caller /\ p \in Thread
          /\ DOMAIN buffer = Thread /\ Sender \subseteq Thread
      BY DEF RingInv, RingType, ClaimSlot, ClaimAndPublish, Caller, Thread
    <3>2. n \in Nat /\ tail' - head' = n + 1
      BY SMTT(60), <3>1
    <3> QED
      BY <3>1, <3>2
  <2>2. at[p] = "claim" /\ SeqAt(tail) = tail
    BY <2>1 DEF ClaimSlot, RingInv, Claiming
  <2>3. buffer[p] = <<>> /\ tail < head + Capacity
    BY <2>1, <2>2, EmptyHands, FreeIsWithinLap
  <2>4. \A r \in Sender \ {p} : buffer'[r] = buffer[r]
    BY <2>1 DEF ClaimAndPublish
  <2>5. buffer'[p] # <<>>
    <3> DEFINE word == Store(WordOf(Slot(reg[p])), WordInHand(p))
               publishes == Store(SequenceOf(Slot(reg[p])), reg[p] + 1)
    <3>1. buffer'[p] = <<>> \o <<word, publishes>>
      BY <2>1, <2>3 DEF ClaimAndPublish
    <3> HIDE DEF word, publishes
    <3> QED
      BY SMTT(60), <3>1
  <2>6. ASSUME NEW q \in head .. tail - 1 PROVE WordAt(q)' = WordAt(q)
    BY SMTT(60), <2>1, <2>3, <2>4, <1>SameWords
  <2>7. ASSUME NEW q, q = tail PROVE WordAt(q)' = WordInHand(p)
    <3>1. \A r \in Sender \ {p} : buffer[r] # <<>> => reg[r] # tail
      <4>1. \A r \in Sender \ {p} : buffer[r] # <<>> => reg[r] \in head .. tail - 1
        BY DEF RingInv, Hands, InHand
      <4>2. tail \notin head .. tail - 1
        BY SMTT(60), <2>1
      <4> QED
        BY <4>1, <4>2
    <3>2. {r \in Sender : reg'[r] = q /\ buffer'[r] # <<>>} = {p}
      BY <2>1, <2>4, <2>5, <2>7, <3>1
    <3>3. WordAt(q)' = WordInHand(p)'
      BY <3>2 DEF WordAt
    <3> QED
      BY <2>1, <3>3 DEF WordInHand
  <2>8. Contents' = Append(Contents, WordInHand(p)) /\ Len(Contents) = n
    <3> DEFINE f == Contents
               g == Contents'
    <3>0. tail \in Nat /\ head \in Nat /\ head <= tail /\ n \in Nat /\ tail' = tail + 1 /\ head' = head
      BY <2>1
    <3>1. f = [i \in 1 .. n |-> f[i]] /\ g = [i \in 1 .. n + 1 |-> g[i]]
      BY <2>1 DEF Contents
    <3>2. ASSUME NEW i \in 1 .. n PROVE g[i] = f[i]
      <4>1. PICK q \in head .. tail - 1 : q = head + i - 1
        BY SMTT(60), <3>0
      <4>2. i \in 1 .. tail' - head'
        BY SMTT(60), <3>0
      <4>3. g[i] = WordAt(q)' /\ f[i] = WordAt(q)
        BY <3>0, <4>1, <4>2 DEF Contents
      <4> QED
        BY <2>6, <4>3
    <3>3. g[n + 1] = WordInHand(p)
      <4>1. n + 1 \in 1 .. tail' - head' /\ head' + (n + 1) - 1 = tail
        BY SMTT(60), <3>0
      <4>2. PICK q \in Nat : q = tail
        BY <3>0
      <4>3. g[n + 1] = WordAt(q)'
        BY <3>0, <4>1, <4>2 DEF Contents
      <4> QED
        BY <2>7, <4>2, <4>3
    <3> HIDE DEF f, g, n
    <3>4. g = Append(f, g[n + 1]) /\ Len(f) = n
      BY <2>1, <3>1, <3>2, <1>Grows
    <3> QED
      BY <3>3, <3>4 DEF f, g
  <2>9. WordInHand(p) \in Word
    <3>1. program \in Programs /\ sends[p] \in Nat /\ sends[p] <= Len(program[p]) /\ sends[p] > 0
      BY <2>2 DEF RegistryInv, RegistryType
    <3>2. program[p] \in Seq({"word", "control"}) /\ sends[p] \in DOMAIN program[p]
      BY SMTT(60), <3>1
    <3> DEFINE words == {[by |-> p, n |-> k] : k \in DOMAIN program[p]}
               all == {{[by |-> r, n |-> k] : k \in DOMAIN senders[r]} : r \in Sender, senders \in Programs}
    <3>3. WordInHand(p) \in words
      BY <3>2 DEF WordInHand
    <3>4. words \in all
      BY SMTT(60), <3>1
    <3>5. Word = UNION all
      BY SMTT(60) DEF Word
    <3> HIDE DEF words, all
    <3> QED
      BY <3>3, <3>4, <3>5
  <2> QED
    BY SMTT(60), <2>1, <2>3, <2>8, <2>9
\* ... the shard takes the oldest word ...
<1>PopIsPop. ASSUME RingInv, RingInv', Pop, UNCHANGED sends
             PROVE  Contents # <<>> /\ Oldest = Head(Contents) /\ Contents' = Tail(Contents)
  <2> USE <1>PopIsPop
  <2> DEFINE n == tail - head
             f == Contents
             g == Contents'
  <2>1. /\ tail \in Nat /\ head \in Nat /\ head < tail /\ n \in Nat \ {0}
        /\ UNCHANGED <<memory, reg, tail>> /\ head' = head + 1 /\ tail' - head' = n - 1
        /\ Oldest = memory[WordOf(Slot(head))]
        /\ \A p \in Sender : buffer[p] # <<>> => reg[p] # head
    BY SMTT(60), ReadyHead DEF RingInv, RingType, Pop
  <2>2. \A p \in Sender : buffer'[p] = buffer[p]
    BY DEF RingInv, RingType, Pop, Thread
  <2>3. ASSUME NEW q \in head .. tail - 1 PROVE WordAt(q)' = WordAt(q)
    BY SMTT(60), <2>1, <2>2, <1>SameWords
  <2>4. f = [i \in 1 .. n |-> f[i]] /\ g = [i \in 1 .. n - 1 |-> g[i]]
    BY <2>1 DEF Contents
  <2>5. ASSUME NEW i \in 1 .. n - 1 PROVE g[i] = f[i + 1]
    <3>1. PICK q \in head .. tail - 1 : q = head + i
      BY SMTT(60), <2>1
    <3>2. i \in 1 .. tail' - head' /\ i + 1 \in 1 .. tail - head
      BY SMTT(60), <2>1
    <3>3. g[i] = WordAt(q)'
      BY SMTT(60), <2>1, <3>1, <3>2 DEF Contents
    <3>4. f[i + 1] = WordAt(q)
      BY SMTT(60), <2>1, <3>1, <3>2 DEF Contents
    <3> QED
      BY <2>3, <3>3, <3>4
  <2>6. f[1] = Oldest
    <3>1. 1 \in 1 .. n /\ head + 1 - 1 = head
      BY SMTT(60), <2>1
    <3>2. f[1] = WordAt(head)
      BY <3>1 DEF Contents
    <3> QED
      BY <2>1, <3>2, <1>WordInMemory
  <2> HIDE DEF f, g, n
  <2>7. f # <<>> /\ f[1] = Head(f) /\ g = Tail(f)
    BY <2>1, <2>4, <2>5, <1>Shrinks
  <2> QED
    BY <2>6, <2>7 DEF f, g
<1> SUFFICES ASSUME RegistryInv, RingInv, RingInv', [Next]_vars
             PROVE  \/ \E w \in Word : Len(Contents) < Capacity /\ Contents' = Append(Contents, w) /\ taken' = taken
                    \/ Contents # <<>> /\ taken' = Head(Contents) /\ Contents' = Tail(Contents)
                    \/ taken' = NoWord /\ Contents' = Contents
                    \/ Contents' = <<>> /\ taken' = taken
                    \/ Contents' = Contents /\ taken' = taken
  OBVIOUS
<1>0. /\ at \in [Caller -> Points] /\ sends \in [Sender -> Nat] /\ Sender \subseteq Caller
      /\ reg \in [Sender -> Nat] /\ DOMAIN buffer = Thread /\ Sender \subseteq Thread /\ Shard \notin Sender
  BY DEF Caller, RingInv, RingType, RegistryInv, RegistryType, Thread
<1>1. ASSUME NEW p \in Sender, Send(p) PROVE Contents' = Contents /\ taken' = taken
  <2>1. buffer[p] = <<>> /\ \A r \in Sender \ {p} : sends'[r] = sends[r]
    BY <1>0, <1>1, EmptyHands DEF Send
  <2> QED
    BY <1>1, <2>1, <1>StillContents DEF Send, ringVars
<1>2. ASSUME NEW p \in Sender, BeginPush(p) \/ CheckSlot(p) \/ (ClaimSlot(p) /\ MissedClaim(p))
      PROVE  Contents' = Contents /\ taken' = taken
  <2>1. /\ at[p] # "fence" /\ UNCHANGED <<memory, buffer, tail, head, sends, taken>>
        /\ \/ reg' = reg
           \/ reg' = [reg EXCEPT ![p] = tail]
           \/ reg' = [r \in Sender |-> IF r = p THEN 0 ELSE reg[r]]
    BY <1>2 DEF BeginPush, CheckSlot, ClaimSlot, MissedClaim, LoadTail, Leave, ringVars
  <2>2. buffer[p] = <<>> /\ \A r \in Sender \ {p} : reg'[r] = reg[r]
    BY <1>0, <2>1, EmptyHands
  <2> QED
    BY <2>1, <2>2, <1>StillContents
<1>3. ASSUME NEW p \in Sender, ClaimSlot(p), ClaimAndPublish(p, WordInHand(p))
      PROVE  \E w \in Word : Len(Contents) < Capacity /\ Contents' = Append(Contents, w) /\ taken' = taken
  BY <1>3, <1>ClaimIsPush DEF ClaimSlot
<1>4. ASSUME NEW c \in Caller, CallerStep(c) PROVE Contents' = Contents /\ taken' = taken
  <2>1. /\ buffer[c] = <<>>
        /\ UNCHANGED <<memory, buffer, tail, head, sends, taken>>
        /\ reg' = reg \/ reg' = [r \in Sender |-> IF r = c THEN 0 ELSE reg[r]]
    <3>1. CASE Retry(c) \/ PublishFlag(c) \/ ReadEntry(c) \/ Kick(c)
      BY <3>1, EmptyHands DEF Retry, PublishFlag, ReadEntry, Kick, Leave, ringVars
    <3>2. CASE TrySend(c)
      BY <3>2, EmptyHands DEF TrySend, Leave, ringVars
    <3>3. CASE KickIfParked(c)
      BY <3>3 DEF KickIfParked, Fence, Leave, ringVars
    <3> QED
      BY <1>4, <3>1, <3>2, <3>3 DEF CallerStep
  <2>2. \A r \in Sender : buffer[r] # <<>> => reg'[r] = reg[r]
    BY <2>1
  <2> QED
    BY <2>1, <2>2, <1>StillContents
<1>5. ASSUME NEW t \in Thread, FlushStore(t) PROVE Contents' = Contents /\ taken' = taken
  BY <1>5, <1>FlushContents DEF FlushStore, senderVars
<1>6. ASSUME StoreParked(TRUE) \/ StoreParked(FALSE) \/ UNCHANGED ringVars, UNCHANGED sends
      PROVE  Contents' = Contents
  <2>1. UNCHANGED <<memory, tail, head, reg>> /\ \A p \in Sender : buffer'[p] = buffer[p]
    BY <1>0, <1>6 DEF StoreParked, ringVars
  <2> QED
    BY <1>6, <2>1, <1>StillContents
<1>7. CASE PopWord
  <2>1. CASE Pop /\ taken' = Oldest
    BY <1>7, <2>1, <1>PopIsPop DEF PopWord, senderVars
  <2>2. CASE Settle /\ taken' = NoWord
    BY <1>6, <1>7, <2>2 DEF PopWord, Settle, senderVars
  <2> QED
    BY <1>7, <2>1, <2>2 DEF PopWord
<1>8. CASE TakeControl \/ Receive \/ Recheck \/ Woken \/ Reclaim \/ WaitEnds
  BY <1>6, <1>8 DEF TakeControl, Receive, Recheck, Woken, Reclaim, WaitEnds, senderVars
<1>9. CASE Register \/ Stop \/ JoinAndClear \/ UNCHANGED vars
  <2>1. UNCHANGED <<ringVars, sends, taken>>
    BY <1>9 DEF Register, Stop, JoinAndClear, vars, senderVars, ringVars
  <2> QED
    BY <1>6, <2>1
<1>10. CASE Retire
  <2>1. tail' = 0 /\ head' = 0 /\ taken' = taken
    BY <1>10 DEF Retire
  <2> QED
    BY SMTT(60), <2>1 DEF Contents
<1> QED
  BY <1>1, <1>2, <1>3, <1>4, <1>5, <1>7, <1>8, <1>9, <1>10 DEF Next, PushStep, ShardStep, ClaimSlot

=============================================================================
