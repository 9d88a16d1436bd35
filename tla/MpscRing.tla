------------------------------ MODULE MpscRing ------------------------------
(***************************************************************************)
(* The multi-producer single-consumer word ring of crates/mem/src/mpsc.rs  *)
(* on a machine with store buffers: a plain store of a thread waits in its *)
(* own first-in first-out buffer and reaches memory later, a load sees the *)
(* thread's own latest store first, and a fence waits until the buffer is  *)
(* empty.  That is what the release and acquire orders of the code admit   *)
(* on the hosts it is built for, and it is what the two fences of          *)
(* rt/src/parking.rs are there for.                                        *)
(*                                                                         *)
(* Positions are naturals: a lap of the 64-bit position is out of reach.   *)
(* compare_exchange_weak's spurious failure retries from the same state    *)
(* and is left out.                                                        *)
(***************************************************************************)
EXTENDS Naturals, Sequences, FiniteSetsExt

CONSTANTS Sender, Shard, Owner, Capacity, NoWord

\* a ring of one slot cannot tell a full slot from a free one (MIN_CAPACITY)
ASSUME CapacityAssumption == Capacity \in Nat /\ Capacity >= 2

VARIABLES memory,  \* the words of memory that threads share, by location
          buffer,  \* the stores of each thread that have not reached memory
          tail,    \* the ring's tail: only ever compared and exchanged
          head,    \* the ring's head: only the shard touches it
          reg      \* the position a push in progress holds in a register

Thread == Sender \cup {Shard, Owner}
Index == 0 .. Capacity - 1
Slot(position) == position % Capacity
SequenceOf(i) == <<"sequence", i>>
WordOf(i) == <<"word", i>>
Parked == <<"parked", 0>>
RingLocation == {SequenceOf(i) : i \in Index} \cup {WordOf(i) : i \in Index}

Store(location, value) == [location |-> location, value |-> value]

\* A load sees the thread's own newest buffered store, else memory.
Load(t, location) ==
  LET own == {i \in DOMAIN buffer[t] : buffer[t][i].location = location}
  IN IF own = {} THEN memory[location] ELSE buffer[t][Max(own)].value

\* The oldest buffered store of t reaches memory.
Flush(t) ==
  /\ buffer[t] # <<>>
  /\ memory' = [memory EXCEPT ![Head(buffer[t]).location] = Head(buffer[t]).value]
  /\ buffer' = [buffer EXCEPT ![t] = Tail(@)]
  /\ UNCHANGED <<tail, head, reg>>

\* fence(SeqCst): what t stored before it is in memory.
Fence(t) == buffer[t] = <<>>

\* MpscRing::new: slot i is free for position i.
NewRing ==
  [location \in RingLocation |->
     IF location[1] = "sequence" THEN location[2] ELSE NoWord]

-----------------------------------------------------------------------------
(* push, one step per access to shared memory; what a thread does to its own *)
(* registers and buffer joins the access before it                           *)

LoadTail(p) ==
  /\ reg' = [reg EXCEPT ![p] = tail]
  /\ UNCHANGED <<memory, buffer, tail, head>>

\* The slot is free for the position in hand.
Free(p) == Load(p, SequenceOf(Slot(reg[p]))) = reg[p]

\* Another producer claimed it and moved the tail on, by at most a lap.
Overtaken(p) ==
  LET sequence == Load(p, SequenceOf(Slot(reg[p])))
  IN reg[p] < sequence /\ sequence <= reg[p] + Capacity

\* Otherwise the push is refused: the sequence is a lap behind, so the shard has
\* not released the slot, or (the subtraction wraps) more than a lap ahead.
Full(p) == ~Free(p) /\ ~Overtaken(p)

\* Mutant: the sequence is published before the word.
PublishThenClaim(p, word) ==
  /\ tail = reg[p]
  /\ tail' = tail + 1
  /\ buffer' = [buffer EXCEPT ![p] = @ \o
       <<Store(SequenceOf(Slot(reg[p])), reg[p] + 1), Store(WordOf(Slot(reg[p])), word)>>]
  /\ UNCHANGED <<memory, head, reg>>

\* The compare-and-exchange, and the word, then the sequence that publishes it.
ClaimAndPublish(p, word) ==
  /\ tail = reg[p]
  /\ tail' = tail + 1
  /\ buffer' = [buffer EXCEPT ![p] = @ \o
       <<Store(WordOf(Slot(reg[p])), word), Store(SequenceOf(Slot(reg[p])), reg[p] + 1)>>]
  /\ UNCHANGED <<memory, head, reg>>

MissedClaim(p) == tail # reg[p] /\ LoadTail(p)

-----------------------------------------------------------------------------
(* the consumer *)

\* Whether the slot at the head is published; is_empty is its negation.
Ready == Load(Shard, SequenceOf(Slot(head))) = head + 1

Oldest == Load(Shard, WordOf(Slot(head)))

Pop ==
  /\ Ready
  /\ buffer' = [buffer EXCEPT ![Shard] =
       Append(@, Store(SequenceOf(Slot(head)), head + Capacity))]
  /\ head' = head + 1
  /\ UNCHANGED <<memory, tail, reg>>
=============================================================================
