---------------------------- MODULE BoundedQueue ----------------------------
(***************************************************************************)
(* What a shard's foreign wake ring promises its senders and its shard: a  *)
(* first-in first-out queue of at most Capacity words.  A word is queued   *)
(* once, taken once and never replaced; the queue goes away only as a      *)
(* whole, with the registration that owns it.                              *)
(***************************************************************************)
EXTENDS Naturals, Sequences

CONSTANTS Word, Capacity, NoWord

VARIABLES queue, \* the words queued, oldest first
          taken  \* the word the shard is handling, if any

Init == queue = <<>> /\ taken = NoWord

Push(w) ==
  /\ Len(queue) < Capacity
  /\ queue' = Append(queue, w)
  /\ UNCHANGED taken

Pop ==
  /\ queue # <<>>
  /\ taken' = Head(queue)
  /\ queue' = Tail(queue)

Handled ==
  /\ taken' = NoWord
  /\ UNCHANGED queue

Drop ==
  /\ queue' = <<>>
  /\ UNCHANGED taken

Next == (\E w \in Word : Push(w)) \/ Pop \/ Handled \/ Drop

Spec == Init /\ [][Next]_<<queue, taken>>
=============================================================================
