------------------------------ MODULE Journal ------------------------------
(***************************************************************************)
(* What a partition's database promises: the transactions a restart would  *)
(* rebuild are a sequence that only ever grows at its end, one whole       *)
(* transaction at a time.  Snapshots, trimming, crashes and recoveries are *)
(* invisible.                                                              *)
(***************************************************************************)
EXTENDS Sequences

CONSTANT Transaction

VARIABLE durable \* the transactions a restart would rebuild, oldest first

Init == durable = <<>>

Commit(t) == durable' = Append(durable, t)

Next == \E t \in Transaction : Commit(t)

Spec == Init /\ [][Next]_durable
=============================================================================
