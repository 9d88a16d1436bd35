----------------------------- MODULE MCLanding ------------------------------
(***************************************************************************)
(* Landings of one entry on every kind of filesystem the host seam knows,  *)
(* with three steps of outsiders and three runs; of two entries in one     *)
(* batch, with one step and two runs; and of two entries in two batches,   *)
(* with two steps and two runs.                                            *)
(***************************************************************************)
EXTENDS Landing

Create == [action |-> "create", racy |-> FALSE]
Replace == [action |-> "replace", racy |-> FALSE]
Racy == [action |-> "replace", racy |-> TRUE]
Delete == [action |-> "delete", racy |-> FALSE]
RacyDelete == [action |-> "delete", racy |-> TRUE]

Filesystems == [exchange : BOOLEAN, unnamed : BOOLEAN]

MCScenes ==
  [manifest : {<<Create>>, <<Replace>>, <<Racy>>, <<Delete>>, <<RacyDelete>>}, host : Filesystems,
   room : {2}, edits : {3}, attempts : {3}]
  \union
  [manifest : {<<Create, Replace>>, <<Replace, Racy>>, <<Replace, Delete>>},
   host : {h \in Filesystems : h.exchange = ~h.unnamed},
   room : {2}, edits : {1}, attempts : {2}]
  \union
  [manifest : {<<Replace, Replace>>}, host : {[exchange |-> FALSE, unnamed |-> TRUE]},
   room : {1}, edits : {2}, attempts : {2}]

\* A replacement on a filesystem with an exchange, and a deletion under a racy witness.
MCReplaced ==
  [manifest : {<<Replace>>}, host : {[exchange |-> TRUE, unnamed |-> TRUE]},
   room : {1}, edits : {2}, attempts : {1}]
MCDeleted ==
  [manifest : {<<RacyDelete>>}, host : {[exchange |-> TRUE, unnamed |-> TRUE]},
   room : {1}, edits : {1}, attempts : {1}]
=============================================================================
