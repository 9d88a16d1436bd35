----------------------------- MODULE MCRequests -----------------------------
(***************************************************************************)
(* A ring of two records and a snapshot every second record, so that the   *)
(* log fills behind a deferred snapshot and both full-log paths run.       *)
(***************************************************************************)
EXTENDS Requests

MCTransaction == {Verb(n) : n \in Request} \cup {Ack(n) : n \in Request}
\* Where the daemon may be killed: anywhere, and anywhere but between a
\* snapshot's publication and the first store of the trim behind it.
Anywhere == {"idle", "append", "write", "base", "tail", "publish", "published", "trim",
             "trimHead", "trimTail", "reply"}
NotBeforeTrim == Anywhere \ {"trim"}
=============================================================================
