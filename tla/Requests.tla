------------------------------ MODULE Requests ------------------------------
(***************************************************************************)
(* Exactly-once requests: one client (crates/client/src/client.rs) with    *)
(* several requests in flight, and the daemon's shard that serves them     *)
(* (server/src/verbs.rs) from the completion window of its partition       *)
(* (wire/src/request.rs, db/src/partition.rs), over the database (Db).     *)
(* A request may reach the shard any number of times and late: the client  *)
(* sends it again after a restart, and a forwarded one may be repeated.    *)
(* A reply is lost when the daemon is killed before it is sent; one that   *)
(* reaches the client is drained, and taken by its own caller later.       *)
(*                                                                         *)
(* Left out: verbs whose reply waits for other hosts (their completion is  *)
(* recorded later, by a record of its own).                                *)
(***************************************************************************)
EXTENDS Db, FiniteSetsExt

CONSTANTS MaxRequest,      \* requests the client issues (a bound of the model)
          CompletionBound, \* completion_bound: records kept unacknowledged
          RetryableBound   \* unpublished_cap: unpublished ids kept retryable

VARIABLES issued,     \* the client's sequence: the last request it issued
          replies,    \* what the caller of each request was answered
          pending,    \* the replies drained and not yet taken by their callers
          retryable,  \* unpublished: the ids refused Unpublished, kept for a retry
          ackSent,    \* the highest watermark the client sent
          released    \* history: the ids the client gave up keeping for a retry

clientVars == <<issued, replies, pending, retryable, ackSent, released>>
vars == <<ring, slots, partition, nextSeq, nextSlot, since, pc, job, faults,
          issued, replies, pending, retryable, ackSent, released>>

Request == 1 .. MaxRequest
Verb(n) == <<"verb", n>>
Ack(n) == <<"acknowledge", n>>

ASSUME RequestsAssumption ==
  /\ MaxRequest \in Nat /\ RetryableBound \in Nat \ {0}
  /\ \A n \in Request : Verb(n) \in Transaction /\ Ack(n) \in Transaction

\* Mutant: everything sent counts as received.
WatermarkOfSent == IF retryable = {} THEN issued ELSE Min(retryable) - 1

\* The client's ack_watermark: below every request kept for a retry and every one
\* awaited whose reply has not come.  A reply drained counts as received.
Watermark ==
  LET open == retryable \union {n \in 1 .. issued : replies[n] = "awaited" /\ pending[n] = "none"}
  IN IF open = {} THEN issued ELSE Min(open) - 1

\* note_reply's full set: the oldest id is forgotten.
WithRoom == IF Cardinality(retryable) < RetryableBound THEN retryable ELSE retryable \ {Min(retryable)}

-----------------------------------------------------------------------------
(* the completion window a partition holds *)

AcknowledgedUpTo(transactions) ==
  Max({0} \cup {n \in Request : Ack(n) \in Range(transactions)})

Retained(transactions) ==
  {n \in Request : n > AcknowledgedUpTo(transactions) /\ Verb(n) \in Range(transactions)}

\* Mutant: the window is looked up by what is retained alone.
LookupRetained(n) == IF n \in Retained(partition) THEN "completed" ELSE "new"

\* ClientWindow::lookup.
Lookup(n) ==
  CASE n <= AcknowledgedUpTo(partition) -> "acknowledged"
    [] n \in Retained(partition) -> "completed"
    [] OTHER -> "new"

-----------------------------------------------------------------------------
(* the client *)

ClientInit ==
  /\ issued = 0
  /\ replies = [n \in Request |-> "none"]
  /\ pending = replies
  /\ retryable = {}
  /\ ackSent = 0
  /\ released = {}

Issue ==
  /\ issued < MaxRequest
  /\ issued' = issued + 1
  /\ replies' = [replies EXCEPT ![issued + 1] = "awaited"]
  /\ UNCHANGED <<ring, slots, memory, pc, job, faults, pending, retryable, ackSent, released>>

\* poll_reply takes a drained reply; note_reply keeps an Unpublished id for its retry,
\* and any other answer releases it.
TakeReply(n) ==
  /\ pending[n] # "none"
  /\ replies' = [replies EXCEPT ![n] = pending[n]]
  /\ pending' = [pending EXCEPT ![n] = "none"]
  /\ \/ /\ pending[n] = "unpublished"
        /\ retryable' = WithRoom \union {n}
        /\ released' = released \union (retryable \ retryable')
     \/ /\ pending[n] # "unpublished"
        /\ retryable' = retryable \ {n}
        /\ UNCHANGED released
  /\ UNCHANGED <<ring, slots, memory, pc, job, faults, issued, ackSent>>

\* An Unpublished refusal is retried under the same id (retry, begin_again), which is
\* kept until the retry is answered.
RetryUnpublished(n) ==
  /\ replies[n] = "unpublished"
  /\ replies' = [replies EXCEPT ![n] = "awaited"]
  /\ UNCHANGED <<ring, slots, memory, pc, job, faults, issued, pending, retryable, ackSent, released>>

\* begin_ack_if_due, acknowledge.  An Unpublished refusal that is drained and not taken
\* is not kept yet: an acknowledgement above it gives it up.
SendAcknowledge ==
  /\ Watermark > ackSent
  /\ ackSent' = Watermark
  /\ released' = released \union {n \in 1 .. Watermark : pending[n] = "unpublished"}
  /\ UNCHANGED <<ring, slots, memory, pc, job, faults, issued, replies, pending, retryable>>

-----------------------------------------------------------------------------
(* the shard *)

Answer(n, result) ==
  /\ job' = [NoJob EXCEPT !.entry = Verb(n), !.result = result]
  /\ Goto("reply")
  /\ UNCHANGED <<segment, memory, faults>>

\* Mutant: a request over the bound is dropped.
ServeWithinBound(n) ==
  /\ pc = "idle"
  /\ n <= issued
  /\ \/ Lookup(n) = "completed" /\ Answer(n, "done")
     \/ Lookup(n) = "acknowledged" /\ Answer(n, "duplicate")
     \/ /\ Lookup(n) = "new"
        /\ Cardinality(Retained(partition)) < CompletionBound
        /\ Transact(Verb(n), "done")
  /\ UNCHANGED clientVars

\* The window first, then the bound on unacknowledged records, then the verb and
\* its completion in one transaction (run_forwarded, run_recorded).
Serve(n) ==
  /\ pc = "idle"
  /\ n <= issued
  /\ \/ Lookup(n) = "completed" /\ Answer(n, "done")
     \/ Lookup(n) = "acknowledged" /\ Answer(n, "duplicate")
     \/ /\ Lookup(n) = "new"
        /\ Cardinality(Retained(partition)) >= CompletionBound
        /\ Answer(n, "owed")
     \/ /\ Lookup(n) = "new"
        /\ Cardinality(Retained(partition)) < CompletionBound
        /\ Transact(Verb(n), "done")
  /\ UNCHANGED clientVars

\* An acknowledgement, which may be an old one; one at or below what is already
\* acknowledged changes nothing but its own record and is left out.
ServeAcknowledge(n) ==
  /\ n \in 1 .. ackSent
  /\ n > AcknowledgedUpTo(partition)
  /\ Mutate(Ack(n), "done")
  /\ UNCHANGED clientVars

\* Whether note_reply of a result for request n changes what the client keeps.
Noted(n, result) == result = "unpublished" \/ n \in retryable

\* The reply leaves and is drained (buffer): the first one to a request awaited is held
\* for its caller, any other dropped.  One that note_reply makes nothing of is as good as
\* taken, and is.
Reply ==
  LET heeded == {n \in Request :
                   Verb(n) = job.entry /\ replies[n] = "awaited" /\ pending[n] = "none"}
      held == {n \in heeded : Noted(n, job.result)}
  IN  /\ pc = "reply"
      /\ pending' = [n \in Request |-> IF n \in held THEN job.result ELSE pending[n]]
      /\ replies' = [n \in Request |-> IF n \in heeded \ held THEN job.result ELSE replies[n]]
      /\ job' = NoJob
      /\ Goto("idle")
      /\ UNCHANGED <<segment, memory, faults, issued, retryable, ackSent, released>>

-----------------------------------------------------------------------------
Storage == (DbStep \/ Crash \/ Recover) /\ UNCHANGED clientVars

Next ==
  \/ Issue \/ SendAcknowledge \/ Reply \/ Storage
  \/ \E n \in Request : TakeReply(n) \/ RetryUnpublished(n) \/ Serve(n) \/ ServeAcknowledge(n)

\* The daemon keeps running, is started again after it dies, and takes what it
\* is sent; nobody has to issue, take, acknowledge or retry anything.
Fairness ==
  /\ WF_vars(DbStep /\ UNCHANGED clientVars)
  /\ WF_vars(Recover /\ UNCHANGED clientVars)
  /\ WF_vars(Reply)
  /\ \A n \in Request : SF_vars(Serve(n) /\ replies[n] = "awaited")

Init == DbInit /\ ClientInit

Spec == Init /\ [][Next]_vars /\ Fairness

-----------------------------------------------------------------------------
(* Properties *)

\* No request runs twice, in memory or in what a restart rebuilds, however often
\* it is sent, across crashes, recoveries and acknowledgements (request.rs: a
\* retry returns the original result rather than re-executing).
ExactlyOnce ==
  \A history \in {partition, Derived} : \A i, j \in DOMAIN history :
    history[i] = history[j] /\ history[i][1] = "verb" => i = j

\* A request the client was told is done survives any crash from here on: what a
\* restart would rebuild holds it (replay.rs commit: durable when it returns).
RepliedIsDurable ==
  \A n \in Request : "done" \in {replies[n], pending[n]} => Verb(n) \in Range(Derived)

\* "its retry would be refused DuplicateRequest" (client.rs:275) is said of no request
\* but those the client gave up: a request awaited, retried or kept for a retry is never
\* acknowledged past, across restarts and late acknowledgements.  It gives up the oldest
\* ids past unpublished_cap, and a refusal it acknowledges past before its caller takes
\* it (ack_watermark, note_reply, verbs.rs DuplicateRequest).
AwaitedNeverRefused ==
  \A n \in Request : "duplicate" \in {replies[n], pending[n]} => n \in released

\* Between two operations the daemon's memory is what a restart would rebuild, so
\* a rolled-back transaction leaves nothing behind (replay.rs rollback, recover).
MemoryIsDurable == pc = "idle" => partition = Derived

Rebuilt == INSTANCE Journal WITH durable <- Derived

\* The database implements the journal: whatever is stored, published, trimmed,
\* cut or recovered, what a restart would rebuild only grows, by whole
\* transactions (replay.rs, record.rs).
DbIsAJournal == Rebuilt!Spec

\* A request that keeps being sent is answered, across restarts: a reply comes for it
\* (client.rs exchange, verbs.rs).
EveryRequestAnswered ==
  \A n \in Request : replies[n] = "awaited" ~> pending[n] # "none" \/ replies[n] # "awaited"
=============================================================================
