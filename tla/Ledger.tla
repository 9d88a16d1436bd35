------------------------------- MODULE Ledger -------------------------------
(***************************************************************************)
(* The fenced ledger register of crates/db/src/ledger.rs: a log replicated *)
(* on the 2f+1 candidate holders of one object.  An owner offers its whole *)
(* log under its host epoch, a holder fenced above that epoch refuses, and *)
(* an offer f+1 holders accept commits.  A takeover fences f+1 holders at  *)
(* the next epoch, reads their logs and adopts, per position, the record   *)
(* carried under the highest epoch.                                        *)
(*                                                                         *)
(* The superseded owners are kept: they go on proposing under their old    *)
(* epochs, which is how the code states StaleNeverCommits.  Every call     *)
(* reaches an arbitrary set of candidates (the Reach argument), so lost    *)
(* messages and partitions are all covered.                                *)
(***************************************************************************)
EXTENDS Cohort, Sequences

CONSTANTS
  Identity,  \* payload identities
  MaxLength  \* bound on the length of a log, for model checking

ASSUME LengthAssumption == MaxLength \in Nat

Epoch == FirstEpoch .. LastEpoch
Record == [epoch : Epoch, identity : Identity]
Log == UNION {[1 .. n -> Identity] : n \in 0 .. MaxLength}

VARIABLES
  seen,    \* seen[c]: the highest epoch holder c has accepted a record under
  log,     \* log[c]: holder c's log, dense by position
  owners,  \* owners[e]: the log of the owner that proposes under epoch e
  chosen   \* history: the <<epoch, log>> offers that f+1 holders accepted

ledgerVars == <<seen, log, owners, chosen>>
-----------------------------------------------------------------------------
\* Mutants: a fence that refuses nothing; an adoption that ignores the epochs;
\* one that stops at the shortest log read.
AcceptsAnything(c, e) == TRUE
AdoptAnyEpoch(read, l) ==
  /\ \A c \in read : Len(log[c]) <= Len(l)
  /\ \A p \in DOMAIN l : \E c \in read : p \in DOMAIN log[c] /\ l[p] = log[c][p].identity
AdoptShortest(read, l) ==
  \A c \in read : Len(l) <= Len(log[c]) /\ \A p \in DOMAIN l : l[p] = log[c][p].identity

\* Quorum::committed.
Acknowledged(acked) == Cardinality(acked) >= F + 1

\* Fence::accept: an epoch below the highest seen is refused.
Accepts(c, e) == e >= seen[c]

\* Holder::reconcile: every position is rewritten under the offered epoch and a
\* tail beyond the offered log is dropped.
Reconcile(e, l) == [p \in DOMAIN l |-> [epoch |-> e, identity |-> l[p]]]

\* Cohort::highest_epoch.
IsHighestEpoch(top) ==
  /\ \E c \in Candidate : seen[c] = top
  /\ \A c \in Candidate : seen[c] <= top

IsPrefixOf(s, t) == Len(s) <= Len(t) /\ \A p \in 1 .. Len(s) : s[p] = t[p]

\* Whether holder c's record at position p is the one adopt keeps among the
\* holders read: the highest epoch held at p.
Newest(read, p, c) ==
  /\ c \in read
  /\ p \in DOMAIN log[c]
  /\ \A d \in read : p \in DOMAIN log[d] => log[d][p].epoch <= log[c][p].epoch

\* Cohort::committed_at: whether a quorum holds identity v at position p.
CommittedAt(p, v) ==
  Acknowledged({h \in Candidate : p \in DOMAIN log[h] /\ log[h][p].identity = v})

\* adopt: at each position below the longest log read, the identity carried
\* under the highest epoch there.
IsAdopted(read, l) ==
  /\ \A c \in read : Len(log[c]) <= Len(l)
  /\ \A p \in DOMAIN l : \E c \in read : Newest(read, p, c) /\ l[p] = log[c][p].identity
-----------------------------------------------------------------------------
LedgerInit ==
  /\ seen = [c \in Candidate |-> FirstEpoch]
  /\ log = [c \in Candidate |-> << >>]
  /\ owners = [e \in {FirstEpoch} |-> << >>]
  /\ chosen = {}

\* Cohort::offer of the log l under epoch e to the candidates in reach: an empty
\* log is offered to nobody, a holder fenced above e refuses, any other takes the
\* whole log and is counted.
Offer(e, l, reach) ==
  LET acked == IF l = << >> THEN {} ELSE {c \in reach : Accepts(c, e)}
  IN  /\ seen' = [c \in Candidate |-> IF c \in acked THEN e ELSE seen[c]]
      /\ log' = [c \in Candidate |-> IF c \in acked THEN Reconcile(e, l) ELSE log[c]]
      /\ chosen' = IF Acknowledged(acked) THEN chosen \union {<<e, l>>} ELSE chosen

\* Owner::propose: the owner's own log grows whether or not the offer commits.
Propose(e, v, reach) ==
  /\ Len(owners[e]) < MaxLength
  /\ owners' = [owners EXCEPT ![e] = Append(@, v)]
  /\ Offer(e, Append(owners[e], v), reach)

\* Owner::replicate: the log given extends the owner's own, and is offered whole.
Replicate(e, l, reach) ==
  /\ IsPrefixOf(owners[e], l)
  /\ owners' = [owners EXCEPT ![e] = l]
  /\ Offer(e, l, reach)

\* Owner::take_over: refused without f+1 reachable candidates or with no epoch
\* left; otherwise it fences the reachable holders and adopts from their logs.
TakeOverLog(reach) ==
  /\ Cardinality(reach) >= F + 1
  /\ \E top \in FirstEpoch .. (LastEpoch - 1), l \in Log :
       /\ IsHighestEpoch(top)
       /\ IsAdopted(reach, l)
       /\ seen' = [c \in Candidate |-> IF c \in reach THEN top + 1 ELSE seen[c]]
       /\ owners' = [e \in DOMAIN owners \union {top + 1} |->
                       IF e = top + 1 THEN l ELSE owners[e]]
  /\ UNCHANGED <<log, chosen>>

LedgerNext ==
  \E reach \in SUBSET Candidate :
    \/ \E e \in DOMAIN owners, v \in Identity : Propose(e, v, reach)
    \/ \E e \in DOMAIN owners, l \in Log : Replicate(e, l, reach)
    \/ TakeOverLog(reach)

LedgerSpec == LedgerInit /\ [][LedgerNext]_ledgerVars
-----------------------------------------------------------------------------
LedgerTypeOK ==
  /\ seen \in [Candidate -> Epoch]
  /\ log \in [Candidate -> Seq(Record)]
  /\ DOMAIN owners \subseteq Epoch
  /\ owners \in [DOMAIN owners -> Log]
  /\ chosen \subseteq (Epoch \X Log)

\* NoLoss and TotalOrder of ledger.rs: a log f+1 holders accepted is a prefix of
\* the log of its own owner and of every later owner, whichever quorum each
\* takeover read and whatever the superseded owners went on offering.
NoLoss ==
  \A c \in chosen : \A e \in DOMAIN owners : e >= c[1] => IsPrefixOf(c[2], owners[e])

\* Cohort::committed_at and committed_prefix, the oracle of what has committed,
\* never fall short of it: f+1 holders go on holding every committed log, so no
\* reconcile (which truncates and overwrites) ever shortens it on a quorum.
OracleComplete ==
  \A c \in chosen : \A p \in DOMAIN c[2] : CommittedAt(p, c[2][p])

\* StaleNeverCommits: once a later owner has taken over, no offer of an earlier
\* one is ever accepted by f+1 holders again.
StaleNeverCommits ==
  [][\A c \in chosen' \ chosen : \A e \in DOMAIN owners : e <= c[1]]_ledgerVars
=============================================================================
