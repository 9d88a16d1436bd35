------------------------------ MODULE Reconfig ------------------------------
(***************************************************************************)
(* The holder-set change of crates/db/src/reconfig.rs: one register whose  *)
(* holders move from the set Old to the set New while its owner writes.    *)
(* Old, then Joint once the change is announced, then New once the old set *)
(* is retired; a record commits at a majority of the old set, of both, and *)
(* of the new set respectively.                                            *)
(*                                                                         *)
(* A record is its sequence number: the payload identity is a function of  *)
(* it (issue), so sequence zero is the absent record.                      *)
(***************************************************************************)
EXTENDS Integers, FiniteSets

CONSTANTS
  Old, New,  \* the two holder sets
  MaxSeq     \* bound on the records issued

Host == Old \union New

VARIABLES
  phase,             \* "old", "joint" or "new"
  stored,            \* stored[h]: the sequence of the newest record h holds, 0 for none
  nextSeq,           \* the sequence the next record takes
  acks,              \* acks[s]: the holders that acknowledged record s
  ownerAcked,        \* whether the owner acknowledged the new configuration
  retiredCommitted,  \* the records committed at the moment of retirement
  placed             \* history: each record that committed, with the phase it did so in

reconfigVars == <<phase, stored, nextSeq, acks, ownerAcked, retiredCommitted, placed>>

Issued == 1 .. (nextSeq - 1)
-----------------------------------------------------------------------------
MajorityOf(acked, set) == 2 * Cardinality(acked \intersect set) > Cardinality(set)

Active(h) ==
  CASE phase = "old"   -> h \in Old
    [] phase = "joint" -> h \in Old \union New
    [] phase = "new"   -> h \in New

\* Mutant: the joint phase forgets the new set's majority.
CommittedByOldAlone(s) ==
  CASE phase = "old"   -> MajorityOf(acks[s], Old)
    [] phase = "joint" -> MajorityOf(acks[s], Old)
    [] phase = "new"   -> MajorityOf(acks[s], New)

IsCommitted(s) ==
  CASE phase = "old"   -> MajorityOf(acks[s], Old)
    [] phase = "joint" -> MajorityOf(acks[s], Old) /\ MajorityOf(acks[s], New)
    [] phase = "new"   -> MajorityOf(acks[s], New)

CommittedSeqs == {s \in Issued : IsCommitted(s)}

IsNewestCommitted(s) == s \in CommittedSeqs /\ \A t \in CommittedSeqs : t <= s

NoteCommitted == placed' = placed \union {<<s, phase'>> : s \in CommittedSeqs'}
-----------------------------------------------------------------------------
ReconfigInit ==
  /\ phase = "old"
  /\ stored = [h \in Host |-> 0]
  /\ nextSeq = 1
  /\ acks = [s \in 1 .. MaxSeq |-> {}]
  /\ ownerAcked = FALSE
  /\ retiredCommitted = {}
  /\ placed = {}

Issue ==
  /\ nextSeq <= MaxSeq
  /\ nextSeq' = nextSeq + 1
  /\ UNCHANGED <<phase, stored, acks, ownerAcked, retiredCommitted>>
  /\ NoteCommitted

\* Mutant: a holder takes an older record over a newer one.
AcceptOverwriting(s, h) ==
  /\ Active(h)
  /\ h \notin acks[s]
  /\ stored' = [stored EXCEPT ![h] = s]
  /\ acks' = [acks EXCEPT ![s] = @ \union {h}]
  /\ UNCHANGED <<phase, nextSeq, ownerAcked, retiredCommitted>>
  /\ NoteCommitted

\* Holder h takes record s: stored only when newer than what it holds, and
\* acknowledged either way.
Accept(s, h) ==
  /\ Active(h)
  /\ h \notin acks[s]
  /\ stored' = [stored EXCEPT ![h] = IF s > @ THEN s ELSE @]
  /\ acks' = [acks EXCEPT ![s] = @ \union {h}]
  /\ UNCHANGED <<phase, nextSeq, ownerAcked, retiredCommitted>>
  /\ NoteCommitted

Announce ==
  /\ phase = "old"
  /\ phase' = "joint"
  /\ UNCHANGED <<stored, nextSeq, acks, ownerAcked, retiredCommitted>>
  /\ NoteCommitted

OwnerAck ==
  /\ phase = "joint"
  /\ ~ownerAcked
  /\ ownerAcked' = TRUE
  /\ UNCHANGED <<phase, stored, nextSeq, acks, retiredCommitted>>
  /\ NoteCommitted

\* State transfer of the newest committed record to a new-set holder behind it.
Transfer(h) ==
  /\ phase = "joint"
  /\ h \in New
  /\ \E s \in Issued :
       /\ IsNewestCommitted(s)
       /\ s > stored[h]
       /\ stored' = [stored EXCEPT ![h] = s]
       /\ acks' = [acks EXCEPT ![s] = @ \union {h}]
  /\ UNCHANGED <<phase, nextSeq, ownerAcked, retiredCommitted>>
  /\ NoteCommitted

Retire ==
  /\ phase = "joint"
  /\ ownerAcked
  /\ \A s \in Issued : IsNewestCommitted(s) => MajorityOf(acks[s], New)
  /\ retiredCommitted' = CommittedSeqs
  /\ phase' = "new"
  /\ UNCHANGED <<stored, nextSeq, acks, ownerAcked>>
  /\ NoteCommitted

ReconfigNext ==
  \/ Issue
  \/ \E s \in Issued, h \in Host : Accept(s, h)
  \/ Announce
  \/ OwnerAck
  \/ \E h \in Host : Transfer(h)
  \/ Retire

ReconfigSpec == ReconfigInit /\ [][ReconfigNext]_reconfigVars
-----------------------------------------------------------------------------
ReconfigTypeOK ==
  /\ phase \in {"old", "joint", "new"}
  /\ stored \in [Host -> 0 .. MaxSeq]
  /\ nextSeq \in 1 .. (MaxSeq + 1)
  /\ acks \in [1 .. MaxSeq -> SUBSET Host]
  /\ ownerAcked \in BOOLEAN
  /\ retiredCommitted \subseteq 1 .. MaxSeq
  /\ placed \subseteq (1 .. MaxSeq) \X {"old", "joint", "new"}

\* The read majorities of the current phase; a reader may lag one phase, so the
\* joint phase admits those of either set.
ReadQuorum(q) ==
  \/ phase \in {"old", "joint"} /\ MajorityOf(q, Old)
  \/ phase \in {"joint", "new"} /\ MajorityOf(q, New)

\* ReadSafety (reconfig.rs header): every read majority, of whichever set a
\* reader knows, holds a record at least as new as every record committed under
\* the current phase's rule, although a holder acknowledges records it does not
\* store and a transfer acknowledges on a holder's behalf.
ReadSafety ==
  \A s \in CommittedSeqs, q \in SUBSET Host :
    ReadQuorum(q) => \E h \in q : stored[h] >= s

\* Whether no majority of the holder set reads a record older than s.
ReadBy(s, set) == \A q \in SUBSET Host : MajorityOf(q, set) => \E h \in q : stored[h] >= s

\* NoLoss (reconfig.rs header), as a reader sees it: a record that committed
\* during or after the change is never missed by a read majority, through the
\* retirement and every later write.
JointNeverMissed ==
  \A x \in placed : x[2] # "old" =>
    /\ ReadBy(x[1], New)
    /\ phase = "joint" => ReadBy(x[1], Old)
=============================================================================
