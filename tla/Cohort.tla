------------------------------- MODULE Cohort -------------------------------
(***************************************************************************)
(* What the two registers of crates/db share: the candidate holders of an  *)
(* object, the fault tolerance of its quorums and the epochs.              *)
(***************************************************************************)
EXTENDS Integers, FiniteSets

CONSTANTS
  Candidate,   \* the object's candidate holders
  F,           \* the fault tolerance f of Quorum
  LastEpoch    \* the epoch with no successor (u64::MAX in the code)

ASSUME QuorumAssumption ==
  /\ F \in Nat
  /\ IsFiniteSet(Candidate)
  /\ Cardinality(Candidate) <= 2 * F + 1
ASSUME EpochAssumption == LastEpoch \in Nat \ {0}

FirstEpoch == 1
=============================================================================
