------------------------------ MODULE Register ------------------------------
(***************************************************************************)
(* The single-value register of crates/db/src/register.rs: the durable     *)
(* Acceptor of each candidate holder, the owner's commit and the phase one *)
(* of a new owner, with the holder's handlers of crates/server/src/fleet.rs*)
(* around them (the compaction of a single-value register on acceptance,   *)
(* the acknowledgements merged over the owner's rounds).                   *)
(*                                                                         *)
(* The configuration is reduced to what an acceptor sees of it: the n-th   *)
(* tenure has its own owner, generation and host epoch, all written n.     *)
(* Every round reaches an arbitrary set of candidates, so lost messages,   *)
(* partitions and holders that lag behind the configuration are covered,   *)
(* and a superseded owner goes on writing for ever.                        *)
(***************************************************************************)
EXTENDS Cohort

CONSTANT MaxPosition  \* bound on an owner's positions, for model checking

ASSUME PositionAssumption == MaxPosition \in Nat

Tenure == FirstEpoch .. LastEpoch
Sequence == 0 .. MaxPosition
\* A value is named by the tenure that wrote it and the position it wrote it at.
Value == Tenure \X Sequence
Accepted == [sequence : Sequence, epoch : Tenure, value : Value]
ShippedHead == [sequence : Sequence, value : Value]

VARIABLES
  installed,  \* installed[c]: the generation of holder c's authority
  fence,      \* fence[c]: the highest epoch holder c promised or accepted under
  accepted,   \* accepted[c]: the positions holder c holds
  tenure,     \* the newest tenure the configuration has named
  head,       \* head[t]: the record tenure t ships
  serving,    \* the tenures whose owner has completed its adoption
  promised,   \* promised[t]: the candidates whose promises made tenure t
  base,       \* base[t]: the record tenure t adopted
  acked       \* history: the <<holder, record>> acknowledgements given

vars == <<installed, fence, accepted, tenure, head, serving, promised, base, acked>>
-----------------------------------------------------------------------------
\* Mutants: a check of the position alone, a quorum of f.
CheckPosition(c, t, r) ==
  \A s \in accepted[c] : s.sequence = r.sequence => s.value = r.value
QuorumShort(s) == Cardinality(s) >= F

\* Quorum::committed over distinct acknowledgements.
IsQuorum(s) == Cardinality(s) >= F + 1

\* Accepted::newer_than, or equal: by position, then epoch.
NoOlder(r, s) ==
  \/ r.sequence > s.sequence
  \/ r.sequence = s.sequence /\ r.epoch >= s.epoch

\* Acceptor::check: the authority's generation and owner, the fence, the position.
Check(c, t, r) ==
  /\ installed[c] = t
  /\ t >= fence[c]
  /\ \A s \in accepted[c] : s.sequence = r.sequence => s.value = r.value

\* What holder c holds once it has accepted r: Acceptor::accept stores r at its
\* position, compact_below drops the positions below it.
Holding(c, r) == {s \in accepted[c] : s.sequence > r.sequence} \union {r}

\* The record of tenure t's head, written under the tenure's epoch.
RecordOf(t) == [sequence |-> head[t].sequence, epoch |-> t, value |-> head[t].value]

\* Acceptor::prepare: the highest position held.
IsHighest(c, r) == r \in accepted[c] /\ \A s \in accepted[c] : NoOlder(r, s)

HoldersOf(r) == {c \in Candidate : <<c, r>> \in acked}
Committed(r) == IsQuorum(HoldersOf(r))
-----------------------------------------------------------------------------
Init ==
  /\ installed = [c \in Candidate |-> FirstEpoch]
  /\ fence = [c \in Candidate |-> FirstEpoch]
  /\ accepted = [c \in Candidate |-> {}]
  /\ tenure = FirstEpoch
  /\ head = [t \in {FirstEpoch} |-> [sequence |-> 0, value |-> <<FirstEpoch, 0>>]]
  /\ serving = {FirstEpoch}
  /\ promised = [t \in {} |-> {}]
  /\ base = [t \in {} |-> {}]
  /\ acked = {}

\* A snapshot sealed at tenure t's owner: the head it ships moves to the next
\* sequence, placed or not.
Seal(t) ==
  /\ t \in serving
  /\ head[t].sequence < MaxPosition
  /\ head' = [head EXCEPT ![t] = [sequence |-> @.sequence + 1,
                                  value |-> <<t, @.sequence + 1>>]]
  /\ UNCHANGED <<installed, fence, accepted, tenure, serving, promised, base, acked>>

\* commit_over_holders: tenure t's head delivered to the candidates in reach, each
\* through its acceptor.  An adoption the round commits puts the owner in service.
Ship(t, reach) ==
  LET r    == RecordOf(t)
      took == {c \in reach : Check(c, t, r)}
  IN  /\ fence' = [c \in Candidate |-> IF c \in took THEN t ELSE fence[c]]
      /\ accepted' = [c \in Candidate |-> IF c \in took THEN Holding(c, r) ELSE accepted[c]]
      /\ acked' = acked \union (took \X {r})
      /\ serving' = IF IsQuorum(took) THEN serving \union {t} ELSE serving
      /\ UNCHANGED <<installed, tenure, head, promised, base>>

\* The configuration retires the owner and names the next one.
TakeOver ==
  /\ tenure < LastEpoch
  /\ tenure' = tenure + 1
  /\ UNCHANGED <<installed, fence, accepted, head, serving, promised, base, acked>>

\* Acceptor::install_authority: a holder follows the configuration; never back.
InstallAuthority(c, t) ==
  /\ t <= tenure
  /\ t >= installed[c]
  /\ installed' = [installed EXCEPT ![c] = t]
  /\ UNCHANGED <<fence, accepted, tenure, head, serving, promised, base, acked>>

\* promote_over_holders and adoption_record: phase one of tenure t at the candidates
\* in reach.  Each that is under t's authority and not fenced above raises its fence
\* and reports its highest record; from f+1 promises the newest report is adopted.
Promote(t, reach) ==
  LET promising == {c \in reach : installed[c] = t /\ t >= fence[c]}
      Raise == fence' = [c \in Candidate |-> IF c \in promising THEN t ELSE fence[c]]
  IN  /\ t <= tenure /\ t \notin DOMAIN head
      /\ Raise
      /\ \/ /\ IsQuorum(promising)
            /\ \E c \in promising, r \in Accepted :
                 /\ IsHighest(c, r)
                 /\ \A d \in promising : \A s \in accepted[d] : NoOlder(r, s)
                 /\ head' = [u \in DOMAIN head \union {t} |->
                               IF u = t THEN [sequence |-> r.sequence, value |-> r.value]
                               ELSE head[u]]
                 /\ base' = [u \in DOMAIN base \union {t} |-> IF u = t THEN r ELSE base[u]]
            /\ promised' = [u \in DOMAIN promised \union {t} |->
                              IF u = t THEN promising ELSE promised[u]]
         \/ /\ ~IsQuorum(promising) \/ \A c \in promising : accepted[c] = {}
            /\ UNCHANGED <<head, base, promised>>
      /\ UNCHANGED <<installed, accepted, tenure, serving, acked>>

Next ==
  \/ \E t \in DOMAIN head : Seal(t)
  \/ \E t \in DOMAIN head, reach \in SUBSET Candidate : Ship(t, reach)
  \/ TakeOver
  \/ \E c \in Candidate, t \in Tenure : InstallAuthority(c, t)
  \/ \E t \in Tenure, reach \in SUBSET Candidate : Promote(t, reach)

Spec == Init /\ [][Next]_vars
-----------------------------------------------------------------------------
TypeOK ==
  /\ installed \in [Candidate -> Tenure]
  /\ fence \in [Candidate -> Tenure]
  /\ accepted \in [Candidate -> SUBSET Accepted]
  /\ tenure \in Tenure
  /\ DOMAIN head \subseteq Tenure
  /\ head \in [DOMAIN head -> ShippedHead]
  /\ serving \subseteq DOMAIN head
  /\ DOMAIN base \subseteq Tenure
  /\ base \in [DOMAIN base -> Accepted]
  /\ promised \in [DOMAIN base -> SUBSET Candidate]
  /\ acked \subseteq (Candidate \X Accepted)

\* "adopted is then at least as new as anything that ever committed under the old
\* epoch" (register.rs:1703): in phase one's order, whichever f+1 holders answered,
\* and for the records completed after the promotion too.
AdoptsTheNewest ==
  \A t \in DOMAIN base, a \in acked :
    a[2].epoch < t /\ Committed(a[2]) => NoOlder(base[t], a[2])

\* "a committed position is never rewritten differently" (register.rs:917): two
\* commits at one position, under whatever tenures, are of one value.
PositionsAgree ==
  \A a, b \in acked :
    a[2].sequence = b[2].sequence /\ Committed(a[2]) /\ Committed(b[2])
      => a[2].value = b[2].value
=============================================================================
