--------------------------- MODULE RegisterProofs ---------------------------
(***************************************************************************)
(* Proofs about the fenced registers: the register (Register), the metadata *)
(* ledger (Ledger), the change of a holder set (Reconfig) and the lease of  *)
(* an owner (Lease), each for every value of its constants.                 *)
(***************************************************************************)
EXTENDS Register, Ledger, Reconfig, Lease, FiniteSetTheorems, TLAPS

\* Zenon proves a leaf, but where it names the SMT solver.
USE ZenonT(20)

(***************************************************************************)
(* Proofs about Register for every set of candidates, every f and every    *)
(* bound: phase one adopts a record no older than any that commits, and a  *)
(* committed position is never rewritten differently.                      *)
(*                                                                         *)
(* The inductive invariant follows the acknowledgements.  A holder keeps a *)
(* record no older than each it acknowledged (Kept), under the tenure that *)
(* wrote it (Written), at or above the record that tenure adopted (Above). *)
(* A promotion's f+1 holders stay fenced at its epoch (Fenced), so what    *)
(* they acknowledged of earlier tenures is what they reported (Met).  A    *)
(* record acknowledged by some promiser of every later tenure up to t (the *)
(* only records that can commit) agrees with what t adopted (Agree).       *)
(***************************************************************************)

Owners == DOMAIN head = DOMAIN base \union {FirstEpoch} /\ FirstEpoch \notin DOMAIN base

Kept ==
  /\ \A c \in Candidate : \A s \in accepted[c] : <<c, s>> \in acked
  /\ \A c \in Candidate, r \in Accepted : <<c, r>> \in acked =>
       /\ r.epoch <= fence[c]
       /\ \E s \in accepted[c] : NoOlder(s, r)

Written ==
  \A c \in Candidate, r \in Accepted : <<c, r>> \in acked =>
    /\ r.epoch \in DOMAIN head
    /\ r.sequence <= head[r.epoch].sequence
    /\ r.sequence = head[r.epoch].sequence => r.value = head[r.epoch].value

OnePosition ==
  \A c, d \in Candidate, r, s \in Accepted :
    <<c, r>> \in acked /\ <<d, s>> \in acked /\ r.sequence = s.sequence /\ r.epoch = s.epoch
      => r.value = s.value

Above ==
  /\ \A t \in DOMAIN base :
       /\ base[t].sequence <= head[t].sequence
       /\ base[t].sequence = head[t].sequence => base[t].value = head[t].value
  /\ \A c \in Candidate, r \in Accepted : <<c, r>> \in acked /\ r.epoch \in DOMAIN base =>
       /\ base[r.epoch].sequence <= r.sequence
       /\ base[r.epoch].sequence = r.sequence => base[r.epoch].value = r.value

Fenced ==
  \A t \in DOMAIN base : IsQuorum(promised[t]) /\ \A c \in promised[t] : fence[c] >= t

Met ==
  \A t \in DOMAIN base : \A c \in promised[t], r \in Accepted :
    <<c, r>> \in acked /\ r.epoch < t => NoOlder(base[t], r)

\* Some promiser of every tenure after r's, up to t, acknowledged r.
Contender(r, t) ==
  \A u \in DOMAIN base : r.epoch < u /\ u <= t => \E c \in promised[u] : <<c, r>> \in acked

Agree ==
  \A t \in DOMAIN base, r \in Accepted :
    r.epoch < t /\ Contender(r, t) /\ base[t].sequence = r.sequence
      => base[t].value = r.value

RegisterInv == TypeOK /\ Owners /\ Kept /\ Written /\ OnePosition /\ Above /\ Fenced /\ Met /\ Agree
-----------------------------------------------------------------------------
(* Any two sets of f+1 of the at most 2f+1 candidates share one: the        *)
(* intersection Promotion::promoted rests on.                               *)
LEMMA QuorumsMeet ==
  ASSUME NEW q \in SUBSET Candidate, NEW r \in SUBSET Candidate, IsQuorum(q), IsQuorum(r)
  PROVE  \E c \in Candidate : c \in q /\ c \in r
<1>1. /\ IsFiniteSet(q) /\ IsFiniteSet(r) /\ IsFiniteSet(q \union r)
      /\ Cardinality(q \union r) <= Cardinality(Candidate)
  <2>1. IsFiniteSet(q) /\ IsFiniteSet(r)
    BY QuorumAssumption, FS_Subset
  <2>2. q \union r \subseteq Candidate
    OBVIOUS
  <2> QED BY <2>1, <2>2, QuorumAssumption, FS_Subset
<1>2. Cardinality(q \union r) = Cardinality(q) + Cardinality(r) - Cardinality(q \cap r)
  BY <1>1, FS_Union
<1>3. CASE q \cap r = {}
  <2>1. Cardinality(q \cap r) = 0
    BY <1>3, FS_EmptySet
  <2>2. /\ Cardinality(q) \in Nat /\ Cardinality(r) \in Nat
        /\ Cardinality(q \union r) \in Nat /\ Cardinality(Candidate) \in Nat
    BY <1>1, QuorumAssumption, FS_CardinalityType
  <2> QED BY SMTT(60), <1>1, <1>2, <2>1, <2>2, QuorumAssumption DEF IsQuorum
<1>4. CASE q \cap r # {}
  BY <1>4
<1> QED BY <1>3, <1>4

(* The order of phase one (Accepted::newer_than) is transitive.             *)
LEMMA NoOlderTrans ==
  ASSUME NEW p \in Accepted, NEW q \in Accepted, NEW r \in Accepted,
         NoOlder(p, q), NoOlder(q, r)
  PROVE  NoOlder(p, r)
BY SMTT(60), EpochAssumption, PositionAssumption DEF NoOlder, Accepted, Sequence, Tenure, FirstEpoch

(* A fresh register (Acceptor::new at every candidate) satisfies it all.    *)
LEMMA InitRegisterInv == Init => RegisterInv
<1> SUFFICES ASSUME Init PROVE RegisterInv
  OBVIOUS
<1> USE EpochAssumption, PositionAssumption DEF Init, FirstEpoch
<1>1. TypeOK
  BY SMTT(60) DEF TypeOK, Tenure, Sequence, Value, Accepted, ShippedHead
<1>2. Owners
  BY DEF Owners
<1>3. Kept /\ Written /\ OnePosition /\ Above /\ Fenced /\ Met /\ Agree
  BY DEF Kept, Written, OnePosition, Above, Fenced, Met, Agree
<1> QED BY <1>1, <1>2, <1>3 DEF RegisterInv

(* A seal at an owner moves its head up and nothing else.                   *)
LEMMA SealKeepsRegisterInv ==
  ASSUME RegisterInv, NEW t \in DOMAIN head, Seal(t)
  PROVE  RegisterInv'
<1> USE EpochAssumption, PositionAssumption DEF RegisterInv
<1>1. /\ t \in Tenure /\ head[t] \in ShippedHead
      /\ head[t].sequence \in 0 .. MaxPosition - 1
      /\ DOMAIN head' = DOMAIN head
      /\ head'[t] = [sequence |-> head[t].sequence + 1, value |-> <<t, head[t].sequence + 1>>]
      /\ \A u \in DOMAIN head : u # t => head'[u] = head[u]
  BY SMTT(60) DEF Seal, TypeOK, ShippedHead, Sequence
<1>2. head'[t] \in ShippedHead
  BY SMTT(60), <1>1 DEF ShippedHead, Sequence, Value
<1>3. /\ UNCHANGED <<installed, fence, accepted, tenure, serving, promised, base, acked>>
  BY DEF Seal
<1>4. \A u \in DOMAIN head : head[u].sequence <= head'[u].sequence
                             /\ head[u].sequence \in Nat /\ head'[u].sequence \in Nat
                             /\ (head[u].sequence = head'[u].sequence => head'[u].value = head[u].value)
  BY SMTT(60), <1>1, <1>2 DEF TypeOK, ShippedHead, Sequence
<1>5. TypeOK'
  <2>1. head' \in [DOMAIN head' -> ShippedHead]
    BY <1>1, <1>2 DEF TypeOK, Seal
  <2> QED BY <2>1, <1>1, <1>3 DEF TypeOK
<1>6. Owners' /\ Kept' /\ OnePosition' /\ Fenced' /\ Met'
  BY SMTT(60), <1>1, <1>3 DEF Owners, Kept, OnePosition, Fenced, Met
<1>7. Written'
  <2> SUFFICES ASSUME NEW c \in Candidate, NEW r \in Accepted, <<c, r>> \in acked
      PROVE  /\ r.epoch \in DOMAIN head'
             /\ r.sequence <= head'[r.epoch].sequence
             /\ r.sequence = head'[r.epoch].sequence => r.value = head'[r.epoch].value
    BY <1>3 DEF Written
  <2>1. /\ r.epoch \in DOMAIN head /\ r.sequence \in Nat
        /\ r.sequence <= head[r.epoch].sequence
        /\ r.sequence = head[r.epoch].sequence => r.value = head[r.epoch].value
    BY SMTT(60) DEF Written, Accepted, Sequence
  <2> QED BY SMTT(60), <2>1, <1>1, <1>4
<1>8. Above'
  <2> SUFFICES ASSUME NEW u \in DOMAIN base
      PROVE  /\ base[u].sequence <= head'[u].sequence
             /\ base[u].sequence = head'[u].sequence => base[u].value = head'[u].value
    BY <1>3 DEF Above
  <2>1. /\ u \in DOMAIN head /\ base[u].sequence \in Nat
        /\ base[u].sequence <= head[u].sequence
        /\ base[u].sequence = head[u].sequence => base[u].value = head[u].value
    BY SMTT(60) DEF Above, Owners, TypeOK, Accepted, Sequence
  <2> QED BY SMTT(60), <2>1, <1>4
<1>9. Agree'
  BY <1>3 DEF Agree, Contender
<1> QED BY <1>5, <1>6, <1>7, <1>8, <1>9 DEF RegisterInv

(* A head shipped to any candidates (commit_over_holders): a holder that    *)
(* takes it is not fenced above its epoch, so it promised no later tenure.  *)
LEMMA ShipKeepsRegisterInv ==
  ASSUME RegisterInv, NEW t \in DOMAIN head, NEW reach \in SUBSET Candidate, Ship(t, reach)
  PROVE  RegisterInv'
<1> DEFINE r == RecordOf(t)
           took == {c \in reach : Check(c, t, r)}
<1> USE EpochAssumption, PositionAssumption DEF RegisterInv
<1>1. /\ t \in Tenure /\ r \in Accepted
      /\ r.epoch = t /\ r.sequence = head[t].sequence /\ r.value = head[t].value
  BY DEF TypeOK, ShippedHead, Accepted, RecordOf
<1>2. took \subseteq Candidate /\ \A c \in took : fence[c] <= t
  BY DEF Check, TypeOK, Tenure, FirstEpoch
<1>3. /\ fence' = [c \in Candidate |-> IF c \in took THEN t ELSE fence[c]]
      /\ accepted' = [c \in Candidate |-> IF c \in took THEN Holding(c, r) ELSE accepted[c]]
      /\ acked' = acked \union (took \X {r})
      /\ serving' \subseteq serving \union {t}
      /\ UNCHANGED <<installed, tenure, head, promised, base>>
  BY DEF Ship
<1> HIDE DEF r, took
<1>4. \A c \in Candidate, s \in Accepted :
        <<c, s>> \in acked' <=> <<c, s>> \in acked \/ (c \in took /\ s = r)
  BY <1>3
<1>5. \A c \in Candidate : fence[c] \in Nat /\ fence'[c] \in Nat /\ fence[c] <= fence'[c]
  BY SMTT(60), <1>1, <1>2, <1>3 DEF TypeOK, Tenure, FirstEpoch
<1>6. \A c \in Candidate : Holding(c, r) \in SUBSET Accepted
  BY <1>1 DEF TypeOK, Holding
<1>7. TypeOK'
  <2>1. fence' \in [Candidate -> Tenure] /\ accepted' \in [Candidate -> SUBSET Accepted]
    BY <1>1, <1>3, <1>6 DEF TypeOK
  <2>2. acked' \subseteq (Candidate \X Accepted) /\ serving' \subseteq DOMAIN head
    BY <1>1, <1>2, <1>3 DEF TypeOK
  <2> QED BY <2>1, <2>2, <1>3 DEF TypeOK
<1>8. Kept'
  <2>1. ASSUME NEW c \in Candidate, NEW s \in accepted'[c]
        PROVE  <<c, s>> \in acked'
    <3>1. CASE c \in took
      <4>1. s \in accepted[c] \/ s = r
        BY <3>1, <1>3 DEF Holding
      <4> QED BY <4>1, <3>1, <1>3 DEF Kept
    <3>2. CASE c \notin took
      BY <3>2, <1>3 DEF Kept
    <3> QED BY <3>1, <3>2
  <2>2. ASSUME NEW c \in Candidate, NEW s \in Accepted, <<c, s>> \in acked'
        PROVE  s.epoch <= fence'[c] /\ \E w \in accepted'[c] : NoOlder(w, s)
    <3>0. s.epoch \in Nat
      BY SMTT(60) DEF Accepted, Tenure, FirstEpoch
    <3>1. CASE c \in took /\ s = r
      <4>1. r \in accepted'[c] /\ fence'[c] = t
        BY <3>1, <1>3 DEF Holding
      <4>2. NoOlder(r, s)
        BY SMTT(60), <3>1, <1>1 DEF NoOlder, Accepted, Tenure, FirstEpoch
      <4> QED BY SMTT(60), <4>1, <4>2, <3>1, <1>1 DEF Tenure, FirstEpoch
    <3>2. CASE <<c, s>> \in acked
      <4>1. s.epoch <= fence[c] /\ \E w \in accepted[c] : NoOlder(w, s)
        BY <3>2 DEF Kept
      <4>2. PICK w \in accepted[c] : NoOlder(w, s)
        BY <4>1
      <4>3. w \in Accepted /\ <<c, w>> \in acked
        BY DEF TypeOK, Kept
      <4>4. CASE c \in took
        <5>1. CASE w.sequence > r.sequence
          <6>1. w \in accepted'[c]
            BY <4>4, <5>1, <1>3 DEF Holding
          <6> QED BY SMTT(60), <6>1, <4>1, <4>2, <1>5, <3>0
        <5>2. CASE ~(w.sequence > r.sequence)
          <6>1. r \in accepted'[c]
            BY <4>4, <1>3 DEF Holding
          <6>2. w.epoch <= fence[c] /\ fence[c] <= t
            BY <4>3, <4>4, <1>2 DEF Kept
          <6>3. NoOlder(r, w)
            BY SMTT(60), <6>2, <5>2, <4>3, <1>1, <1>5 DEF NoOlder, Accepted, Sequence, Tenure, FirstEpoch
          <6>4. NoOlder(r, s)
            BY <6>3, <4>2, <4>3, <1>1, NoOlderTrans
          <6> QED BY SMTT(60), <6>1, <6>4, <4>1, <1>5, <3>0
        <5> QED BY <5>1, <5>2
      <4>5. CASE c \notin took
        <5>1. accepted'[c] = accepted[c]
          BY <4>5, <1>3
        <5> QED BY SMTT(60), <5>1, <4>1, <1>5, <3>0
      <4> QED BY <4>4, <4>5
    <3> QED BY <3>1, <3>2, <2>2, <1>4
  <2> QED BY <2>1, <2>2 DEF Kept
<1>9. Owners'
  BY <1>3 DEF Owners
<1>10. Written'
  <2> SUFFICES ASSUME NEW c \in Candidate, NEW s \in Accepted, <<c, s>> \in acked'
      PROVE  /\ s.epoch \in DOMAIN head
             /\ s.sequence <= head[s.epoch].sequence
             /\ s.sequence = head[s.epoch].sequence => s.value = head[s.epoch].value
    BY <1>3 DEF Written
  <2>1. CASE <<c, s>> \in acked
    BY <2>1 DEF Written
  <2>2. CASE s = r
    BY SMTT(60), <2>2, <1>1 DEF TypeOK, ShippedHead, Sequence
  <2> QED BY <2>1, <2>2, <1>4
<1>11. OnePosition'
  <2>1. ASSUME NEW c \in Candidate, NEW s \in Accepted, <<c, s>> \in acked,
               s.sequence = r.sequence, s.epoch = r.epoch
        PROVE  s.value = r.value
    BY <2>1, <1>1 DEF Written
  <2> SUFFICES ASSUME NEW c \in Candidate, NEW d \in Candidate, NEW s \in Accepted, NEW w \in Accepted,
                      <<c, s>> \in acked', <<d, w>> \in acked',
                      s.sequence = w.sequence, s.epoch = w.epoch
      PROVE  s.value = w.value
    BY SMTT(60) DEF OnePosition
  <2>2. (<<c, s>> \in acked \/ s = r) /\ (<<d, w>> \in acked \/ w = r)
    BY <1>4
  <2> QED BY SMTT(60), <2>1, <2>2 DEF OnePosition
<1>12. Above'
  <2> SUFFICES ASSUME NEW c \in Candidate, NEW s \in Accepted, <<c, s>> \in acked',
                      s.epoch \in DOMAIN base
      PROVE  /\ base[s.epoch].sequence <= s.sequence
             /\ base[s.epoch].sequence = s.sequence => base[s.epoch].value = s.value
    BY <1>3 DEF Above
  <2>1. CASE <<c, s>> \in acked
    BY <2>1 DEF Above
  <2>2. CASE s = r
    BY <2>2, <1>1 DEF Above
  <2> QED BY <2>1, <2>2, <1>4
<1>13. Fenced'
  <2> SUFFICES ASSUME NEW u \in DOMAIN base, NEW c \in promised[u]
      PROVE  fence'[c] >= u
    BY <1>3 DEF Fenced
  <2>1. c \in Candidate /\ u \in Nat /\ fence[c] >= u
    BY SMTT(60) DEF Fenced, TypeOK, Tenure, FirstEpoch
  <2> QED BY SMTT(60), <2>1, <1>5
<1>14. ASSUME NEW u \in DOMAIN base, NEW c \in promised[u], NEW s \in Accepted,
              <<c, s>> \in acked', s.epoch < u
       PROVE  <<c, s>> \in acked
  <2>1. c \in Candidate /\ u \in Nat /\ fence[c] >= u
    BY SMTT(60) DEF Fenced, TypeOK, Tenure, FirstEpoch
  <2>2. CASE c \in took /\ s = r
    BY SMTT(60), <2>1, <2>2, <1>1, <1>2, <1>5, <1>14 DEF Tenure, FirstEpoch
  <2> QED BY <2>1, <2>2, <1>4, <1>14
<1>15. Met'
  BY <1>3, <1>14 DEF Met
<1>16. Agree'
  <2> SUFFICES ASSUME NEW u \in DOMAIN base, NEW s \in Accepted,
                      s.epoch < u, Contender(s, u)', base[u].sequence = s.sequence
      PROVE  base[u].value = s.value
    BY <1>3 DEF Agree
  <2>1. Contender(s, u)
    BY <1>3, <1>14 DEF Contender
  <2> QED BY <2>1 DEF Agree
<1> QED BY <1>7, <1>8, <1>9, <1>10, <1>11, <1>12, <1>13, <1>15, <1>16 DEF RegisterInv

(* Raising fences (a phase one short of its quorum), naming an owner and     *)
(* installing an authority disturb nothing: only records carry the argument. *)
LEMMA RaiseKeepsRegisterInv ==
  ASSUME RegisterInv, installed' \in [Candidate -> Tenure], tenure' \in Tenure,
         fence' \in [Candidate -> Tenure], \A c \in Candidate : fence'[c] >= fence[c],
         UNCHANGED <<accepted, head, serving, promised, base, acked>>
  PROVE  RegisterInv'
<1> USE EpochAssumption, PositionAssumption DEF RegisterInv
<1>1. TypeOK' /\ Owners' /\ Written' /\ OnePosition' /\ Above' /\ Met'
  BY SMTT(60) DEF TypeOK, Owners, Written, OnePosition, Above, Met
<1>2. \A c \in Candidate : fence[c] \in Nat /\ fence'[c] \in Nat
  BY SMTT(60) DEF TypeOK, Tenure, FirstEpoch
<1>3. Kept'
  <2>1. \A s \in Accepted : s.epoch \in Nat
    BY SMTT(60) DEF Accepted, Tenure, FirstEpoch
  <2> QED BY SMTT(60), <1>2, <2>1 DEF Kept
<1>4. Fenced'
  <2> SUFFICES ASSUME NEW u \in DOMAIN base, NEW c \in promised[u]
      PROVE  fence'[c] >= u
    BY DEF Fenced
  <2>1. c \in Candidate /\ u \in Nat /\ fence[c] >= u
    BY SMTT(60) DEF Fenced, TypeOK, Tenure, FirstEpoch
  <2> QED BY SMTT(60), <2>1, <1>2
<1>5. Agree'
  BY DEF Agree, Contender
<1> QED BY <1>1, <1>3, <1>4, <1>5

(* A phase one with its quorum (promote_over_holders): its promisers meet   *)
(* the quorum of every earlier promotion and of every commit.               *)
LEMMA AdoptionKeepsRegisterInv ==
  ASSUME RegisterInv, NEW t \in Tenure, t \notin DOMAIN head, NEW promising \in SUBSET Candidate,
         IsQuorum(promising), \A c \in promising : fence[c] <= t,
         fence' = [c \in Candidate |-> IF c \in promising THEN t ELSE fence[c]],
         NEW p \in promising, NEW r \in Accepted, r \in accepted[p],
         \A d \in promising : \A s \in accepted[d] : NoOlder(r, s),
         head' = [u \in DOMAIN head \union {t} |->
                    IF u = t THEN [sequence |-> r.sequence, value |-> r.value] ELSE head[u]],
         base' = [u \in DOMAIN base \union {t} |-> IF u = t THEN r ELSE base[u]],
         promised' = [u \in DOMAIN promised \union {t} |->
                        IF u = t THEN promising ELSE promised[u]],
         UNCHANGED <<installed, accepted, tenure, serving, acked>>
  PROVE  RegisterInv'
<1> USE EpochAssumption, PositionAssumption DEF RegisterInv
<1>1. \A c \in Candidate : fence[c] \in Nat /\ fence'[c] \in Nat /\ fence[c] <= fence'[c]
  BY SMTT(60) DEF TypeOK, Tenure, FirstEpoch
<1>2. /\ DOMAIN base \subseteq DOMAIN head /\ DOMAIN promised = DOMAIN base
      /\ t \notin DOMAIN base /\ t # FirstEpoch
  BY DEF Owners, TypeOK
<1>3. /\ DOMAIN head' = DOMAIN head \union {t} /\ DOMAIN base' = DOMAIN base \union {t}
      /\ base'[t] = r /\ promised'[t] = promising
      /\ head'[t].sequence = r.sequence /\ head'[t].value = r.value
      /\ \A u \in DOMAIN head : u # t /\ head'[u] = head[u]
      /\ \A u \in DOMAIN base : u # t /\ base'[u] = base[u] /\ promised'[u] = promised[u]
  BY <1>2
<1>4. ASSUME NEW u \in DOMAIN base
      PROVE  u < t
  <2>1. promised[u] \in SUBSET Candidate /\ IsQuorum(promised[u]) /\ u \in Nat /\ t \in Nat
    BY SMTT(60), <1>2 DEF TypeOK, Fenced, Tenure, FirstEpoch
  <2>2. PICK c \in Candidate : c \in promising /\ c \in promised[u]
    BY <2>1, QuorumsMeet
  <2>3. u <= fence[c] /\ fence[c] <= t
    BY <2>2 DEF Fenced
  <2>4. u # t
    BY <1>2
  <2>5. fence[c] \in Nat
    BY <1>1
  <2> QED BY SMTT(60), <2>1, <2>3, <2>4, <2>5
<1>5. TypeOK'
  <2>1. [sequence |-> r.sequence, value |-> r.value] \in ShippedHead
    BY DEF Accepted, ShippedHead
  <2>2. head' \in [DOMAIN head' -> ShippedHead]
    BY <2>1 DEF TypeOK
  <2>3. /\ base' \in [DOMAIN base' -> Accepted]
        /\ promised' \in [DOMAIN base' -> SUBSET Candidate]
    BY <1>2 DEF TypeOK
  <2>4. fence' \in [Candidate -> Tenure]
    BY DEF TypeOK
  <2> QED BY <2>2, <2>3, <2>4, <1>3 DEF TypeOK
<1>6. Owners'
  BY <1>2, <1>3 DEF Owners
<1>7. Kept'
  <2>1. \A s \in Accepted : s.epoch \in Nat
    BY SMTT(60) DEF Accepted, Tenure, FirstEpoch
  <2> QED BY SMTT(60), <1>1, <2>1 DEF Kept
<1>8. Written'
  BY <1>3 DEF Written
<1>9. OnePosition'
  BY SMTT(60) DEF OnePosition
<1>10. Above'
  <2>1. r.sequence <= r.sequence
    BY SMTT(60) DEF Accepted, Sequence
  <2>2. \A u \in DOMAIN base' : /\ base'[u].sequence <= head'[u].sequence
                                /\ base'[u].sequence = head'[u].sequence => base'[u].value = head'[u].value
    BY <2>1, <1>2, <1>3 DEF Above
  <2>3. ASSUME NEW c \in Candidate, NEW s \in Accepted, <<c, s>> \in acked, s.epoch \in DOMAIN base'
        PROVE  /\ base'[s.epoch].sequence <= s.sequence
               /\ base'[s.epoch].sequence = s.sequence => base'[s.epoch].value = s.value
    <3>1. s.epoch # t
      BY <2>3 DEF Written
    <3> QED BY <2>3, <3>1, <1>3 DEF Above
  <2> QED BY <2>2, <2>3 DEF Above
<1>11. Fenced'
  <2> SUFFICES ASSUME NEW u \in DOMAIN base'
      PROVE  IsQuorum(promised'[u]) /\ \A c \in promised'[u] : fence'[c] >= u
    BY DEF Fenced
  <2>1. CASE u = t
    <3>1. \A c \in promising : fence'[c] = t
      OBVIOUS
    <3> QED BY SMTT(60), <2>1, <3>1, <1>3 DEF Tenure, FirstEpoch
  <2>2. CASE u \in DOMAIN base
    <3>1. \A c \in promised[u] : c \in Candidate /\ fence[c] >= u
      BY <2>2 DEF Fenced, TypeOK
    <3>2. u \in Nat
      BY SMTT(60), <2>2 DEF TypeOK, Tenure, FirstEpoch
    <3>3. \A c \in promised[u] : fence'[c] >= u
      BY SMTT(60), <3>1, <3>2, <1>1
    <3>4. IsQuorum(promised[u]) /\ promised'[u] = promised[u]
      BY <2>2, <1>3 DEF Fenced
    <3> QED BY <3>3, <3>4
  <2> QED BY <2>1, <2>2, <1>3
<1>12. ASSUME NEW c \in promising, NEW s \in Accepted, <<c, s>> \in acked
       PROVE  NoOlder(r, s)
  <2>1. PICK w \in accepted[c] : NoOlder(w, s)
    BY <1>12 DEF Kept
  <2>2. w \in Accepted /\ NoOlder(r, w)
    BY DEF TypeOK
  <2> QED BY <2>1, <2>2, NoOlderTrans
<1>13. Met'
  BY <1>3, <1>12 DEF Met
<1>14. ASSUME NEW s \in Accepted, NEW u \in DOMAIN base, Contender(s, u)'
       PROVE  Contender(s, u)
  BY <1>3, <1>14 DEF Contender
<1>15. ASSUME NEW s \in Accepted, s.epoch < t, Contender(s, t)', r.sequence = s.sequence
       PROVE  r.value = s.value
  <2> DEFINE e == r.epoch
  <2>1. /\ e \in Nat \ {0} /\ s.epoch \in Nat \ {0} /\ r.sequence \in Nat /\ s.sequence \in Nat
        /\ t \in Nat
    BY SMTT(60) DEF Accepted, Tenure, Sequence, FirstEpoch
  <2>2. PICK c \in promising : <<c, s>> \in acked
    <3>1. t \in DOMAIN base' /\ promised'[t] = promising
      BY <1>3
    <3>2. \A u \in DOMAIN base' : s.epoch < u /\ u <= t => \E c \in promised'[u] : <<c, s>> \in acked
      BY <1>15 DEF Contender
    <3>3. s.epoch < t /\ t <= t
      BY SMTT(60), <1>15, <2>1
    <3>4. \E c \in promised'[t] : <<c, s>> \in acked
      BY <3>1, <3>2, <3>3
    <3> QED BY <3>1, <3>4
  <2>3. e >= s.epoch
    BY SMTT(60), <2>1, <2>2, <1>12, <1>15 DEF NoOlder
  <2>4. <<p, r>> \in acked /\ p \in Candidate
    BY DEF Kept
  <2>5. CASE e = s.epoch
    BY SMTT(60), <2>2, <2>4, <2>5, <1>15 DEF OnePosition
  <2>6. CASE e # s.epoch
    <3>1. e \in DOMAIN base /\ s.epoch < e
      BY SMTT(60), <2>1, <2>3, <2>4, <2>6 DEF Written, Owners, FirstEpoch
    <3>2. e < t
      BY <3>1, <1>4
    <3>3. Contender(s, e)
      <4> SUFFICES ASSUME NEW u \in DOMAIN base, s.epoch < u, u <= e
          PROVE  \E d \in promised[u] : <<d, s>> \in acked
        BY DEF Contender
      <4>1. u \in DOMAIN base' /\ u <= t
        BY SMTT(60), <1>3, <1>4 DEF TypeOK, Tenure, FirstEpoch
      <4>2. \E d \in promised'[u] : <<d, s>> \in acked
        <5>1. Contender(s, t)'
          BY <1>15
        <5> QED BY <4>1, <5>1 DEF Contender
      <4>3. promised'[u] = promised[u]
        BY <1>3
      <4> QED BY <4>2, <4>3
    <3>4. PICK d \in promised[e] : <<d, s>> \in acked
      <4>1. e <= e
        BY SMTT(60), <2>1
      <4> QED BY <3>1, <3>3, <4>1 DEF Contender
    <3>5. NoOlder(base[e], s) /\ base[e] \in Accepted
      BY <3>1, <3>4 DEF Met, TypeOK
    <3>6. base[e].sequence >= s.sequence /\ base[e].sequence \in Nat
      BY SMTT(60), <3>5, <2>1 DEF NoOlder, Accepted, Sequence
    <3>7. /\ base[e].sequence <= r.sequence
          /\ base[e].sequence = r.sequence => base[e].value = r.value
      BY <3>1, <2>4 DEF Above
    <3>8. base[e].sequence = r.sequence /\ base[e].sequence = s.sequence
      BY SMTT(60), <3>6, <3>7, <2>1, <1>15
    <3>9. base[e].value = s.value
      BY <3>1, <3>3, <3>8 DEF Agree
    <3> QED BY <3>7, <3>8, <3>9
  <2> QED BY <2>5, <2>6
<1>16. Agree'
  <2> SUFFICES ASSUME NEW u \in DOMAIN base', NEW s \in Accepted,
                      s.epoch < u, Contender(s, u)', base'[u].sequence = s.sequence
      PROVE  base'[u].value = s.value
    BY ZenonT(60) DEF Agree
  <2>1. CASE u = t
    BY <2>1, <1>3, <1>15
  <2>2. CASE u \in DOMAIN base
    BY <2>2, <1>3, <1>14 DEF Agree
  <2> QED BY <2>1, <2>2, <1>3
<1> QED BY <1>5, <1>6, <1>7, <1>8, <1>9, <1>10, <1>11, <1>13, <1>16 DEF RegisterInv

(* Every step of the register keeps the invariant.                          *)
LEMMA NextRegisterInv == RegisterInv /\ [Next]_vars => RegisterInv'
<1> SUFFICES ASSUME RegisterInv, [Next]_vars PROVE RegisterInv'
  OBVIOUS
<1>0. /\ installed \in [Candidate -> Tenure] /\ tenure \in Tenure
      /\ fence \in [Candidate -> Tenure] /\ \A c \in Candidate : fence[c] >= fence[c]
  BY SMTT(60) DEF RegisterInv, TypeOK, Tenure, FirstEpoch
<1>1. CASE \E t \in DOMAIN head : Seal(t)
  BY <1>1, SealKeepsRegisterInv
<1>2. CASE \E t \in DOMAIN head, reach \in SUBSET Candidate : Ship(t, reach)
  BY <1>2, ShipKeepsRegisterInv
<1>3. CASE TakeOver
  <2>1. tenure' \in Tenure
    BY SMTT(60), <1>3, EpochAssumption, PositionAssumption DEF TakeOver, RegisterInv, TypeOK, Tenure, FirstEpoch
  <2> QED BY <2>1, <1>3, <1>0, RaiseKeepsRegisterInv DEF TakeOver
<1>4. CASE \E c \in Candidate, t \in Tenure : InstallAuthority(c, t)
  <2>1. installed' \in [Candidate -> Tenure]
    BY <1>4 DEF InstallAuthority, RegisterInv, TypeOK
  <2> QED BY <2>1, <1>4, <1>0, RaiseKeepsRegisterInv DEF InstallAuthority
<1>5. CASE \E t \in Tenure, reach \in SUBSET Candidate : Promote(t, reach)
  <2> PICK t \in Tenure, reach \in SUBSET Candidate : Promote(t, reach)
    BY <1>5
  <2> DEFINE promising == {c \in reach : installed[c] = t /\ t >= fence[c]}
  <2>1. /\ promising \in SUBSET Candidate
        /\ \A c \in promising : fence[c] <= t
        /\ t \notin DOMAIN head
        /\ fence' = [c \in Candidate |-> IF c \in promising THEN t ELSE fence[c]]
        /\ UNCHANGED <<installed, accepted, tenure, serving, acked>>
    <3>1. \A c \in promising : fence[c] \in Nat /\ t \in Nat /\ t >= fence[c]
      BY SMTT(60) DEF RegisterInv, TypeOK, Tenure, FirstEpoch
    <3> QED BY <3>1 DEF Promote
  <2>2. CASE UNCHANGED <<head, base, promised>>
    <3>1. fence' \in [Candidate -> Tenure]
      BY <2>1 DEF RegisterInv, TypeOK
    <3>2. \A c \in Candidate : fence'[c] >= fence[c]
      BY SMTT(60), <2>1 DEF RegisterInv, TypeOK, Tenure, FirstEpoch
    <3> QED BY <2>1, <2>2, <3>1, <3>2, <1>0, RaiseKeepsRegisterInv
  <2>3. CASE IsQuorum(promising) /\ ~(UNCHANGED <<head, base, promised>>)
    <3>1. PICK p \in promising, r \in Accepted :
            /\ IsHighest(p, r)
            /\ \A d \in promising : \A s \in accepted[d] : NoOlder(r, s)
            /\ head' = [u \in DOMAIN head \union {t} |->
                          IF u = t THEN [sequence |-> r.sequence, value |-> r.value] ELSE head[u]]
            /\ base' = [u \in DOMAIN base \union {t} |-> IF u = t THEN r ELSE base[u]]
            /\ promised' = [u \in DOMAIN promised \union {t} |->
                              IF u = t THEN promising ELSE promised[u]]
      BY <2>3 DEF Promote
    <3>2. r \in accepted[p]
      BY <3>1 DEF IsHighest
    <3> HIDE DEF promising
    <3> QED BY <2>1, <2>3, <3>1, <3>2, AdoptionKeepsRegisterInv
  <2>4. IsQuorum(promising) \/ UNCHANGED <<head, base, promised>>
    BY DEF Promote
  <2> QED BY <2>2, <2>3, <2>4
<1>6. CASE UNCHANGED vars
  BY <1>6, <1>0, RaiseKeepsRegisterInv DEF vars
<1> QED BY <1>1, <1>2, <1>3, <1>4, <1>5, <1>6 DEF Next

(* The inductive invariant holds in every reachable state of the register.  *)
THEOREM RegisterInvariance == Spec => []RegisterInv
<1> QED BY InitRegisterInv, NextRegisterInv, PTL DEF Spec

(* Every variable keeps its type: the acceptors' state is always well formed. *)
THEOREM RegisterTyped == Spec => []TypeOK
<1>1. RegisterInv => TypeOK
  BY DEF RegisterInv
<1> QED BY <1>1, RegisterInvariance, PTL

(* A commit's holders meet the promisers of every later tenure.             *)
LEMMA CommitsContend ==
  ASSUME RegisterInv, NEW r \in Accepted, Committed(r), NEW u \in DOMAIN base
  PROVE  \E c \in promised[u] : <<c, r>> \in acked
<1>1. HoldersOf(r) \in SUBSET Candidate /\ IsQuorum(HoldersOf(r))
  BY DEF Committed, HoldersOf
<1>2. promised[u] \in SUBSET Candidate /\ IsQuorum(promised[u])
  BY DEF RegisterInv, TypeOK, Fenced
<1>3. PICK c \in Candidate : c \in HoldersOf(r) /\ c \in promised[u]
  BY <1>1, <1>2, QuorumsMeet
<1> QED BY <1>3 DEF HoldersOf

(* What promote_over_holders adopts is no older, in phase one's order, than *)
(* any record that commits under an earlier tenure, for every f.            *)
THEOREM NewestAdopted == Spec => []AdoptsTheNewest
<1>1. RegisterInv => AdoptsTheNewest
  <2> SUFFICES ASSUME RegisterInv, NEW t \in DOMAIN base, NEW a \in acked,
                      a[2].epoch < t, Committed(a[2])
      PROVE  NoOlder(base[t], a[2])
    BY DEF AdoptsTheNewest
  <2>1. a[2] \in Accepted
    BY DEF RegisterInv, TypeOK
  <2>2. PICK c \in promised[t] : <<c, a[2]>> \in acked
    BY <2>1, CommitsContend
  <2> QED BY <2>1, <2>2 DEF RegisterInv, Met
<1> QED BY <1>1, RegisterInvariance, PTL

(* Two committed records of one position, the earlier tenure's first.       *)
LEMMA EarlierAgrees ==
  ASSUME RegisterInv, NEW r \in Accepted, NEW s \in Accepted, NEW c \in Candidate, NEW d \in Candidate,
         <<c, r>> \in acked, <<d, s>> \in acked, Committed(r),
         r.sequence = s.sequence, r.epoch < s.epoch
  PROVE  r.value = s.value
<1> DEFINE t == s.epoch
<1>1. /\ r.epoch \in Nat \ {0} /\ t \in Nat \ {0}
      /\ r.sequence \in Nat /\ s.sequence \in Nat
  BY SMTT(60), EpochAssumption, PositionAssumption DEF Accepted, Tenure, Sequence, FirstEpoch
<1>2. t \in DOMAIN base
  BY SMTT(60), <1>1 DEF RegisterInv, Written, Owners, FirstEpoch
<1>3. Contender(r, t)
  BY CommitsContend DEF Contender
<1>4. NoOlder(base[t], r) /\ base[t] \in Accepted
  <2>1. PICK p \in promised[t] : <<p, r>> \in acked
    BY <1>2, CommitsContend
  <2> QED BY <1>2, <2>1 DEF RegisterInv, Met, TypeOK
<1>5. base[t].sequence >= r.sequence /\ base[t].sequence \in Nat
  BY SMTT(60), <1>1, <1>4, EpochAssumption, PositionAssumption DEF NoOlder, Accepted, Sequence
<1>6. /\ base[t].sequence <= s.sequence
      /\ base[t].sequence = s.sequence => base[t].value = s.value
  BY <1>2 DEF RegisterInv, Above
<1>7. base[t].sequence = r.sequence /\ base[t].sequence = s.sequence
  BY SMTT(60), <1>1, <1>5, <1>6
<1>8. base[t].value = r.value
  BY <1>2, <1>3, <1>7 DEF RegisterInv, Agree
<1> QED BY <1>6, <1>7, <1>8

(* A committed position is never rewritten differently, for every f, number *)
(* of takeovers and schedule of lost messages.                              *)
THEOREM PositionsNeverRewritten == Spec => []PositionsAgree
<1>1. RegisterInv => PositionsAgree
  <2> SUFFICES ASSUME RegisterInv, NEW a \in acked, NEW b \in acked,
                      a[2].sequence = b[2].sequence, Committed(a[2]), Committed(b[2])
      PROVE  a[2].value = b[2].value
    BY DEF PositionsAgree
  <2>1. /\ a[1] \in Candidate /\ a[2] \in Accepted /\ a = <<a[1], a[2]>>
        /\ b[1] \in Candidate /\ b[2] \in Accepted /\ b = <<b[1], b[2]>>
    BY SMTT(60) DEF RegisterInv, TypeOK
  <2>2. a[2].epoch \in Nat /\ b[2].epoch \in Nat
    BY SMTT(60), <2>1, EpochAssumption, PositionAssumption DEF Accepted, Tenure, FirstEpoch
  <2>3. CASE a[2].epoch = b[2].epoch
    BY SMTT(60), <2>1, <2>3 DEF RegisterInv, OnePosition
  <2>4. CASE a[2].epoch < b[2].epoch
    BY SMTT(60), <2>1, <2>4, EarlierAgrees
  <2>5. CASE b[2].epoch < a[2].epoch
    BY SMTT(60), <2>1, <2>5, EarlierAgrees
  <2> QED BY SMTT(60), <2>2, <2>3, <2>4, <2>5
<1> QED BY <1>1, RegisterInvariance, PTL

-----------------------------------------------------------------------------
(***************************************************************************)
(* Proofs about Ledger for every set of candidates, every f, every set of  *)
(* identities and every bound: no committed log is ever lost, no           *)
(* superseded owner ever commits, and the code's oracle of what has        *)
(* committed never falls short.                                            *)
(*                                                                         *)
(* The inductive invariant adds three facts to NoLoss.  LogFenced: every      *)
(* owner but the first has f+1 holders fenced at its epoch or above.       *)
(* Offered: a held record is what the owner of its epoch has at that       *)
(* position, and its epoch is not above the holder's fence.  Held: f+1     *)
(* holders keep a record of the committing epoch or above at every         *)
(* position of a committed log.                                            *)
(***************************************************************************)

LogFenced ==
  \A e \in DOMAIN owners : e # FirstEpoch =>
    \E q \in SUBSET Candidate : Acknowledged(q) /\ \A c \in q : seen[c] >= e

Offered ==
  \A c \in Candidate : \A p \in DOMAIN log[c] :
    /\ log[c][p].epoch \in DOMAIN owners
    /\ log[c][p].epoch <= seen[c]
    /\ p \in DOMAIN owners[log[c][p].epoch]
    /\ log[c][p].identity = owners[log[c][p].epoch][p]

HeldBy(q, d, l) ==
  \A c \in q : \A p \in DOMAIN l : p \in DOMAIN log[c] /\ log[c][p].epoch >= d

Held ==
  \A x \in chosen :
    /\ x[1] \in DOMAIN owners
    /\ \E q \in SUBSET Candidate : Acknowledged(q) /\ HeldBy(q, x[1], x[2])

LedgerInv == LedgerTypeOK /\ LogFenced /\ Offered /\ Held /\ NoLoss
-----------------------------------------------------------------------------
(* Any two sets of f+1 of the at most 2f+1 candidates share one: the        *)
(* intersection every argument of ledger.rs rests on (Quorum).              *)
LEMMA LogQuorumsMeet ==
  ASSUME NEW q \in SUBSET Candidate, NEW r \in SUBSET Candidate,
         Acknowledged(q), Acknowledged(r)
  PROVE  \E c \in Candidate : c \in q /\ c \in r
<1>1. /\ IsFiniteSet(q) /\ IsFiniteSet(r) /\ IsFiniteSet(q \union r)
      /\ Cardinality(q \union r) <= Cardinality(Candidate)
  <2>1. IsFiniteSet(q) /\ IsFiniteSet(r)
    BY QuorumAssumption, FS_Subset
  <2>2. q \union r \subseteq Candidate
    OBVIOUS
  <2> QED BY <2>1, <2>2, QuorumAssumption, FS_Subset
<1>2. Cardinality(q \union r) = Cardinality(q) + Cardinality(r) - Cardinality(q \cap r)
  BY <1>1, FS_Union
<1>3. CASE q \cap r = {}
  <2>1. Cardinality(q \cap r) = 0
    BY <1>3, FS_EmptySet
  <2>2. /\ Cardinality(q) \in Nat /\ Cardinality(r) \in Nat
        /\ Cardinality(q \union r) \in Nat /\ Cardinality(Candidate) \in Nat
    BY <1>1, QuorumAssumption, FS_CardinalityType
  <2> QED BY SMTT(60), <1>1, <1>2, <2>1, <2>2, QuorumAssumption DEF Acknowledged
<1>4. CASE q \cap r # {}
  BY <1>4
<1> QED BY <1>3, <1>4

(* A sequence is a function on its indices.                                 *)
LEMMA SequenceIsFunction ==
  ASSUME NEW S, NEW u \in Seq(S)
  PROVE  u \in [1 .. Len(u) -> S]
BY SMTT(60)

(* What membership of Log gives: a sequence of identities within the bound. *)
LEMMA LogFacts ==
  ASSUME NEW l \in Log
  PROVE  /\ l \in Seq(Identity) /\ Len(l) \in 0 .. MaxLength
         /\ DOMAIN l = 1 .. Len(l)
<1>1. PICK n \in 0 .. MaxLength : l \in [1 .. n -> Identity]
  BY DEF Log
<1>2. Len(l) = n /\ l \in Seq(Identity)
  BY SMTT(60), <1>1, EpochAssumption, LengthAssumption
<1> QED BY <1>1, <1>2, EpochAssumption, LengthAssumption

(* Prefixes of logs compose.                                                *)
LEMMA PrefixTrans ==
  ASSUME NEW l \in Log, NEW m \in Log, NEW k \in Log, IsPrefixOf(l, m), IsPrefixOf(m, k)
  PROVE  IsPrefixOf(l, k)
<1>1. Len(l) \in Nat /\ Len(m) \in Nat /\ Len(k) \in Nat
  BY SMTT(60), LogFacts, EpochAssumption, LengthAssumption
<1> QED BY SMTT(60), <1>1 DEF IsPrefixOf

(* The invariant holds initially: nothing is held and nothing has committed. *)
LEMMA InitLedgerInv == LedgerInit => LedgerInv
<1> SUFFICES ASSUME LedgerInit PROVE LedgerInv
  OBVIOUS
<1>1. << >> \in Log /\ FirstEpoch \in Epoch
  <2>1. << >> \in [1 .. 0 -> Identity]
    BY SMTT(60)
  <2> QED BY SMTT(60), <2>1, EpochAssumption, LengthAssumption DEF Log, Epoch, FirstEpoch
<1>2. LedgerTypeOK
  BY SMTT(60), <1>1 DEF LedgerInit, LedgerTypeOK
<1> QED BY SMTT(60), <1>2 DEF LedgerInit, LedgerInv, LogFenced, Offered, Held, NoLoss

(* The holders that accept an offer of a log extending its owner's: they     *)
(* meet no later owner's fencing quorum, so a stale offer never commits.     *)
LEMMA OnlyTheNewestCommits ==
  ASSUME LedgerInv, NEW e \in DOMAIN owners, NEW ackers \in SUBSET Candidate,
         Acknowledged(ackers), \A c \in ackers : Accepts(c, e),
         NEW d \in DOMAIN owners
  PROVE  d <= e
<1> SUFFICES ASSUME e < d PROVE FALSE
  BY SMTT(60) DEF LedgerInv, LedgerTypeOK, Epoch, FirstEpoch
<1>1. e \in Epoch /\ d \in Epoch /\ d # FirstEpoch
  BY SMTT(60), EpochAssumption, LengthAssumption DEF LedgerInv, LedgerTypeOK, Epoch, FirstEpoch
<1>2. PICK q \in SUBSET Candidate : Acknowledged(q) /\ \A c \in q : seen[c] >= d
  BY <1>1 DEF LedgerInv, LogFenced
<1>3. PICK c \in Candidate : c \in q /\ c \in ackers
  BY <1>2, LogQuorumsMeet
<1>4. seen[c] >= d /\ e >= seen[c] /\ seen[c] \in Epoch
  BY <1>2, <1>3 DEF Accepts, LedgerInv, LedgerTypeOK
<1> QED BY SMTT(60), <1>1, <1>4, EpochAssumption, LengthAssumption DEF Epoch, FirstEpoch

(* An offer preserves the invariant: of a log l that extends the log its     *)
(* owner had, and that becomes the owner's log (propose and replicate).      *)
LEMMA OfferKeepsLedgerInv ==
  ASSUME LedgerInv, NEW e \in DOMAIN owners, NEW l \in Log, NEW reach \in SUBSET Candidate,
         IsPrefixOf(owners[e], l), owners' = [owners EXCEPT ![e] = l], Offer(e, l, reach)
  PROVE  LedgerInv'
<1> DEFINE ackers == IF l = << >> THEN {} ELSE {c \in reach : Accepts(c, e)}
<1> USE EpochAssumption, LengthAssumption DEF LedgerInv
<1>0. /\ ackers \in SUBSET Candidate
      /\ \A c \in ackers : Accepts(c, e)
      /\ seen' = [c \in Candidate |-> IF c \in ackers THEN e ELSE seen[c]]
      /\ log' = [c \in Candidate |-> IF c \in ackers THEN Reconcile(e, l) ELSE log[c]]
      /\ chosen' = IF Acknowledged(ackers) THEN chosen \union {<<e, l>>} ELSE chosen
  BY DEF Offer
<1> HIDE DEF ackers
<1>1. /\ DOMAIN owners' = DOMAIN owners
      /\ owners'[e] = l
      /\ \A d \in DOMAIN owners : d # e => owners'[d] = owners[d]
  OBVIOUS
<1>2. e \in Epoch /\ e \in Nat /\ l \in Seq(Identity) /\ Len(l) \in Nat /\ DOMAIN l = 1 .. Len(l)
  BY SMTT(60), LogFacts DEF LedgerTypeOK, Epoch, FirstEpoch
<1>3. \A c \in Candidate : seen'[c] \in Epoch /\ seen'[c] >= seen[c]
  BY SMTT(60), <1>0, <1>2 DEF Accepts, LedgerTypeOK, Epoch, FirstEpoch
<1>4. Reconcile(e, l) \in Seq(Record) /\ DOMAIN Reconcile(e, l) = DOMAIN l
  BY SMTT(60), <1>2 DEF Reconcile, Record
<1>5. LedgerTypeOK'
  <2>1. seen' \in [Candidate -> Epoch]
    BY <1>0, <1>3
  <2>2. log' \in [Candidate -> Seq(Record)]
    BY <1>0, <1>4 DEF LedgerTypeOK
  <2>3. DOMAIN owners' \subseteq Epoch /\ \A d \in DOMAIN owners' : owners'[d] \in Log
    BY <1>1 DEF LedgerTypeOK
  <2>4. chosen' \subseteq (Epoch \X Log)
    BY SMTT(60), <1>0, <1>2 DEF LedgerTypeOK
  <2> QED BY <2>1, <2>2, <2>3, <2>4 DEF LedgerTypeOK, Epoch, FirstEpoch, Log, Record
<1>6. LogFenced'
  <2> SUFFICES ASSUME NEW d \in DOMAIN owners, d # FirstEpoch
               PROVE  \E q \in SUBSET Candidate : Acknowledged(q) /\ \A c \in q : seen'[c] >= d
    BY <1>1 DEF LogFenced, Acknowledged, FirstEpoch
  <2>1. PICK q \in SUBSET Candidate : Acknowledged(q) /\ \A c \in q : seen[c] >= d
    BY DEF LogFenced
  <2>2. \A c \in q : seen'[c] >= d
    BY SMTT(60), <1>3, <2>1 DEF LedgerTypeOK, Epoch, FirstEpoch
  <2> QED BY <2>1, <2>2
<1>7. \A d \in DOMAIN owners : IsPrefixOf(owners[d], owners'[d])
  <2> TAKE d \in DOMAIN owners
  <2>1. Len(owners[d]) \in Nat
    BY SMTT(60), LogFacts DEF LedgerTypeOK
  <2> QED BY SMTT(60), <1>1, <2>1 DEF IsPrefixOf
<1>8. Offered'
  <2> SUFFICES ASSUME NEW c \in Candidate, NEW p \in DOMAIN log'[c]
               PROVE  /\ log'[c][p].epoch \in DOMAIN owners'
                      /\ log'[c][p].epoch <= seen'[c]
                      /\ p \in DOMAIN owners'[log'[c][p].epoch]
                      /\ log'[c][p].identity = owners'[log'[c][p].epoch][p]
    BY DEF Offered
  <2>1. CASE c \in ackers
    <3>1. log'[c] = Reconcile(e, l) /\ seen'[c] = e
      BY <1>0, <2>1
    <3>2. p \in DOMAIN l /\ log'[c][p] = [epoch |-> e, identity |-> l[p]]
      BY <3>1, <1>4 DEF Reconcile
    <3> QED BY SMTT(60), <3>1, <3>2, <1>1, <1>2
  <2>2. CASE c \notin ackers
    <3>1. log'[c] = log[c] /\ seen'[c] = seen[c]
      BY <1>0, <2>2
    <3> DEFINE d == log[c][p].epoch
    <3>2. /\ d \in DOMAIN owners /\ d <= seen[c] /\ p \in DOMAIN owners[d]
          /\ log[c][p].identity = owners[d][p]
      BY <3>1 DEF Offered
    <3>3. IsPrefixOf(owners[d], owners'[d]) /\ owners[d] \in Log /\ owners'[d] \in Log
      BY <1>7, <1>5, <1>1, <3>2 DEF LedgerTypeOK
    <3>4. p \in DOMAIN owners'[d] /\ owners'[d][p] = owners[d][p]
      <4>1. /\ DOMAIN owners[d] = 1 .. Len(owners[d]) /\ Len(owners[d]) \in Nat
            /\ DOMAIN owners'[d] = 1 .. Len(owners'[d]) /\ Len(owners'[d]) \in Nat
        BY SMTT(60), <3>3, LogFacts
      <4> QED BY SMTT(60), <4>1, <3>2, <3>3 DEF IsPrefixOf
    <3> QED BY <3>1, <3>2, <3>4, <1>1
  <2> QED BY <2>1, <2>2
<1>9. Held'
  <2> SUFFICES ASSUME NEW x \in chosen'
               PROVE  /\ x[1] \in DOMAIN owners
                      /\ \E q \in SUBSET Candidate : Acknowledged(q) /\ HeldBy(q, x[1], x[2])'
    BY <1>1 DEF Held, Acknowledged
  <2>1. CASE x \in chosen
    <3>1. PICK q \in SUBSET Candidate : Acknowledged(q) /\ HeldBy(q, x[1], x[2])
      BY <2>1 DEF Held
    <3>2. x[1] \in DOMAIN owners /\ x[1] \in Nat /\ x[2] \in Log
      BY SMTT(60), <2>1 DEF Held, LedgerTypeOK, Epoch, FirstEpoch
    <3>3. ASSUME NEW c \in q, NEW p \in DOMAIN x[2]
          PROVE  p \in DOMAIN log'[c] /\ log'[c][p].epoch >= x[1]
      <4>1. p \in DOMAIN log[c] /\ log[c][p].epoch >= x[1]
        BY <3>1, <3>3 DEF HeldBy
      <4>2. CASE c \in ackers
        <5>1. e >= x[1]
          <6>1. log[c][p].epoch <= seen[c] /\ seen[c] <= e
            BY <4>1, <4>2, <1>0 DEF Offered, Accepts
          <6>2. log[c][p].epoch \in Nat /\ seen[c] \in Nat
            BY SMTT(60), <4>1 DEF Offered, LedgerTypeOK, Epoch, FirstEpoch
          <6> QED BY SMTT(60), <6>1, <6>2, <4>1, <1>2, <3>2
        <5>2. IsPrefixOf(x[2], l)
          BY <2>1, <5>1, <3>2, PrefixTrans DEF NoLoss, LedgerTypeOK
        <5>3. p \in DOMAIN l
          BY SMTT(60), <5>2, <3>2, <1>2, LogFacts DEF IsPrefixOf
        <5>4. log'[c] = Reconcile(e, l)
          BY <1>0, <4>2
        <5> QED BY SMTT(60), <5>1, <5>3, <5>4, <1>4 DEF Reconcile
      <4>3. CASE c \notin ackers
        BY <4>1, <4>3, <1>0
      <4> QED BY <4>2, <4>3
    <3> QED BY <3>1, <3>2, <3>3 DEF HeldBy
  <2>2. CASE x \notin chosen
    <3>1. x = <<e, l>> /\ Acknowledged(ackers)
      BY <2>2, <1>0
    <3>2. ASSUME NEW c \in ackers, NEW p \in DOMAIN l
          PROVE  p \in DOMAIN log'[c] /\ log'[c][p].epoch >= e
      BY SMTT(60), <1>0, <1>2, <3>2 DEF Reconcile
    <3> QED BY <3>1, <3>2, <1>0 DEF HeldBy
  <2> QED BY <2>1, <2>2
<1>10. NoLoss'
  <2> SUFFICES ASSUME NEW x \in chosen', NEW d \in DOMAIN owners, d >= x[1]
               PROVE  IsPrefixOf(x[2], owners'[d])
    BY <1>1 DEF NoLoss
  <2>1. CASE x \in chosen
    <3>1. IsPrefixOf(x[2], owners[d]) /\ IsPrefixOf(owners[d], owners'[d])
      BY <2>1, <1>7 DEF NoLoss
    <3>2. x[2] \in Log /\ owners[d] \in Log /\ owners'[d] \in Log
      BY <2>1, <1>1, <1>5 DEF LedgerTypeOK
    <3> QED BY <3>1, <3>2, PrefixTrans
  <2>2. CASE x \notin chosen
    <3>1. x = <<e, l>> /\ Acknowledged(ackers)
      BY <2>2, <1>0
    <3>2. d <= e
      BY <3>1, <1>0, OnlyTheNewestCommits
    <3>3. d = e
      BY SMTT(60), <3>1, <3>2, <1>2 DEF LedgerTypeOK, Epoch, FirstEpoch
    <3> QED BY SMTT(60), <3>1, <3>3, <1>1, <1>2 DEF IsPrefixOf
  <2> QED BY <2>1, <2>2
<1> QED BY <1>5, <1>6, <1>8, <1>9, <1>10

(* A takeover preserves the invariant: its fencing quorum meets the quorum   *)
(* that keeps each committed log, so adopt reads every committed position    *)
(* and the highest epoch there carries the committed identity.               *)
LEMMA TakeOverKeepsLedgerInv ==
  ASSUME LedgerInv, NEW reach \in SUBSET Candidate, TakeOverLog(reach)
  PROVE  LedgerInv'
<1> USE EpochAssumption, LengthAssumption DEF LedgerInv
<1>0. Acknowledged(reach)
  BY DEF TakeOverLog, Acknowledged
<1>1. PICK top \in FirstEpoch .. (LastEpoch - 1), l \in Log :
        /\ IsHighestEpoch(top)
        /\ IsAdopted(reach, l)
        /\ seen' = [c \in Candidate |-> IF c \in reach THEN top + 1 ELSE seen[c]]
        /\ owners' = [e \in DOMAIN owners \union {top + 1} |->
                        IF e = top + 1 THEN l ELSE owners[e]]
  BY DEF TakeOverLog
<1>2. log' = log /\ chosen' = chosen
  BY DEF TakeOverLog
<1>3. top \in Nat /\ top + 1 \in Epoch /\ top + 1 # FirstEpoch
  BY SMTT(60) DEF Epoch, FirstEpoch
<1>4. \A e \in DOMAIN owners : e \in Nat /\ e <= top
  <2> TAKE e \in DOMAIN owners
  <2>1. e \in Nat
    BY SMTT(60) DEF LedgerTypeOK, Epoch, FirstEpoch
  <2>2. CASE e = FirstEpoch
    BY SMTT(60), <2>1, <2>2, <1>3
  <2>3. CASE e # FirstEpoch
    <3>1. PICK q \in SUBSET Candidate : Acknowledged(q) /\ \A c \in q : seen[c] >= e
      BY <2>3 DEF LogFenced
    <3>2. PICK c \in Candidate : c \in q
      BY <3>1, LogQuorumsMeet
    <3>3. seen[c] >= e /\ seen[c] <= top /\ seen[c] \in Nat
      BY SMTT(60), <3>1, <3>2, <1>1 DEF IsHighestEpoch, LedgerTypeOK, Epoch, FirstEpoch
    <3> QED BY SMTT(60), <2>1, <3>3, <1>3
  <2> QED BY <2>2, <2>3
<1>5. /\ DOMAIN owners' = DOMAIN owners \union {top + 1}
      /\ owners'[top + 1] = l
      /\ \A e \in DOMAIN owners : owners'[e] = owners[e]
  BY SMTT(60), <1>1, <1>3, <1>4
<1>6. \A c \in Candidate : seen'[c] \in Epoch /\ seen'[c] >= seen[c]
  BY SMTT(60), <1>1, <1>3 DEF IsHighestEpoch, LedgerTypeOK, Epoch, FirstEpoch
<1>7. LedgerTypeOK'
  <2>1. seen' \in [Candidate -> Epoch]
    BY <1>1, <1>6
  <2>2. owners' \in [DOMAIN owners' -> Log]
    BY <1>1, <1>5 DEF LedgerTypeOK
  <2>3. DOMAIN owners' \subseteq Epoch
    BY <1>5, <1>3 DEF LedgerTypeOK
  <2> QED BY <2>1, <2>2, <2>3, <1>2 DEF LedgerTypeOK, Epoch, FirstEpoch, Log, Record
<1>8. LogFenced'
  <2> SUFFICES ASSUME NEW e \in DOMAIN owners', e # FirstEpoch
               PROVE  \E q \in SUBSET Candidate : Acknowledged(q) /\ \A c \in q : seen'[c] >= e
    BY DEF LogFenced, Acknowledged, FirstEpoch
  <2>1. CASE e = top + 1
    <3>1. \A c \in reach : seen'[c] >= e
      BY SMTT(60), <2>1, <1>1, <1>3
    <3> QED BY <3>1, <1>0
  <2>2. CASE e \in DOMAIN owners
    <3>1. PICK q \in SUBSET Candidate : Acknowledged(q) /\ \A c \in q : seen[c] >= e
      BY <2>2 DEF LogFenced
    <3>2. \A c \in q : seen'[c] >= e
      BY SMTT(60), <3>1, <2>2, <1>4, <1>6 DEF LedgerTypeOK, Epoch, FirstEpoch
    <3> QED BY <3>1, <3>2
  <2> QED BY <2>1, <2>2, <1>5
<1>9. Offered'
  <2> SUFFICES ASSUME NEW c \in Candidate, NEW p \in DOMAIN log[c]
               PROVE  /\ log[c][p].epoch \in DOMAIN owners'
                      /\ log[c][p].epoch <= seen'[c]
                      /\ p \in DOMAIN owners'[log[c][p].epoch]
                      /\ log[c][p].identity = owners'[log[c][p].epoch][p]
    BY <1>2 DEF Offered
  <2>1. /\ log[c][p].epoch \in DOMAIN owners /\ log[c][p].epoch <= seen[c]
        /\ p \in DOMAIN owners[log[c][p].epoch]
        /\ log[c][p].identity = owners[log[c][p].epoch][p]
    BY DEF Offered
  <2>2. log[c][p].epoch <= seen'[c]
    BY SMTT(60), <2>1, <1>4, <1>6 DEF LedgerTypeOK, Epoch, FirstEpoch
  <2> QED BY <2>1, <2>2, <1>5
<1>10. Held'
  BY <1>2, <1>5 DEF Held, HeldBy, Acknowledged
<1>11. NoLoss'
  <2> SUFFICES ASSUME NEW x \in chosen PROVE IsPrefixOf(x[2], l)
    BY <1>2, <1>5 DEF NoLoss
  <2>1. x[1] \in Nat /\ x[2] \in Log
    BY SMTT(60) DEF LedgerTypeOK, Epoch, FirstEpoch
  <2>2. /\ Len(x[2]) \in Nat /\ DOMAIN x[2] = 1 .. Len(x[2])
        /\ Len(l) \in Nat /\ DOMAIN l = 1 .. Len(l)
    BY SMTT(60), <2>1, LogFacts
  <2>3. PICK q \in SUBSET Candidate : Acknowledged(q) /\ HeldBy(q, x[1], x[2])
    BY DEF Held
  <2>4. PICK c \in Candidate : c \in q /\ c \in reach
    BY <2>3, <1>0, LogQuorumsMeet
  <2>5. ASSUME NEW p \in 1 .. Len(x[2])
        PROVE  p \in DOMAIN l /\ l[p] = x[2][p]
    <3>1. p \in DOMAIN log[c] /\ log[c][p].epoch >= x[1]
      BY <2>2, <2>3, <2>4 DEF HeldBy
    <3>2. p \in DOMAIN l
      <4>1. log[c] \in Seq(Record) /\ Len(log[c]) <= Len(l)
        BY <2>4, <1>1 DEF IsAdopted, LedgerTypeOK
      <4> QED BY SMTT(60), <4>1, <3>1, <2>2
    <3>3. PICK w \in reach : Newest(reach, p, w) /\ l[p] = log[w][p].identity
      BY <3>2, <1>1 DEF IsAdopted
    <3>4. p \in DOMAIN log[w] /\ log[w][p].epoch >= log[c][p].epoch
      BY <3>1, <3>3, <2>4, <1>4 DEF Newest, Offered
    <3> DEFINE d == log[w][p].epoch
    <3>5. d \in DOMAIN owners /\ p \in DOMAIN owners[d] /\ l[p] = owners[d][p]
      BY <3>3, <3>4 DEF Offered
    <3>6. d >= x[1]
      BY SMTT(60), <3>1, <3>4, <3>5, <1>4, <2>1 DEF Offered
    <3>7. IsPrefixOf(x[2], owners[d])
      BY <3>5, <3>6 DEF NoLoss
    <3> QED BY <3>2, <3>5, <3>7 DEF IsPrefixOf
  <2>6. Len(x[2]) <= Len(l)
    <3>1. CASE Len(x[2]) = 0
      BY SMTT(60), <3>1, <2>2
    <3>2. CASE Len(x[2]) # 0
      <4>1. Len(x[2]) \in 1 .. Len(x[2])
        BY SMTT(60), <3>2, <2>2
      <4> QED BY SMTT(60), <4>1, <2>2, <2>5
    <3> QED BY <3>1, <3>2
  <2> QED BY <2>5, <2>6 DEF IsPrefixOf
<1> QED BY <1>7, <1>8, <1>9, <1>10, <1>11

(* Every propose, replicate and take_over keeps the invariant.              *)
LEMMA NextLedgerInv == LedgerInv /\ [LedgerNext]_ledgerVars => LedgerInv'
<1> SUFFICES ASSUME LedgerInv, [LedgerNext]_ledgerVars PROVE LedgerInv'
  OBVIOUS
<1>1. ASSUME NEW reach \in SUBSET Candidate, NEW e \in DOMAIN owners, NEW v \in Identity,
             Propose(e, v, reach)
      PROVE  LedgerInv'
  <2> DEFINE l == Append(owners[e], v)
  <2>1. owners[e] \in Log /\ Len(owners[e]) < MaxLength
    BY <1>1 DEF LedgerInv, LedgerTypeOK, Propose
  <2>2. owners[e] \in Seq(Identity) /\ Len(owners[e]) \in Nat
    BY SMTT(60), <2>1, LogFacts
  <2>3. l \in [1 .. (Len(owners[e]) + 1) -> Identity] /\ Len(owners[e]) + 1 \in 0 .. MaxLength
    <3>1. l \in Seq(Identity) /\ Len(l) = Len(owners[e]) + 1
      BY SMTT(60), <2>2
    <3>2. l \in [1 .. Len(l) -> Identity]
      BY <3>1, SequenceIsFunction
    <3> QED BY SMTT(60), <2>1, <2>2, <3>1, <3>2, EpochAssumption, LengthAssumption
  <2>4. l \in Log /\ IsPrefixOf(owners[e], l)
    BY SMTT(60), <2>2, <2>3 DEF Log, IsPrefixOf
  <2>5. owners' = [owners EXCEPT ![e] = l] /\ Offer(e, l, reach)
    BY <1>1 DEF Propose
  <2> QED BY <2>4, <2>5, OfferKeepsLedgerInv
<1>2. ASSUME NEW reach \in SUBSET Candidate, NEW e \in DOMAIN owners, NEW l \in Log,
             Replicate(e, l, reach)
      PROVE  LedgerInv'
  BY <1>2, OfferKeepsLedgerInv DEF Replicate
<1>3. ASSUME NEW reach \in SUBSET Candidate, TakeOverLog(reach)
      PROVE  LedgerInv'
  BY <1>3, TakeOverKeepsLedgerInv
<1>4. CASE UNCHANGED ledgerVars
  BY <1>4 DEF ledgerVars, LedgerInv, LedgerTypeOK, LogFenced, Offered, Held, HeldBy, NoLoss, Acknowledged
<1> QED BY <1>1, <1>2, <1>3, <1>4 DEF LedgerNext

(* The inductive invariant holds of every state of the ledger.              *)
THEOREM LedgerInvariance == LedgerSpec => []LedgerInv
BY InitLedgerInv, NextLedgerInv, PTL DEF LedgerSpec
-----------------------------------------------------------------------------
(* The ledger's state is well formed in every behaviour (Cohort, Owner).    *)
THEOREM LedgerTyped == LedgerSpec => []LedgerTypeOK
BY LedgerInvariance, PTL DEF LedgerInv

(* NoLoss and TotalOrder of ledger.rs for every f, cohort and schedule.     *)
THEOREM NothingLost == LedgerSpec => []NoLoss
BY LedgerInvariance, PTL DEF LedgerInv

(* Cohort::committed_at reports every committed position, always.           *)
THEOREM OracleIsComplete == LedgerSpec => []OracleComplete
<1>1. LedgerInv => OracleComplete
  <2> SUFFICES ASSUME LedgerInv, NEW x \in chosen, NEW p \in DOMAIN x[2]
               PROVE  Acknowledged({h \in Candidate : p \in DOMAIN log[h]
                                                   /\ log[h][p].identity = x[2][p]})
    BY DEF OracleComplete, CommittedAt
  <2> DEFINE agree == {h \in Candidate : p \in DOMAIN log[h] /\ log[h][p].identity = x[2][p]}
  <2>1. PICK q \in SUBSET Candidate : Acknowledged(q) /\ HeldBy(q, x[1], x[2])
    BY DEF LedgerInv, Held
  <2>2. ASSUME NEW c \in q PROVE c \in agree
    <3> DEFINE d == log[c][p].epoch
    <3>1. p \in DOMAIN log[c] /\ d >= x[1]
      BY <2>1, <2>2 DEF HeldBy
    <3>2. d \in DOMAIN owners /\ log[c][p].identity = owners[d][p]
      BY <2>1, <2>2, <3>1 DEF LedgerInv, Offered
    <3>3. IsPrefixOf(x[2], owners[d])
      BY <3>1, <3>2 DEF LedgerInv, NoLoss
    <3>4. p \in 1 .. Len(x[2])
      BY LogFacts DEF LedgerInv, LedgerTypeOK
    <3> QED BY <2>1, <2>2, <3>1, <3>2, <3>3, <3>4 DEF IsPrefixOf
  <2>3. q \subseteq agree /\ agree \subseteq Candidate
    BY <2>2
  <2> HIDE DEF agree
  <2>4. IsFiniteSet(agree)
    BY <2>3, QuorumAssumption, FS_Subset
  <2>5. IsFiniteSet(q) /\ Cardinality(q) <= Cardinality(agree)
    BY <2>3, <2>4, FS_Subset
  <2>6. Cardinality(q) \in Nat /\ Cardinality(agree) \in Nat
    BY <2>4, <2>5, FS_CardinalityType
  <2>7. Acknowledged(agree)
    BY SMTT(60), <2>1, <2>5, <2>6, QuorumAssumption DEF Acknowledged
  <2> QED BY <2>7 DEF agree
<1> QED BY <1>1, LedgerInvariance, PTL

(* StaleNeverCommits of ledger.rs: a superseded owner commits nothing more. *)
THEOREM StaleOwnersNeverCommit == LedgerSpec => StaleNeverCommits
<1> DEFINE A == \A c \in chosen' \ chosen : \A e \in DOMAIN owners : e <= c[1]
<1>1. ASSUME LedgerInv, NEW e \in DOMAIN owners, NEW l, NEW reach \in SUBSET Candidate,
             Offer(e, l, reach)
      PROVE  A
  <2> SUFFICES ASSUME NEW c \in chosen' \ chosen, NEW d \in DOMAIN owners
               PROVE  d <= c[1]
    OBVIOUS
  <2> DEFINE ackers == IF l = << >> THEN {} ELSE {h \in reach : Accepts(h, e)}
  <2>1. c = <<e, l>> /\ Acknowledged(ackers)
    BY <1>1 DEF Offer
  <2>2. ackers \in SUBSET Candidate /\ \A h \in ackers : Accepts(h, e)
    OBVIOUS
  <2> HIDE DEF ackers
  <2> QED BY <1>1, <2>1, <2>2, OnlyTheNewestCommits
<1>2. LedgerInv /\ [LedgerNext]_ledgerVars => [A]_ledgerVars
  <2> SUFFICES ASSUME LedgerInv, LedgerNext PROVE A
    BY DEF ledgerVars
  <2>1. CASE chosen' = chosen
    BY <2>1
  <2>2. ASSUME NEW reach \in SUBSET Candidate, NEW e \in DOMAIN owners, NEW v \in Identity,
               Propose(e, v, reach)
        PROVE  A
    BY <2>2, <1>1 DEF Propose
  <2>3. ASSUME NEW reach \in SUBSET Candidate, NEW e \in DOMAIN owners, NEW l \in Log,
               Replicate(e, l, reach)
        PROVE  A
    BY <2>3, <1>1 DEF Replicate
  <2> QED BY <2>1, <2>2, <2>3 DEF LedgerNext, TakeOverLog
<1> QED BY <1>2, LedgerInvariance, PTL DEF LedgerSpec, StaleNeverCommits

-----------------------------------------------------------------------------
(* No read majority misses a committed record while the holder set changes,  *)
(* for every pair of finite sets, however they overlap, and every number of  *)
(* records.                                                                  *)

\* What is assumed of the constants.
Finite == IsFiniteSet(Old) /\ IsFiniteSet(New) /\ MaxSeq \in Nat

\* A holder that acknowledged a record stores it or a newer one: an old record is
\* acknowledged over a newer copy, and a transfer stores what it acknowledges.
Backed == \A s \in 1 .. MaxSeq : \A h \in acks[s] : stored[h] >= s

\* What a record that committed under a phase keeps of it: its acknowledgements
\* never go, and a phase never returns.
Lasting ==
  \A x \in placed :
    /\ x[2] = "joint" =>
         /\ MajorityOf(acks[x[1]], Old) /\ MajorityOf(acks[x[1]], New)
    /\ x[2] = "new" => phase = "new" /\ MajorityOf(acks[x[1]], New)

\* The inductive invariant.
ReconfigInv == ReconfigTypeOK /\ Backed /\ Lasting

\* Two majorities of one finite set meet in it.
LEMMA MajoritiesMeet ==
  ASSUME NEW set, IsFiniteSet(set), NEW a, NEW q, MajorityOf(a, set), MajorityOf(q, set)
  PROVE  \E h \in set : h \in a /\ h \in q
<1> DEFINE A == a \intersect set
           Q == q \intersect set
<1>1. IsFiniteSet(A) /\ IsFiniteSet(Q) /\ IsFiniteSet(A \union Q)
  BY FS_Subset, FS_Union
<1>2. /\ Cardinality(A) \in Nat /\ Cardinality(Q) \in Nat
      /\ Cardinality(set) \in Nat /\ Cardinality(A \union Q) \in Nat
  BY <1>1, FS_CardinalityType
<1>3. Cardinality(A \union Q) <= Cardinality(set)
  BY FS_Subset
<1>4. Cardinality(A \union Q) = Cardinality(A) + Cardinality(Q) - Cardinality(A \intersect Q)
  BY <1>1, FS_Union
<1>5. 2 * Cardinality(A) > Cardinality(set) /\ 2 * Cardinality(Q) > Cardinality(set)
  BY DEF MajorityOf
<1>6. A \intersect Q # {}
  <2>1. SUFFICES ASSUME A \intersect Q = {} PROVE FALSE
    OBVIOUS
  <2>2. Cardinality(A \intersect Q) = 0
    BY <2>1, FS_EmptySet
  <2> QED BY SMTT(60), <1>2, <1>3, <1>4, <1>5, <2>2
<1> QED BY <1>6

\* A majority stays one when more holders join it.
LEMMA MajoritiesGrow ==
  ASSUME NEW set, IsFiniteSet(set), NEW a, NEW b, a \subseteq b, MajorityOf(a, set)
  PROVE  MajorityOf(b, set)
<1>1. IsFiniteSet(b \intersect set) /\ IsFiniteSet(a \intersect set)
  BY FS_Subset
<1>2. Cardinality(a \intersect set) <= Cardinality(b \intersect set)
  BY <1>1, FS_Subset
<1>3. /\ Cardinality(a \intersect set) \in Nat /\ Cardinality(b \intersect set) \in Nat
      /\ Cardinality(set) \in Nat
  BY <1>1, FS_CardinalityType
<1> QED BY SMTT(60), <1>2, <1>3 DEF MajorityOf

\* A majority of acknowledgements is seen by every read majority of the same set.
LEMMA Seen ==
  ASSUME Finite, ReconfigInv, NEW s \in 1 .. MaxSeq, NEW set \in {Old, New}, NEW q,
         MajorityOf(acks[s], set), MajorityOf(q, set)
  PROVE  \E h \in q : stored[h] >= s
<1>1. IsFiniteSet(set)
  BY DEF Finite
<1>2. PICK h \in set : h \in acks[s] /\ h \in q
  BY <1>1, MajoritiesMeet
<1> QED BY <1>2 DEF ReconfigInv, Backed

\* The invariant makes every read safe.
LEMMA ReadsFromReconfigInv == ASSUME Finite, ReconfigInv PROVE ReadSafety
<1>1. SUFFICES ASSUME NEW s \in CommittedSeqs, NEW q \in SUBSET Host, ReadQuorum(q)
               PROVE  \E h \in q : stored[h] >= s
  BY DEF ReadSafety
<1>2. s \in 1 .. MaxSeq /\ IsCommitted(s)
  BY SMTT(60), <1>1 DEF CommittedSeqs, Issued, ReconfigInv, ReconfigTypeOK, Finite
<1>3. CASE phase = "old"
  BY <1>1, <1>2, <1>3, Seen DEF IsCommitted, ReadQuorum
<1>4. CASE phase = "joint"
  BY <1>1, <1>2, <1>4, Seen DEF IsCommitted, ReadQuorum
<1>5. CASE phase = "new"
  BY <1>1, <1>2, <1>5, Seen DEF IsCommitted, ReadQuorum
<1> QED BY <1>3, <1>4, <1>5 DEF ReconfigInv, ReconfigTypeOK

\* The invariant keeps a record of the joint or new phase in every read.
LEMMA JointFromReconfigInv == ASSUME Finite, ReconfigInv PROVE JointNeverMissed
<1>1. SUFFICES ASSUME NEW x \in placed, x[2] # "old"
               PROVE  /\ ReadBy(x[1], New)
                      /\ phase = "joint" => ReadBy(x[1], Old)
  BY DEF JointNeverMissed
<1>2. x[1] \in 1 .. MaxSeq /\ x[2] \in {"joint", "new"}
  BY <1>1 DEF ReconfigInv, ReconfigTypeOK
<1>3. /\ MajorityOf(acks[x[1]], New)
      /\ phase = "joint" => MajorityOf(acks[x[1]], Old)
  BY <1>1, <1>2 DEF ReconfigInv, Lasting
<1>4. ReadBy(x[1], New)
  BY <1>2, <1>3, Seen DEF ReadBy
<1>5. phase = "joint" => ReadBy(x[1], Old)
  BY <1>2, <1>3, Seen DEF ReadBy
<1> QED BY <1>4, <1>5
-----------------------------------------------------------------------------
\* What a step keeps of the records that committed before it, and notes of those
\* that are committed after it, whatever else it does: acknowledgements only
\* grow, and the new phase is the last.
LEMMA LastingKept ==
  ASSUME Finite, ReconfigInv, ReconfigTypeOK', NoteCommitted,
         \A s \in 1 .. MaxSeq : acks[s] \subseteq acks'[s],
         phase = "new" => phase' = "new"
  PROVE  Lasting'
<1>1. SUFFICES ASSUME NEW x \in placed'
               PROVE  /\ x[2] = "joint" =>
                           /\ MajorityOf(acks'[x[1]], Old) /\ MajorityOf(acks'[x[1]], New)
                      /\ x[2] = "new" => phase' = "new" /\ MajorityOf(acks'[x[1]], New)
  BY DEF Lasting, MajorityOf
<1>2. IsFiniteSet(Old) /\ IsFiniteSet(New)
  BY DEF Finite
<1>3. CASE x \in placed
  <2>1. x[1] \in 1 .. MaxSeq
    BY <1>3 DEF ReconfigInv, ReconfigTypeOK
  <2>2. acks[x[1]] \subseteq acks'[x[1]]
    BY <2>1
  <2>3. \A set \in {Old, New} : MajorityOf(acks[x[1]], set) => MajorityOf(acks'[x[1]], set)
    BY <1>2, <2>2, MajoritiesGrow
  <2> QED BY <1>3, <2>3 DEF ReconfigInv, Lasting
<1>4. CASE x \notin placed
  <2>1. PICK s \in CommittedSeqs' : x = <<s, phase'>>
    BY <1>1, <1>4 DEF NoteCommitted
  <2>2. IsCommitted(s)'
    BY <2>1 DEF CommittedSeqs
  <2>3. CASE phase' = "joint"
    <3>1. MajorityOf(acks'[s], Old) /\ MajorityOf(acks'[s], New)
      BY <2>2, <2>3 DEF IsCommitted, MajorityOf
    <3> QED BY <2>1, <2>3, <3>1
  <2>4. CASE phase' = "new"
    <3>1. MajorityOf(acks'[s], New)
      BY <2>2, <2>4 DEF IsCommitted, MajorityOf
    <3> QED BY <2>1, <2>4, <3>1
  <2>5. CASE phase' = "old"
    BY <2>1, <2>5
  <2> QED BY <2>3, <2>4, <2>5 DEF ReconfigTypeOK
<1> QED BY <1>3, <1>4

\* The records noted as committed are records that were issued.
LEMMA NotedIsTyped ==
  ASSUME Finite, ReconfigTypeOK, NoteCommitted,
         nextSeq' \in 1 .. (MaxSeq + 1), phase' \in {"old", "joint", "new"}
  PROVE  placed' \subseteq (1 .. MaxSeq) \X {"old", "joint", "new"}
<1>1. CommittedSeqs' \subseteq 1 .. MaxSeq
  BY SMTT(60) DEF CommittedSeqs, Issued, Finite
<1> QED BY SMTT(60), <1>1 DEF NoteCommitted, ReconfigTypeOK

\* The initial state satisfies the invariant.
LEMMA InitReconfigInv == ASSUME Finite, ReconfigInit PROVE ReconfigInv
<1>1. ReconfigTypeOK
  <2>1. stored \in [Host -> 0 .. MaxSeq] /\ acks \in [1 .. MaxSeq -> SUBSET Host]
    BY SMTT(60) DEF Finite, ReconfigInit
  <2>2. nextSeq \in 1 .. (MaxSeq + 1)
    BY SMTT(60) DEF Finite, ReconfigInit
  <2> QED BY <2>1, <2>2 DEF ReconfigInit, ReconfigTypeOK
<1>2. Backed
  BY DEF ReconfigInit, Backed
<1>3. Lasting
  BY DEF ReconfigInit, Lasting
<1> QED BY <1>1, <1>2, <1>3 DEF ReconfigInv

\* Storing record s at holder h and acknowledging it, the effect an accepted
\* write and a transfer share, keeps the types and what backs the records.
LEMMA StoringKeeps ==
  ASSUME Finite, ReconfigInv, NoteCommitted,
         NEW s \in Issued, NEW h \in Host, NEW v \in 0 .. MaxSeq, v >= s, v >= stored[h],
         stored' = [stored EXCEPT ![h] = v],
         acks' = [acks EXCEPT ![s] = @ \union {h}],
         UNCHANGED <<phase, nextSeq, ownerAcked, retiredCommitted>>
  PROVE  ReconfigInv'
<1>1. s \in 1 .. MaxSeq
  BY SMTT(60) DEF Issued, ReconfigInv, ReconfigTypeOK, Finite
<1>2. ReconfigTypeOK'
  <2>1. placed' \subseteq (1 .. MaxSeq) \X {"old", "joint", "new"}
    BY NotedIsTyped DEF ReconfigInv, ReconfigTypeOK
  <2>2. stored' \in [Host -> 0 .. MaxSeq]
    BY DEF ReconfigInv, ReconfigTypeOK
  <2>3. acks' \in [1 .. MaxSeq -> SUBSET Host]
    BY <1>1 DEF ReconfigInv, ReconfigTypeOK
  <2> QED BY <2>1, <2>2, <2>3 DEF ReconfigInv, ReconfigTypeOK
<1>3. Backed'
  <2>1. SUFFICES ASSUME NEW t \in 1 .. MaxSeq, NEW g \in acks'[t] PROVE stored'[g] >= t
    BY DEF Backed
  <2>2. g \in Host
    BY <1>2 DEF ReconfigTypeOK
  <2>3. CASE g = h
    BY SMTT(60), <1>1, <2>1, <2>3 DEF ReconfigInv, ReconfigTypeOK, Backed, Finite
  <2>4. CASE g # h
    BY <1>1, <2>1, <2>2, <2>4 DEF ReconfigInv, ReconfigTypeOK, Backed
  <2> QED BY <2>3, <2>4
<1>4. Lasting'
  <2>1. \A t \in 1 .. MaxSeq : acks[t] \subseteq acks'[t]
    BY <1>1 DEF ReconfigInv, ReconfigTypeOK
  <2> QED BY <1>2, <2>1, LastingKept
<1> QED BY <1>2, <1>3, <1>4 DEF ReconfigInv

\* A step that stores nothing and acknowledges nothing keeps the invariant.
LEMMA IdleKeeps ==
  ASSUME Finite, ReconfigInv, NoteCommitted, UNCHANGED <<stored, acks>>,
         nextSeq' \in 1 .. (MaxSeq + 1), phase' \in {"old", "joint", "new"},
         ownerAcked' \in BOOLEAN, retiredCommitted' \subseteq 1 .. MaxSeq,
         phase = "new" => phase' = "new"
  PROVE  ReconfigInv'
<1>1. ReconfigTypeOK'
  <2>1. placed' \subseteq (1 .. MaxSeq) \X {"old", "joint", "new"}
    BY NotedIsTyped DEF ReconfigInv
  <2> QED BY <2>1 DEF ReconfigInv, ReconfigTypeOK
<1>2. Backed'
  BY DEF ReconfigInv, Backed
<1>3. Lasting'
  BY <1>1, LastingKept DEF ReconfigInv
<1> QED BY <1>1, <1>2, <1>3 DEF ReconfigInv

\* Every step preserves the invariant.
LEMMA NextReconfigInv == ASSUME Finite, ReconfigInv, [ReconfigNext]_reconfigVars PROVE ReconfigInv'
<1>1. CASE Issue
  <2>1. nextSeq' \in 1 .. (MaxSeq + 1)
    BY SMTT(60), <1>1 DEF Issue, ReconfigInv, ReconfigTypeOK, Finite
  <2> QED BY <1>1, <2>1, IdleKeeps DEF Issue, ReconfigInv, ReconfigTypeOK
<1>2. ASSUME NEW s \in Issued, NEW h \in Host, Accept(s, h) PROVE ReconfigInv'
  <2> DEFINE v == IF s > stored[h] THEN s ELSE stored[h]
  <2>1. s \in 1 .. MaxSeq /\ stored[h] \in 0 .. MaxSeq
    BY SMTT(60) DEF Issued, ReconfigInv, ReconfigTypeOK, Finite
  <2>2. v \in 0 .. MaxSeq /\ v >= s /\ v >= stored[h]
    BY SMTT(60), <2>1 DEF Finite
  <2>3. stored' = [stored EXCEPT ![h] = v]
    BY <1>2 DEF Accept
  <2> HIDE DEF v
  <2> QED BY <1>2, <2>2, <2>3, StoringKeeps DEF Accept
<1>3. CASE Announce
  BY <1>3, IdleKeeps DEF Announce, ReconfigInv, ReconfigTypeOK
<1>4. CASE OwnerAck
  BY <1>4, IdleKeeps DEF OwnerAck, ReconfigInv, ReconfigTypeOK
<1>5. ASSUME NEW h \in Host, Transfer(h) PROVE ReconfigInv'
  <2>1. PICK s \in Issued :
          /\ s > stored[h]
          /\ stored' = [stored EXCEPT ![h] = s]
          /\ acks' = [acks EXCEPT ![s] = @ \union {h}]
    BY <1>5 DEF Transfer
  <2>2. s \in 0 .. MaxSeq /\ stored[h] \in 0 .. MaxSeq
    BY SMTT(60) DEF Issued, ReconfigInv, ReconfigTypeOK, Finite
  <2>3. s >= s /\ s >= stored[h]
    BY SMTT(60), <2>1, <2>2
  <2> QED BY <1>5, <2>1, <2>2, <2>3, StoringKeeps DEF Transfer
<1>6. CASE Retire
  <2>1. CommittedSeqs \subseteq 1 .. MaxSeq
    BY SMTT(60) DEF CommittedSeqs, Issued, ReconfigInv, ReconfigTypeOK, Finite
  <2> QED BY <1>6, <2>1, IdleKeeps DEF Retire, ReconfigInv, ReconfigTypeOK
<1>7. CASE UNCHANGED reconfigVars
  BY <1>7 DEF reconfigVars, ReconfigInv, ReconfigTypeOK, Backed, Lasting, MajorityOf
<1> QED BY <1>1, <1>2, <1>3, <1>4, <1>5, <1>6, <1>7 DEF ReconfigNext

\* The invariant holds throughout.
LEMMA ReconfigInvariance == ASSUME Finite PROVE ReconfigSpec => []ReconfigInv
<1>1. ReconfigInit => ReconfigInv
  BY InitReconfigInv
<1>2. ReconfigInv /\ [ReconfigNext]_reconfigVars => ReconfigInv'
  BY NextReconfigInv
<1> QED BY <1>1, <1>2, PTL DEF ReconfigSpec
-----------------------------------------------------------------------------
\* Through a change of the holder set (reconfig.rs), every read majority of a
\* set a reader may know holds a record at least as new as every committed one.
THEOREM ReadsAreSafe == ASSUME Finite PROVE ReconfigSpec => []ReadSafety
<1>1. ReconfigInv => ReadSafety
  BY ReadsFromReconfigInv
<1> QED BY <1>1, ReconfigInvariance, PTL

\* A record that commits during or after the change is in no read majority's
\* blind spot again, although the old set's copies stop counting.
THEOREM JointRecordsNeverMissed == ASSUME Finite PROVE ReconfigSpec => []JointNeverMissed
<1>1. ReconfigInv => JointNeverMissed
  BY JointFromReconfigInv
<1> QED BY <1>1, ReconfigInvariance, PTL

-----------------------------------------------------------------------------
(* The lease of a retired owner ends within the bound of the adoption, for   *)
(* every cohort, fault tolerance and choice of the time constants.           *)

\* A set of holders that fixed the owner's retirement before the adoption: nothing they
\* answered, heard or still under way, confirms the owner from a later probe.
Closed(q, t) ==
  /\ \A k \in q : k \in learned /\ confirmed[k] <= t
  /\ \A a \in answers : a.from \in q /\ a.member => a.sent <= t

\* The inductive invariant.
Dated ==
  /\ \A p \in probes : p.sent <= now
  /\ \A a \in answers : a.sent <= now
  /\ \A k \in Holder : confirmed[k] <= now
Retired == learned # {} => retired
Timely == retired => now >= Window
Adopted ==
  adopted # Never =>
    /\ adopted >= Window
    /\ \E q \in SUBSET Holder : Cardinality(q) >= Recovery /\ Closed(q, adopted)
LeaseInv == LeaseTypeOK /\ Dated /\ Retired /\ Timely /\ Adopted

USE LeaseAssumption DEF Never, Time

\* The recovery quorum of the cohort is a natural number that is not zero.
LEMMA RecoveryType == Recovery \in Nat /\ Recovery >= 1 /\ Recovery <= Cardinality(Holder) + 1
<1>1. Cardinality(Holder) \in Nat
  BY FS_CardinalityType
<1> QED
  BY SMTT(60), <1>1 DEF Recovery

\* A recovery quorum of holders and a set of confirmations enough for the lease meet.
LEMMA RecoveryMeetsLease ==
  ASSUME NEW q \in SUBSET Holder, NEW s \in SUBSET Holder,
         Cardinality(q) >= Recovery, Cardinality(s) >= ConfirmationsNeeded
  PROVE  q \cap s # {}
<1>1. IsFiniteSet(q) /\ IsFiniteSet(s) /\ IsFiniteSet(q \union s)
  BY FS_Subset, FS_Union
<1>2. /\ Cardinality(q) \in Nat /\ Cardinality(s) \in Nat
      /\ Cardinality(Holder) \in Nat /\ Cardinality(q \union s) \in Nat
  BY <1>1, FS_CardinalityType
<1>3. Cardinality(q \union s) <= Cardinality(Holder)
  BY FS_Subset
<1>4. Cardinality(q \union s)
        = Cardinality(q) + Cardinality(s) - Cardinality(q \cap s)
  BY <1>1, FS_Union
<1>5. SUFFICES ASSUME q \cap s = {} PROVE FALSE
  OBVIOUS
<1>6. Cardinality(q \cap s) = 0
  BY <1>5, FS_EmptySet
<1> QED
  BY SMTT(60), <1>2, <1>3, <1>4, <1>6, RecoveryType DEF ConfirmationsNeeded

\* The invariant makes the lease of a retired owner end within the bound.
LEMMA EndsFromLeaseInv == LeaseInv => LeaseEnds
<1>1. SUFFICES ASSUME LeaseInv, adopted # Never, now - adopted > Bound, Holds PROVE FALSE
  BY DEF LeaseEnds
<1>2. now \in Nat /\ adopted \in Nat /\ adopted >= Window /\ now <= LastTime
  BY SMTT(60), <1>1 DEF LeaseInv, LeaseTypeOK, Adopted
<1>3. ~Allowance
  BY SMTT(60), <1>1, <1>2 DEF Allowance
<1>4. PICK q \in SUBSET Holder : Cardinality(q) >= Recovery /\ Closed(q, adopted)
  BY <1>1 DEF LeaseInv, Adopted
<1> DEFINE s == {k \in Holder : confirmed[k] # Never /\ now - confirmed[k] <= Bound}
<1>5. Cardinality(s) >= ConfirmationsNeeded
  BY <1>1, <1>3 DEF Holds
<1>6. PICK k \in q : k \in s
  BY <1>4, <1>5, RecoveryMeetsLease
<1>7. confirmed[k] <= adopted /\ confirmed[k] \in Int
  BY SMTT(60), <1>1, <1>4, <1>6 DEF Closed, LeaseInv, LeaseTypeOK
<1> QED
  BY SMTT(60), <1>1, <1>2, <1>6, <1>7

\* Nobody has retired, promised or adopted when the owner's allowance starts.
LEMMA InitLeaseInv == LeaseInit => LeaseInv
<1>1. SUFFICES ASSUME LeaseInit PROVE LeaseInv
  OBVIOUS
<1> USE <1>1 DEF LeaseInit
<1>2. 0 \in Time
  BY SMTT(60)
<1>3. [k \in Holder |-> Never] \in [Holder -> Time \union {Never}]
  OBVIOUS
<1>4. LeaseTypeOK
  BY <1>2, <1>3 DEF LeaseTypeOK
<1>5. Dated
  BY SMTT(60) DEF Dated
<1>6. Retired /\ Timely /\ Adopted
  BY DEF Retired, Timely, Adopted
<1> QED
  BY <1>4, <1>5, <1>6 DEF LeaseInv

\* Every step keeps the invariant.
LEMMA NextLeaseInv == LeaseInv /\ [LeaseNext]_leaseVars => LeaseInv'
<1>1. SUFFICES ASSUME LeaseInv, [LeaseNext]_leaseVars PROVE LeaseInv'
  OBVIOUS
<1> USE <1>1 DEF LeaseInv
<1>2. CASE Tick
  <2>1. LeaseTypeOK' /\ Retired' /\ Timely' /\ Adopted'
    BY SMTT(60), <1>2 DEF Tick, LeaseTypeOK, Retired, Timely, Adopted, Closed, holders, wire, owner
  <2>2. Dated'
    BY SMTT(60), <1>2 DEF Tick, LeaseTypeOK, Dated, holders, wire, owner
  <2> QED BY <2>1, <2>2
<1>3. CASE RetireOwner
  <2>1. LeaseTypeOK' /\ Retired' /\ Timely' /\ Adopted'
    BY <1>3 DEF RetireOwner, LeaseTypeOK, Retired, Timely, Adopted, Closed, holders, wire, owner
  <2>2. Dated'
    BY <1>3 DEF RetireOwner, Dated, holders, wire, owner
  <2> QED BY <2>1, <2>2
<1>4. CASE Adopt
  <2>1. LeaseTypeOK' /\ Retired' /\ Timely' /\ Dated'
    BY <1>4 DEF Adopt, LeaseTypeOK, Retired, Timely, Dated, holders, wire, owner
  <2>2. promisers \in SUBSET Holder /\ Cardinality(promisers) >= Recovery
    BY <1>4 DEF Adopt, LeaseTypeOK
  <2>3. promisers # {}
    <3>1. SUFFICES ASSUME promisers = {} PROVE FALSE
      OBVIOUS
    <3> QED BY SMTT(60), <2>2, <3>1, FS_EmptySet, RecoveryType
  <2>4. adopted' = now /\ now >= Window
    BY <1>4, <2>3 DEF Adopt, LeaseTypeOK, Retired, Timely
  <2>5. Closed(promisers, now)'
    BY <1>4, <2>2 DEF Adopt, LeaseTypeOK, Dated, Closed, holders, wire, owner
  <2>6. (\E q \in SUBSET Holder : Cardinality(q) >= Recovery /\ Closed(q, adopted))'
    BY <1>4, <2>2, <2>4, <2>5 DEF Adopt, Closed, holders, wire, owner
  <2> QED BY <2>1, <2>4, <2>6 DEF Adopted
<1>5. ASSUME NEW k \in Holder, Probe(k) PROVE LeaseInv'
  <2>1. LeaseTypeOK' /\ Retired' /\ Timely' /\ Adopted'
    BY SMTT(60), <1>5 DEF Probe, LeaseTypeOK, Retired, Timely, Adopted, Closed, holders, wire, owner
  <2>2. Dated'
    BY SMTT(60), <1>5 DEF Probe, LeaseTypeOK, Dated, holders, wire, owner
  <2> QED BY <2>1, <2>2
<1>6. ASSUME NEW k \in Holder, FollowConfiguration(k) PROVE LeaseInv'
  <2>1. LeaseTypeOK' /\ Retired' /\ Timely' /\ Adopted'
    BY <1>6 DEF FollowConfiguration, LeaseTypeOK, Retired, Timely, Adopted, Closed, wire, owner
  <2>2. Dated'
    BY <1>6 DEF FollowConfiguration, LeaseTypeOK, Dated, wire, owner
  <2> QED BY <2>1, <2>2
<1>7. ASSUME NEW k \in Holder, Promise(k) PROVE LeaseInv'
  <2>1. LeaseTypeOK' /\ Retired' /\ Timely' /\ Adopted'
    BY <1>7 DEF Promise, LeaseTypeOK, Retired, Timely, Adopted, Closed, wire, owner
  <2>2. Dated'
    BY <1>7 DEF Promise, LeaseTypeOK, Dated, wire, owner
  <2> QED BY <2>1, <2>2
<1>8. ASSUME NEW p \in probes, Answer(p) PROVE LeaseInv'
  <2>1. p.to \in Holder /\ p.sent \in Time /\ p.sent <= now
    BY DEF LeaseTypeOK, Dated
  <2> DEFINE new == [from |-> p.to, sent |-> p.sent, member |-> p.to \notin learned]
  <2>2. answers' = answers \union {new} /\ new.from = p.to /\ new.sent = p.sent
        /\ new.member = (p.to \notin learned)
    BY <1>8 DEF Answer
  <2>3. new \in [from : Holder, sent : Time, member : BOOLEAN]
    BY <2>1
  <2>4. (/\ now \in Time /\ retired \in BOOLEAN /\ superseded \in BOOLEAN
         /\ promisers \subseteq followed /\ followed \subseteq learned /\ learned \subseteq Holder
         /\ confirmed \in [Holder -> Time \union {Never}]
         /\ adopted \in Time \union {Never})'
    BY <1>8 DEF Answer, LeaseTypeOK, owner
  <2>5. (announced \subseteq Holder)' /\ (alive \in [Holder -> Time \union {Never}])'
    BY <1>8, <2>1 DEF Answer, LeaseTypeOK
  <2>6. /\ (probes \subseteq [to : Holder, sent : Time, knows : BOOLEAN])'
        /\ (answers \subseteq [from : Holder, sent : Time, member : BOOLEAN])'
    BY <1>8, <2>2, <2>3 DEF Answer, LeaseTypeOK
  <2>7. LeaseTypeOK' /\ Retired' /\ Timely'
    BY <1>8, <2>4, <2>5, <2>6 DEF Answer, LeaseTypeOK, Retired, Timely
  <2>8. Dated'
    BY <1>8, <2>1, <2>2 DEF Answer, LeaseTypeOK, Dated, owner
  <2>9. Adopted'
    BY <1>8, <2>2 DEF Answer, Adopted, Closed, owner
  <2> QED BY <2>7, <2>8, <2>9
<1>9. ASSUME NEW a \in answers, Answered(a) PROVE LeaseInv'
  <2>1. a.from \in Holder /\ a.sent \in Time /\ a.sent <= now
    BY DEF LeaseTypeOK, Dated
  <2>2. LeaseTypeOK' /\ Retired' /\ Timely'
    BY <1>9, <2>1 DEF Answered, LeaseTypeOK, Retired, Timely, holders
  <2>3. Dated'
    BY <1>9, <2>1 DEF Answered, LeaseTypeOK, Dated, holders
  <2>4. Adopted'
    BY <1>9, <2>1 DEF Answered, LeaseTypeOK, Adopted, Closed, holders
  <2> QED BY <2>2, <2>3, <2>4
<1>10. ASSUME NEW m \in probes \union answers, Lose(m) PROVE LeaseInv'
  <2>1. LeaseTypeOK' /\ Retired' /\ Timely' /\ Adopted'
    BY <1>10 DEF Lose, LeaseTypeOK, Retired, Timely, Adopted, Closed, holders, owner
  <2>2. Dated'
    BY <1>10 DEF Lose, LeaseTypeOK, Dated, holders, owner
  <2> QED BY <2>1, <2>2
<1>11. ASSUME NEW k \in Holder, Learn(k) PROVE LeaseInv'
  <2>1. LeaseTypeOK' /\ Retired' /\ Timely' /\ Adopted'
    BY <1>11 DEF Learn, LeaseTypeOK, Retired, Timely, Adopted, Closed, wire, owner
  <2>2. Dated'
    BY <1>11 DEF Learn, LeaseTypeOK, Dated, wire, owner
  <2> QED BY <2>1, <2>2
<1>12. CASE UNCHANGED leaseVars
  BY <1>12 DEF leaseVars, LeaseTypeOK, Dated, Retired, Timely, Adopted, Closed
<1> QED
  BY <1>1, <1>2, <1>3, <1>4, <1>5, <1>6, <1>7, <1>8, <1>9, <1>10, <1>11, <1>12 DEF LeaseNext

\* Every reachable state satisfies the inductive invariant.
THEOREM LeaseInvariance == LeaseSpec => []LeaseInv
BY InitLeaseInv, NextLeaseInv, PTL DEF LeaseSpec

\* The lease's evidence keeps its shape; the holders that promised installed the retirement.
THEOREM LeaseTyped == LeaseSpec => []LeaseTypeOK
<1>1. LeaseInv => LeaseTypeOK
  BY DEF LeaseInv
<1> QED
  BY <1>1, LeaseInvariance, PTL

\* A superseded or retired owner stops serving: its lease has ended once the bound has
\* passed since a successor adopted, whatever was answered, delayed, lost or pruned.
THEOREM LeaseAlwaysEnds == LeaseSpec => []LeaseEnds
BY LeaseInvariance, EndsFromLeaseInv, PTL

=============================================================================
