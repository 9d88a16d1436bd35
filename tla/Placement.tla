------------------------------ MODULE Placement ------------------------------
(***************************************************************************)
(* Where an owner's objects are placed (crates/db/src/register.rs): the    *)
(* neighbourhood rendezvous selects for an owner, the copysets the         *)
(* neighbourhood is partitioned into, and the copyset an object maps onto. *)
(* Every node computes these for itself, so they are functions of the      *)
(* members alone.  The hashed rendezvous weights are constants.            *)
(***************************************************************************)
EXTENDS Integers, FiniteSets

CONSTANTS
  Host,         \* host ids
  Object,       \* object ids
  F,            \* the fault tolerance f of Quorum
  Scatter,      \* the scatter width that bounds a neighbourhood
  Domain,       \* Domain[h]: the failure domain of host h
  OwnerWeight,  \* OwnerWeight[o][h]: h's rendezvous weight for owner o's own key
  ObjectWeight  \* ObjectWeight[o][h]: h's rendezvous weight for object o

ASSUME PlacementAssumption ==
  /\ IsFiniteSet(Host) /\ Host \subseteq Nat
  /\ F \in Nat /\ Scatter \in Nat \ {0}
  /\ Domain \in [Host -> Nat]
  /\ OwnerWeight \in [Host -> [Host -> Nat]]
  /\ ObjectWeight \in [Object -> [Host -> Nat]]

\* The order of rendezvous_ranked: the highest weight first, the lowest id on a tie.
Ahead(weight, g, h) == weight[g] > weight[h] \/ (weight[g] = weight[h] /\ g < h)

\* rendezvous_first: the host of a non-empty set that ranks first for the object.
RendezvousFirst(hosts, object) ==
  CHOOSE h \in hosts : \A g \in hosts \ {h} : Ahead(ObjectWeight[object], h, g)

\* Mutants: neighbourhoods cut from the members in id order; a group that takes a
\* second host of a domain it has.
SelectByPosition(owner, alive) ==
  LET Chunk(h) == Cardinality({g \in alive : g < h}) \div Scatter
  IN  {owner} \union {h \in alive : Chunk(h) = Chunk(owner)}
FitsAnyDomain(group, h) == Cardinality(group) < 2 * F

\* select_neighbourhood: the owner and the Scatter - 1 others that rank first.
SelectNeighbourhood(owner, alive) ==
  LET others == alive \ {owner}
  IN  {owner} \union
      {h \in others : Cardinality({g \in others : Ahead(OwnerWeight[owner], g, h)}) < Scatter - 1}

\* The order in which owner_copysets lays the co-holders out: by domain, then id.
Before(g, h) == Domain[g] < Domain[h] \/ (Domain[g] = Domain[h] /\ g < h)

\* Whether a copyset's co-holders have room for h: fewer than 2f, none in h's domain.
Fits(group, h) == Cardinality(group) < 2 * F /\ \A g \in group : Domain[g] # Domain[h]

\* The first of the groups with room for h.
FirstFit(groups, h) ==
  CHOOSE k \in DOMAIN groups : Fits(groups[k], h) /\ \A j \in 1 .. (k - 1) : ~Fits(groups[j], h)

\* The group each co-holder joins, in turn; there are enough for one each.
Slot(usable) ==
  LET slot[h \in usable] ==
        FirstFit([k \in 1 .. Cardinality(usable) |-> {g \in usable : Before(g, h) /\ slot[g] = k}], h)
  IN  slot

\* owner_copysets: first-fit of the co-holders outside the owner's domain into groups
\* of at most 2f across distinct domains; the owner heads every one.
OwnerCopysets(owner, hosts) ==
  LET usable == {h \in hosts \ {owner} : Domain[h] # Domain[owner]}
      slot == Slot(usable)
  IN  IF F = 0 \/ usable = {} THEN {{owner}}
      ELSE {{owner} \union {h \in usable : slot[h] = slot[g]} : g \in usable}

\* copyset_for's key: the co-holder a copyset's group was started with.
KeyOf(owner, copyset) ==
  IF copyset = {owner} THEN owner
  ELSE CHOOSE h \in copyset \ {owner} : \A g \in copyset \ {owner, h} : Before(h, g)

\* candidates_for: the copyset whose key has the highest weight, the highest id on a
\* tie.  Chosen is a function of its arguments, so that a checker evaluates it once.
Heavier(owner, object, s, t) ==
  LET Weight(c) == ObjectWeight[object][KeyOf(owner, c)]
  IN  \/ Weight(s) > Weight(t)
      \/ Weight(s) = Weight(t) /\ KeyOf(owner, s) > KeyOf(owner, t)

Heaviest(owner, object, copysets) ==
  CHOOSE s \in copysets : \A t \in copysets \ {s} : Heavier(owner, object, s, t)

Chosen ==
  [owner \in Host |-> [hosts \in SUBSET Host |-> [object \in Object |->
     Heaviest(owner, object, OwnerCopysets(owner, hosts))]]]
CandidatesFor(owner, hosts, object) == Chosen[owner][hosts][object]
=============================================================================
