---------------------------- MODULE CouncilProofs ----------------------------
(***************************************************************************)
(* Proofs about the regional configuration, for every set of hosts and of  *)
(* objects, failure domains, weights, scatter width and last version.      *)
(***************************************************************************)
EXTENDS Council, FiniteSetTheorems, TLAPS

\* Zenon proves a leaf, but where it names the SMT solver.
USE ZenonT(20)

-----------------------------------------------------------------------------
(* Neighbourhoods *)

\* The hosts of a set that rank before x for an owner.
Better(o, set, x) == {g \in set \ {o} : Ahead(OwnerWeight[o], g, x)}

\* The rendezvous order is a strict total order of the hosts (rendezvous_ranked).
LEMMA AheadIsAnOrder ==
  ASSUME NEW o \in Host, NEW x \in Host, NEW y \in Host, NEW z \in Host
  PROVE  /\ ~Ahead(OwnerWeight[o], x, x)
         /\ Ahead(OwnerWeight[o], x, y) /\ Ahead(OwnerWeight[o], y, z) => Ahead(OwnerWeight[o], x, z)
         /\ x # y => Ahead(OwnerWeight[o], x, y) \/ Ahead(OwnerWeight[o], y, x)
<1> DEFINE w == OwnerWeight[o]
<1>1. w[x] \in Nat /\ w[y] \in Nat /\ w[z] \in Nat /\ x \in Nat /\ y \in Nat /\ z \in Nat
  BY PlacementAssumption
<1> HIDE DEF w
<1>2. /\ ~Ahead(w, x, x)
      /\ Ahead(w, x, y) /\ Ahead(w, y, z) => Ahead(w, x, z)
      /\ x # y => Ahead(w, x, y) \/ Ahead(w, y, x)
  BY SMTT(60), <1>1 DEF Ahead
<1> QED BY <1>2 DEF w

\* The hosts that rank before one are finitely many.
LEMMA BetterIsFinite ==
  ASSUME NEW o, NEW set \in SUBSET Host, NEW x
  PROVE  IsFiniteSet(Better(o, set, x)) /\ Cardinality(Better(o, set, x)) \in Nat
<1>1. Better(o, set, x) \subseteq Host /\ IsFiniteSet(Host)
  BY PlacementAssumption DEF Better
<1> QED BY <1>1, FS_Subset, FS_CardinalityType

\* Who is selected, by rank.
LEMMA Selected ==
  ASSUME NEW o, NEW set, NEW x, x # o
  PROVE  x \in SelectNeighbourhood(o, set) <=>
           x \in set /\ Cardinality(Better(o, set, x)) < Scatter - 1
BY DEF SelectNeighbourhood, Better

\* One host more: nobody else comes in, at most one goes out, and only if the host
\* that was added comes in.
LEMMA OneMore ==
  ASSUME NEW o \in Host, NEW set \in SUBSET Host, NEW h \in Host, h \notin set, h # o
  PROVE  LET few == SelectNeighbourhood(o, set)
             many == SelectNeighbourhood(o, set \union {h})
         IN  /\ many \ few \subseteq {h}
             /\ \A x, y \in few \ many : x = y
             /\ many # few => h \in many
<1> DEFINE all == set \union {h}
           few == SelectNeighbourhood(o, set)
           many == SelectNeighbourhood(o, all)
           k == Scatter - 1
<1>0. all \in SUBSET Host /\ k \in Int
  BY SMTT(60), PlacementAssumption
<1>1. o \in few /\ o \in many
  BY DEF SelectNeighbourhood
<1>2. few \subseteq set \union {o} /\ many \subseteq all \union {o}
  BY DEF SelectNeighbourhood
<1> HIDE DEF all, few, many, k
<1>3. \A x : x # o => (x \in few <=> x \in set /\ Cardinality(Better(o, set, x)) < k)
  BY Selected DEF few, k
<1>4. \A x : x # o => (x \in many <=> x \in all /\ Cardinality(Better(o, all, x)) < k)
  BY Selected DEF many, k
<1>5. \A x : Cardinality(Better(o, set, x)) \in Nat /\ Cardinality(Better(o, all, x)) \in Nat
  BY <1>0, BetterIsFinite
<1>6. many \ few \subseteq {h}
  <2> SUFFICES ASSUME NEW x \in many, x # h PROVE x \in few
    OBVIOUS
  <2>1. CASE x = o
    BY <2>1, <1>1
  <2>2. CASE x # o
    <3>1. Better(o, set, x) \subseteq Better(o, all, x)
      BY DEF Better, all
    <3>2. Cardinality(Better(o, set, x)) <= Cardinality(Better(o, all, x))
      BY <3>1, <1>0, BetterIsFinite, FS_Subset
    <3> QED BY SMTT(60), <2>2, <3>2, <1>0, <1>3, <1>4, <1>5 DEF all
  <2> QED BY <2>1, <2>2
<1>7. ASSUME NEW x \in few \ many
      PROVE  /\ x \in set /\ x # o /\ x \in Host /\ Ahead(OwnerWeight[o], h, x)
             /\ Cardinality(Better(o, set, x)) = k - 1
  <2>1. x \in set /\ x # o /\ x \in all /\ x \in Host
    BY <1>1, <1>2, <1>7 DEF all
  <2>2. Cardinality(Better(o, set, x)) < k /\ ~(Cardinality(Better(o, all, x)) < k)
    BY <2>1, <1>3, <1>4, <1>7
  <2>3. Ahead(OwnerWeight[o], h, x)
    <3> SUFFICES ASSUME ~Ahead(OwnerWeight[o], h, x) PROVE FALSE
      OBVIOUS
    <3>1. Better(o, all, x) = Better(o, set, x)
      BY DEF Better, all
    <3> QED BY <3>1, <2>2
  <2>4. Better(o, all, x) = Better(o, set, x) \union {h} /\ h \notin Better(o, set, x)
    BY <2>3 DEF Better, all
  <2>5. Cardinality(Better(o, all, x)) = Cardinality(Better(o, set, x)) + 1
    BY <2>4, BetterIsFinite, FS_AddElement
  <2> QED BY SMTT(60), <2>1, <2>2, <2>3, <2>5, <1>0, <1>5
<1>8. ASSUME NEW x \in few \ many, NEW y \in few \ many, Ahead(OwnerWeight[o], x, y) PROVE FALSE
  <2>1. /\ x \in set /\ x # o /\ x \in Host /\ y \in Host
        /\ Cardinality(Better(o, set, x)) = Cardinality(Better(o, set, y))
    BY <1>7
  <2>2. Better(o, set, x) \subseteq Better(o, set, y)
    BY <2>1, <1>8, AheadIsAnOrder DEF Better
  <2>3. x \in Better(o, set, y) /\ x \notin Better(o, set, x)
    BY <2>1, <1>8, AheadIsAnOrder DEF Better
  <2> QED BY <2>1, <2>2, <2>3, BetterIsFinite, FS_Subset
<1>9. \A x, y \in few \ many : x = y
  <2> SUFFICES ASSUME NEW x \in few \ many, NEW y \in few \ many, x # y PROVE FALSE
    OBVIOUS
  <2>1. x \in Host /\ y \in Host
    BY <1>7
  <2> QED BY <2>1, <1>8, AheadIsAnOrder
<1>10. many # few => h \in many
  <2>1. ASSUME NEW x \in few \ many PROVE h \in many
    <3>1. /\ x \in set /\ x # o /\ x \in Host /\ Ahead(OwnerWeight[o], h, x)
          /\ Cardinality(Better(o, set, x)) = k - 1
      BY <1>7, <2>1
    <3>2. Better(o, all, h) \subseteq Better(o, set, x)
      BY SMTT(60), <3>1, AheadIsAnOrder DEF Better, all
    <3>3. Cardinality(Better(o, all, h)) <= Cardinality(Better(o, set, x))
      BY <3>2, BetterIsFinite, FS_Subset
    <3>4. Cardinality(Better(o, all, h)) < k
      BY SMTT(60), <3>1, <3>3, <1>0, <1>5
    <3> QED BY <3>4, <1>4 DEF all
  <2>2. ASSUME NEW x \in many \ few PROVE h \in many
    BY <1>6, <2>2
  <2> QED BY <2>1, <2>2
<1> QED BY <1>6, <1>9, <1>10 DEF few, many, all

-----------------------------------------------------------------------------
(* Configurations *)

Neighbourhood == [hosts : SUBSET Host, generation : Nat]
Retirement ==
  [version : Nat, settled : Neighbourhood, confirmed : SUBSET Host, unconfirmed : SUBSET Host,
   survivors : SUBSET Host]
Partial(S) == UNION {[D -> S] : D \in SUBSET Host}
Configuration ==
  [version : Nat, members : SUBSET Host, epochs : Partial(Nat), hood : Partial(Neighbourhood),
   settled : Partial(Neighbourhood), retired : Partial(Retirement)]

\* The kept retirements: of hosts that are not members, none from a later version than
\* the configuration's, and a survivor retired since retired later.
RetiredInv(c) ==
  /\ c.members \cap DOMAIN c.retired = {}
  /\ \A d \in DOMAIN c.retired : c.retired[d].version <= c.version
  /\ \A d, s \in DOMAIN c.retired :
       s \in c.retired[d].survivors => c.retired[s].version > c.retired[d].version

\* Every member has its neighbourhood, and it is the one the members make it.
HoodInv(c) ==
  /\ DOMAIN c.hood = c.members /\ DOMAIN c.settled = c.members
  /\ \A o \in c.members : c.hood[o].hosts = Hood(c, o)

WellFormed(c) == c \in Configuration /\ RetiredInv(c) /\ HoodInv(c)

\* A partial function on the hosts is one whose domain is of hosts.
LEMMA PartialFunctions ==
  ASSUME NEW S, NEW f
  PROVE  f \in Partial(S) <=> DOMAIN f \in SUBSET Host /\ f \in [DOMAIN f -> S]
BY DEF Partial

\* Dropping keys of a partial function (retain) leaves the others as they were.
LEMMA RestrictedIsPartial ==
  ASSUME NEW S, NEW f \in Partial(S), NEW T
  PROVE  /\ Restricted(f, T) \in Partial(S)
         /\ DOMAIN Restricted(f, T) = DOMAIN f \cap T
         /\ \A x \in DOMAIN f \cap T : Restricted(f, T)[x] = f[x]
<1>1. DOMAIN f \in SUBSET Host /\ f \in [DOMAIN f -> S]
  BY PartialFunctions
<1>2. Restricted(f, T) \in [DOMAIN f \cap T -> S] /\ DOMAIN f \cap T \in SUBSET Host
  BY <1>1 DEF Restricted
<1> QED BY <1>1, <1>2 DEF Partial, Restricted

\* Giving a host a value (insert) leaves a partial function.
LEMMA ExtendedIsPartial ==
  ASSUME NEW S, NEW f \in Partial(S), NEW x \in Host, NEW y \in S
  PROVE  Extended(f, x, y) \in Partial(S)
<1>1. DOMAIN f \in SUBSET Host /\ f \in [DOMAIN f -> S]
  BY PartialFunctions
<1>2. Extended(f, x, y) \in [DOMAIN f \union {x} -> S] /\ DOMAIN f \union {x} \in SUBSET Host
  BY <1>1 DEF Extended
<1> QED BY <1>1, <1>2 DEF Partial, Extended

\* A neighbourhood is a set of hosts.
LEMMA HoodIsOfHosts ==
  ASSUME NEW o \in Host, NEW set \in SUBSET Host
  PROVE  SelectNeighbourhood(o, set) \in SUBSET Host
BY DEF SelectNeighbourhood

\* fix_neighbourhoods makes every member's neighbourhood what the members make it.
LEMMA FixedNeighbourhoods ==
  ASSUME NEW c \in Configuration, NEW members \in SUBSET Host, NEW version \in Nat
  PROVE  LET hood == FixNeighbourhoods(c, members, version)
         IN  /\ hood \in Partial(Neighbourhood) /\ DOMAIN hood = members
             /\ \A o \in members : hood[o] \in Neighbourhood
                                   /\ hood[o].hosts = SelectNeighbourhood(o, members)
<1> DEFINE hood == FixNeighbourhoods(c, members, version)
<1>1. DOMAIN hood = members
  BY DEF FixNeighbourhoods
<1>2. c.hood \in [DOMAIN c.hood -> Neighbourhood]
  BY PartialFunctions DEF Configuration
<1>3. ASSUME NEW o \in members
      PROVE  hood[o] \in Neighbourhood /\ hood[o].hosts = SelectNeighbourhood(o, members)
  <2> DEFINE hosts == SelectNeighbourhood(o, members)
  <2>1. hosts \in SUBSET Host
    BY HoodIsOfHosts
  <2>2. hood[o] = IF o \in DOMAIN c.hood /\ c.hood[o].hosts = hosts THEN c.hood[o]
                  ELSE [hosts |-> hosts, generation |-> version]
    BY DEF FixNeighbourhoods
  <2> HIDE DEF hood, hosts
  <2>3. hood[o] \in Neighbourhood /\ hood[o].hosts = hosts
    BY SMTT(60), <1>2, <2>1, <2>2 DEF Neighbourhood
  <2> QED BY <2>3 DEF hosts
<1>4. hood \in [members -> Neighbourhood]
  <2>1. hood = [o \in members |-> hood[o]]
    BY DEF FixNeighbourhoods
  <2> QED BY <1>3, <2>1
<1>5. hood \in Partial(Neighbourhood)
  BY <1>1, <1>4, PartialFunctions
<1> QED BY <1>1, <1>3, <1>5

\* A region as it forms.
LEMMA FormedIsWell ==
  ASSUME NEW members \in SUBSET Host
  PROVE  WellFormed(Formed(members))
<1> DEFINE hood == [o \in members |->
                      [hosts |-> SelectNeighbourhood(o, members), generation |-> 0]]
           epochs == [h \in members |-> FirstEpoch]
           none == [h \in {} |-> {}]
           c == Formed(members)
<1>1. hood \in [members -> Neighbourhood]
  BY HoodIsOfHosts DEF Neighbourhood
<1>2. \A o \in members : hood[o].hosts = SelectNeighbourhood(o, members)
  OBVIOUS
<1>3. epochs \in [members -> Nat] /\ none \in [{} -> Retirement]
  BY DEF FirstEpoch
<1>4. hood \in Partial(Neighbourhood) /\ epochs \in Partial(Nat) /\ none \in Partial(Retirement)
  BY <1>1, <1>3 DEF Partial
<1>5. DOMAIN none = {} /\ DOMAIN hood = members
  OBVIOUS
<1>6. c = [version |-> 0, members |-> members, epochs |-> epochs, hood |-> hood,
           settled |-> hood, retired |-> none]
  BY DEF Formed
<1> HIDE DEF hood, epochs, none, c
<1>7. c \in Configuration
  BY <1>4, <1>6 DEF Configuration
<1>8. RetiredInv(c)
  BY <1>5, <1>6 DEF RetiredInv
<1>9. HoodInv(c)
  BY <1>2, <1>5, <1>6 DEF HoodInv, Hood
<1> QED BY <1>7, <1>8, <1>9 DEF WellFormed, c

\* Dropping retirements, whichever they are (prune_retirements, bound_retirements).
LEMMA DroppedIsWell ==
  ASSUME NEW c, WellFormed(c), NEW T
  PROVE  LET e == [c EXCEPT !.retired = Restricted(c.retired, T)]
         IN  WellFormed(e) /\ e.members = c.members
<1> DEFINE kept == Restricted(c.retired, T)
           e == [c EXCEPT !.retired = kept]
<1>1. c \in Configuration /\ c.retired \in Partial(Retirement)
  BY DEF WellFormed, Configuration
<1>2. /\ kept \in Partial(Retirement) /\ DOMAIN kept = DOMAIN c.retired \cap T
      /\ \A d \in DOMAIN c.retired \cap T : kept[d] = c.retired[d]
  BY <1>1, RestrictedIsPartial
<1> HIDE DEF kept
<1>3. /\ e \in Configuration /\ e.version = c.version /\ e.members = c.members
      /\ e.hood = c.hood /\ e.settled = c.settled /\ e.retired = kept
  BY <1>1, <1>2 DEF Configuration
<1> HIDE DEF e
<1>4. RetiredInv(e)
  BY SMTT(60), <1>2, <1>3 DEF WellFormed, RetiredInv
<1>5. HoodInv(e)
  BY <1>3 DEF WellFormed, HoodInv, Hood
<1>6. WellFormed(e) /\ e.members = c.members
  BY <1>3, <1>4, <1>5 DEF WellFormed
<1> QED BY <1>6 DEF e, kept

\* Pruning the retirements nobody owes keeps the configuration well formed.
LEMMA PrunedIsWell ==
  ASSUME NEW c, WellFormed(c)
  PROVE  WellFormed(PruneRetirements(c)) /\ PruneRetirements(c).members = c.members
<1> DEFINE T == UNION {RecoveryOwners(c, d) : d \in Owed(c)}
<1>1. PruneRetirements(c) = [c EXCEPT !.retired = Restricted(c.retired, T)]
  BY DEF PruneRetirements
<1> HIDE DEF T
<1> QED BY <1>1, DroppedIsWell

\* Bounding the retirements kept keeps the configuration well formed.
LEMMA BoundedIsWell ==
  ASSUME NEW c, WellFormed(c)
  PROVE  WellFormed(BoundRetirements(c)) /\ BoundRetirements(c).members = c.members
<1> DEFINE bound == IF c.members = {} THEN 1 ELSE Cardinality(c.members)
           T == {d \in DOMAIN c.retired :
                   Cardinality({e \in DOMAIN c.retired :
                                  c.retired[e].version > c.retired[d].version}) < bound}
<1>1. BoundRetirements(c) = [c EXCEPT !.retired = Restricted(c.retired, T)]
  BY DEF BoundRetirements
<1> HIDE DEF T
<1> QED BY <1>1, DroppedIsWell

\* admit
LEMMA AdmittedIsWell ==
  ASSUME NEW c, WellFormed(c), NEW host \in Host, Admits(c, host), Advances(c)
  PROVE  WellFormed(Admit(c, host)) /\ Admit(c, host).members = c.members \union {host}
<1> DEFINE members == c.members \union {host}
           hood == FixNeighbourhoods(c, members, c.version + 1)
           epochs == IF host \in DOMAIN c.epochs THEN c.epochs
                     ELSE Extended(c.epochs, host, FirstEpoch)
           settled == Extended(c.settled, host, hood[host])
           e == Admit(c, host)
<1>1. /\ c \in Configuration /\ c.version \in Nat /\ c.members \in SUBSET Host
      /\ c.epochs \in Partial(Nat) /\ c.settled \in Partial(Neighbourhood)
      /\ c.retired \in Partial(Retirement) /\ c.retired \in [DOMAIN c.retired -> Retirement]
  BY PartialFunctions DEF WellFormed, Configuration
<1>2. members \in SUBSET Host /\ host \in members /\ c.version + 1 \in Nat
  BY SMTT(60), <1>1
<1>3. /\ hood \in Partial(Neighbourhood) /\ DOMAIN hood = members /\ hood[host] \in Neighbourhood
      /\ \A o \in members : hood[o].hosts = SelectNeighbourhood(o, members)
  BY SMTT(60), <1>1, <1>2, FixedNeighbourhoods
<1>4. epochs \in Partial(Nat)
  BY <1>1, ExtendedIsPartial DEF FirstEpoch
<1>5. settled \in Partial(Neighbourhood) /\ DOMAIN settled = members
  <2>1. DOMAIN c.settled = c.members
    BY DEF WellFormed, HoodInv
  <2> DEFINE new == hood[host]
  <2>2. c.settled \in Partial(Neighbourhood) /\ new \in Neighbourhood
    BY <1>1, <1>3
  <2> HIDE DEF new
  <2>3. Extended(c.settled, host, new) \in Partial(Neighbourhood)
    BY <2>2, ExtendedIsPartial
  <2>4. DOMAIN Extended(c.settled, host, new) = DOMAIN c.settled \union {host}
    BY DEF Extended
  <2> QED BY <2>1, <2>3, <2>4 DEF new
<1>6. e = [c EXCEPT !.version = c.version + 1, !.members = members, !.hood = hood,
                    !.epochs = epochs, !.settled = settled]
  BY DEF Admit
<1> HIDE DEF members, hood, epochs, settled, e
<1>7. /\ e \in Configuration /\ e.version = c.version + 1 /\ e.members = members
      /\ e.hood = hood /\ e.settled = settled /\ e.retired = c.retired
  BY <1>1, <1>2, <1>3, <1>4, <1>5, <1>6 DEF Configuration
<1>8. RetiredInv(e)
  <2>1. host \notin DOMAIN c.retired
    BY DEF Admits
  <2>2. e.members \cap DOMAIN e.retired = {}
    BY <1>7, <2>1 DEF members, WellFormed, RetiredInv
  <2>3. \A d \in DOMAIN c.retired : c.retired[d].version \in Nat
    BY <1>1 DEF Retirement
  <2> QED BY SMTT(60), <1>1, <1>7, <2>2, <2>3 DEF WellFormed, RetiredInv
<1>9. HoodInv(e)
  BY <1>3, <1>5, <1>7 DEF HoodInv, Hood
<1> QED BY <1>7, <1>8, <1>9 DEF WellFormed, e, members

\* retire: the new retirement is the latest, and its survivors are members.
LEMMA DepartedIsWell ==
  ASSUME NEW c, WellFormed(c), NEW member \in c.members
  PROVE  WellFormed(Departed(c, member)) /\ Departed(c, member).members = c.members \ {member}
<1> DEFINE members == c.members \ {member}
           hood == FixNeighbourhoods(c, members, c.version + 1)
           settled == Restricted(c.settled, members)
           unconfirmed == {d \in DOMAIN c.retired : OwesConfirmation(c, d, member)}
           survivors == Survivors(c, member, c.settled[member], unconfirmed)
           retirement == [version |-> c.version + 1, settled |-> c.settled[member],
                          confirmed |-> {}, unconfirmed |-> unconfirmed, survivors |-> survivors]
           retired == Extended(c.retired, member, retirement)
           e == Departed(c, member)
<1>1. /\ c \in Configuration /\ c.version \in Nat /\ c.members \in SUBSET Host
      /\ c.settled \in Partial(Neighbourhood) /\ c.settled \in [DOMAIN c.settled -> Neighbourhood]
      /\ c.retired \in Partial(Retirement) /\ c.retired \in [DOMAIN c.retired -> Retirement]
      /\ DOMAIN c.retired \in SUBSET Host
  BY PartialFunctions DEF WellFormed, Configuration
<1>2. members \in SUBSET Host /\ c.version + 1 \in Nat /\ member \in Host
  BY SMTT(60), <1>1
<1>3. /\ hood \in Partial(Neighbourhood) /\ DOMAIN hood = members
      /\ \A o \in members : hood[o].hosts = SelectNeighbourhood(o, members)
  BY SMTT(60), <1>1, <1>2, FixedNeighbourhoods
<1>4. settled \in Partial(Neighbourhood) /\ DOMAIN settled = members
  <2>1. DOMAIN c.settled = c.members
    BY DEF WellFormed, HoodInv
  <2>2. c.settled \in Partial(Neighbourhood)
    BY <1>1
  <2> HIDE DEF members
  <2>3. settled \in Partial(Neighbourhood) /\ DOMAIN settled = DOMAIN c.settled \cap members
    BY <2>2, RestrictedIsPartial
  <2> QED BY <2>1, <2>3 DEF members
<1>5. survivors \in SUBSET members
  BY DEF Survivors
<1>6. c.settled[member] \in Neighbourhood /\ unconfirmed \in SUBSET Host
  BY <1>1 DEF WellFormed, HoodInv
<1> HIDE DEF members, hood, settled, unconfirmed, survivors
<1>7. /\ retirement \in Retirement
      /\ retirement.version = c.version + 1 /\ retirement.survivors = survivors
  BY <1>2, <1>5, <1>6 DEF Retirement
<1> HIDE DEF retirement
<1>8. /\ retired \in Partial(Retirement) /\ DOMAIN retired = DOMAIN c.retired \union {member}
      /\ retired[member] = retirement
      /\ \A d \in DOMAIN c.retired \ {member} : retired[d] = c.retired[d]
  <2>1. c.retired \in Partial(Retirement) /\ member \in Host /\ retirement \in Retirement
    BY <1>1, <1>2, <1>7
  <2>2. retired \in Partial(Retirement)
    BY <2>1, ExtendedIsPartial
  <2>3. /\ DOMAIN retired = DOMAIN c.retired \union {member}
        /\ retired[member] = retirement
        /\ \A d \in DOMAIN c.retired \ {member} : retired[d] = c.retired[d]
    BY DEF Extended
  <2> QED BY <2>2, <2>3
<1>9. e = [c EXCEPT !.version = c.version + 1, !.members = members, !.hood = hood,
                    !.settled = settled, !.retired = retired]
  BY DEF Departed, members, hood, settled, retired, retirement, survivors, unconfirmed
<1> HIDE DEF retired, e
<1>10. /\ e \in Configuration /\ e.version = c.version + 1 /\ e.members = members
       /\ e.hood = hood /\ e.settled = settled /\ e.retired = retired
  BY <1>1, <1>2, <1>3, <1>4, <1>8, <1>9 DEF Configuration
<1>11. c.members \cap DOMAIN c.retired = {} /\ member \notin DOMAIN c.retired
  BY DEF WellFormed, RetiredInv
<1>12. \A d \in DOMAIN c.retired : c.retired[d].version \in Nat /\ c.retired[d].version <= c.version
  BY <1>1 DEF Retirement, WellFormed, RetiredInv
<1>13. members \cap DOMAIN retired = {}
  BY <1>8, <1>11 DEF members
<1>14. \A d \in DOMAIN retired : retired[d].version <= c.version + 1
  BY SMTT(60), <1>1, <1>7, <1>8, <1>11, <1>12
<1>15. ASSUME NEW d \in DOMAIN retired, NEW s \in DOMAIN retired, s \in retired[d].survivors
       PROVE  retired[s].version > retired[d].version
  <2>1. CASE d = member
    BY <1>5, <1>7, <1>8, <1>13, <1>15, <2>1
  <2>2. CASE d # member /\ s = member
    BY SMTT(60), <1>1, <1>7, <1>8, <1>11, <1>12, <2>2
  <2>3. CASE d # member /\ s # member
    <3>1. d \in DOMAIN c.retired /\ s \in DOMAIN c.retired /\ s \in c.retired[d].survivors
          /\ retired[d] = c.retired[d] /\ retired[s] = c.retired[s]
      BY <1>8, <1>15, <2>3
    <3> QED BY <3>1 DEF WellFormed, RetiredInv
  <2> QED BY <2>1, <2>2, <2>3
<1>16. RetiredInv(e)
  BY <1>10, <1>13, <1>14, <1>15 DEF RetiredInv
<1>17. HoodInv(e)
  BY <1>3, <1>4, <1>10 DEF HoodInv, Hood
<1> QED BY <1>10, <1>16, <1>17 DEF WellFormed, e, members

\* take_over
LEMMA TakenOverIsWell ==
  ASSUME NEW c, WellFormed(c), NEW dead \in c.members, Advances(c)
  PROVE  WellFormed(TakeOver(c, dead)) /\ TakeOver(c, dead).members = c.members \ {dead}
<1> DEFINE epoch == IF dead \in DOMAIN c.epochs THEN c.epochs[dead] ELSE FirstEpoch
           epochs == Extended(c.epochs, dead, epoch + 1)
           b == [c EXCEPT !.epochs = epochs]
<1>1. /\ c \in Configuration /\ c.epochs \in Partial(Nat) /\ c.epochs \in [DOMAIN c.epochs -> Nat]
      /\ dead \in Host
  BY PartialFunctions DEF WellFormed, Configuration
<1>2. epoch + 1 \in Nat
  BY SMTT(60), <1>1 DEF FirstEpoch
<1>3. epochs \in Partial(Nat)
  BY <1>1, <1>2, ExtendedIsPartial
<1>4. TakeOver(c, dead) = Retire(b, dead)
  BY DEF TakeOver
<1> HIDE DEF epochs
<1>5. /\ b \in Configuration /\ b.version = c.version /\ b.members = c.members
      /\ b.hood = c.hood /\ b.settled = c.settled /\ b.retired = c.retired
  BY <1>1, <1>3 DEF Configuration
<1> HIDE DEF b
<1>6. WellFormed(b)
  BY <1>5 DEF WellFormed, RetiredInv, HoodInv, Hood
<1>7. Retire(b, dead) = BoundRetirements(PruneRetirements(Departed(b, dead)))
  BY <1>5 DEF Retire, Advances
<1>8. WellFormed(Departed(b, dead)) /\ Departed(b, dead).members = c.members \ {dead}
  BY SMTT(60), <1>5, <1>6, DepartedIsWell
<1> QED BY <1>4, <1>7, <1>8, PrunedIsWell, BoundedIsWell

\* settle
LEMMA SettledIsWell ==
  ASSUME NEW c, WellFormed(c), NEW owner \in c.members, NEW generation, Settles(c, owner, generation), Advances(c)
  PROVE  WellFormed(Settle(c, owner, generation)) /\ Settle(c, owner, generation).members = c.members
<1> DEFINE settled == [c.settled EXCEPT ![owner] = c.hood[owner]]
           e == Settle(c, owner, generation)
<1>1. /\ c \in Configuration /\ c.version \in Nat
      /\ c.hood \in [c.members -> Neighbourhood] /\ c.settled \in [c.members -> Neighbourhood]
      /\ c.members \in SUBSET Host
      /\ c.retired \in [DOMAIN c.retired -> Retirement]
  BY PartialFunctions DEF WellFormed, Configuration, HoodInv
<1>2. settled \in [c.members -> Neighbourhood] /\ DOMAIN settled = c.members
  BY <1>1
<1>3. settled \in Partial(Neighbourhood)
  BY <1>1, <1>2, PartialFunctions
<1>4. e = [c EXCEPT !.version = c.version + 1, !.settled = settled] /\ c.version + 1 \in Nat
  BY SMTT(60), <1>1 DEF Settle, Configuration
<1> HIDE DEF settled, e
<1>5. /\ e \in Configuration /\ e.version = c.version + 1 /\ e.members = c.members
      /\ e.hood = c.hood /\ e.settled = settled /\ e.retired = c.retired
  BY <1>1, <1>3, <1>4 DEF Configuration
<1>6. \A d \in DOMAIN c.retired : c.retired[d].version \in Nat
  BY <1>1 DEF Retirement
<1>7. RetiredInv(e)
  BY SMTT(60), <1>1, <1>5, <1>6 DEF WellFormed, RetiredInv
<1>8. HoodInv(e)
  BY <1>2, <1>5 DEF WellFormed, HoodInv, Hood
<1> QED BY <1>5, <1>7, <1>8 DEF WellFormed, e

\* confirm
LEMMA ConfirmedIsWell ==
  ASSUME NEW c, WellFormed(c), NEW departed, NEW successor \in Host,
         OwesConfirmation(c, departed, successor), Advances(c)
  PROVE  /\ WellFormed(Confirm(c, departed, successor))
         /\ Confirm(c, departed, successor).members = c.members
<1> DEFINE r == c.retired[departed]
           done == [r EXCEPT !.confirmed = r.confirmed \union {successor}]
           retired == [c.retired EXCEPT ![departed] = done]
           e == [c EXCEPT !.version = c.version + 1, !.retired = retired]
<1>1. /\ c \in Configuration /\ c.version \in Nat /\ departed \in DOMAIN c.retired
      /\ c.retired \in [DOMAIN c.retired -> Retirement] /\ DOMAIN c.retired \in SUBSET Host
  BY PartialFunctions DEF WellFormed, Configuration, OwesConfirmation
<1>2. done \in Retirement /\ done.version = r.version /\ done.survivors = r.survivors
  <2>1. r \in Retirement
    BY <1>1
  <2> HIDE DEF r
  <2> QED BY <2>1 DEF Retirement
<1>3. Confirm(c, departed, successor) = PruneRetirements(e)
  BY DEF Confirm
<1> HIDE DEF done
<1>4. /\ retired \in [DOMAIN c.retired -> Retirement] /\ DOMAIN retired = DOMAIN c.retired
      /\ \A d \in DOMAIN retired : /\ retired[d].version = c.retired[d].version
                                   /\ retired[d].survivors = c.retired[d].survivors
  BY <1>1, <1>2
<1>5. retired \in Partial(Retirement) /\ c.version + 1 \in Nat
  BY SMTT(60), <1>1, <1>4, PartialFunctions
<1> HIDE DEF retired
<1>6. /\ e \in Configuration /\ e.version = c.version + 1 /\ e.members = c.members
      /\ e.hood = c.hood /\ e.settled = c.settled /\ e.retired = retired
  BY <1>1, <1>5 DEF Configuration
<1> HIDE DEF e
<1>7. \A d \in DOMAIN c.retired : c.retired[d].version \in Nat
  BY <1>1 DEF Retirement
<1>8. RetiredInv(e)
  BY SMTT(60), <1>1, <1>4, <1>6, <1>7 DEF WellFormed, RetiredInv
<1>9. HoodInv(e)
  BY <1>6 DEF WellFormed, HoodInv, Hood
<1>10. WellFormed(e)
  BY <1>6, <1>8, <1>9 DEF WellFormed
<1> QED BY <1>3, <1>6, <1>10, PrunedIsWell

-----------------------------------------------------------------------------
(* The committed log *)

\* A step admits one host, or takes one over, or leaves the members alone.
MembersMove ==
  \/ config'.members = config.members
  \/ \E h \in Host \ config.members : config'.members = config.members \union {h}
  \/ \E h \in config.members : config'.members = config.members \ {h}

\* Every step of the council keeps the configuration well formed, and moves at most one member.
LEMMA CouncilStep ==
  ASSUME WellFormed(config), [Next]_vars
  PROVE  WellFormed(config') /\ MembersMove
<1>1. CASE UNCHANGED config
  BY <1>1 DEF MembersMove
<1>2. ASSUME NEW h \in Host, AdmitHost(h) PROVE WellFormed(config') /\ MembersMove
  <2>1. Admits(config, h) /\ Advances(config) /\ config' = Admit(config, h)
    BY <1>2 DEF AdmitHost
  <2>2. h \notin config.members
    BY <2>1 DEF Admits
  <2> QED BY <2>1, <2>2, AdmittedIsWell DEF MembersMove
<1>3. ASSUME NEW h \in Host, TakeOverHost(h) PROVE WellFormed(config') /\ MembersMove
  <2>1. h \in config.members /\ Advances(config) /\ config' = TakeOver(config, h)
    BY <1>3 DEF TakeOverHost, Depart
  <2> QED BY <2>1, TakenOverIsWell DEF MembersMove
<1>4. ASSUME NEW h \in Host, SettleOwner(h) PROVE WellFormed(config') /\ MembersMove
  <2>1. /\ h \in config.members /\ Advances(config)
        /\ Settles(config, h, config.hood[h].generation)
        /\ config' = Settle(config, h, config.hood[h].generation)
    BY <1>4 DEF SettleOwner
  <2> QED BY <2>1, SettledIsWell DEF MembersMove
<1>5. ASSUME NEW d \in Host, NEW s \in Host, ConfirmShare(d, s)
      PROVE  WellFormed(config') /\ MembersMove
  <2>1. /\ OwesConfirmation(config, d, s) /\ Advances(config)
        /\ config' = Confirm(config, d, s)
    BY <1>5 DEF ConfirmShare
  <2> QED BY <2>1, ConfirmedIsWell DEF MembersMove
<1>6. ASSUME NEW o \in Object, NEW h \in Host, Create(o, h) PROVE UNCHANGED config
  BY <1>6 DEF Create
<1>7. ASSUME NEW o \in Object, Adopt(o) PROVE UNCHANGED config
  BY <1>7 DEF Adopt
<1> QED BY <1>1, <1>2, <1>3, <1>4, <1>5, <1>6, <1>7 DEF Next, vars

\* A configuration is always well formed: of its type, its retirements in order, and its
\* recorded neighbourhoods the ones its members make them (apply_command).
THEOREM ConfigurationsAreWellFormed == Spec => []WellFormed(config)
<1>1. Init => WellFormed(config)
  BY FormedIsWell, CouncilAssumption DEF Init
<1>2. WellFormed(config) /\ [Next]_vars => WellFormed(config)'
  BY CouncilStep
<1> QED BY <1>1, <1>2, PTL DEF Spec

\* A survivor that is itself retired retired later, however often hosts are admitted,
\* taken over and admitted again, so the walk of lineage ends (register.rs lineage).
THEOREM LineagesAdvance == Spec => []LineageAdvances
<1>1. WellFormed(config) => LineageAdvances
  BY DEF WellFormed, RetiredInv, LineageAdvances
<1> QED BY <1>1, ConfigurationsAreWellFormed, PTL

\* At most one element.
LEMMA AtMostOne ==
  ASSUME NEW T, \A x, y \in T : x = y
  PROVE  Cardinality(T) <= 1
<1>1. CASE T = {}
  <2>1. Cardinality(T) = 0
    BY <1>1, FS_EmptySet
  <2> QED BY SMTT(60), <2>1
<1>2. CASE T # {}
  <2>1. PICK x \in T : TRUE
    BY <1>2
  <2>2. T = {x}
    BY <2>1
  <2>3. Cardinality({x}) = 1
    BY FS_Singleton
  <2>4. Cardinality(T) = 1
    BY <2>2, <2>3
  <2> QED BY SMTT(60), <2>4
<1> QED BY <1>1, <1>2

\* What a change of the members by one host may do to the neighbourhood of a member
\* that stays.
LEMMA StableNeighbourhood ==
  ASSUME WellFormed(config), WellFormed(config'), MembersMove,
         NEW o \in config.members \cap config'.members
  PROVE  /\ Cardinality(Hood(config', o) \ Hood(config, o)) <= 1
         /\ Cardinality(Hood(config, o) \ Hood(config', o)) <= 1
         /\ Hood(config', o) # Hood(config, o) =>
              \/ (config'.members \ config.members) \cap Hood(config', o) # {}
              \/ (config.members \ config'.members) \cap Hood(config, o) # {}
<1> DEFINE old == config.members
           new == config'.members
           before == SelectNeighbourhood(o, old)
           after == SelectNeighbourhood(o, new)
<1>1. old \in SUBSET Host /\ new \in SUBSET Host /\ o \in Host
  BY DEF WellFormed, Configuration
<1>2. Hood(config, o) = before /\ Hood(config', o) = after
  BY DEF Hood
<1>3. CASE new = old
  <2>1. after \ before = {} /\ before \ after = {}
    BY <1>3
  <2> HIDE DEF before, after
  <2> QED BY <1>2, <2>1, AtMostOne
<1>4. ASSUME NEW h \in Host \ old, new = old \union {h}
      PROVE  /\ Cardinality(after \ before) <= 1 /\ Cardinality(before \ after) <= 1
             /\ after # before => (new \ old) \cap after # {}
  <2>1. h \in Host /\ h \notin old /\ h # o /\ after = SelectNeighbourhood(o, old \union {h})
    BY <1>4
  <2>2. /\ after \ before \subseteq {h} /\ \A x, y \in before \ after : x = y
        /\ after # before => h \in after
    BY SMTT(60), <1>1, <2>1, OneMore
  <2> HIDE DEF before, after
  <2> QED BY <1>4, <2>1, <2>2, AtMostOne
<1>5. ASSUME NEW h \in old, new = old \ {h}
      PROVE  /\ Cardinality(after \ before) <= 1 /\ Cardinality(before \ after) <= 1
             /\ after # before => (old \ new) \cap before # {}
  <2>1. old = new \union {h} /\ h \notin new /\ h # o /\ h \in Host
    BY <1>1, <1>5
  <2>2. /\ before \ after \subseteq {h} /\ \A x, y \in after \ before : x = y
        /\ after # before => h \in before
    BY SMTT(60), <1>1, <2>1, OneMore
  <2> HIDE DEF before, after
  <2> QED BY <1>5, <2>1, <2>2, AtMostOne
<1> HIDE DEF before, after
<1> QED BY <1>2, <1>3, <1>4, <1>5 DEF MembersMove

\* When one host is admitted or taken over, a remaining owner's neighbourhood gains at
\* most one host and loses at most one, and moves only if the host that came or went is
\* in it (select_neighbourhood).
THEOREM NeighbourhoodsMoveByOne == Spec => NeighbourhoodsStable
<1> DEFINE Stable ==
      \A o \in config.members \cap config'.members :
        /\ Cardinality(Hood(config', o) \ Hood(config, o)) <= 1
        /\ Cardinality(Hood(config, o) \ Hood(config', o)) <= 1
        /\ Hood(config', o) # Hood(config, o) =>
             \/ (config'.members \ config.members) \cap Hood(config', o) # {}
             \/ (config.members \ config'.members) \cap Hood(config, o) # {}
<1>1. WellFormed(config) /\ [Next]_vars => [Stable]_vars
  BY CouncilStep, StableNeighbourhood
<1> QED BY <1>1, ConfigurationsAreWellFormed, PTL DEF Spec, NeighbourhoodsStable

-----------------------------------------------------------------------------
(* Finite orders *)

\* A non-empty set of naturals has a least element.
LEMMA LeastNatural ==
  ASSUME NEW T \in SUBSET Nat, T # {}
  PROVE  \E m \in T : \A n \in T : m <= n
<1> DEFINE R == OpToRel(<, Nat)
<1>1. IsWellFoundedOn(R, Nat)
  BY NatLessThanWellFounded
<1>2. \A m, n \in Nat : <<m, n>> \in R <=> m < n
  BY DEF OpToRel
<1> HIDE DEF R
<1>3. PICK m \in T : \A n \in T : ~ (<<n, m>> \in R)
  BY <1>1, WFMin
<1>4. m \in Nat /\ \A n \in T : n \in Nat
  OBVIOUS
<1>5. \A n \in T : ~ (n < m)
  BY <1>2, <1>3, <1>4
<1> QED BY SMTT(60), <1>4, <1>5

\* A finite set that a relation orders has a first element.
LEMMA FirstElement ==
  ASSUME NEW S, IsFiniteSet(S), S # {}, NEW R,
         \A x, y \in S : x # y => <<x, y>> \in R \/ <<y, x>> \in R,
         \A x, y, z \in S : <<x, y>> \in R /\ <<y, z>> \in R => <<x, z>> \in R
  PROVE  \E m \in S : \A x \in S \ {m} : <<m, x>> \in R
<1> DEFINE First(X) == \E m \in X : \A x \in X \ {m} : <<m, x>> \in R
           T == {k \in Nat : \E X \in SUBSET S : X # {} /\ Cardinality(X) = k /\ ~First(X)}
<1>1. ASSUME T # {} PROVE FALSE
  <2>1. PICK k \in T : \A n \in T : k <= n
    BY <1>1, LeastNatural
  <2>2. PICK X \in SUBSET S : X # {} /\ Cardinality(X) = k /\ ~First(X)
    BY <2>1
  <2>3. PICK a \in X : TRUE
    BY <2>2
  <2> DEFINE Y == X \ {a}
  <2>4. IsFiniteSet(X) /\ k \in Nat
    BY <2>1, FS_Subset
  <2>5. Cardinality(Y) = k - 1 /\ Cardinality(Y) \in Nat
    BY <2>2, <2>3, <2>4, FS_RemoveElement, FS_CardinalityType
  <2>6. Y \in SUBSET S /\ X = Y \union {a} /\ a \in S
    BY SMTT(60), <2>2, <2>3
  <2>7. Y # {}
    <3> SUFFICES ASSUME Y = {} PROVE FALSE
      OBVIOUS
    <3>1. X \ {a} = {}
      OBVIOUS
    <3> QED BY <2>2, <2>3, <3>1
  <2> HIDE DEF Y
  <2>8. First(Y)
    <3> SUFFICES ASSUME ~First(Y) PROVE FALSE
      OBVIOUS
    <3>1. k - 1 \in T
      BY <2>5, <2>6, <2>7
    <3> QED BY SMTT(60), <2>1, <2>4, <3>1
  <2>9. PICK m \in Y : \A x \in Y \ {m} : <<m, x>> \in R
    BY <2>8
  <2>10. CASE <<m, a>> \in R
    BY <2>2, <2>6, <2>9, <2>10
  <2>11. CASE <<a, m>> \in R
    <3>1. \A x \in Y : <<a, x>> \in R
      BY <2>6, <2>9, <2>11
    <3> QED BY <2>2, <2>3, <2>6, <3>1
  <2>12. m # a /\ m \in S
    BY <2>6, <2>9 DEF Y
  <2> QED BY <2>6, <2>10, <2>11, <2>12
<1>2. Cardinality(S) \in Nat
  BY FS_CardinalityType
<1>3. First(S)
  BY SMTT(60), <1>1, <1>2
<1> QED BY <1>3

\* The order the co-holders are laid out in (owner_copysets: by domain, then id).
LEMMA BeforeIsAnOrder ==
  ASSUME NEW x \in Host, NEW y \in Host, NEW z \in Host
  PROVE  /\ ~Before(x, x)
         /\ Before(x, y) /\ Before(y, z) => Before(x, z)
         /\ x # y => Before(x, y) \/ Before(y, x)
<1>1. /\ Domain[x] \in Nat /\ Domain[y] \in Nat /\ Domain[z] \in Nat
      /\ x \in Nat /\ y \in Nat /\ z \in Nat
  BY PlacementAssumption
<1> QED BY SMTT(60), <1>1 DEF Before

\* Its first and its last host.
LEMMA FirstAndLast ==
  ASSUME NEW X \in SUBSET Host, X # {}
  PROVE  /\ \E m \in X : \A x \in X \ {m} : Before(m, x)
         /\ \E m \in X : \A x \in X \ {m} : Before(x, m)
<1>1. IsFiniteSet(X)
  BY PlacementAssumption, FS_Subset
<1> DEFINE R == {p \in Host \X Host : Before(p[1], p[2])}
           Q == {p \in Host \X Host : Before(p[2], p[1])}
<1>2. \A x, y \in Host : (<<x, y>> \in R <=> Before(x, y)) /\ (<<x, y>> \in Q <=> Before(y, x))
  OBVIOUS
<1> HIDE DEF R, Q
<1>3. /\ \A x, y \in X : x # y => <<x, y>> \in R \/ <<y, x>> \in R
      /\ \A x, y, z \in X : <<x, y>> \in R /\ <<y, z>> \in R => <<x, z>> \in R
  BY <1>2, BeforeIsAnOrder
<1>4. /\ \A x, y \in X : x # y => <<x, y>> \in Q \/ <<y, x>> \in Q
      /\ \A x, y, z \in X : <<x, y>> \in Q /\ <<y, z>> \in Q => <<x, z>> \in Q
  BY <1>2, BeforeIsAnOrder
<1>5. \E m \in X : \A x \in X \ {m} : <<m, x>> \in R
  BY <1>1, <1>3, FirstElement
<1>6. \E m \in X : \A x \in X \ {m} : <<m, x>> \in Q
  BY <1>1, <1>4, FirstElement
<1> QED BY <1>2, <1>5, <1>6

-----------------------------------------------------------------------------
(* First fit *)

\* The groups as they are when h's turn comes.
Groups(set, f, h) ==
  [k \in 1 .. Cardinality(set) |-> {g \in set : Before(g, h) /\ f[g] = k}]

\* f places the co-holders of W, given those before them.
Places(set, W, f) == f = [h \in W |-> FirstFit(Groups(set, f, h), h)]

\* The co-holders of W are the first ones of the set.
Closed(set, W) == \A h \in W, g \in set : Before(g, h) => g \in W

\* A placement of the first co-holders extends to the next one.
LEMMA PlacesGrow ==
  ASSUME NEW set \in SUBSET Host, NEW W \in SUBSET set, Closed(set, W), NEW f, Places(set, W, f),
         W # set
  PROVE  \E m \in set \ W : Closed(set, W \union {m}) /\ \E g : Places(set, W \union {m}, g)
<1>1. set \ W \in SUBSET Host /\ set \ W # {}
  OBVIOUS
<1>2. PICK m \in set \ W : \A x \in (set \ W) \ {m} : Before(m, x)
  BY <1>1, FirstAndLast
<1>3. \A g \in set : Before(g, m) => g \in W
  BY <1>2, BeforeIsAnOrder
<1> DEFINE V == W \union {m}
           e == [h \in V |-> IF h = m THEN FirstFit(Groups(set, f, m), m) ELSE f[h]]
<1>4. Closed(set, V)
  BY <1>3 DEF Closed
<1>5. ASSUME NEW h \in V PROVE Groups(set, e, h) = Groups(set, f, h)
  <2>1. \A g \in set : Before(g, h) => g \in W
    BY <1>3 DEF Closed
  <2>2. \A g \in W : e[g] = f[g]
    BY <1>2
  <2> HIDE DEF e
  <2>3. \A k : {g \in set : Before(g, h) /\ e[g] = k} = {g \in set : Before(g, h) /\ f[g] = k}
    BY <2>1, <2>2
  <2> QED BY <2>3 DEF Groups
<1>6. ASSUME NEW h \in V PROVE e[h] = FirstFit(Groups(set, e, h), h)
  <2>1. CASE h = m
    <3>1. e[h] = FirstFit(Groups(set, f, m), m)
      BY <2>1
    <3> HIDE DEF e
    <3> QED BY <2>1, <3>1, <1>5
  <2>2. CASE h # m
    <3>1. e[h] = f[h] /\ h \in W
      BY <2>2
    <3>2. f[h] = FirstFit(Groups(set, f, h), h)
      BY <3>1 DEF Places
    <3> HIDE DEF e
    <3> QED BY <3>1, <3>2, <1>5
  <2> QED BY <2>1, <2>2
<1>7. Places(set, V, e)
  <2>1. e = [h \in V |-> e[h]]
    OBVIOUS
  <2> HIDE DEF e
  <2> QED BY <1>6, <2>1 DEF Places
<1> QED BY <1>2, <1>4, <1>7

\* So the groups are all formed (the loop of owner_copysets).
LEMMA SlotPlaces ==
  ASSUME NEW set \in SUBSET Host
  PROVE  Places(set, set, Slot(set))
<1> DEFINE Complete(W) == Closed(set, W) /\ \E f : Places(set, W, f)
           T == {k \in Nat : \E W \in SUBSET set : Complete(W) /\ Cardinality(set \ W) = k}
<1>1. IsFiniteSet(set)
  BY PlacementAssumption, FS_Subset
<1>2. T # {}
  <2>1. Closed(set, {})
    BY DEF Closed
  <2> DEFINE none == [h \in {} |-> 0]
  <2>2. Places(set, {}, none)
    BY DEF Places
  <2> HIDE DEF none
  <2>3. set \ {} = set /\ Cardinality(set) \in Nat
    BY <1>1, FS_CardinalityType
  <2>4. {} \in SUBSET set /\ Complete({})
    BY <2>1, <2>2
  <2> QED BY <2>3, <2>4
<1>3. PICK k \in T : \A n \in T : k <= n
  BY <1>2, LeastNatural
<1>4. PICK W \in SUBSET set : Complete(W) /\ Cardinality(set \ W) = k
  BY <1>3
<1>5. W = set
  <2> SUFFICES ASSUME W # set PROVE FALSE
    OBVIOUS
  <2>1. PICK m \in set \ W : Closed(set, W \union {m}) /\ \E g : Places(set, W \union {m}, g)
    BY <1>4, PlacesGrow
  <2> DEFINE V == W \union {m}
  <2>2. V \in SUBSET set /\ Complete(V)
    BY <2>1
  <2> DEFINE rest == set \ W
  <2>3. set \ V = rest \ {m} /\ IsFiniteSet(rest) /\ m \in rest /\ Cardinality(rest) = k
    BY <1>1, <1>4, FS_Subset
  <2> HIDE DEF rest
  <2>4. Cardinality(rest \ {m}) = k - 1 /\ k - 1 \in Nat
    <3>1. IsFiniteSet(rest \ {m}) /\ Cardinality(rest \ {m}) = k - 1
      BY <2>3, FS_RemoveElement
    <3> DEFINE fewer == rest \ {m}
    <3>2. Cardinality(fewer) = k - 1 /\ IsFiniteSet(fewer)
      BY <3>1
    <3> HIDE DEF fewer
    <3>3. Cardinality(fewer) \in Nat
      BY <3>2, FS_CardinalityType
    <3> QED BY <3>1, <3>2, <3>3
  <2> HIDE DEF V, Complete
  <2>5. k - 1 \in T
    BY <2>2, <2>3, <2>4
  <2> QED BY SMTT(60), <1>3, <2>5
<1>6. PICK f : f = [h \in set |-> FirstFit(Groups(set, f, h), h)]
  BY <1>4, <1>5 DEF Places
<1>7. Slot(set) = CHOOSE s : s = [h \in set |-> FirstFit(Groups(set, s, h), h)]
  BY DEF Slot, Groups
<1> QED BY <1>6, <1>7 DEF Places

\* A co-holder with a group to join joins one it fits in: with as many groups as
\* co-holders one of them is still empty, and an empty group takes anyone when F > 0.
LEMMA SlotFits ==
  ASSUME NEW set \in SUBSET Host, NEW h \in set, F > 0
  PROVE  /\ Slot(set)[h] \in 1 .. Cardinality(set)
         /\ Fits({g \in set : Before(g, h) /\ Slot(set)[g] = Slot(set)[h]}, h)
<1> DEFINE n == Cardinality(set)
           s == Slot(set)
           G == Groups(set, s, h)
           earlier == {g \in set : Before(g, h)}
<1>1. IsFiniteSet(set) /\ n \in Nat /\ IsFiniteSet(earlier)
  BY PlacementAssumption, FS_Subset, FS_CardinalityType
<1>2. s[h] = FirstFit(G, h)
  BY SlotPlaces DEF Places
<1>3. DOMAIN G = 1 .. n /\ \A k \in 1 .. n : G[k] = {g \in set : Before(g, h) /\ s[g] = k}
  BY DEF Groups
<1>4. \E k \in 1 .. n : G[k] = {}
  <2> SUFFICES ASSUME \A k \in 1 .. n : G[k] # {} PROVE FALSE
    OBVIOUS
  <2> DEFINE pick == [k \in 1 .. n |-> CHOOSE g \in set : Before(g, h) /\ s[g] = k]
  <2>1. \A k \in 1 .. n : pick[k] \in earlier /\ s[pick[k]] = k
    BY <1>3
  <2>2. pick \in [1 .. n -> earlier]
    BY <2>1
  <2> HIDE DEF pick, s, G, n, earlier
  <2>3. Cardinality(earlier) < n
    <3> DEFINE others == set \ {h}
    <3>1. IsFiniteSet(others) /\ Cardinality(others) = n - 1
      BY <1>1, FS_RemoveElement DEF n
    <3>2. earlier \subseteq others
      BY BeforeIsAnOrder DEF earlier
    <3> HIDE DEF others
    <3>3. Cardinality(earlier) <= Cardinality(others) /\ Cardinality(earlier) \in Nat
      BY <1>1, <3>1, <3>2, FS_Subset, FS_CardinalityType
    <3> QED BY SMTT(60), <1>1, <3>1, <3>3
  <2> DEFINE index == 1 .. n
  <2>4. IsFiniteSet(index) /\ Cardinality(index) = n
    <3>1. IsFiniteSet(1 .. n) /\ Cardinality(1 .. n) = IF 1 > n THEN 0 ELSE n - 1 + 1
      BY SMTT(60), <1>1, FS_Interval
    <3> QED BY SMTT(60), <1>1, <3>1
  <2>5. pick \in [index -> earlier] /\ \A j, k \in index : pick[j] = pick[k] => j = k
    BY <2>1, <2>2
  <2> HIDE DEF index
  <2>6. \E x, y \in index : x # y /\ pick[x] = pick[y]
    BY SMTT(60), <1>1, <2>3, <2>4, <2>5, FS_PigeonHole
  <2> QED BY <2>5, <2>6
<1>5. Fits({}, h)
  BY SMTT(60), FS_EmptySet, PlacementAssumption DEF Fits
<1> DEFINE T == {k \in 1 .. n : Fits(G[k], h)}
<1>6. PICK k \in T : \A j \in T : k <= j
  <2>1. T \in SUBSET Nat /\ T # {}
    BY SMTT(60), <1>4, <1>5
  <2> HIDE DEF T
  <2> QED BY <2>1, LeastNatural
<1> HIDE DEF G, s, n
<1>7. k \in DOMAIN G /\ Fits(G[k], h) /\ \A j \in 1 .. (k - 1) : ~Fits(G[j], h)
  <2>1. k \in 1 .. n /\ Fits(G[k], h)
    OBVIOUS
  <2>2. ASSUME NEW j \in 1 .. (k - 1), Fits(G[j], h) PROVE FALSE
    <3>1. j \in 1 .. n /\ j < k
      BY SMTT(60), <1>1, <2>1
    <3> QED BY SMTT(60), <1>6, <2>2, <3>1
  <2> QED BY <1>3, <2>1, <2>2
<1>8. FirstFit(G, h) \in DOMAIN G /\ Fits(G[FirstFit(G, h)], h)
  BY <1>7 DEF FirstFit
<1>9. s[h] \in 1 .. n /\ Fits(G[s[h]], h)
  BY <1>2, <1>3, <1>8
<1> QED BY <1>3, <1>9 DEF s, n

\* The co-holders of one group.
Mates(set, k) == {g \in set : Slot(set)[g] = k}

\* "no copyset repeats a domain": the later of two co-holders would not have fitted.
LEMMA MatesSpread ==
  ASSUME NEW set \in SUBSET Host, F > 0, NEW k, NEW x \in Mates(set, k), NEW y \in Mates(set, k),
         Domain[x] = Domain[y]
  PROVE  x = y
<1>1. x \in set /\ y \in set /\ Slot(set)[x] = k /\ Slot(set)[y] = k
  BY DEF Mates
<1>2. ASSUME NEW a \in set, NEW b \in set, Slot(set)[a] = Slot(set)[b], Before(a, b)
      PROVE  Domain[a] # Domain[b]
  <2>1. a \in {g \in set : Before(g, b) /\ Slot(set)[g] = Slot(set)[b]}
    BY <1>2
  <2>2. Fits({g \in set : Before(g, b) /\ Slot(set)[g] = Slot(set)[b]}, b)
    BY SlotFits
  <2> QED BY <2>1, <2>2 DEF Fits
<1>3. ~Before(x, y) /\ ~Before(y, x)
  BY <1>1, <1>2
<1> QED BY <1>1, <1>3, BeforeIsAnOrder

\* A group holds at most 2f: its last co-holder joined it with fewer.
LEMMA MatesBounded ==
  ASSUME NEW set \in SUBSET Host, F > 0, NEW k
  PROVE  IsFiniteSet(Mates(set, k)) /\ Cardinality(Mates(set, k)) <= 2 * F
<1> DEFINE M == Mates(set, k)
<1>1. M \in SUBSET Host /\ IsFiniteSet(M)
  BY PlacementAssumption, FS_Subset DEF Mates
<1>2. CASE M = {}
  BY SMTT(60), <1>1, <1>2, FS_EmptySet, PlacementAssumption
<1>3. CASE M # {}
  <2> HIDE DEF M
  <2>1. PICK m \in M : \A x \in M \ {m} : Before(x, m)
    BY <1>1, <1>3, FirstAndLast
  <2> DEFINE others == {g \in set : Before(g, m) /\ Slot(set)[g] = Slot(set)[m]}
  <2>2. m \in set /\ Slot(set)[m] = k
    BY DEF M, Mates
  <2>3. M = others \union {m} /\ m \notin others
    BY <2>1, <2>2, <1>1, BeforeIsAnOrder DEF M, Mates
  <2>4. Fits(others, m)
    BY <2>2, SlotFits
  <2> HIDE DEF others
  <2>5. IsFiniteSet(others)
    BY <1>1, <2>3, FS_Subset
  <2>6. Cardinality(others \union {m}) = Cardinality(others) + 1 /\ Cardinality(others) \in Nat
    BY <2>3, <2>5, FS_AddElement, FS_CardinalityType
  <2>7. Cardinality(others) < 2 * F
    BY <2>4 DEF Fits
  <2>8. Cardinality(M) <= 2 * F
    BY SMTT(60), <2>3, <2>6, <2>7, PlacementAssumption
  <2> QED BY <1>1, <2>8 DEF M
<1> QED BY <1>2, <1>3

-----------------------------------------------------------------------------
(* Copysets *)

\* What CopysetsSpread says of an owner's copysets, whatever its neighbourhood.
Spread(o, hosts, sets) ==
  /\ \A s \in sets :
       /\ o \in s /\ Cardinality(s) <= 2 * F + 1
       /\ \A g, h \in s : Domain[g] = Domain[h] => g = h
  /\ \A s, t \in sets : s # t => s \cap t = {o}
  /\ UNION sets = {o} \union {h \in hosts : F > 0 /\ Domain[h] # Domain[o]}

\* The owner's co-holders outside its domain, and the copyset of one of them.
Usable(o, hosts) == {h \in hosts \ {o} : Domain[h] # Domain[o]}
CopysetOf(o, hosts, g) == {o} \union Mates(Usable(o, hosts), Slot(Usable(o, hosts))[g])

\* The copysets of an owner that has co-holders.
LEMMA CopysetsAre ==
  ASSUME NEW o \in Host, NEW hosts \in SUBSET Host, F > 0, Usable(o, hosts) # {}
  PROVE  OwnerCopysets(o, hosts) = {CopysetOf(o, hosts, g) : g \in Usable(o, hosts)}
BY SMTT(60) DEF OwnerCopysets, CopysetOf, Mates, Usable

\* With no fault to tolerate, or no co-holder, the owner is the only copyset.
LEMMA CopysetIsOwner ==
  ASSUME NEW o \in Host, NEW hosts \in SUBSET Host, F = 0 \/ Usable(o, hosts) = {}
  PROVE  OwnerCopysets(o, hosts) = {{o}}
BY DEF OwnerCopysets, Usable

\* A copyset other than the owner alone is keyed by one of its co-holders.
LEMMA KeyIsACoHolder ==
  ASSUME NEW o \in Host, NEW hosts \in SUBSET Host, F > 0, NEW g \in Usable(o, hosts)
  PROVE  KeyOf(o, CopysetOf(o, hosts, g)) \in CopysetOf(o, hosts, g) \ {o}
<1> DEFINE s == CopysetOf(o, hosts, g)
           co == s \ {o}
<1>1. g \in co /\ co \in SUBSET Host /\ s # {o}
  BY DEF CopysetOf, Mates, Usable
<1> HIDE DEF s
<1>2. \E m \in co : \A x \in co \ {m} : Before(m, x)
  <2> HIDE DEF co
  <2> QED BY <1>1, FirstAndLast
<1>3. \E m \in s \ {o} : \A x \in s \ {o, m} : Before(m, x)
  BY <1>2
<1>4. KeyOf(o, s) \in s \ {o}
  BY <1>1, <1>3 DEF KeyOf
<1> QED BY <1>4 DEF s

\* The copysets spread the copies and share no co-holder (owner_copysets).
LEMMA CopysetsAreSpread ==
  ASSUME NEW o \in Host, NEW hosts \in SUBSET Host
  PROVE  Spread(o, hosts, OwnerCopysets(o, hosts))
<1> DEFINE U == Usable(o, hosts)
           sets == OwnerCopysets(o, hosts)
<1>1. F \in Nat /\ U \in SUBSET Host /\ o \notin U /\ \A h \in U : Domain[h] # Domain[o]
  BY PlacementAssumption DEF Usable
<1>2. CASE F = 0 \/ U = {}
  <2>1. sets = {{o}}
    BY <1>2, CopysetIsOwner
  <2>2. Cardinality({o}) = 1
    BY FS_Singleton
  <2>3. {h \in hosts : F > 0 /\ Domain[h] # Domain[o]} = {}
    BY SMTT(60), <1>1, <1>2 DEF Usable
  <2> HIDE DEF sets
  <2>4. UNION sets = {o}
    BY <2>1
  <2>5. \A s \in sets : o \in s /\ Cardinality(s) <= 2 * F + 1
    <3>1. 1 <= 2 * F + 1
      BY SMTT(60), <1>1
    <3> QED BY <2>1, <2>2, <3>1
  <2> QED BY <2>1, <2>3, <2>4, <2>5 DEF Spread, sets
<1>3. CASE F > 0 /\ U # {}
  <2>1. sets = {CopysetOf(o, hosts, g) : g \in U}
    BY <1>3, CopysetsAre
  <2>2. \A g \in U : CopysetOf(o, hosts, g) = {o} \union Mates(U, Slot(U)[g])
    BY DEF CopysetOf
  <2> HIDE DEF U, sets
  <2>3. \A k : Mates(U, k) \in SUBSET U
    BY DEF Mates
  <2>4. ASSUME NEW s \in sets
        PROVE  /\ o \in s /\ Cardinality(s) <= 2 * F + 1
               /\ \A g, h \in s : Domain[g] = Domain[h] => g = h
    <3>1. PICK g \in U : s = {o} \union Mates(U, Slot(U)[g])
      BY <2>1, <2>2
    <3> DEFINE M == Mates(U, Slot(U)[g])
    <3>2. IsFiniteSet(M) /\ Cardinality(M) <= 2 * F /\ M \in SUBSET U
      BY <1>1, <1>3, <2>3, MatesBounded
    <3>3. \A x, y \in M : Domain[x] = Domain[y] => x = y
      BY <1>1, <1>3, MatesSpread
    <3> HIDE DEF M
    <3>4. Cardinality(M \union {o}) = Cardinality(M) + 1 /\ Cardinality(M) \in Nat
      BY <1>1, <3>2, FS_AddElement, FS_CardinalityType
    <3>5. s = M \union {o}
      BY <3>1 DEF M
    <3>6. Cardinality(s) <= 2 * F + 1
      BY SMTT(60), <1>1, <3>2, <3>4, <3>5
    <3> QED BY <1>1, <3>2, <3>3, <3>5, <3>6
  <2>5. ASSUME NEW s \in sets, NEW t \in sets, s # t PROVE s \cap t = {o}
    <3>1. PICK g \in U : s = {o} \union Mates(U, Slot(U)[g])
      BY <2>1, <2>2
    <3>2. PICK h \in U : t = {o} \union Mates(U, Slot(U)[h])
      BY <2>1, <2>2
    <3>3. Slot(U)[g] # Slot(U)[h]
      BY <2>5, <3>1, <3>2
    <3>4. Mates(U, Slot(U)[g]) \cap Mates(U, Slot(U)[h]) = {}
      BY <3>3 DEF Mates
    <3> QED BY <3>1, <3>2, <3>4
  <2>6. UNION sets = {o} \union U
    <3>1. \A g \in U : g \in CopysetOf(o, hosts, g)
      BY <2>2 DEF Mates
    <3>2. \A s \in sets : o \in s /\ s \in SUBSET ({o} \union U)
      BY SMTT(60), <2>1, <2>2, <2>3
    <3>3. \A g \in U : CopysetOf(o, hosts, g) \in sets
      BY <2>1
    <3>4. sets # {}
      BY <1>3, <3>3
    <3> QED BY SMTT(60), <3>1, <3>2, <3>3, <3>4
  <2>7. {o} \union U = {o} \union {h \in hosts : F > 0 /\ Domain[h] # Domain[o]}
    BY <1>3 DEF U, Usable
  <2> QED BY <2>4, <2>5, <2>6, <2>7 DEF Spread, sets
<1> QED BY SMTT(60), <1>1, <1>2, <1>3

\* candidates_for always finds a heaviest copyset.
LEMMA CandidatesAreACopyset ==
  ASSUME NEW o \in Host, NEW hosts \in SUBSET Host, NEW x \in Object
  PROVE  CandidatesFor(o, hosts, x) \in OwnerCopysets(o, hosts)
<1> DEFINE U == Usable(o, hosts)
           sets == OwnerCopysets(o, hosts)
<1>1. CandidatesFor(o, hosts, x) = Heaviest(o, x, sets)
  BY DEF CandidatesFor, Chosen
<1>2. \E s \in sets : \A t \in sets \ {s} : Heavier(o, x, s, t)
  <2>1. F \in Nat /\ U \in SUBSET Host /\ Host \subseteq Nat /\ ObjectWeight[x] \in [Host -> Nat]
    BY PlacementAssumption DEF Usable
  <2>2. CASE F = 0 \/ U = {}
    <3>1. sets = {{o}}
      BY <2>2, CopysetIsOwner
    <3> HIDE DEF sets
    <3> QED BY <3>1
  <2>3. CASE F > 0 /\ U # {}
    <3>1. sets = {CopysetOf(o, hosts, g) : g \in U}
      BY <2>3, CopysetsAre
    <3>2. \A s \in sets : KeyOf(o, s) \in s \ {o}
      <4> SUFFICES ASSUME NEW s \in sets PROVE KeyOf(o, s) \in s \ {o}
        OBVIOUS
      <4> HIDE DEF sets
      <4>1. PICK g \in Usable(o, hosts) : s = CopysetOf(o, hosts, g)
        BY <3>1
      <4> QED BY <2>3, <4>1, KeyIsACoHolder
    <3>3. \A s, t \in sets : s # t => s \cap t = {o}
      BY CopysetsAreSpread DEF Spread
    <3>4. \A s \in sets : s \in SUBSET Host
      BY <3>1 DEF CopysetOf, Mates, Usable
    <3> HIDE DEF U, sets
    <3>5. sets # {}
      BY <2>3, <3>1
    <3>6. IsFiniteSet(sets)
      <4>1. IsFiniteSet(SUBSET Host) /\ sets \subseteq SUBSET Host
        BY <3>4, PlacementAssumption, FS_SUBSET
      <4> QED BY <4>1, FS_Subset
    <3>7. \A s \in sets : KeyOf(o, s) \in Nat /\ ObjectWeight[x][KeyOf(o, s)] \in Nat
      BY <2>1, <3>2, <3>4
    <3>8. \A s, t \in sets : s # t => KeyOf(o, s) # KeyOf(o, t)
      BY SMTT(60), <3>2, <3>3
    <3> DEFINE R == {p \in sets \X sets : Heavier(o, x, p[1], p[2])}
    <3>9. \A s, t \in sets : <<s, t>> \in R <=> Heavier(o, x, s, t)
      OBVIOUS
    <3> HIDE DEF R
    <3>10. \A s, t \in sets : s # t => <<s, t>> \in R \/ <<t, s>> \in R
      BY SMTT(60), <3>7, <3>8, <3>9 DEF Heavier
    <3>11. \A s, t, u \in sets : <<s, t>> \in R /\ <<t, u>> \in R => <<s, u>> \in R
      BY SMTT(60), <3>7, <3>9 DEF Heavier
    <3>12. \E s \in sets : \A t \in sets \ {s} : <<s, t>> \in R
      BY SMTT(60), <3>5, <3>6, <3>10, <3>11, FirstElement
    <3> QED BY <3>9, <3>12
  <2> QED BY SMTT(60), <2>1, <2>2, <2>3
<1> HIDE DEF sets
<1>3. Heaviest(o, x, sets) \in sets
  BY <1>2 DEF Heaviest
<1> QED BY <1>1, <1>3 DEF sets

\* CopysetsSpread, in every configuration the council can reach and whatever the
\* domains, the weights, the scatter width and f: a domain failure takes at most one
\* copy of an object, and an object's candidates are one of the owner's copysets.
THEOREM DomainsTakeOneCopy == Spec => []CopysetsSpread
<1>1. ASSUME WellFormed(config) PROVE CopysetsSpread
  <2>1. config.members \in SUBSET Host
    BY <1>1 DEF WellFormed, Configuration
  <2> SUFFICES ASSUME NEW o \in config.members
               PROVE  LET sets == OwnerCopysets(o, Hood(config, o))
                      IN  /\ Spread(o, Hood(config, o), sets)
                          /\ \A x \in Object : CandidatesFor(o, Hood(config, o), x) \in sets
    BY DEF CopysetsSpread, Spread
  <2>2. o \in Host /\ Hood(config, o) \in SUBSET Host
    BY <2>1, HoodIsOfHosts DEF Hood
  <2> QED BY <2>2, CopysetsAreSpread, CandidatesAreACopyset
<1> QED BY <1>1, ConfigurationsAreWellFormed, PTL
=============================================================================
