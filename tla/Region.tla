------------------------------- MODULE Region -------------------------------
(***************************************************************************)
(* RegionalConfiguration (crates/db/src/register.rs): the value the        *)
(* region's council agrees on, and what each committed command makes of    *)
(* it.  A configuration c is a record of                                   *)
(*   version  the version, which every change advances                     *)
(*   members  the hosts of the region                                      *)
(*   epochs   each host's fencing epoch, retired hosts included            *)
(*   hood     each member's neighbourhood: its hosts and the generation    *)
(*            (version) at which they last changed                         *)
(*   settled  the neighbourhood each member's records are all placed on    *)
(*   retired  each retired host's Retirement                               *)
(* The failure domain of a host is the constant its node declares.         *)
(***************************************************************************)
EXTENDS Placement

CONSTANT LastVersion  \* the version with no successor (u64::MAX in the code)
ASSUME VersionAssumption == LastVersion \in Nat

FirstEpoch == 1
NoHost == 0

Restricted(f, s) == [x \in DOMAIN f \cap s |-> f[x]]
Extended(f, x, y) == [z \in DOMAIN f \union {x} |-> IF z = x THEN y ELSE f[z]]

\* checked_add on the version: a change with no version left is refused whole.
Advances(c) == c.version < LastVersion

\* fix_neighbourhoods: every member's neighbourhood from the members; one whose hosts
\* did not change keeps its generation.
FixNeighbourhoods(c, members, version) ==
  [o \in members |->
     LET hosts == SelectNeighbourhood(o, members)
     IN  IF o \in DOMAIN c.hood /\ c.hood[o].hosts = hosts THEN c.hood[o]
         ELSE [hosts |-> hosts, generation |-> version]]

\* formed: the first neighbourhoods are settled, no object is owned yet.
Formed(members) ==
  LET hood == [o \in members |-> [hosts |-> SelectNeighbourhood(o, members), generation |-> 0]]
  IN  [version |-> 0, members |-> members, epochs |-> [h \in members |-> FirstEpoch],
       hood |-> hood, settled |-> hood, retired |-> [h \in {} |-> {}]]
-----------------------------------------------------------------------------
\* owes_confirmation
OwesConfirmation(c, departed, host) ==
  /\ host \in c.members
  /\ departed \in DOMAIN c.retired
  /\ host \in c.retired[departed].survivors \ c.retired[departed].confirmed

\* recovery_owners: departed and, transitively, the retired hosts whose takeover it had
\* not confirmed its share of.
RecoveryOwners(c, departed) ==
  LET kept == DOMAIN c.retired
      reach[n \in 0 .. Cardinality(kept)] ==
        IF n = 0 THEN {departed} \cap kept
        ELSE reach[n - 1] \union (kept \cap UNION {c.retired[d].unconfirmed : d \in reach[n - 1]})
  IN  reach[Cardinality(kept)]

\* recovery_hosts
RecoveryHosts(c, departed) ==
  UNION {c.retired[d].settled.hosts : d \in RecoveryOwners(c, departed)}

\* recovery_cohorts: where each of the recovery owners placed the object.
RecoveryCohorts(c, departed, object) ==
  {CandidatesFor(d, c.retired[d].settled.hosts, object) : d \in RecoveryOwners(c, departed)}

\* Mutant: an object goes to whichever survivors are members at the time.
SuccessorAmongMembers(c, departed, object) ==
  LET ranked == UNION RecoveryCohorts(c, departed, object) \cap c.members
  IN  IF departed \notin DOMAIN c.retired \/ ranked = {} THEN NoHost
      ELSE RendezvousFirst(ranked, object)

\* successor: the survivor of the recovery cohorts that ranks first.
Successor(c, departed, object) ==
  LET ranked == UNION RecoveryCohorts(c, departed, object) \cap c.retired[departed].survivors
  IN  IF departed \notin DOMAIN c.retired \/ ranked = {} THEN NoHost
      ELSE RendezvousFirst(ranked, object)

Lost == [kind |-> "lost"]
Settled == [kind |-> "settled"]
Takes(departed, successor) == [kind |-> "successor", departed |-> departed, successor |-> successor]

\* lineage: from a retired owner to the successor that is a member, through the
\* successors that have retired since; at most one step per kept retirement.
Lineage(c, owner, object) ==
  LET kept == DOMAIN c.retired
      walk[n \in 0 .. (Cardinality(kept) + 1), d \in Host] ==
        LET s == Successor(c, d, object)
        IN  CASE n = 0 \/ d \notin kept -> Settled
              [] n > 0 /\ d \in kept /\ s = NoHost -> Lost
              [] n > 0 /\ d \in kept /\ s \in kept -> walk[n - 1, s]
              [] n > 0 /\ d \in kept /\ s \in c.members \ kept -> Takes(d, s)
              [] OTHER -> Settled
  IN  walk[Cardinality(kept) + 1, owner]
-----------------------------------------------------------------------------
\* The retirements somebody still owes a confirmation of.
Owed(c) ==
  {d \in DOMAIN c.retired : \E h \in RecoveryHosts(c, d) : OwesConfirmation(c, d, h)}

\* Mutant: a finished takeover is dropped while another recovers through it.
PruneReferenced(c) == [c EXCEPT !.retired = Restricted(@, Owed(c))]

\* prune_retirements, the fixed point of dropping the ones nobody owes and no kept one
\* recovers through: those still owed stay, with all they recover through.
PruneRetirements(c) ==
  [c EXCEPT !.retired = Restricted(@, UNION {RecoveryOwners(c, d) : d \in Owed(c)})]

\* retirement_bound and bound_retirements: as many as there are members, at least one,
\* are kept, the oldest dropped.
BoundRetirements(c) ==
  LET bound == IF c.members = {} THEN 1 ELSE Cardinality(c.members)
      Newer(d) == {e \in DOMAIN c.retired : c.retired[e].version > c.retired[d].version}
  IN  [c EXCEPT !.retired = Restricted(@, {d \in DOMAIN @ : Cardinality(Newer(d)) < bound})]
-----------------------------------------------------------------------------
\* Mutant: a host a kept retirement names is admitted again.
AdmitsNamed(c, host) == host \notin c.members

\* admits: neither a member nor named by a kept retirement.
Admits(c, host) ==
  /\ host \notin c.members \union DOMAIN c.retired
  /\ \A d \in DOMAIN c.retired : host \notin c.retired[d].survivors

\* admit
Admit(c, host) ==
  LET members == c.members \union {host}
      hood == FixNeighbourhoods(c, members, c.version + 1)
  IN  IF ~Admits(c, host) \/ ~Advances(c) THEN c
      ELSE [c EXCEPT !.version = @ + 1, !.members = members, !.hood = hood,
                     !.epochs = IF host \in DOMAIN @ THEN @ ELSE Extended(@, host, FirstEpoch),
                     !.settled = Extended(@, host, hood[host])]

\* The hosts a retiring member's successors are ranked among for good: the members of
\* its settled neighbourhood and of those of the takeovers it carries.
Survivors(c, member, settled, unconfirmed) ==
  ((settled.hosts \union UNION {RecoveryHosts(c, d) : d \in unconfirmed}) \cap c.members) \ {member}

\* retire, before the retirements are pruned and bounded.
Departed(c, member) ==
  LET members == c.members \ {member}
      settled == c.settled[member]
      unconfirmed == {d \in DOMAIN c.retired : OwesConfirmation(c, d, member)}
      retirement == [version |-> c.version + 1, settled |-> settled, confirmed |-> {},
                     unconfirmed |-> unconfirmed,
                     survivors |-> Survivors(c, member, settled, unconfirmed)]
  IN  [c EXCEPT !.version = @ + 1, !.members = members,
                !.hood = FixNeighbourhoods(c, members, c.version + 1),
                !.settled = Restricted(@, members),
                !.retired = Extended(@, member, retirement)]

\* retire: the settled neighbourhood moves into a Retirement.
Retire(c, member) ==
  IF member \notin c.members \/ ~Advances(c) THEN c
  ELSE BoundRetirements(PruneRetirements(Departed(c, member)))

\* take_over: the dead host's epoch is bumped, then it is retired.
TakeOver(c, dead) ==
  LET epoch == IF dead \in DOMAIN c.epochs THEN c.epochs[dead] ELSE FirstEpoch
  IN  IF ~Advances(c) THEN c
      ELSE Retire([c EXCEPT !.epochs = Extended(@, dead, epoch + 1)], dead)

\* settles and settle: an owner's report for its current neighbourhood.
Settles(c, owner, generation) ==
  /\ owner \in c.members
  /\ c.hood[owner].generation = generation
  /\ c.settled[owner].generation # generation
Settle(c, owner, generation) ==
  IF ~Settles(c, owner, generation) \/ ~Advances(c) THEN c
  ELSE [c EXCEPT !.version = @ + 1, !.settled[owner] = c.hood[owner]]

\* Mutant: a confirmation that drops no retirement.
ConfirmUnpruned(c, departed, successor) ==
  IF ~OwesConfirmation(c, departed, successor) \/ ~Advances(c) THEN c
  ELSE [c EXCEPT !.version = @ + 1,
                 !.retired[departed].confirmed = @ \union {successor}]

\* confirm: a survivor's share is done; the retirement goes with the last share.
Confirm(c, departed, successor) ==
  IF ~OwesConfirmation(c, departed, successor) \/ ~Advances(c) THEN c
  ELSE PruneRetirements(
         [c EXCEPT !.version = @ + 1,
                   !.retired[departed].confirmed = @ \union {successor}])
=============================================================================
