------------------------------- MODULE Council -------------------------------
(***************************************************************************)
(* The regional configuration as the council's committed log folds it      *)
(* (crates/cluster/src/config_group.rs, apply_command), and the objects    *)
(* whose ownership it carries.  The log's order is the council's: each     *)
(* step is one applied command, proposed where the leader's would_change   *)
(* holds.                                                                  *)
(*                                                                         *)
(* home, past and lost are history: the host each object is committed      *)
(* under; the departed owners under which holders may still keep a copy of *)
(* it (a copy is reclaimed as Lineage::Settled once the retirement goes);  *)
(* the objects past what the region tolerates, whose cohort has no         *)
(* survivor or whose retirement went over the bound.  Adopt is the         *)
(* successor's commit of one object; Confirm is its report, sent once no   *)
(* object falls to it.                                                     *)
(***************************************************************************)
EXTENDS Region

CONSTANTS
  Founders,  \* the hosts the region forms with
  MaxChurn   \* bound on admissions and departures, for model checking
ASSUME CouncilAssumption ==
  /\ Founders \in SUBSET Host \ {{}}
  /\ NoHost \notin Host
  /\ MaxChurn \in Nat

VARIABLES
  config,  \* the committed RegionalConfiguration
  home,    \* home[o]: the host object o is committed under, NoHost before it exists
  past,    \* past[o]: the departed owners under which copies of o may be held
  lost,    \* the objects beyond recovery
  churn    \* the admissions and departures so far

vars == <<config, home, past, lost, churn>>

Line(c, o) == Lineage(c, home[o], o)
Owned == {o \in Object : home[o] # NoHost}
-----------------------------------------------------------------------------
Init ==
  /\ config = Formed(Founders)
  /\ home = [o \in Object |-> NoHost]
  /\ past = [o \in Object |-> {}]
  /\ lost = {}
  /\ churn = 0

\* A member creates an object: committed under it, in its settled neighbourhood.
Create(o, h) ==
  /\ home[o] = NoHost
  /\ h \in config.members
  /\ home' = [home EXCEPT ![o] = h]
  /\ UNCHANGED <<config, past, lost, churn>>

\* ConfigCommand::Admit
AdmitHost(h) ==
  /\ churn < MaxChurn
  /\ Admits(config, h) /\ Advances(config)
  /\ config' = Admit(config, h)
  /\ churn' = churn + 1
  /\ UNCHANGED <<home, past, lost>>

\* The history of a departure that makes the configuration c, with departed what
\* prune_retirements and bound_retirements were given.
Depart(c, departed) ==
  /\ churn < MaxChurn
  /\ config' = c
  /\ past' = [o \in Object |-> past[o] \cap DOMAIN c.retired]
  /\ lost' = lost \union
       {o \in Owned : \E d \in past[o] \union {home[o]} :
          \/ d \notin c.members /\ Lineage(departed, d, o) = Lost
          \/ Lineage(c, d, o) # Lineage(PruneRetirements(departed), d, o)}
  /\ churn' = churn + 1
  /\ UNCHANGED home

\* ConfigCommand::TakeOver, proposed for a member the leader holds dead.  (A clean
\* ConfigCommand::Retire is this without the epoch; nothing proposes one.)
TakeOverHost(h) ==
  /\ h \in config.members /\ Advances(config)
  /\ Depart(TakeOver(config, h), Departed(config, h))

\* ConfigCommand::Settle, reported by the owner for its current neighbourhood.
SettleOwner(h) ==
  /\ h \in config.members /\ Advances(config)
  /\ Settles(config, h, config.hood[h].generation)
  /\ config' = Settle(config, h, config.hood[h].generation)
  /\ UNCHANGED <<home, past, lost, churn>>

\* A successor commits an object of a departed host under its own placement.
Adopt(o) ==
  /\ o \in Owned \ lost
  /\ home[o] \notin config.members
  /\ \E d \in DOMAIN config.retired, s \in config.members :
       /\ Line(config, o) = Takes(d, s)
       /\ home' = [home EXCEPT ![o] = s]
  /\ past' = [past EXCEPT ![o] = (@ \union {home[o]}) \cap DOMAIN config.retired]
  /\ UNCHANGED <<config, lost, churn>>

\* ConfigCommand::Confirm, reported once no object is left to adopt.
ConfirmShare(d, s) ==
  /\ OwesConfirmation(config, d, s) /\ Advances(config)
  /\ \A o \in Owned \ lost :
       home[o] \notin config.members => Line(config, o) # Takes(d, s)
  /\ config' = Confirm(config, d, s)
  /\ past' = [o \in Object |-> past[o] \cap DOMAIN config'.retired]
  /\ UNCHANGED <<home, lost, churn>>

Next ==
  \/ \E o \in Object, h \in Host : Create(o, h)
  \/ \E h \in Host : AdmitHost(h)
  \/ \E h \in Host : TakeOverHost(h)
  \/ \E h \in Host : SettleOwner(h)
  \/ \E o \in Object : Adopt(o)
  \/ \E d, s \in Host : ConfirmShare(d, s)

Fairness ==
  /\ WF_vars(\E o \in Object : Adopt(o))
  /\ WF_vars(\E d, s \in Host : ConfirmShare(d, s))

Spec == Init /\ [][Next]_vars /\ Fairness
-----------------------------------------------------------------------------
\* Lineage::Settled is "every survivor confirmed its share, so the object was adopted
\* elsewhere" (register.rs:2119): an object committed under a departed host resolves to
\* a member that takes it over, never to a finished takeover that did not adopt it,
\* whichever of its successors departed in turn before confirming.
NeverOrphaned ==
  \A o \in Owned \ lost :
    home[o] \notin config.members => Line(config, o).kind = "successor"

\* "every node names the same one" (RegionalConfiguration::successor): a copy still held
\* under any departed owner of an object resolves to the member that owns it or that
\* takes it over, or to nobody; two hosts never take the same object over.
OneSuccessor ==
  \A o \in Owned \ lost : \A d \in past[o] :
    LET stale == Lineage(config, d, o)
    IN  stale.kind = "successor" =>
          IF home[o] \in config.members THEN stale.successor = home[o]
          ELSE stale = Line(config, o)

\* "Each step moves to a host that was a member when the previous one retired, so the
\* walk ends within the kept retirements" (RegionalConfiguration::lineage): a survivor
\* that is itself retired retired later, though host ids are admitted again.
LineageAdvances ==
  \A d, s \in DOMAIN config.retired :
    s \in config.retired[d].survivors => config.retired[s].version > config.retired[d].version

\* What the members of a configuration make an owner's neighbourhood.
Hood(c, o) == SelectNeighbourhood(o, c.members)

\* "no copyset repeats a domain", "the co-holder groups are disjoint" and none is left
\* out (candidates_for, owner_copysets, copyset_for): in every configuration a domain
\* failure takes at most one copy of an object, and an object's candidates are one of
\* the owner's copysets.  With no fault to tolerate the owner is the only copyset.
CopysetsSpread ==
  \A o \in config.members :
    LET sets == OwnerCopysets(o, Hood(config, o))
    IN  /\ \A s \in sets :
             /\ o \in s /\ Cardinality(s) <= 2 * F + 1
             /\ \A g, h \in s : Domain[g] = Domain[h] => g = h
        /\ \A s, t \in sets : s # t => s \cap t = {o}
        /\ UNION sets = {o} \union {h \in Hood(config, o) : F > 0 /\ Domain[h] # Domain[o]}
        /\ \A x \in Object : CandidatesFor(o, Hood(config, o), x) \in sets

\* "stable - a membership change moves only the hosts whose rendezvous rank crossed the
\* cut" (select_neighbourhood): when one host is admitted or taken over, every remaining
\* owner's neighbourhood gains at most one host and loses at most one, and it moves only
\* if the host that came or went is in it.
NeighbourhoodsStable ==
  [][LET before(o) == Hood(config, o)
         after(o) == Hood(config', o)
     IN  \A o \in config.members \cap config'.members :
           /\ Cardinality(after(o) \ before(o)) <= 1
           /\ Cardinality(before(o) \ after(o)) <= 1
           /\ after(o) # before(o) =>
                \/ (config'.members \ config.members) \cap after(o) # {}
                \/ (config.members \ config'.members) \cap before(o) # {}]_vars

\* "kept until every survivor that could own a share of its objects has confirmed it"
\* (Retirement): and no longer, so the map drains once departures stop, as long as there
\* are versions left to confirm in.
TakeoversEnd == []<>(DOMAIN config.retired = {} \/ ~Advances(config))
=============================================================================
