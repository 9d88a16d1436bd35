------------------------------- MODULE Lease --------------------------------
(***************************************************************************)
(* The owner lease of crates/server/src/lease.rs: an owner serves its      *)
(* object's latest state while enough of the other candidates answered its *)
(* probes within the bound, and a candidate promises the object to a       *)
(* successor only through its gate.                                        *)
(*                                                                         *)
(* One owner, settled, on one cohort, and the one configuration change     *)
(* that concerns it: its retirement by a false death.  Time is a counter   *)
(* that all hosts read (the clock-rate tolerance is the difference between *)
(* Bound and Horizon); probes and answers are delayed at will or lost.     *)
(***************************************************************************)
EXTENDS Integers, FiniteSets

CONSTANTS
  Holder,     \* the object's candidates other than the owner
  Faults,     \* the fault tolerance f of Quorum
  Bound,      \* lease_bound_ns
  Horizon,    \* horizon_ns
  Window,     \* the council's death-confirmation window
  LastTime,   \* bound on time, for model checking
  MaxProbes   \* bound on the probes and answers in flight, for model checking

ASSUME LeaseAssumption ==
  /\ IsFiniteSet(Holder) /\ Faults \in Nat
  /\ {Bound, Horizon, Window, LastTime, MaxProbes} \subseteq Nat
  /\ Bound <= Horizon /\ Horizon < Window

Never == -1

VARIABLES
  now,         \* the clock
  retired,     \* whether the council has retired the owner
  learned,     \* the holders whose council view has the retirement
  followed,    \* the holders that installed the retirement
  alive,       \* alive[k]: when k last answered the owner (AnswersGiven::alive_answers)
  announced,   \* the holders the owner announced it knows of its retirement to
  probes,      \* the owner's probes under way
  answers,     \* the answers under way
  confirmed,   \* confirmed[k]: when the probe k last confirmed was sent (OwnerLease::confirmations)
  superseded,  \* whether the owner learned of its retirement (OwnerLease::superseded)
  promisers,   \* the holders that promised the object to the successor
  adopted      \* history: when the successor adopted the object, or Never

holders == <<learned, followed, alive, announced, promisers>>
owner == <<confirmed, superseded>>
wire == <<probes, answers>>
leaseVars == <<now, retired, learned, followed, alive, announced, probes, answers, confirmed,
               superseded, promisers, adopted>>
-----------------------------------------------------------------------------
\* Quorum::recovery of the cohort, which is the owner and the holders.
Recovery == IF Cardinality(Holder) + 1 > Faults THEN Cardinality(Holder) + 1 - Faults ELSE 1

\* confirmations_needed: enough to meet every recovery quorum of the holders.
ConfirmationsNeeded == Cardinality(Holder) + 1 - Recovery

\* The owner's bounded allowance after its last install, at the start of time.
Allowance == now <= Horizon

\* OwnerLease::verdict
Holds ==
  /\ ~superseded
  /\ \/ Allowance
     \/ Cardinality({k \in Holder : confirmed[k] # Never /\ now - confirmed[k] <= Bound})
          >= ConfirmationsNeeded

\* AnswersGiven::promotion_open
PromotionOpen(k) ==
  \/ k \in announced
  \/ alive[k] = Never
  \/ now - alive[k] > Horizon
-----------------------------------------------------------------------------
LeaseInit ==
  /\ now = 0 /\ retired = FALSE
  /\ learned = {} /\ followed = {} /\ announced = {} /\ promisers = {}
  /\ alive = [k \in Holder |-> Never]
  /\ probes = {} /\ answers = {}
  /\ confirmed = [k \in Holder |-> Never]
  /\ superseded = FALSE
  /\ adopted = Never

Tick ==
  /\ now < LastTime
  /\ now' = now + 1
  /\ UNCHANGED <<retired, holders, wire, owner, adopted>>

\* The owner probes k, announcing the newest configuration it knows of (known_version).
Probe(k) ==
  /\ Cardinality(probes) + Cardinality(answers) < MaxProbes
  /\ probes' = probes \union {[to |-> k, sent |-> now, knows |-> superseded]}
  /\ UNCHANGED <<now, retired, holders, answers, owner, adopted>>

\* StateFleet::answer at holder p.to: the answer and the announcement are noted, and the
\* answer says whether the owner is a member in this holder's council view (standing_of).
Answer(p) ==
  /\ p \in probes
  /\ probes' = probes \ {p}
  /\ alive' = [alive EXCEPT ![p.to] = now]
  /\ announced' = IF p.knows THEN announced \union {p.to} ELSE announced
  /\ answers' = answers \union {[from |-> p.to, sent |-> p.sent, member |-> p.to \notin learned]}
  /\ UNCHANGED <<now, retired, learned, followed, promisers, owner, adopted>>

\* Mutant: a confirmation dated by its arrival.
AnsweredNow(a) ==
  /\ a \in answers
  /\ answers' = answers \ {a}
  /\ confirmed' = IF a.member THEN [confirmed EXCEPT ![a.from] = now] ELSE confirmed
  /\ superseded' = (superseded \/ ~a.member)
  /\ UNCHANGED <<now, retired, holders, probes, adopted>>

\* OwnerLease::answered: an answer that knows the owner confirms it from when its probe
\* was sent, one that has it retired supersedes it.
Answered(a) ==
  /\ a \in answers
  /\ answers' = answers \ {a}
  /\ confirmed' = IF a.member /\ a.sent > confirmed[a.from]
                  THEN [confirmed EXCEPT ![a.from] = a.sent] ELSE confirmed
  /\ superseded' = (superseded \/ ~a.member)
  /\ UNCHANGED <<now, retired, holders, probes, adopted>>

\* A datagram is lost.
Lose(m) ==
  /\ m \in probes \union answers
  /\ probes' = probes \ {m} /\ answers' = answers \ {m}
  /\ UNCHANGED <<now, retired, holders, owner, adopted>>

\* The council retires the owner, dead to its leader for the confirmation window.
RetireOwner ==
  /\ ~retired /\ now >= Window
  /\ retired' = TRUE
  /\ UNCHANGED <<now, holders, wire, owner, adopted>>

\* RegionalCouncil::apply_committed or adopt at k.
Learn(k) ==
  /\ retired /\ k \notin learned
  /\ learned' = learned \union {k}
  /\ UNCHANGED <<now, retired, followed, alive, announced, promisers, wire, owner, adopted>>

\* follow_configuration at k, each period: sync_config_from_council, then
\* fan_configs_to_shards, which drops the answers given to a host that is no member.
FollowConfiguration(k) ==
  /\ k \in learned
  /\ followed' = followed \union {k}
  /\ alive' = [alive EXCEPT ![k] = Never]
  /\ announced' = announced \ {k}
  /\ UNCHANGED <<now, retired, learned, promisers, wire, owner, adopted>>

\* serve_host_prepare: a promise once the retirement is installed and the gate is open.
Promise(k) ==
  /\ k \in followed /\ PromotionOpen(k)
  /\ promisers' = promisers \union {k}
  /\ UNCHANGED <<now, retired, learned, followed, alive, announced, wire, owner, adopted>>

\* adopt: a recovery quorum of the cohort has promised.
Adopt ==
  /\ adopted = Never
  /\ Cardinality(promisers) >= Recovery
  /\ adopted' = now
  /\ UNCHANGED <<now, retired, holders, wire, owner>>

LeaseNext ==
  \/ Tick \/ RetireOwner \/ Adopt
  \/ \E k \in Holder : Probe(k) \/ Learn(k) \/ FollowConfiguration(k) \/ Promise(k)
  \/ \E p \in probes : Answer(p)
  \/ \E a \in answers : Answered(a)
  \/ \E m \in probes \union answers : Lose(m)

LeaseSpec == LeaseInit /\ [][LeaseNext]_leaseVars
-----------------------------------------------------------------------------
Time == 0 .. LastTime
LeaseTypeOK ==
  /\ now \in Time /\ retired \in BOOLEAN /\ superseded \in BOOLEAN
  /\ promisers \subseteq followed /\ followed \subseteq learned /\ learned \subseteq Holder
  /\ announced \subseteq Holder
  /\ alive \in [Holder -> Time \union {Never}]
  /\ confirmed \in [Holder -> Time \union {Never}]
  /\ probes \subseteq [to : Holder, sent : Time, knows : BOOLEAN]
  /\ answers \subseteq [from : Holder, sent : Time, member : BOOLEAN]
  /\ adopted \in Time \union {Never}

\* "Expiry / uncertainty stops those reads before a takeover can make them stale"
\* (lease.rs:9): while the owner's lease holds no successor has adopted its object.  The
\* pruning of FollowConfiguration makes it fail (two datagrams in flight show it).
NoStaleLease == Holds => adopted = Never

\* What holds whatever the gate did: the lease of a retired owner has ended once the bound
\* has passed since a successor adopted, however late the answers it still counts arrived.
LeaseEnds == adopted # Never /\ now - adopted > Bound => ~Holds
=============================================================================
