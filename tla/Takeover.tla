------------------------------ MODULE Takeover ------------------------------
(***************************************************************************)
(* The takeover of a retired host's objects: the record plane of           *)
(* crates/server/src/fleet.rs and the rounds of crates/server/src/         *)
(* takeover.rs, over the committed configurations of Region.               *)
(*                                                                         *)
(* Each host runs one coordinator (installs, ships, rounds, in turn) and   *)
(* answers its peers at any time.  A host acts on a request only under the *)
(* very version the request names, so its council's view and its installed *)
(* one are a single view here; ready_objects alone may read a newer one.   *)
(* Records wait in sent and reach a holder at any later time or never; an  *)
(* answer is heard at once or lost, since late replies are discarded.  A   *)
(* takeover page carries a holder's whole answer.  A host may restart with *)
(* its member id: what its shard published comes back, the rest is empty.  *)
(***************************************************************************)
EXTENDS Region, Sequences

CONSTANTS
  Founders,     \* the hosts the region forms with
  Creator,      \* Creator[o]: the host object o is created at
  GateLapsed,   \* whether every lease of a retired host has lapsed before its takeover
  Budgets       \* the bounds of model checking, of which a behaviour has one: the hosts
                \* that may join and leave, and how many do; the hosts that may restart;
                \* the last version, sequence and round's epoch

ASSUME TakeoverAssumption ==
  /\ Founders \in SUBSET Host \ {{}} 
  /\ NoHost \notin Host
  /\ Creator \in [Object -> Founders]
  /\ GateLapsed \in BOOLEAN
  /\ Budgets \subseteq [joiners : SUBSET Host, mortals : SUBSET Host, churn : Nat,
                       restarts : SUBSET Host, version : 0 .. LastVersion,
                       sequence : Nat, epoch : Nat]

None == [none |-> TRUE]
Larger(m, n) == IF m > n THEN m ELSE n

VARIABLES
  configs,   \* the committed configurations, in order
  at,        \* at[h]: the index of the configuration host h installed
  register,  \* register[h][o]: the Acceptor holder h keeps for object o (holder_records)
  image,     \* image[h]: the acceptors in h's last published image; kept while h may restart
  route,     \* route[h][o]: the owner h's routing names for o
  departed,  \* departed[h][o]: the retired host o is recovered from (departed_owners)
  volume,    \* volume[h][o]: the volume h serves and its recorded placement (placed_heads)
  rounds,    \* rounds[h]: h's HostTakeover for each retired host it owes a share of
  flight,    \* flight[h]: the adoption h's coordinator is committing
  sent,      \* the records shipped
  reports,   \* the reports sent to the council
  placed,    \* history: the records an owner recorded as placed
  adopted,   \* history: the records that adopted an object
  budget     \* what may still happen; churn and restarts are what is left of them

holding == <<register, image, route, departed>>
owning == <<volume, rounds, flight>>
history == <<placed, adopted>>
vars == <<configs, at, register, image, route, departed, volume, rounds, flight, sent, reports,
          placed, adopted, budget>>

Current == configs[Len(configs)]
View(h) == configs[at[h]]
HostEpoch(c, h) == IF h \in DOMAIN c.epochs THEN c.epochs[h] ELSE FirstEpoch
-----------------------------------------------------------------------------
\* Configuration::place: the settled and the current cohort, one when they agree.
Cohorts(c, h, o) ==
  {CandidatesFor(h, c.settled[h].hosts, o), CandidatesFor(h, c.hood[h].hosts, o)}
Candidates(c, h, o) == UNION Cohorts(c, h, o)

\* Mutant: a write counts the current cohort alone.
PlacedOnCurrentOnly(c, h, o, acked) ==
  Cardinality(acked \cap CandidatesFor(h, c.hood[h].hosts, o)) >= F + 1

\* Placement::placed_with and Quorum::committed_within.
Within(acked, cohort, needed) == Cardinality(acked \cap cohort) >= needed
PlacedWith(c, h, o, acked) ==
  \A cohort \in Cohorts(c, h, o) :
    Within(acked, cohort, IF Cardinality(Cohorts(c, h, o)) = 1 \/ Cardinality(cohort) > F
                          THEN F + 1 ELSE Cardinality(cohort))

\* Mutant: one promise is enough.
RecoveryOfOne(cohort) == 1

\* Quorum::recovery.
Recovery(cohort) == Larger(Cardinality(cohort) - F, 1)

\* Accepted::newer_than, or equal.
NoOlder(r, s) ==
  r.sequence > s.sequence \/ (r.sequence = s.sequence /\ r.epoch >= s.epoch)
Newest(rs) == CHOOSE r \in rs : \A s \in rs : NoOlder(r, s)

NewAcceptor(owner, generation) ==
  [owner |-> owner, generation |-> generation, fence |-> FirstEpoch, held |-> {}]

\* Acceptor::install_authority.
Authorized(a, owner, generation) ==
  IF generation < a.generation THEN a
  ELSE [a EXCEPT !.owner = owner, !.generation = generation]

\* Acceptor::check.
Check(a, r) ==
  /\ r.generation = a.generation /\ r.owner = a.owner
  /\ r.epoch >= a.fence
  /\ \A s \in a.held : s.sequence = r.sequence => s.value = r.value

\* Acceptor::accept.
Accepting(a, r) ==
  [a EXCEPT !.fence = r.epoch,
            !.held = {s \in @ : s.sequence # r.sequence} \union
                     {[sequence |-> r.sequence, epoch |-> r.epoch, value |-> r.value]}]

\* compact_below, on a single-value register.
Compacted(a, sequence) == [a EXCEPT !.held = {s \in @ : s.sequence >= sequence}]

\* record_acks_in: the acknowledgements of a head's rounds are merged by its sequence.
RecordAcks(p, r, acked) ==
  IF p.sequence > r.sequence THEN p
  ELSE [sequence |-> r.sequence, epoch |-> Larger(p.epoch, r.epoch),
        acked |-> acked \union (IF p.sequence = r.sequence THEN p.acked ELSE {})]
Unplaced == [sequence |-> -1, epoch |-> FirstEpoch, acked |-> {}]
-----------------------------------------------------------------------------
Init ==
  /\ configs = <<Formed(Founders)>>
  /\ at = [h \in Host |-> 1]
  /\ register = [h \in Host |-> [o \in Object |-> None]]
  /\ image = register
  /\ route = [h \in Host |-> [o \in Object |-> NoHost]]
  /\ departed = [h \in Host |-> [o \in Object |-> NoHost]]
  /\ volume = [h \in Host |-> [o \in Object |->
       IF h = Creator[o] THEN [sequence |-> 0, value |-> <<h, 0>>, record |-> Unplaced] ELSE None]]
  /\ rounds = [h \in Host |-> [d \in {} |-> None]]
  /\ flight = [h \in Host |-> None]
  /\ sent = {} /\ reports = {}
  /\ placed = {} /\ adopted = {}
  /\ budget \in Budgets

\* ConfigCommand::Admit and TakeOver, proposed by reconcile_alive.
Churn(c) ==
  /\ budget.churn > 0 /\ Advances(Current) /\ Current.version < budget.version
  /\ configs' = Append(configs, c)
  /\ budget' = [budget EXCEPT !.churn = @ - 1]
  /\ UNCHANGED <<at, holding, owning, sent, reports, history>>
AdmitHost(h) == h \in budget.joiners /\ Admits(Current, h) /\ Churn(Admit(Current, h))
TakeOverHost(h) == h \in budget.mortals \cap Current.members /\ Churn(TakeOver(Current, h))

\* The council's leader proposes a report that still changes the configuration.
ApplyReport(c) ==
  /\ Advances(Current) /\ Current.version < budget.version
  /\ configs' = Append(configs, c)
  /\ UNCHANGED <<at, holding, owning, sent, reports, history, budget>>
ApplySettle(h, g) ==
  /\ [settle |-> h, generation |-> g] \in reports /\ Settles(Current, h, g)
  /\ ApplyReport(Settle(Current, h, g))
ApplyConfirm(d, h) ==
  /\ [confirm |-> d, successor |-> h] \in reports /\ OwesConfirmation(Current, d, h)
  /\ ApplyReport(Confirm(Current, d, h))
-----------------------------------------------------------------------------
\* A snapshot sealed: the volume's head moves to the next sequence.
Seal(h, o) ==
  /\ volume[h][o] # None
  /\ volume[h][o].sequence < budget.sequence
  /\ volume' = [volume EXCEPT ![h][o].sequence = @ + 1,
                              ![h][o].value = <<h, volume[h][o].sequence + 1>>]
  /\ UNCHANGED <<configs, at, holding, rounds, flight, sent, reports, history, budget>>

\* owed_record: the head, written at the greater of the host's epoch and the one the
\* object was last written under.
HeadRecord(h, o) ==
  [object |-> o, owner |-> h, sequence |-> volume[h][o].sequence,
   epoch |-> Larger(volume[h][o].record.epoch, HostEpoch(View(h), h)),
   generation |-> at[h], value |-> volume[h][o].value]

\* The volume's recorded placement once acked acknowledged the head r, and the history
\* of what it reports placed.
Record(h, r, acked) ==
  LET p == RecordAcks(volume[h][r.object].record, r, acked)
  IN  /\ volume' = [volume EXCEPT ![h][r.object].record = p]
      /\ placed' = IF p.sequence = r.sequence /\ PlacedWith(View(h), h, r.object, p.acked)
                   THEN placed \union {r} ELSE placed

\* ship_head, to the candidates that have not acknowledged; the owner's hold is its own.
Ship(h, o) ==
  /\ volume[h][o] # None /\ flight[h] = None
  /\ h \in View(h).members
  /\ LET r == HeadRecord(h, o)
     IN  /\ r \notin sent
         /\ sent' = sent \union {r}
         /\ Record(h, r, {h})
  /\ UNCHANGED <<configs, at, holding, rounds, flight, reports, adopted, budget>>

\* An answer that is heard is behind the shard's publish (publish_shard).
Answered(k, heard) ==
  image' = IF heard /\ k \in budget.restarts THEN [image EXCEPT ![k] = register'[k]] ELSE image

\* accept_held_record at holder k: check_held_record, hold_checked_record and
\* after_held_record; the first record makes the acceptor.  A head's acknowledgement is
\* heard by its owner or lost.
AcceptRecord(k, r, heard) ==
  LET o == r.object
      a == IF register[k][o] = None THEN NewAcceptor(r.owner, at[k]) ELSE register[k][o]
  IN  /\ at[k] = r.generation /\ k # r.owner
      /\ r.owner \in View(k).members
      /\ k \in Candidates(View(k), r.owner, o)
      /\ Check(a, r)
      /\ register' = [register EXCEPT ![k][o] = Compacted(Accepting(a, r), r.sequence)]
      /\ Answered(k, heard)
      /\ route' = [route EXCEPT ![k][o] = r.owner]
      /\ departed' = [departed EXCEPT ![k][o] = NoHost]
      /\ \/ ~heard /\ UNCHANGED <<volume, flight, placed>>
         \/ /\ heard /\ flight[r.owner] # None
            /\ flight[r.owner].record = r
            /\ flight' = [flight EXCEPT ![r.owner].acked = @ \union {k}]
            /\ UNCHANGED <<volume, placed>>
         \/ /\ heard /\ flight[r.owner] = None
            /\ at[r.owner] = r.generation /\ volume[r.owner][o] # None
            /\ Record(r.owner, r, {k})
            /\ UNCHANGED flight
      /\ UNCHANGED <<configs, at, rounds, sent, reports, adopted, budget>>

\* report_settlement: every volume's newest placement reaches its current cohort.
\* (A report sent again changes nothing.)
ReportSettlement(h) ==
  LET c == View(h)
      PlacedOnCurrent(o) ==
        Within(volume[h][o].record.acked, CandidatesFor(h, c.hood[h].hosts, o), F + 1)
  IN  /\ h \in c.members /\ flight[h] = None
      /\ c.settled[h].generation # c.hood[h].generation
      /\ [settle |-> h, generation |-> c.hood[h].generation] \notin reports
      /\ \A o \in Object : volume[h][o] # None => PlacedOnCurrent(o)
      /\ reports' = reports \union {[settle |-> h, generation |-> c.hood[h].generation]}
      /\ UNCHANGED <<configs, at, holding, owning, sent, history, budget>>
-----------------------------------------------------------------------------
\* stale_after_confirmation
StaleAfterConfirmation(c, h, o, owner) ==
  /\ departed[h][o] \in DOMAIN c.retired
  /\ owner \in c.retired[departed[h][o]].confirmed
  /\ owner # h
  /\ h \notin Candidates(c, owner, o)

\* The copies sync_config_from_council leaves at host h under configuration c: those
\* resolve_held_objects reclaims are gone.
Reclaims(c, h, o, owner) ==
  IF owner \in c.members THEN StaleAfterConfirmation(c, h, o, owner)
  ELSE Lineage(c, owner, o) = Settled

\* sync_config_from_council: a newer configuration that has this host as a member.  The
\* fences rise to the owners' epochs, each held object moves to the owner the lineage
\* names or is reclaimed, the acceptors' authority follows.
Install(h, n) ==
  LET c == configs[n]
      forgets == HostEpoch(c, h) > HostEpoch(View(h), h)
      Owner(o) == IF forgets /\ route[h][o] = h THEN NoHost ELSE route[h][o]
      Known(o) == register[h][o] # None /\ Owner(o) # NoHost
      Moves(o) == Known(o) /\ Owner(o) \notin c.members /\ Lineage(c, Owner(o), o).kind = "successor"
      Gone(o) == Known(o) /\ Reclaims(c, h, o, Owner(o))
      Line(o) == Lineage(c, Owner(o), o)
      To(o) == IF Gone(o) THEN NoHost ELSE IF Moves(o) THEN Line(o).successor ELSE Owner(o)
      Raised(a) == IF a.owner \in DOMAIN c.epochs
                   THEN [a EXCEPT !.fence = Larger(@, c.epochs[a.owner])] ELSE a
  IN  /\ n > at[h] /\ flight[h] = None
      /\ h \in c.members
      /\ at' = [at EXCEPT ![h] = n]
      /\ register' = [register EXCEPT ![h] = [o \in Object |->
           IF register[h][o] = None \/ Gone(o) THEN None
           ELSE IF To(o) = NoHost THEN Raised(register[h][o])
           ELSE Authorized(Raised(register[h][o]), To(o), n)]]
      /\ route' = [route EXCEPT ![h] = [o \in Object |-> To(o)]]
      /\ departed' = [departed EXCEPT ![h] = [o \in Object |->
           IF Gone(o) THEN NoHost ELSE IF Moves(o) THEN Line(o).departed ELSE departed[h][o]]]
      /\ rounds' = [rounds EXCEPT ![h] = Restricted(@, {d \in DOMAIN @ : OwesConfirmation(c, d, h)})]
      /\ UNCHANGED <<configs, image, volume, flight, sent, reports, history, budget>>
-----------------------------------------------------------------------------
\* HostTakeover::new and restart: every page asked anew, what was adopted kept.
FreshRound(generation, epoch, done) ==
  [generation |-> generation, epoch |-> epoch, complete |-> {},
   learned |-> [o \in {} |-> None], adopted |-> done, lost |-> {}, fenced |-> 0]

\* Mutant: a page lists every object of d, whoever it falls to.
FallToAnyone(h, d, asker) == {o \in Object : register[h][o] # None /\ departed[h][o] = d}

\* falls_to, and the filter of list_page: the objects of d held at h that fall to asker.
FallTo(h, d, asker) ==
  {o \in Object : register[h][o] # None /\ departed[h][o] = d /\ route[h][o] = asker}

\* initial_epoch: above every epoch the copies here were written at.
InitialEpoch(h, d) ==
  LET written == {s.epoch + 1 : s \in UNION {register[h][o].held : o \in FallTo(h, d, h)}}
      bumped == HostEpoch(View(h), d)
  IN  CHOOSE e \in written \union {bumped} : \A x \in written \union {bumped} : e >= x

\* promise_object over the objects of d at h: authority installed, fence raised unless it
\* is above the epoch already.
Prepared(h, asker, d, epoch, generation) ==
  [o \in Object |->
     IF o \notin FallTo(h, d, asker) THEN register[h][o]
     ELSE LET a == Authorized(register[h][o], asker, generation)
          IN  [a EXCEPT !.fence = Larger(@, epoch)]]
FencedAbove(h, asker, d, epoch) == {o \in FallTo(h, d, asker) : register[h][o].fence > epoch}
HighestFence(h, above) ==
  CHOOSE e \in {0} \union {register[h][o].fence : o \in above} :
    \A o \in above : e >= register[h][o].fence

\* The records h reports for those objects, folded into what the round learned.
Learn(round, h, asker, d) ==
  LET listed == {o \in FallTo(h, d, asker) \ FencedAbove(h, asker, d, round.epoch) :
                   register[h][o].held # {} /\ o \notin round.adopted}
  IN  [o \in DOMAIN round.learned \union listed |->
         LET known == IF o \in DOMAIN round.learned THEN round.learned[o] ELSE [x \in {} |-> None]
         IN  IF o \in listed THEN Extended(known, h, Newest(register[h][o].held)) ELSE known]

\* begin_round: a round started, or started over under a new configuration or above a
\* fence a holder reported; this host's own copies are promised once the gate is open.
BeginRound(h, d, open) ==
  LET c == View(h)
      first == InitialEpoch(h, d)
      old == IF d \in DOMAIN rounds[h] THEN rounds[h][d] ELSE FreshRound(at[h], first, {})
      same == IF old.generation = at[h] THEN old
              ELSE FreshRound(at[h], Larger(old.epoch, first), old.adopted)
      round == IF same.fenced = 0 THEN same
               ELSE FreshRound(at[h], Larger(same.fenced + 1, same.epoch), same.adopted)
      above == FencedAbove(h, h, d, round.epoch)
  IN  /\ flight[h] = None
      /\ OwesConfirmation(c, d, h)
      /\ round.epoch <= budget.epoch
      /\ register' = IF open THEN [register EXCEPT ![h] = Prepared(h, h, d, round.epoch, at[h])]
                     ELSE register
      /\ rounds' = [rounds EXCEPT ![h] = Extended(@, d,
           IF open THEN [round EXCEPT !.learned = Learn(round, h, h, d),
                                      !.fenced = HighestFence(h, above)]
           ELSE round)]
      /\ UNCHANGED <<configs, at, image, route, departed, volume, flight, sent, reports, history, budget>>

\* serve_host_prepare at holder k of asker's page, and fold_answers of what it answers,
\* if that is heard.  (A holder whose gate is closed answers nothing.)
ServeHostPrepare(k, asker, d, heard) ==
  LET round == rounds[asker][d]
      above == FencedAbove(k, asker, d, round.epoch)
      folded == IF above # {}
                THEN [round EXCEPT !.fenced = Larger(@, HighestFence(k, above))]
                ELSE [round EXCEPT !.learned = Learn(round, k, asker, d),
                                   !.complete = @ \union {k}]
  IN  /\ d \in DOMAIN rounds[asker] /\ flight[asker] = None
      /\ round.generation = at[asker] /\ at[k] = at[asker]
      /\ k \in (RecoveryHosts(View(asker), d) \cap View(asker).members) \ ({asker} \union round.complete)
      /\ d \in DOMAIN View(k).retired
      /\ register' = [register EXCEPT ![k] = Prepared(k, asker, d, round.epoch, round.generation)]
      /\ Answered(k, heard)
      /\ rounds' = IF heard THEN [rounds EXCEPT ![asker][d] = folded] ELSE rounds
      /\ UNCHANGED <<configs, at, route, departed, volume, flight, sent, reports, history, budget>>

\* ready_objects: the members of every recovery cohort of o that have promised it are a
\* recovery quorum of the cohort, under the council's view c of the moment.
Promised(h, round, o, open) ==
  (IF open THEN {h} ELSE {}) \union round.complete \union DOMAIN round.learned[o]
Recoverable(c, d, o) ==
  \A cohort \in RecoveryCohorts(c, d, o) : Cardinality(cohort \cap c.members) >= Recovery(cohort)
Ready(c, h, d, o, open) ==
  /\ Recoverable(c, d, o)
  /\ \A cohort \in RecoveryCohorts(c, d, o) :
       Within(Promised(h, rounds[h][d], o, open) \cap c.members, cohort, Recovery(cohort))

\* ready_objects: an object with a cohort past recovery is set aside as lost.
LoseObject(h, d, o) ==
  /\ flight[h] = None /\ d \in DOMAIN rounds[h] /\ rounds[h][d].generation = at[h]
  /\ o \in DOMAIN rounds[h][d].learned
  /\ \E n \in at[h] .. Len(configs) : ~Recoverable(configs[n], d, o)
  /\ rounds' = [rounds EXCEPT ![h][d].learned = Restricted(@, DOMAIN @ \ {o}),
                              ![h][d].lost = @ \union {o}]
  /\ UNCHANGED <<configs, at, holding, volume, flight, sent, reports, history, budget>>

\* adopt, up to the dispatch: the newest record reported is written again under this
\* host's own placement at the round's epoch, through its own acceptor first, which leaves
\* holder_records until the round ends.
StartAdoption(h, d, o, open) ==
  LET round == rounds[h][d]
      newest == Newest({round.learned[o][k] : k \in DOMAIN round.learned[o]})
      r == [object |-> o, owner |-> h, sequence |-> newest.sequence, epoch |-> round.epoch,
            generation |-> at[h], value |-> newest.value]
      a == Authorized(IF register[h][o] = None THEN NewAcceptor(h, at[h]) ELSE register[h][o],
                      h, at[h])
  IN  /\ flight[h] = None /\ d \in DOMAIN rounds[h] /\ round.generation = at[h]
      /\ o \in DOMAIN round.learned
      /\ \E n \in at[h] .. Len(configs) : Ready(configs[n], h, d, o, open)
      /\ register' = [register EXCEPT ![h][o] = None]
      /\ flight' = [flight EXCEPT ![h] =
           [departed |-> d, record |-> r, acceptor |-> IF Check(a, r) THEN Accepting(a, r) ELSE a,
            acked |-> {h} \cap (IF Check(a, r) THEN Candidates(View(h), h, o) ELSE {})]]
      /\ sent' = sent \union {r}
      /\ UNCHANGED <<configs, at, image, route, departed, volume, rounds, reports, history, budget>>

\* adopt, after the round, and record_adoption when it placed.
EndAdoption(h) ==
  LET d == flight[h].departed
      r == flight[h].record
      o == r.object
      p == [sequence |-> r.sequence, epoch |-> r.epoch, acked |-> flight[h].acked]
  IN  /\ flight[h] # None
      /\ flight' = [flight EXCEPT ![h] = None]
      /\ register' = [register EXCEPT ![h][o] = flight[h].acceptor]
      /\ IF PlacedWith(View(h), h, o, flight[h].acked)
         THEN /\ route' = [route EXCEPT ![h][o] = h]
              /\ departed' = [departed EXCEPT ![h][o] = NoHost]
              /\ volume' = [volume EXCEPT ![h][o] =
                   [sequence |-> r.sequence, value |-> r.value, record |-> p]]
              /\ rounds' = [rounds EXCEPT ![h][d].learned = Restricted(@, DOMAIN @ \ {o}),
                                          ![h][d].adopted = @ \union {o}]
              /\ placed' = placed \union {r}
              /\ adopted' = adopted \union {r}
         ELSE UNCHANGED <<route, departed, volume, rounds, history>>
      /\ UNCHANGED <<configs, at, image, sent, reports, budget>>


\* round_done, and the report of the share.
ReportConfirmation(h, d) ==
  /\ flight[h] = None /\ d \in DOMAIN rounds[h]
  /\ [confirm |-> d, successor |-> h] \notin reports
  /\ LET round == rounds[h][d]
     IN  /\ round.generation = at[h] /\ round.fenced = 0 /\ DOMAIN round.learned = {}
         /\ (RecoveryHosts(View(h), d) \cap View(h).members) \ {h} \subseteq round.complete
  /\ reports' = reports \union {[confirm |-> d, successor |-> h]}
  /\ UNCHANGED <<configs, at, holding, owning, sent, history, budget>>
-----------------------------------------------------------------------------
\* publish_shard, for a client's barrier: the image carries the acceptors held now.
Publish(h) ==
  /\ h \in budget.restarts /\ image[h] # register[h]
  /\ image' = [image EXCEPT ![h] = register[h]]
  /\ UNCHANGED <<configs, at, register, route, departed, owning, sent, reports, history, budget>>

\* restore_held_registers
RestoreHeldRegisters(h) ==
  /\ register' = [register EXCEPT ![h] = image[h]]
  /\ image' = [image EXCEPT ![h] = [o \in Object |-> None]]

\* A warm restart under the same member id.  Retained::restore installs the newest
\* configuration the council had, nothing moved or fenced by it; the acceptors are those of
\* the image; the routing, departed_owners, placed_heads and the rounds start empty.  An
\* adopted volume is back only if it was materialized.
Restart(h) ==
  /\ h \in budget.restarts
  /\ budget' = [budget EXCEPT !.restarts = @ \ {h}]
  /\ \E n \in at[h] .. Len(configs) :
       /\ h \in configs[n].members
       /\ at' = [at EXCEPT ![h] = n]
  /\ RestoreHeldRegisters(h)
  /\ route' = [route EXCEPT ![h] = [o \in Object |-> NoHost]]
  /\ departed' = [departed EXCEPT ![h] = [o \in Object |-> NoHost]]
  /\ \E queued \in SUBSET {o \in Object : Creator[o] # h} :
       volume' = [volume EXCEPT ![h] = [o \in Object |->
         IF volume[h][o] = None \/ o \in queued THEN None
         ELSE [volume[h][o] EXCEPT !.record = Unplaced]]]
  /\ rounds' = [rounds EXCEPT ![h] = [d \in {} |-> None]]
  /\ flight' = [flight EXCEPT ![h] = None]
  /\ UNCHANGED <<configs, sent, reports, history>>
-----------------------------------------------------------------------------
\* Whether a promise of a retired host's objects may be deferred by the lease's gate.
Gates == IF GateLapsed THEN {TRUE} ELSE BOOLEAN

Next ==
  \/ \E h \in Host : AdmitHost(h) \/ TakeOverHost(h)
  \/ \E h \in Current.members, g \in 0 .. LastVersion : ApplySettle(h, g)
  \/ \E d \in DOMAIN Current.retired, h \in Host : ApplyConfirm(d, h)
  \/ \E h \in Host, o \in Object : Seal(h, o) \/ Ship(h, o)
  \/ \E r \in sent, k \in Host, heard \in BOOLEAN : AcceptRecord(k, r, heard)
  \/ \E h \in Host : ReportSettlement(h)
  \/ \E h \in Host : \E n \in (at[h] + 1) .. Len(configs) : Install(h, n)
  \/ \E h \in Host : \E d \in DOMAIN View(h).retired, open \in Gates : BeginRound(h, d, open)
  \/ \E h \in Host : \E d \in DOMAIN rounds[h] :
       \/ \E k \in Host, heard \in BOOLEAN : ServeHostPrepare(k, h, d, heard)
       \/ \E o \in DOMAIN rounds[h][d].learned :
            \/ LoseObject(h, d, o)
            \/ \E open \in Gates : StartAdoption(h, d, o, open)
       \/ ReportConfirmation(h, d)
  \/ \E h \in Host : EndAdoption(h) \/ Publish(h) \/ Restart(h)

Spec == Init /\ [][Next]_vars
-----------------------------------------------------------------------------
\* "the adoption meets every record any of them committed" (takeover.rs:24): what a
\* successor adopts is no older than any record an owner of a lower epoch had placed.
AdoptsTheNewest ==
  \A a \in adopted, p \in placed :
    a.object = p.object /\ p.epoch < a.epoch => NoOlder(a, p)

\* Whether host k holds p or a newer record of its object, also while its acceptor is out
\* for an adoption.
HoldsNoOlder(k, p) ==
  LET a == IF flight[k] # None /\ flight[k].record.object = p.object THEN flight[k].acceptor
           ELSE register[k][p.object]
  IN  a # None /\ \E s \in a.held : NoOlder(s, p)

\* Why a recovery quorum is enough: as long as the successor has not confirmed, any
\* recovery quorum of a retired owner's cohort has a holder of each record it placed, or of
\* a newer one, whatever neighbourhood change was in flight when the owner departed.
PlacedIsRecoverable ==
  \A p \in placed :
    /\ p.owner \in DOMAIN Current.retired
    /\ Successor(Current, p.owner, p.object) \notin Current.retired[p.owner].confirmed
    => \A cohort \in RecoveryCohorts(Current, p.owner, p.object) :
         \A q \in SUBSET (cohort \cap Current.members) :
           Cardinality(q) >= Recovery(cohort) => \E k \in q : HoldsNoOlder(k, p)

\* A confirmation says that "every object of `departed` that ranks it first (...) is adopted
\* and placed under its own placement" (register.rs:2413): no survivor reports its share of
\* a takeover done while a placed object that falls to it is not adopted.  It fails under
\* MCWriting: an adoption accepted unheard drops the object from every later page.
ConfirmedIsAdopted ==
  \A n \in DOMAIN configs, p \in placed :
    LET d == p.owner
        h == Successor(configs[n], d, p.object)
    IN  d \in DOMAIN configs[n].retired /\ [confirm |-> d, successor |-> h] \in reports
          => \E a \in adopted : a.object = p.object /\ a.owner = h


\* "every object this node owned belongs to a successor now" (cluster/src/fleet.rs:140): no
\* two members that installed the newest configuration serve the same object.
OneOwner ==
  \A o \in Object, g, h \in Current.members :
    /\ at[g] = Len(configs) /\ at[h] = Len(configs)
    /\ volume[g][o] # None /\ volume[h][o] # None
    => g = h
=============================================================================
