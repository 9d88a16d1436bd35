-------------------------------- MODULE Raft --------------------------------
(***************************************************************************)
(* The consensus node of crates/cluster/src/raft.rs, which the regional    *)
(* council and the root group run: elections with a pre-vote round,        *)
(* replication with a window for entries that arrive ahead of a hole and   *)
(* its recovery by a new leader, commitment, joint membership changes,     *)
(* snapshots, read rounds, and restarts from the retained state.           *)
(*                                                                         *)
(* sent keeps every log a leader replicated and duty the answers to a      *)
(* candidate or leader, so appends, snapshots and answers arrive late,     *)
(* twice, out of order or never.  A vote request arrives while its         *)
(* candidate campaigns: a later grant would count for nothing.  A node     *)
(* answers after its state is retained (try_with_state), so one step does  *)
(* both.  An append runs to the end its leader's log had, a recovery is    *)
(* appended whole, and neither meets its byte limit.  A log keeps the      *)
(* prefix its snapshot folded, which no handler reads below the commit     *)
(* index, so compaction changes nothing.                                   *)
(***************************************************************************)
EXTENDS Integers, Sequences, FiniteSets, FiniteSetsExt, SequencesExt

CONSTANTS
  Node,      \* the servers
  Nobody,    \* no vote
  Command,   \* the commands proposed
  Noop,      \* the empty command
  Budgets    \* the bounds of model checking, of which a behaviour has one: the voters it
             \* forms with and those it may change to, the last term, how many commands,
             \* whether nodes read, whether they fail and take snapshots, and the
             \* span of the window

ASSUME RaftAssumption ==
  /\ IsFiniteSet(Node)
  /\ Nobody \notin Node
  /\ Noop \notin Command

VARIABLES
  term, vote, role,  \* current_term, voted_for and role of each node
  log, commit,       \* its log, with the compacted prefix, and commit_index
  window, synced,    \* the slots buffered past the log, and synced_term
  duty,              \* what a candidate or a leader keeps of its term (volatile)
  sent,              \* sent[t]: what term t's leader replicates, as it stands
  elected,           \* history: elected[t], the nodes that won term t
  budget             \* what may still happen

durable == <<term, vote, log, commit, window, synced>>
vars == <<term, vote, role, log, commit, window, synced, duty, sent, elected, budget>>

Terms == 1 .. Max({b.terms : b \in Budgets})
-----------------------------------------------------------------------------
NoConfig == [voters |-> {}, joint |-> {}]
Configuration(voters, joint) == [voters |-> voters, joint |-> joint]

Entry(t, c) == [term |-> t, cmd |-> c, config |-> NoConfig]
ConfigEntry(t, g) == [term |-> t, cmd |-> Noop, config |-> g]

TermAt(s, i) == IF i \in DOMAIN s THEN s[i].term ELSE 0
LastTerm(s) == TermAt(s, Len(s))

\* The configuration in force is the last one in the log, committed or not.
EffectiveConfig(s) ==
  LET at == {i \in DOMAIN s : s[i].config # NoConfig}
  IN IF at = {} THEN Configuration(budget.founders, {}) ELSE s[Max(at)].config

AllVoters(s) == EffectiveConfig(s).voters \union EffectiveConfig(s).joint

Carries(S, voters) == 2 * Cardinality(S \intersect voters) > Cardinality(voters)

IsMajority(s, S) ==
  LET g == EffectiveConfig(s)
  IN Carries(S, g.voters) /\ (g.joint # {} => Carries(S, g.joint))

\* candidate_log_is_current
IsCurrent(index, lastTerm, s) ==
  \/ lastTerm > LastTerm(s)
  \/ lastTerm = LastTerm(s) /\ index >= Len(s)

NoRead == [index |-> -1, floor |-> 0, config |-> NoConfig, confirmed |-> {}]
Idle ==
  [grants |-> {}, acked |-> [n \in Node |-> 0], read |-> NoRead]

IsLeader(n) == role[n] = "leader"
-----------------------------------------------------------------------------
Init ==
  /\ budget \in Budgets
  /\ term = [n \in Node |-> 0]
  /\ vote = [n \in Node |-> Nobody]
  /\ role = [n \in Node |-> "follower"]
  /\ log = [n \in Node |-> << >>]
  /\ commit = [n \in Node |-> 0]
  /\ window = [n \in Node |-> {}]
  /\ synced = [n \in Node |-> 0]
  /\ duty = [n \in Node |-> Idle]
  /\ sent = [t \in Terms |-> [log |-> << >>, commit |-> 0, sync |-> 0]]
  /\ elected = [t \in Terms |-> {}]

\* A follower of term t, its vote kept only within the term (step_down,
\* recognize_leader).
Follow(n, t) ==
  /\ term' = [term EXCEPT ![n] = t]
  /\ vote' = [vote EXCEPT ![n] = IF t > term[n] THEN Nobody ELSE @]
  /\ role' = [role EXCEPT ![n] = "follower"]

Above(slots, index) == {s \in slots : s.index > index}

\* The value recovered at index i: the slot of the highest term, or nothing.
Recovered(slots, i, t) ==
  LET at == {s \in slots : s.index = i}
  IN IF at = {} THEN Entry(t, Noop)
     ELSE [(CHOOSE s \in at : \A r \in at : s.entry.term >= r.entry.term).entry
             EXCEPT !.term = t]

\* The log a winner leads with: the slots it and its voters hold past its log,
\* proposed anew with their holes filled, and the empty entry of its term.
LeaderLog(n, t, voters) ==
  LET end == Len(log[n])
      slots == Above(window[n], end) \union
                 UNION {g.report : g \in {h \in duty[n].grants : h.voter \in voters}}
      last == Max({end} \union {s.index : s \in slots})
  IN log[n] \o [i \in 1 .. (last - end) |-> Recovered(slots, end + i, t)]
            \o <<Entry(t, Noop)>>

\* Leader n of term t has the log s; a leader that is a majority alone commits it.
Lead(n, t, s) ==
  LET k == IF IsMajority(s, {n}) THEN Len(s) ELSE commit[n]
  IN /\ log' = [log EXCEPT ![n] = s]
     /\ commit' = [commit EXCEPT ![n] = k]
     /\ window' = [window EXCEPT ![n] = Above(@, k)]
     /\ sent' = [sent EXCEPT ![t].log = s, ![t].commit = k,
                             ![t].sync = IF @ = 0 THEN Len(s) ELSE @]

\* n wins term t with the votes of voters.
Win(n, t, voters) ==
  /\ Lead(n, t, LeaderLog(n, t, voters))
  /\ synced' = [synced EXCEPT ![n] = t]
  /\ role' = [role EXCEPT ![n] = "leader"]
  /\ elected' = [elected EXCEPT ![t] = @ \union {n}]

\* A voter campaigns in its next term, which it wins at once if it votes alone.
StartElection(n) ==
  /\ n \in AllVoters(log[n])
  /\ term[n] < budget.terms
  /\ term' = [term EXCEPT ![n] = @ + 1]
  /\ vote' = [vote EXCEPT ![n] = n]
  /\ duty' = [duty EXCEPT ![n] = Idle]
  /\ IF IsMajority(log[n], {n})
     THEN Win(n, term[n] + 1, {n})
     ELSE /\ role' = [role EXCEPT ![n] = "candidate"]
          /\ UNCHANGED <<log, commit, window, synced, sent, elected>>
  /\ UNCHANGED budget

\* v would vote for n in n's next term; its leader's lease may have lapsed.
PreVote(v, n) ==
  /\ ~IsLeader(v)
  /\ term[n] + 1 > term[v]
  /\ IsCurrent(Len(log[n]), LastTerm(log[n]), log[v])

\* A voter that hears no leader canvasses, and campaigns if a majority would vote
\* for it; the answers are taken as of one moment.
OnElectionTimeout(n) ==
  /\ ~IsLeader(n)
  /\ IsMajority(log[n], {n} \union {v \in Node : PreVote(v, n)})
  /\ StartElection(n)

\* The leader of n's term hands its leadership to n, whose log took its entries.
OnTimeoutNow(n) ==
  /\ ~IsLeader(n)
  /\ term[n] > 0
  /\ LastTerm(log[n]) = term[n]
  /\ StartElection(n)

\* v answers the vote request of the candidate c; a grant reports the slots past
\* the candidate's log.
OnRequestVote(v, c) ==
  LET newer == term[c] > term[v]
      grants == /\ term[c] >= term[v]
                /\ newer \/ vote[v] \in {Nobody, c}
                /\ IsCurrent(Len(log[c]), LastTerm(log[c]), log[v])
      ballot == [voter |-> v, report |-> Above(window[v], Len(log[c]))]
  IN /\ v \in AllVoters(log[c]) \ {c}
     /\ role[c] = "candidate"
     /\ newer \/ grants
     /\ term' = [term EXCEPT ![v] = term[c]]
     /\ vote' = [vote EXCEPT ![v] = IF grants THEN c ELSE Nobody]
     /\ role' = [role EXCEPT ![v] = IF newer THEN "follower" ELSE @]
     /\ duty' = [duty EXCEPT ![v] = IF newer THEN Idle ELSE @,
                             ![c].grants = IF grants THEN @ \union {ballot} ELSE @]
     /\ UNCHANGED <<log, commit, window, synced, sent, elected, budget>>

\* n wins on the reply that completes a majority of its configuration.
BecomeLeader(n, voters) ==
  /\ role[n] = "candidate"
  /\ voters \subseteq AllVoters(log[n])
  /\ IsMajority(log[n], voters \union {n})
  /\ \E v \in voters : ~IsMajority(log[n], (voters \union {n}) \ {v})
  /\ Win(n, term[n], voters)
  /\ duty' = [duty EXCEPT ![n] = Idle]
  /\ UNCHANGED <<term, vote, budget>>
-----------------------------------------------------------------------------
\* The nodes term t's leader replicates to: the voters of every configuration of
\* its log and the members it stages (replication_targets).
Targets(t) ==
  LET s == sent[t].log
  IN budget.founders \union UNION budget.targets \union
       UNION {s[i].config.voters \union s[i].config.joint : i \in DOMAIN s}

\* The indices an append to f may start after: the leader begins before its empty
\* entry and sends ahead from there; refusals take it back to where f's log and
\* its own agree (back_up).
Prevs(f, t) ==
  LET leaders == sent[t].log
      agreed == {i \in DOMAIN leaders : TermAt(log[f], i) = leaders[i].term}
  IN ((sent[t].sync - 1) .. Len(leaders)) \union {Max({0} \union agreed)}

\* The entries of term t an append brings past a hole join the window of a
\* follower synced to that leader, within its span and over older slots only.
Buffer(f, t, prev, end) ==
  LET fits == {i \in (prev + 1) .. end :
                 /\ TermAt(sent[t].log, i) = t
                 /\ i \in (Len(log[f]) + 1) .. (Len(log[f]) + budget.span)
                 /\ \A s \in window[f] : s.index = i => s.entry.term < t}
  IN IF synced[f] # t THEN window[f]
     ELSE {s \in window[f] : s.index \notin fits} \union
            {[index |-> i, entry |-> sent[t].log[i]] : i \in fits}

\* Mutant: any entry before the append will do.
AgreesHoldingOne(s, leaders, prev) == prev \in {0} \union DOMAIN s

\* The consistency check: the log holds the leader's entry before the append.
Agrees(s, leaders, prev) == TermAt(s, prev) = TermAt(leaders, prev)

\* The entries of the leader's log from prev + 1 to end, over the first one that
\* conflicts and everything after it.
Placed(s, leaders, prev, end) ==
  IF \A i \in (prev + 1) .. end : TermAt(s, i) = leaders[i].term
  THEN s
  ELSE SubSeq(s, 1, prev) \o SubSeq(leaders, prev + 1, end)

\* The slots of term t that continue the log join it.
Absorb(s, slots, t) ==
  LET own == {w \in slots : w.entry.term = t}
      run == {j \in Len(s) .. (Len(s) + Cardinality(own)) :
                \A i \in (Len(s) + 1) .. j : \E w \in own : w.index = i}
  IN s \o [i \in 1 .. (Max(run) - Len(s)) |->
             (CHOOSE w \in own : w.index = Len(s) + i).entry]

\* The answer of follower f reaches term t's leader while it still leads; current
\* says whether it answers an append sent after the leader's read began.
Answered(f, t, match, current) ==
  [n \in Node |->
     IF n \in elected[t] /\ IsLeader(n) /\ term[n] = t
     THEN [duty[n] EXCEPT
             !.acked[f] = IF match > Len(log[n]) THEN @ ELSE Max({@, match}),
             !.read.confirmed = IF current /\ f \in AllVoters(log[n]) /\ duty[n].read # NoRead
                                THEN @ \union {f} ELSE @]
     ELSE IF n = f THEN Idle ELSE duty[n]]

\* The leader's commit index, as far as the entries now held.
FollowerCommit(f, c, end) == Max({commit[f], Min({c, end})})

\* Follower f takes the append of term t's leader from prev to end, with the
\* commit index c: one inside its committed prefix brings the rest, one past a
\* hole is buffered and refused, any other is placed and then continued from the
\* window.
OnAppendEntries(f, t, prev, end, c, current) ==
  LET from == Max({prev, commit[f]})
      matches == prev >= commit[f] => Agrees(log[f], sent[t].log, prev)
      placed == Placed(log[f], sent[t].log, from, end)
      commits == FollowerCommit(f, c, end)
      syncs == synced[f] < t /\ TermAt(placed, sent[t].sync) = t
  IN /\ f \in Targets(t) \ elected[t]
     /\ t >= term[f]
     /\ sent[t].sync > 0 /\ prev <= end
     /\ Follow(f, t)
     /\ \/ /\ end <= commit[f] /\ prev < commit[f]
           /\ duty' = Answered(f, t, commit[f], current)
           /\ UNCHANGED <<log, commit, window, synced>>
        \/ /\ end > commit[f] \/ prev = commit[f]
           /\ ~matches
           /\ window' = [window EXCEPT ![f] = Buffer(f, t, prev, end)]
           /\ duty' = Answered(f, t, 0, current)
           /\ UNCHANGED <<log, commit, synced>>
        \/ /\ end > commit[f] \/ prev = commit[f]
           /\ matches
           /\ log' = [log EXCEPT ![f] = Absorb(placed, window[f], t)]
           /\ commit' = [commit EXCEPT ![f] = commits]
           /\ synced' = [synced EXCEPT ![f] = IF syncs THEN t ELSE @]
           /\ window' = [window EXCEPT ![f] = Above(@, commits)]
           /\ duty' = Answered(f, t, Len(log'[f]), current)
     /\ UNCHANGED <<sent, elected, budget>>

\* The log past a snapshot through index k: the suffix stays if the log agrees
\* with the snapshot at k.
Installed(s, leaders, k) ==
  IF TermAt(s, k) = leaders[k].term THEN s ELSE SubSeq(leaders, 1, k)

\* f takes the snapshot term t's leader folded its committed log into, through k.
OnInstallSnapshot(f, t, k) ==
  /\ budget.failures
  /\ f \in Targets(t) \ elected[t]
  /\ t >= term[f]
  /\ Follow(f, t)
  /\ log' = [log EXCEPT ![f] = Installed(@, sent[t].log, k)]
  /\ commit' = [commit EXCEPT ![f] = Max({@, k})]
  /\ window' = [window EXCEPT ![f] = Above(@, commit'[f])]
  /\ duty' = Answered(f, t, commit'[f], FALSE)
  /\ UNCHANGED <<synced, sent, elected, budget>>
-----------------------------------------------------------------------------
\* Leader n's commit index reaches k, an index of its own term a majority holds;
\* a leader the committed configuration no longer names steps down.
AdvanceLeaderCommit(n, k) ==
  LET holders == {v \in Node : v = n \/ duty[n].acked[v] >= k}
      g == EffectiveConfig(SubSeq(log[n], 1, k))
      removed == g.joint = {} /\ n \notin g.voters
  IN /\ IsLeader(n)
     /\ k > commit[n]
     /\ TermAt(log[n], k) = term[n]
     /\ IsMajority(log[n], holders)
     /\ commit' = [commit EXCEPT ![n] = k]
     /\ window' = [window EXCEPT ![n] = Above(@, k)]
     /\ sent' = [sent EXCEPT ![term[n]].commit = k]
     /\ role' = [role EXCEPT ![n] = IF removed THEN "follower" ELSE @]
     /\ duty' = [duty EXCEPT ![n] = IF removed THEN Idle ELSE @]
     /\ UNCHANGED <<term, vote, log, synced, elected, budget>>

LeaderAppend(n, e) ==
  /\ IsLeader(n)
  /\ Lead(n, term[n], Append(log[n], e))
  /\ UNCHANGED <<term, vote, role, synced, elected>>

AppendCommand(n, c) ==
  /\ budget.commands > 0
  /\ LeaderAppend(n, Entry(term[n], c))
  /\ budget' = [budget EXCEPT !.commands = @ - 1]
  /\ UNCHANGED duty

\* A change begins and completes on a log committed to its end (caught_up), and
\* ends a read round.
ChangeConfig(n, g) ==
  /\ commit[n] = Len(log[n])
  /\ LeaderAppend(n, ConfigEntry(term[n], g))
  /\ duty' = [duty EXCEPT ![n].read = NoRead]

\* Mutant: the new voters take over at once.
BeginMembershipChangeAtOnce(n, new) ==
  /\ IsLeader(n)
  /\ \A v \in new \ AllVoters(log[n]) : duty[n].acked[v] >= sent[term[n]].sync
  /\ ChangeConfig(n, Configuration(new, {}))
  /\ budget' = [budget EXCEPT !.targets = {}]

\* The members it adds have caught up with the leader's log (catch_up).
BeginMembershipChange(n, new) ==
  /\ IsLeader(n)
  /\ EffectiveConfig(log[n]).joint = {}
  /\ \A v \in new \ AllVoters(log[n]) : duty[n].acked[v] >= sent[term[n]].sync
  /\ ChangeConfig(n, Configuration(EffectiveConfig(log[n]).voters, new))
  /\ budget' = [budget EXCEPT !.targets = {}]

CompleteMembershipChange(n) ==
  /\ IsLeader(n)
  /\ EffectiveConfig(log[n]).joint # {}
  /\ ChangeConfig(n, Configuration(EffectiveConfig(log[n]).joint, {}))
  /\ UNCHANGED budget

\* A reply brings a term later than the one n campaigns or leads in.
OnLaterTerm(n, m) ==
  /\ role[n] # "follower"
  /\ term[m] > term[n]
  /\ Follow(n, term[m])
  /\ duty' = [duty EXCEPT ![n] = Idle]
  /\ UNCHANGED <<log, commit, window, synced, sent, elected, budget>>

\* A leader that heard from no majority for a window steps down.
CheckQuorum(n) ==
  /\ IsLeader(n)
  /\ budget.failures
  /\ role' = [role EXCEPT ![n] = "follower"]
  /\ duty' = [duty EXCEPT ![n] = Idle]
  /\ UNCHANGED <<durable, sent, elected, budget>>

\* Mutant: the restored node has no vote.
RestartForgettingVote(n) ==
  /\ budget.failures
  /\ vote' = [vote EXCEPT ![n] = Nobody]
  /\ role' = [role EXCEPT ![n] = "follower"]
  /\ duty' = [duty EXCEPT ![n] = Idle]
  /\ UNCHANGED <<term, log, commit, window, synced, sent, elected, budget>>

\* The node restarts from the state it retained (saved, restore).
Restart(n) ==
  /\ budget.failures
  /\ role' = [role EXCEPT ![n] = "follower"]
  /\ duty' = [duty EXCEPT ![n] = Idle]
  /\ UNCHANGED <<durable, sent, elected, budget>>
-----------------------------------------------------------------------------
LastCommit == Max({commit[n] : n \in Node})

\* Mutant: a leader reads before it has committed in its term.
BeginReadAtOnce(n) ==
  /\ IsLeader(n)
  /\ budget.reads
  /\ duty[n].read = NoRead
  /\ duty' = [duty EXCEPT ![n].read =
       [index |-> commit[n], floor |-> LastCommit,
        config |-> EffectiveConfig(log[n]), confirmed |-> {n}]]
  /\ UNCHANGED <<durable, role, sent, elected, budget>>

\* A leader that has committed in its own term, past what it recovered, begins a
\* read; floor records what any node had committed by then.
BeginRead(n) ==
  /\ IsLeader(n)
  /\ budget.reads
  /\ TermAt(log[n], commit[n]) = term[n]
  /\ commit[n] >= sent[term[n]].sync - 1
  /\ duty[n].read = NoRead
  /\ duty' = [duty EXCEPT ![n].read =
       [index |-> commit[n], floor |-> LastCommit,
        config |-> EffectiveConfig(log[n]), confirmed |-> {n}]]
  /\ UNCHANGED <<durable, role, sent, elected, budget>>

\* Whether leader n's read round answers.
ReadAnswers(n) ==
  /\ IsLeader(n)
  /\ duty[n].read # NoRead
  /\ duty[n].read.config = EffectiveConfig(log[n])
  /\ IsMajority(log[n], duty[n].read.confirmed)

ReadIndex(n) ==
  /\ ReadAnswers(n)
  /\ duty' = [duty EXCEPT ![n].read = NoRead]
  /\ UNCHANGED <<durable, role, sent, elected, budget>>

CancelRead(n) ==
  /\ duty[n].read # NoRead
  /\ duty' = [duty EXCEPT ![n].read = NoRead]
  /\ UNCHANGED <<durable, role, sent, elected, budget>>
-----------------------------------------------------------------------------
Next ==
  \/ \E n \in Node :
       \/ OnElectionTimeout(n) \/ OnTimeoutNow(n)
       \/ CompleteMembershipChange(n) \/ CheckQuorum(n) \/ Restart(n)
       \/ BeginRead(n) \/ ReadIndex(n) \/ CancelRead(n)
       \/ \E m \in Node : OnRequestVote(n, m) \/ OnLaterTerm(n, m)
       \/ \E voters \in SUBSET {g.voter : g \in duty[n].grants} : BecomeLeader(n, voters)
       \/ \E k \in DOMAIN log[n] : AdvanceLeaderCommit(n, k)
       \/ \E c \in Command : AppendCommand(n, c)
       \/ \E new \in budget.targets : BeginMembershipChange(n, new)
       \/ \E t \in {u \in Terms : sent[u].sync > 0 /\ u >= term[n]} :
            \/ \E k \in 1 .. sent[t].commit : OnInstallSnapshot(n, t, k)
            \/ \E end \in sent[t].sync .. Len(sent[t].log), prev \in Prevs(n, t),
                  c \in {0} \union ((commit[n] + 1) .. sent[t].commit),
                  current \in {FALSE, \E m \in Node : duty[m].read # NoRead} :
                 OnAppendEntries(n, t, prev, end, c, current)

Spec == Init /\ [][Next]_vars
-----------------------------------------------------------------------------

\* Election safety (on_request_vote, restore): no two nodes win one term,
\* whichever of them restarts after voting and whichever configuration each
\* counts its votes in.
OneLeaderPerTerm == \A t \in Terms : Cardinality(elected[t]) <= 1

\* Log matching (place_entry, absorb, on_install_snapshot): two logs with an
\* entry of one term at an index are the same up to it, however the entries
\* arrived: in an append, through the window, or below a snapshot.
LogMatching ==
  \A m, n \in Node : \A i \in DOMAIN log[m] \intersect DOMAIN log[n] :
    log[m][i].term = log[n][i].term => SubSeq(log[m], 1, i) = SubSeq(log[n], 1, i)

\* Reads are linearizable (begin_read, read_index): a read that answers sees
\* every entry that any node had committed before it began, although another
\* node may lead a later term by then.
ReadsAreCurrent ==
  \A n \in Node : ReadAnswers(n) => duty[n].read.index >= duty[n].read.floor

Committed(n) == SubSeq(log[n], 1, commit[n])
Chosen == Committed(CHOOSE n \in Node : \A m \in Node : commit[m] <= commit[n])

Agreed == INSTANCE AgreedLog WITH chosen <- Chosen, known <- [n \in Node |-> Committed(n)]

\* The group is an agreed log (advance_leader_commit, on_append_entries): the
\* committed entries form one sequence that only grows, of which every node
\* knows a prefix that only grows, through elections, restarts, snapshots and
\* membership changes.
RaftIsAnAgreedLog == Agreed!Spec
=============================================================================
