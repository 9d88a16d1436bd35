------------------------------- MODULE MCRaft -------------------------------
(***************************************************************************)
(* Raft on three nodes, a behaviour having one of the budgets: elections   *)
(* over three terms; reads, a command, and commands sent ahead of a hole   *)
(* over two; a group of one that grows to three, and of three that shrinks *)
(* to one.  A term with one leader makes an entry's term and index its     *)
(* identity, so one command is enough.                                     *)
(***************************************************************************)
EXTENDS Raft, TLC

CONSTANTS a, b, c, x

MCNode == {a, b, c}
MCCommand == {x}

Electing == [founders |-> MCNode, targets |-> {}, terms |-> 3, commands |-> 0,
             reads |-> FALSE, failures |-> TRUE, span |-> 0]
Reading == [Electing EXCEPT !.terms = 2, !.reads = TRUE]
Writing == [Electing EXCEPT !.terms = 2, !.commands = 1]
Ahead == [Electing EXCEPT !.terms = 2, !.commands = 2, !.span = 2, !.failures = FALSE]
Growing(n) == [Electing EXCEPT !.terms = 2, !.founders = {n}, !.targets = {MCNode}]
Shrinking ==
  [Electing EXCEPT !.terms = 2, !.targets = {{n} : n \in MCNode}, !.failures = FALSE]
MCBudgets ==
  {Electing, Reading, Writing, Ahead, Shrinking} \union {Growing(n) : n \in MCNode}

Symmetry == Permutations(MCNode)

\* What every node has moved past is no longer told apart.
Live(t) == \E n \in Node : term[n] <= t
View ==
  <<term, vote, role, log, commit, window, synced, duty, elected, budget,
    [t \in Terms |-> IF Live(t) THEN sent[t] ELSE [log |-> << >>, commit |-> 0, sync |-> 0]]>>
=============================================================================
