----------------------------- MODULE AgreedLog -----------------------------
(***************************************************************************)
(* What a consensus group promises its replicas: one sequence of chosen    *)
(* entries that only grows at its end, and every replica knowing a prefix  *)
(* of it that only grows.                                                  *)
(***************************************************************************)
EXTENDS Sequences, SequencesExt

CONSTANT Node

VARIABLES
  chosen,  \* the entries chosen so far
  known    \* known[n]: the chosen entries replica n knows of

Init ==
  /\ chosen = << >>
  /\ known = [n \in Node |-> << >>]

\* Replica n chooses entries past the chosen ones.
Choose(n) ==
  /\ chosen' # chosen
  /\ IsPrefix(chosen, chosen')
  /\ known' = [known EXCEPT ![n] = chosen']

\* Replica n learns of entries already chosen.
Learn(n) ==
  /\ known'[n] # known[n]
  /\ IsPrefix(known[n], known'[n])
  /\ IsPrefix(known'[n], chosen)
  /\ known' = [known EXCEPT ![n] = known'[n]]
  /\ UNCHANGED chosen

Next == \E n \in Node : Learn(n) \/ Choose(n)

Spec == Init /\ [][Next]_<<chosen, known>>
=============================================================================
