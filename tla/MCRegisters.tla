---------------------------- MODULE MCRegisters -----------------------------
(***************************************************************************)
(* The protocols of one object and its holders, of which a behaviour runs  *)
(* one: Register and Ledger on three candidates at f = 1, Ledger with two  *)
(* payload identities; Reconfig from {h1, h2, h3} to {h2, h3, h4}, as in   *)
(* its tests; and Lease with two holders beside the owner at f = 1.        *)
(***************************************************************************)
EXTENDS Register, Ledger, Reconfig, Lease, TLC

VARIABLE protocol  \* the one that runs

Symmetry == Permutations(Candidate) \union Permutations(Identity)

MCVars == <<protocol, vars, ledgerVars, reconfigVars, leaseVars>>

MCInit ==
  /\ protocol \in {"register", "ledger", "reconfig", "lease"}
  /\ Init /\ LedgerInit /\ ReconfigInit /\ LeaseInit

\* The reconfiguration may end, and the lease when time does; the others never do.
MCNext ==
  \/ protocol = "register" /\ Next /\ UNCHANGED <<protocol, ledgerVars, reconfigVars, leaseVars>>
  \/ protocol = "ledger" /\ LedgerNext /\ UNCHANGED <<protocol, vars, reconfigVars, leaseVars>>
  \/ protocol = "reconfig" /\ ReconfigNext /\ UNCHANGED <<protocol, vars, ledgerVars, leaseVars>>
  \/ protocol = "lease" /\ LeaseNext /\ UNCHANGED <<protocol, vars, ledgerVars, reconfigVars>>
  \/ protocol = "reconfig" /\ phase = "new" /\ UNCHANGED MCVars
  \/ protocol = "lease" /\ now = LastTime /\ UNCHANGED MCVars

MCSpec == MCInit /\ [][MCNext]_MCVars
=============================================================================
