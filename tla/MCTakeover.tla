----------------------------- MODULE MCTakeover -----------------------------
(***************************************************************************)
(* Takeover over hosts at f = 1, each host its own failure domain, one     *)
(* object created at the first of three founders.  The budgets: the        *)
(* creator is retired while it writes; it and a second founder are         *)
(* retired; it is retired while a fourth host joins; a holder restarts     *)
(* before or after it is retired, with no takeover round.                  *)
(***************************************************************************)
EXTENDS Takeover

MCHost == 1 .. 4
MCObject == {5}
MCDomain == [h \in MCHost |-> h]
MCWeight(k, h) == (h * h * (k + 3) + 5 * h * k + k * k) % 11
MCOwnerWeight == [o \in MCHost |-> [h \in MCHost |-> MCWeight(o, h)]]
MCObjectWeight == [o \in MCObject |-> [h \in MCHost |-> MCWeight(o, h)]]
MCCreator == [o \in MCObject |-> 1]

Writing == [joiners |-> {}, mortals |-> {1}, churn |-> 1, restarts |-> {},
            version |-> 2, sequence |-> 1, epoch |-> 3]
Losing == [Writing EXCEPT !.mortals = {1, 3}, !.churn = 2, !.sequence = 0]
Joining == [Writing EXCEPT !.joiners = {4}, !.churn = 2, !.sequence = 0, !.epoch = 1]
Restarting == [Writing EXCEPT !.restarts = {2}, !.version = 1, !.epoch = 1]
MCEach == {Writing, Losing, Joining, Restarting}
MCWriting == {Writing}
MCRestarted == {[Writing EXCEPT !.version = 1, !.restarts = {2}]}
MCOneVersion == {[Writing EXCEPT !.version = 1]}

\* The candidates are evaluated once, before the states are enumerated.
ASSUME CandidatesAssumption == Chosen \in [Host -> [SUBSET Host -> [Object -> SUBSET Host]]]
=============================================================================
