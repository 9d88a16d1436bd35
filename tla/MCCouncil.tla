------------------------------ MODULE MCCouncil ------------------------------
(***************************************************************************)
(* Council over four hosts at f = 1, two of which share a failure domain;  *)
(* the weights rank the hosts differently for every key.                   *)
(***************************************************************************)
EXTENDS Council

MCHost == 1 .. 4
MCObject == {5}
MCDomain == [h \in MCHost |-> IF h = 4 THEN 2 ELSE h]
MCWeight(k, h) == (h * h * (k + 3) + 5 * h * k + k * k) % 11
MCOwnerWeight == [o \in MCHost |-> [h \in MCHost |-> MCWeight(o, h)]]
MCObjectWeight == [o \in MCObject |-> [h \in MCHost |-> MCWeight(o, h)]]

\* The candidates are evaluated once, before the states are enumerated.
ASSUME CandidatesAssumption == Chosen \in [Host -> [SUBSET Host -> [Object -> SUBSET Host]]]
=============================================================================
