------------------------------ MODULE MCRuntime ------------------------------
(***************************************************************************)
(* Three sends of two senders and the owner's shutdown against a ring of   *)
(* two slots, a control channel of two messages and a batch of one, so     *)
(* that the ring fills, the channel refuses, a drain stops at its batch,   *)
(* and a sender outlives the registration it addressed.                    *)
(***************************************************************************)
EXTENDS Runtime, TLC

CONSTANTS p1, p2, s, o, none

MCSender == {p1, p2}
MCPeer == {p2}
MCPrograms ==
  {(p1 :> <<"word">>) @@ (p2 :> <<kind, kind>>) : kind \in {"word", "control"}}
=============================================================================
