------------------------------- MODULE MCRing -------------------------------
(***************************************************************************)
(* Three stops.  Stop 0 sends to stop 1 through both its ports (a1 and a2, *)
(* c1); stop 2 has one sender, that takes turns between stop 0 (b1), past  *)
(* which the refused flits of stop 1 go round, and stop 1 (b2), which it   *)
(* reaches in the other lane.  With eject buffers of two places, three     *)
(* flits are enough to fill one, to keep its last room for an elected one  *)
(* and to refuse the others.                                               *)
(***************************************************************************)
EXTENDS RingChan

CONSTANTS a1, a2, b1, b2, c1

MCSrc == [f \in Flit |-> IF f \in {b1, b2} THEN 2 ELSE 0]
MCTgt == [f \in Flit |-> IF f = b1 THEN 0 ELSE 1]
MCPort == [f \in Flit |-> IF f = c1 THEN 1 ELSE 0]
MCJob == [f \in Flit |-> IF f = b2 THEN b1 ELSE f]
MCTag == [f \in Flit |-> f]
=============================================================================
