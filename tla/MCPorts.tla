------------------------------ MODULE MCPorts ------------------------------
(***************************************************************************)
(* The edges of the chip: the control of the AXI bridges and a channel of  *)
(* the cluster socket, each by itself; which one a behaviour is about is   *)
(* chosen at the start.                                                    *)
(*                                                                         *)
(* Three machines in the memory bridge, two in the device bridge; two      *)
(* lines; the memory bridge meets what ReadCM and WriteCM of the home      *)
(* nodes send, the device bridge what the cluster sends.  The channel has  *)
(* the five tokens of the code, since the round trip matters, and two      *)
(* flits to tell order and loss apart.                                     *)
(***************************************************************************)
EXTENDS BridgeCm, Pdc

CONSTANTS t1, t2
VARIABLE part   \* "bridge" or "socket"; never changes

Rq(tag, wr, order, ewa, ack, qos) ==
  [tag |-> tag, wr |-> wr, order |-> order, ewa |-> ewa, dwt |-> FALSE, ack |-> ack, qos |-> qos]

MCOutst == [b \in BOOLEAN |-> IF b THEN 3 ELSE 2]
MCReq ==
  [b \in BOOLEAN |->
     IF b THEN {Rq(t1, FALSE, FALSE, FALSE, FALSE, 0), Rq(t1, TRUE, FALSE, FALSE, FALSE, 0),
                Rq(t2, TRUE, FALSE, TRUE, FALSE, 1)}
     ELSE {Rq(t1, FALSE, TRUE, FALSE, TRUE, 0), Rq(t1, TRUE, FALSE, TRUE, TRUE, 0),
           Rq(t1, TRUE, FALSE, FALSE, FALSE, 0), Rq(t2, TRUE, FALSE, FALSE, TRUE, 1)}]
MCDataOp == [b \in BOOLEAN |-> IF b THEN {"data", "cancel"} ELSE {"data", "ack", "cancel"}]

PartInit ==
  /\ part \in {"bridge", "socket"}
  /\ BridgeInit /\ (part = "bridge" \/ sn)
  /\ PdcInit
PartNext ==
  /\ part' = part
  /\ \/ part = "bridge" /\ BridgeNext /\ UNCHANGED pdcVars
     \/ part = "socket" /\ PdcNext /\ UNCHANGED bridgeVars
PartSpec ==
  /\ PartInit
  /\ [][PartNext]_<<part, bridgeVars, pdcVars>>
  /\ WF_pdcVars(part = "socket" /\ PdcRead)
=============================================================================
