---------------------------- MODULE MCDataBlock ----------------------------
(***************************************************************************)
(* Bounds for the data block and, side by side with it, for the pool of    *)
(* ids it draws on; which one a behaviour is about is chosen at the start  *)
(* and the other stays in its initial state.                               *)
(*                                                                         *)
(* Pool: two queues of three ids, so that the filling takes longer than    *)
(* the gated start-up, a queue can hold none, one or several, and the      *)
(* order of ids in a queue matters.                                        *)
(*                                                                         *)
(* Data block: one transaction at a time with every task, every choice of  *)
(* beats and a change of its id; and two at a time, an exchange beside a   *)
(* transaction that is read out and saved, which between them meet at      *)
(* every port: both ports of storage, both readers of the buffer, the      *)
(* output and the answers. Of two at a time only the second beat is        *)
(* watched, which follows the first through every port.                    *)
(***************************************************************************)
EXTENDS Dbid, DataBlock

CONSTANTS t1, t2
VARIABLE part

Alone == [alone |-> TRUE, parts |-> TRUE, rxFull |-> BOOLEAN, vecs |-> {{0}, {1}, {0, 1}},
          ops |-> [t \in Txn |-> Tasks]]
Two == [alone |-> FALSE, parts |-> FALSE, rxFull |-> {TRUE}, vecs |-> {{0, 1}},
        ops |-> [t \in Txn |-> IF t = t1 THEN {{"repl"}} ELSE {{"read", "send"}, {"save"}}]]
MCPlans == {Alone, Two}

PartInit ==
  /\ part \in {"pool", "data"} /\ DbidInit /\ DataInit
  /\ part = "pool" => watch = 0 /\ plan = Alone
  /\ part = "data" /\ plan = Two => watch = 1
PartNext ==
  /\ part' = part
  /\ \/ part = "pool" /\ DbidNext /\ UNCHANGED dataVars
     \/ part = "data" /\ DataNext /\ UNCHANGED dbidVars
PartSpec ==
  /\ PartInit /\ [][PartNext]_<<part, dbidVars, dataVars>>
  /\ part = "data" => DataFair
=============================================================================
