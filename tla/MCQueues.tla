------------------------------ MODULE MCQueues ------------------------------
(***************************************************************************)
(* What keeps data: the two queues and the memories of prefab/ and the     *)
(* write data buffer of the memory bridge, each by itself in any           *)
(* surroundings; which one a behaviour is about is chosen at the start and *)
(* the others stay empty, of one kind.                                     *)
(*                                                                         *)
(* FifoState has depths 1 to 3 (pointers that never move, that alternate,  *)
(* that wrap unevenly) and all four kinds, FastQueue depths 2 to 4 (2 is   *)
(* the one most of the model uses; from 3 on its enq_rdy stays up across a *)
(* write).  The memories are those of the code (metadata, tags, beats, the *)
(* replacement state, the data buffer) and one with two ports and held     *)
(* inputs, which nothing uses yet.  The data buffer has three machines     *)
(* (interchangeable) and as many slots, so that two writes of two beats do *)
(* not fit together.                                                       *)
(***************************************************************************)
EXTENDS FifoState, FastQueue, Sram, AxiDataBuffer, TLC

CONSTANTS x, y, c1, c2, c3
VARIABLE which

SpKind(isc, sweep) == [dual |-> FALSE, isc |-> isc, lat |-> 2, out |-> TRUE, bypass |-> FALSE,
                       sweep |-> sweep]
DpKind(isc, more) == [dual |-> TRUE, isc |-> isc, lat |-> 1, out |-> more, bypass |-> more,
                      sweep |-> more]
MCSramKinds == {SpKind(1, TRUE), SpKind(1, FALSE), SpKind(2, FALSE), DpKind(1, TRUE),
                DpKind(1, FALSE), DpKind(2, FALSE)}

Machines == Permutations({c1, c2, c3})

QueuesInit ==
  /\ which \in {"FifoState", "FastQueue", "Sram", "AxiDataBuffer"}
  /\ FifoInit /\ (which = "FifoState" \/ c = CHOOSE k \in Kinds : TRUE)
  /\ FqInit /\ (which = "FastQueue" \/ depth = 2)
  /\ SramInit /\ (which = "Sram" \/ cfg = SpKind(1, FALSE))
  /\ AdbInit /\ (which = "AxiDataBuffer" \/ stalls)
QueuesNext ==
  /\ which' = which
  /\ \/ which = "FifoState" /\ FifoNext /\ UNCHANGED <<fqVars, sramVars, adbVars>>
     \/ which = "FastQueue" /\ FqSpecNext /\ UNCHANGED <<fifoVars, sramVars, adbVars>>
     \/ which = "Sram" /\ SramNext /\ UNCHANGED <<fifoVars, fqVars, adbVars>>
     \/ which = "AxiDataBuffer" /\ AdbNext /\ UNCHANGED <<fifoVars, fqVars, sramVars>>
QueuesSpec == QueuesInit /\ [][QueuesNext]_<<which, fifoVars, fqVars, sramVars, adbVars>>
=============================================================================
