-------------------------- MODULE MCAxiDataBuffer --------------------------
(***************************************************************************)
(* Bounds for the write data buffer: three machines (interchangeable) and  *)
(* as many slots (two slots are enough for the stall of AxiBufStall).      *)
(***************************************************************************)
EXTENDS AxiDataBuffer, TLC

CONSTANTS c1, c2, c3

Machines == Permutations({c1, c2, c3})
=============================================================================
