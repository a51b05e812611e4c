------------------------------ MODULE MCPosBuf ------------------------------
(***************************************************************************)
(* The two tables of the frontend, each by itself in all surroundings;     *)
(* which one a behaviour is about is chosen at the start.                  *)
(*                                                                         *)
(* The PoS table has one set of four ways (two for requests, one reserved  *)
(* for each channel) and two addresses, the smallest number for which a    *)
(* slot of one address can be cleaned, chosen or tagged while the other is *)
(* in s1.  Sets share nothing but the port of s0, the wakeup pulse and the *)
(* two static gates; MCFrontend has the port driven for real.              *)
(*                                                                         *)
(* The task buffer has three entries, so that an address can have a task   *)
(* that is judged, one behind it and one arriving, and two addresses, so   *)
(* that entries of the other one lie between them.  The two addresses are  *)
(* interchangeable in both.                                                *)
(***************************************************************************)
EXTENDS PosTable, TaskBuffer, TLC

CONSTANTS a1, a2, sA
VARIABLE part   \* "table" or "buffer"; never changes

MCSetOf == [a \in Addr |-> sA]
MCAddrOf == [t \in Task |-> t]
Alike == Permutations({a1, a2})

PartInit == part \in {"table", "buffer"} /\ PosInit /\ BufInit
PartNext ==
  /\ part' = part
  /\ \/ part = "table" /\ PosNext /\ UNCHANGED bufVars
     \/ part = "buffer" /\ BufNext /\ UNCHANGED posVars
PartSpec == PartInit /\ [][PartNext]_<<part, posVars, bufVars>>
=============================================================================
