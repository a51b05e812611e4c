---------------------------- MODULE PerAddrFifo ----------------------------
(***************************************************************************)
(* What a task buffer promises about order: the tasks of one address leave *)
(* in the order they came, and nothing is promised across addresses.  The  *)
(* order is kept as the set of places each task still has ahead of it.  In *)
(* one step at most one task arrives, and one of each address may leave.   *)
(***************************************************************************)
CONSTANTS Addr, Place   \* addresses; places a waiting task may occupy

VARIABLES at,      \* at[p]: the address of the task in place p, or {}
          ahead    \* ahead[p]: the places of the older tasks of that address

vars == <<at, ahead>>

Init == /\ at = [p \in Place |-> {}]
        /\ ahead = [p \in Place |-> {}]

\* The places that were left in a step, and those that were taken.
Left == {p \in Place : at[p] # {} /\ at'[p] = {}}
Came == {p \in Place : at[p] = {} /\ at'[p] # {}}

Next ==
  /\ \A p \in Left : ahead[p] = {}
  /\ \A p, q \in Came : p = q
  /\ \A p \in Came : \E a \in Addr : at'[p] = {a}
  /\ \A p \in Place \ (Left \cup Came) : at'[p] = at[p]
  /\ ahead' = [p \in Place |-> (IF p \in Came THEN {q \in Place : at[q] = at'[p]} ELSE ahead[p])
                                \ Left]

Spec == Init /\ [][Next]_vars
=============================================================================
