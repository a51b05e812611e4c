----------------------------- MODULE MCFrontend -----------------------------
(***************************************************************************)
(* Bounds for the frontend: one set of three ways (one for requests, one   *)
(* reserved for each channel), so that the set is full as soon as one      *)
(* transaction runs; two addresses; an ordered read, a write and an HPR    *)
(* write that meets the read's address.                                    *)
(***************************************************************************)
EXTENDS Frontend

CONSTANTS a1, a2, sA, rd, wr, hp

MCSetOf  == [a \in Addr |-> sA]
MCAddrOf == [t \in Task |-> IF t = wr THEN a2 ELSE a1]
MCKind   == [t \in Task |-> [cacheable |-> t = rd, sReceipt |-> t = rd, sDbid |-> t # rd]]

AllReady  == [dir |-> TRUE, db |-> TRUE, resp |-> TRUE]
MCRdys    == {AllReady, [AllReady EXCEPT !.dir = FALSE], [AllReady EXCEPT !.resp = FALSE]}
MCReady   == {AllReady}
=============================================================================
