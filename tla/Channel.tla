------------------------------ MODULE Channel ------------------------------
(***************************************************************************)
(* What every queue and link of the model promises: a channel that takes   *)
(* at most one item and hands over at most one item in a cycle, in order,  *)
(* losing none and inventing none, and that never holds more than Cap.     *)
(* items is what it holds; acc and out are what it took and handed over    *)
(* in the last cycle.                                                      *)
(***************************************************************************)
EXTENDS Naturals, Sequences

CONSTANTS Item, Cap

VARIABLES items, acc, out

ChanInit == items = <<>> /\ acc = <<>> /\ out = <<>>

ChanNext ==
  /\ acc' \in Seq(Item) /\ Len(acc') <= 1
  /\ Len(out') <= 1
  /\ out' \o items' = items \o acc'
  /\ Len(items') <= Cap

ChanSpec == ChanInit /\ [][ChanNext]_<<items, acc, out>>
=============================================================================
