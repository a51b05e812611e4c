------------------------------- MODULE VipArb -------------------------------
(***************************************************************************)
(* The VIP arbiter (prefab/xsarb.h, class VipArb): the port the pointer    *)
(* vip names wins whenever it asks; otherwise the lowest asking port wins. *)
(* The pointer moves on to the next asking port only when another port     *)
(* asks and the VIP port either does not ask or has just been granted.     *)
(***************************************************************************)
EXTENDS Integers, FiniteSetsExt

\* chosen: the port granted, given the set V of asking ports.
VipChosen(vip, V) == IF vip \in V THEN vip ELSE IF V # {} THEN Min(V) ELSE 0

\* w_move and vip.update: next asking port above vip, else the lowest below it.
VipNext(vip, V, rdy) ==
  LET others == V \ {vip}
      above  == {i \in others : i > vip}
  IN  IF others = {} \/ (vip \in V /\ ~rdy) THEN vip
      ELSE IF above # {} THEN Min(above) ELSE Min(others)
=============================================================================
