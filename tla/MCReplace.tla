----------------------------- MODULE MCReplace -----------------------------
(***************************************************************************)
(* The replacement engine on a set with two ways for requests and the two  *)
(* ways kept for victims; the code has 14 and two.  With two tasks at once *)
(* each can hold a way of a request while it waits for one of the set.     *)
(***************************************************************************)
EXTENDS Replace
CONSTANTS s1, s2
=============================================================================
