---------------------------- MODULE MCDirectory ----------------------------
(***************************************************************************)
(* A directory and the replacement trees, each by itself (which one is     *)
(* chosen at the start).                                                   *)
(*                                                                         *)
(* Directory: both kinds; two transactions, so that one can be in the      *)
(* stages, or hold a way, while the other is answered; three ways, one     *)
(* more than they can hold; in one set four lines, one more than fit, so   *)
(* that lines are replaced while a line is asked for; a line of another    *)
(* set.  Slots are interchangeable, and so are the lines of a set.         *)
(* ReplTree: two sets with trees of four ways, so that both halves have a  *)
(* bit of their own.                                                       *)
(***************************************************************************)
EXTENDS Directory, ReplTree, TLC

CONSTANTS h1, h2, l1, l2, l3, l4, l5, sA, sB
VARIABLE which

MCSetOf == [l \in Line |-> IF l = l5 THEN sB ELSE sA]
Alike == Permutations({h1, h2}) \cup Permutations({l1, l2, l3, l4})

MCDirInit ==
  /\ which \in {"Directory", "ReplTree"}
  /\ DirInit /\ (which = "Directory" \/ sf) /\ TreeInit
MCDirNext ==
  /\ which' = which
  /\ \/ which = "Directory" /\ DirNext /\ UNCHANGED treeVars
     \/ which = "ReplTree" /\ TreeNext /\ UNCHANGED dirVars
MCDirSpec == MCDirInit /\ [][MCDirNext]_<<which, dirVars, treeVars>>
=============================================================================
