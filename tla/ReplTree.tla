------------------------------ MODULE ReplTree ------------------------------
(***************************************************************************)
(* Which way a directory gives up: the tree of pseudo-LRU bits of a set    *)
(* (plruReplaceWay, plruNextState of model/dj/dj_types.h), and how its     *)
(* state gets from one request to the next through the pipeline of         *)
(* Directory.  A request reads the tree at d0, uses it at d2, and at d4    *)
(* writes it back with the way it has touched; the requests that are less  *)
(* than four edges behind it have it forwarded (w_match, bp).              *)
(*                                                                         *)
(* Here a request is what it does to the tree: it touches a way that it    *)
(* knows (a write), finds (a read), is given up for it (repl), or none (a  *)
(* read that misses).  While a repl is in the stages nothing enters.       *)
(***************************************************************************)
EXTENDS Integers, Sequences, Fifo

CONSTANTS
  TreeSet,   \* sets
  TreeWays   \* number of ways

VARIABLES
  repl_ram,  \* the tree of each set, as the number its bits make
  reqs,      \* the requests at d1 .. d4
  mes3,      \* d3.replMes
  mes4,      \* d4.newReplMes
  bp,        \* what the request at d4 wrote while this one was at d1
  resp,      \* what the memory brings to d2
  recent     \* the ways last touched in a set, latest first; history only

treeVars == <<repl_ram, reqs, mes3, mes4, bp, resp, recent>>

-----------------------------------------------------------------------------
(* A tree of n ways is n - 1 bits: the highest says whether the upper half *)
(* of the ways is the older one, then come the bits of the upper half,     *)
(* lowest those of the lower half.                                         *)
RECURSIVE Log2(_), ReplaceWay(_, _), NextState(_, _, _)

Log2(n) == IF n <= 1 THEN 0 ELSE 1 + Log2((n + 1) \div 2)
Half(n) == 2 ^ (Log2(n) - 1)
UpperOlder(state, n) == state \div 2 ^ (n - 2) = 1
Upper(state, n) == (state \div 2 ^ (Half(n) - 1)) % 2 ^ (n - Half(n) - 1)
Lower(state, n) == state % 2 ^ (Half(n) - 1)

ReplaceWay(state, n) ==
  IF n <= 2 THEN state
  ELSE IF UpperOlder(state, n) THEN Half(n) + ReplaceWay(Upper(state, n), n - Half(n))
  ELSE ReplaceWay(Lower(state, n), Half(n))

\* The half that has not been touched is the older one from now on.
NextState(state, way, n) ==
  IF n <= 2 THEN 1 - way
  ELSE IF way < Half(n)
       THEN 2 ^ (n - 2) + Upper(state, n) * 2 ^ (Half(n) - 1)
              + NextState(Lower(state, n), way, Half(n))
       ELSE NextState(Upper(state, n), way - Half(n), n - Half(n)) * 2 ^ (Half(n) - 1)
              + Lower(state, n)

-----------------------------------------------------------------------------
AllWays == 0 .. TreeWays - 1

TreeInit ==
  /\ repl_ram = [s \in TreeSet |-> 0]
  /\ reqs = [d \in 1 .. 4 |-> <<>>]
  /\ mes3 = 0 /\ mes4 = 0 /\ resp = 0 /\ bp = <<>>
  /\ recent = [s \in TreeSet |-> <<>>]

TreeRdy == reqs[1] = <<>> /\ \A d \in 1 .. 4 : reqs[d] # <<>> => reqs[d][1].does # "repl"

\* d4 writes back what it has touched.
Wreq == IF reqs[4] # <<>> /\ reqs[4][1].way # <<>>
        THEN <<[set |-> reqs[4][1].set, mes |-> mes4]>> ELSE <<>>
MatchAt(d) == Wreq # <<>> /\ reqs[d] # <<>> /\ reqs[d][1].set = Wreq[1].set

\* d2: the tree as the requests before this one have left it.
ReplMesNoBp == IF MatchAt(2) THEN mes4 ELSE resp  \* faulty variant
ReplMes == IF MatchAt(2) THEN mes4 ELSE IF bp # <<>> THEN bp[1] ELSE resp

\* What comes to d1: behind a repl its own write, which leaves the tree alone.
Comes(in) ==
  IF reqs[4] # <<>> /\ reqs[4][1].does = "repl"
  THEN <<[set |-> reqs[4][1].set, does |-> "ghost", way |-> <<>>]>>
  ELSE IF TreeRdy THEN in ELSE <<>>

\* The memory answers with the writes made up to d0 (Sram).
TreeTick(in) ==
  LET ram == IF Wreq = <<>> THEN repl_ram ELSE [repl_ram EXCEPT ![Wreq[1].set] = mes4]
      known(r) == IF r # <<>> /\ r[1].does = "repl"
                  THEN <<[r[1] EXCEPT !.way = <<ReplaceWay(mes3, TreeWays)>>]>> ELSE r
      touched == known(reqs[3])
  IN /\ repl_ram' = ram
     /\ reqs' = <<Comes(in), reqs[1], reqs[2], touched>>
     /\ resp' = IF reqs[1] # <<>> THEN repl_ram[reqs[1][1].set] ELSE 0
     /\ bp' = IF MatchAt(1) THEN <<mes4>> ELSE <<>>
     /\ mes3' = IF reqs[2] # <<>> THEN ReplMes ELSE 0
     /\ mes4' = IF touched # <<>> /\ touched[1].way # <<>>
                THEN NextState(mes3, touched[1].way[1], TreeWays) ELSE 0
     /\ recent' = IF touched = <<>> \/ touched[1].way = <<>> THEN recent
                  ELSE [recent EXCEPT ![touched[1].set] =
                          SubSeq(touched[1].way \o @, 1,
                                 IF Len(@) < Log2(TreeWays) THEN Len(@) + 1 ELSE Len(@))]

\* A repl touches the victim, known at d3.
TreeInputs ==
  Opt([set : TreeSet, does : {"touch"}, way : Opt(AllWays)]
      \cup [set : TreeSet, does : {"repl"}, way : {<<>>}])

TreeNext == \E in \in TreeInputs : TreeTick(in)
TreeSpec == TreeInit /\ [][TreeNext]_treeVars

(* The way a set gives up is none of the log2 n ways that were touched     *)
(* last, by whichever requests and however closely they follow.            *)
VictimNotRecent ==
  reqs[2] # <<>> =>
    \A i \in DOMAIN recent[reqs[2][1].set] :
      ReplaceWay(ReplMes, TreeWays) # recent[reqs[2][1].set][i]
=============================================================================
