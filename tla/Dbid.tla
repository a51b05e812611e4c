-------------------------------- MODULE Dbid --------------------------------
(***************************************************************************)
(* The ids of the data buffer of a home node: DBIDPool and DBIDCtrl of     *)
(* model/dj/data.h and data.cpp.  2 * Half ids lie in two FastQueues of    *)
(* depth Half, so that two can be taken and two returned in a cycle.       *)
(*                                                                         *)
(* After power-up the queues are filled by a counter.  Queues and counter  *)
(* hang on a gated clock: it lets the first edge pass and then none until  *)
(* the home node is woken by its first request (model/home/dongjiang.cpp). *)
(*                                                                         *)
(* One step is one edge of the ungated clock, with inputs                  *)
(*   wake   a REQ flit is at the home node,                                *)
(*   req    the beats for which an id is wanted,                           *)
(*   rel    ids given back, a function on the beats they were used for.    *)
(***************************************************************************)
EXTENDS Integers, FiniteSets, Functions, Fifo

CONSTANT Half  \* kNrDataBuf / 2 (64 in the code)

ASSUME DbidAssumption == Half \in Nat /\ Half >= 2

VARIABLES
  started,  \* clock_started
  woken,    \* DongJiang.woken
  rst,      \* cnt and done of the filling
  q0, q1,   \* the FastQueues
  used      \* ids in the hands of the data control machines

dbidVars == <<started, woken, rst, q0, q1, used>>

Ids   == 0 .. 2 * Half - 1
TwoBeats == {0, 1}

DbidInit ==
  /\ started = FALSE /\ woken = FALSE
  /\ rst = [cnt |-> 0, done |-> FALSE]
  /\ q0 = FqEmpty /\ q1 = FqEmpty
  /\ used = {}

\* w_clk_en of DongJiang, and the gate of the pool.
ClkEn(wake) == woken \/ wake
QueueClkFree(wake) == TRUE  \* faulty variant
QueueClk(wake) == ClkEn(wake) \/ ~started
RstClk(wake) == ClkEn(wake) \/ ~started

NextRst == [cnt |-> IF rst.cnt = Half - 1 THEN 0 ELSE rst.cnt + 1,
            done |-> rst.done \/ rst.cnt = Half - 1]

-----------------------------------------------------------------------------
\* Returning: a single id goes to the shorter queue, two go one to each.
EnqSelQ0 == Len(q0.items) <= Len(q1.items)

Single(beats) == Cardinality(beats) = 1
OnlyBeat(beats) == CHOOSE b \in beats : TRUE

Q0Enq(rel) ==
  IF ~rst.done THEN <<rst.cnt>>
  ELSE IF Single(DOMAIN rel)
       THEN IF EnqSelQ0 THEN <<rel[OnlyBeat(DOMAIN rel)]>> ELSE <<>>
  ELSE IF DOMAIN rel = TwoBeats THEN <<rel[0]>> ELSE <<>>

Q1Enq(rel) ==
  IF ~rst.done THEN <<Half + rst.cnt>>
  ELSE IF Single(DOMAIN rel)
       THEN IF EnqSelQ0 THEN <<>> ELSE <<rel[OnlyBeat(DOMAIN rel)]>>
  ELSE IF DOMAIN rel = TwoBeats THEN <<rel[1]>> ELSE <<>>

-----------------------------------------------------------------------------
\* Taking: only when both queues have an id, be it for one beat or for two.
\* A single one comes from the longer queue.
ReqRdy == q0.items # <<>> /\ q1.items # <<>> /\ rst.done

DeqSelQ0Shorter == Len(q0.items) <= Len(q1.items)  \* faulty variant
DeqSelQ0 == Len(q0.items) >= Len(q1.items)

Granted(req) == IF ReqRdy THEN req ELSE {}
Q0DeqRdy(req) ==
  IF Single(Granted(req)) THEN DeqSelQ0 ELSE Granted(req) = TwoBeats
Q1DeqRdy(req) ==
  IF Single(Granted(req)) THEN ~DeqSelQ0 ELSE Granted(req) = TwoBeats

\* The id of a beat; meaningful while both queues have one.
RespOwnQueue(req, b) == IF b = 0 THEN Head(q0.items) ELSE Head(q1.items)  \* faulty variant
Resp(req, b) ==
  IF Single(Granted(req))
  THEN IF DeqSelQ0 THEN Head(q0.items) ELSE Head(q1.items)
  ELSE IF b = 0 THEN Head(q0.items) ELSE Head(q1.items)

Got(req) == {Resp(req, b) : b \in Granted(req)}

-----------------------------------------------------------------------------
DbidTick(wake, req, rel) ==
  /\ started' = TRUE
  /\ woken' = ClkEn(wake)
  /\ rst' = IF RstClk(wake) THEN NextRst ELSE rst
  /\ q0' = IF QueueClk(wake) THEN FqNext(Half, q0, Q0Enq(rel), Q0DeqRdy(req)) ELSE q0
  /\ q1' = IF QueueClk(wake) THEN FqNext(Half, q1, Q1Enq(rel), Q1DeqRdy(req)) ELSE q1
  /\ used' = (used \ Range(rel)) \cup Got(req)

\* What the data control machines do: nothing is asked before the node is
\* woken, and a machine gives back ids it holds, each once.
Releases == UNION {{rel \in [beats -> used] : IsInjective(rel)} : beats \in SUBSET TwoBeats}

DbidNext ==
  \E wake \in BOOLEAN, req \in SUBSET TwoBeats, rel \in Releases :
    /\ req # {} => woken
    /\ DbidTick(wake, req, rel)

DbidSpec == DbidInit /\ [][DbidNext]_dbidVars

-----------------------------------------------------------------------------
InQueues == Range(q0.items) \cup Range(q1.items)

(* The registers keep their types; the queues stay within their depth.     *)
DbidTypeOK ==
  /\ started \in BOOLEAN /\ woken \in BOOLEAN
  /\ rst \in [cnt : 0 .. Half - 1, done : BOOLEAN]
  /\ q0 \in FqState(Ids) /\ Len(q0.items) <= Half
  /\ q1 \in FqState(Ids) /\ Len(q1.items) <= Half
  /\ used \subseteq Ids

(* Once the queues are filled every id is in one place: in one queue, once,*)
(* or in use.  The gate, the first edge and the steering of single ids     *)
(* duplicate and lose none.                                                *)
Conserved ==
  rst.done =>
    /\ InQueues \cup used = Ids
    /\ Len(q0.items) + Len(q1.items) + Cardinality(used) = 2 * Half

(* An id that is handed out is in nobody's hands, and two that are handed  *)
(* out together differ.                                                    *)
NoIdTwice ==
  \A req \in SUBSET TwoBeats :
    ReqRdy => /\ Got(req) \cap used = {}
              /\ Cardinality(Got(req)) = Cardinality(req)

(* Ids are conserved and never handed out twice; no queue is ever asked to *)
(* take an id it has no place for (their enq_rdy is read by nobody).       *)
DbidInv == DbidTypeOK /\ Conserved /\ NoIdTwice

(* Requests are refused only when fewer than two ids are free: neither     *)
(* queue runs empty while the other one has ids to spare.                  *)
RefusedOnlyWhenShort ==
  rst.done /\ Cardinality(Ids \ used) >= 2 => ReqRdy
=============================================================================
