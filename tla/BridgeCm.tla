------------------------------ MODULE BridgeCm ------------------------------
(***************************************************************************)
(* The control machines of the two AXI bridges (model/bridge/bridge_cm.h,  *)
(* snode_axi_bridge, hinode_axilite_bridge): each follows one transaction  *)
(* on both sides, and machines of the same line reach AXI one after        *)
(* another.  A machine counts the older ones of its line when it starts    *)
(* and counts down on their wakeup pulses; nothing else keeps the order.   *)
(*                                                                         *)
(* sn tells the bridges apart and never changes: TRUE is the memory        *)
(* bridge, whose writes take a place in the data buffer first              *)
(* (AxiDataBuffer), FALSE the device bridge.  One step is one clock edge   *)
(* with the inputs in; ring, AXI slave and data buffer are free within     *)
(* their protocols.  owes and axi are what UState and DState have not      *)
(* ticked off.  older is not in the code: the machines of the same line    *)
(* that arrived before and have not woken.                                 *)
(***************************************************************************)
EXTENDS Integers, FiniteSets, Fifo

CONSTANTS N,       \* number of machines of the larger bridge
          Outst,   \* Outst[sn]: kOutst, number of machines (64 and 8)
          Req,     \* Req[sn]: requests: tag, wr, order, ewa, dwt, ack
                   \* (ExpCompAck), qos
          DataOp   \* DataOp[sn]: what write data may come with, of "data",
                   \* "ack", "cancel"

ASSUME BridgeAssumption ==
  /\ N \in Nat /\ Outst \in [BOOLEAN -> 2 .. N]
  /\ \A b \in BOOLEAN : \A r \in Req[b] : r.wr \in BOOLEAN

CMs == 0 .. N - 1
Wrap == 2 * N  \* bound: the 2^32 of waiting

Up == {"receipt", "dbid", "wdata", "rdata", "ack", "comp"}
Down == {"aw", "ar", "w", "b", "r"}
Chans == {"rsp", "aw", "ar", "alloc"}

VARIABLES
  sn,      \* Tr::kSn
  cms,     \* the machines
  tagm,    \* tag_match: whom the newest request must wait for
  sel,     \* sel_reg of the arbiters
  awq,     \* aw_q: machines in the order of their AW
  allocq,  \* alloc_q
  older

bridgeVars == <<sn, cms, tagm, sel, awq, allocq, older>>

kOutst == Outst[sn]

AwQ == [n |-> kOutst, flow |-> FALSE, pipe |-> FALSE]
AllocQ == [n |-> 2, flow |-> FALSE, pipe |-> FALSE]

Idle == [valid |-> FALSE, waiting |-> 0, owes |-> {}, axi |-> {}, info |-> <<>>,
         snooped |-> FALSE, issued |-> FALSE, buf |-> FALSE, wk |-> FALSE, wset |-> FALSE]

SameTag(e, f) == e.info # <<>> /\ f.info # <<>> /\ e.info[1].tag = f.info[1].tag

\* decodeU, decodeD
OwesOf(r) ==
  (IF r.wr THEN {"dbid", "wdata", "comp"}
   ELSE {"rdata"} \cup (IF r.order THEN {"receipt"} ELSE {}))
  \cup (IF r.ack THEN {"ack"} ELSE {})
AxiOf(r) == IF r.wr THEN {"aw", "w", "b"} ELSE {"ar", "r"}

UpDone(e) == e.owes \ (IF sn THEN {"ack"} ELSE {}) = {}
AllDone(e) == UpDone(e) /\ e.axi = {}

-----------------------------------------------------------------------------
(* What a machine asks for.                                                *)

WakeupOut(e) == e.valid /\ e.snooped /\ IF sn THEN e.axi \cap {"b", "r"} = {} ELSE e.axi = {}
Waking == {i \in CMs : WakeupOut(cms[i])}
WakeupVldUnlessNew(i) ==  \* faulty variant
  cms[i].valid /\ ~cms[i].wset /\ \E j \in Waking \ {i} : SameTag(cms[i], cms[j])
WakeupVld(i) == cms[i].valid /\ \E j \in Waking \ {i} : SameTag(cms[i], cms[j])

AllowComp(e) ==
  IF e.info[1].ewa THEN e.info[1].dwt /\ sn => "wdata" \notin e.owes ELSE e.axi = {}
Base(e) == sn => e.buf

\* The items the next response to the ring ticks off, most urgent first.
RspItems(e) ==
  LET dbid == "dbid" \in e.owes /\ Base(e)
      comp == "comp" \in e.owes /\ Base(e) /\ AllowComp(e)
  IN  IF dbid /\ comp THEN {"dbid", "comp"}
      ELSE IF "receipt" \in e.owes THEN {"receipt"}
      ELSE IF dbid THEN {"dbid"} ELSE IF comp THEN {"comp"} ELSE {}

AsksArNoWait(e) == "ar" \in e.axi  \* faulty variant
AsksAr(e) == "ar" \in e.axi /\ e.waiting = 0
AsksAw(e) == "aw" \in e.axi /\ "wdata" \notin e.owes /\ e.waiting = 0
AsksAlloc(e) == sn /\ ~e.issued /\ ~e.buf /\ e.waiting = 0
AsksW(e) == /\ "aw" \notin e.axi /\ "w" \in e.axi
            /\ "wdata" \notin e.owes /\ e.waiting = 0

Asks(c) ==
  {i \in CMs : cms[i].valid /\ CASE c = "rsp" -> RspItems(cms[i]) # {}
                                 [] c = "aw" -> AsksAw(cms[i])
                                 [] c = "ar" -> AsksAr(cms[i])
                                 [] c = "alloc" -> AsksAlloc(cms[i])}

-----------------------------------------------------------------------------
(* CondVipArb: the ports of highest qos among those that ask and are not   *)
(* granted right now are registered; the VIP arbiter picks one of the      *)
(* registered ports.  Which one is left open.                              *)

BestOf(V) == {i \in V : \A j \in V : cms[i].info[1].qos >= cms[j].info[1].qos}
NextSelRegrant(c, granted) == IF Asks(c) = {} THEN sel[c] ELSE BestOf(Asks(c))  \* faulty variant
NextSel(c, granted) ==
  IF Asks(c) = {} THEN sel[c] ELSE BestOf({i \in Asks(c) : granted # <<i>>})

\* w_rsp_fire, w_aw_fire, w_ar_fire, w_alloc_fire
Fires(c, i, in) == in.grant[c] = <<i>> /\ i \in Asks(c)

\* A W goes out for the machine at the head of aw_q, when its data is there.
WSel == IF awq # <<>> /\ cms[Head(awq)].valid /\ AsksW(cms[Head(awq)]) THEN {Head(awq)} ELSE {}
WFiresAny(in) == IF in.wRdy THEN {i \in CMs : cms[i].valid /\ AsksW(cms[i])} ELSE {}  \* faulty variant
WFires(in) == IF in.wRdy THEN WSel ELSE {}

\* The head of alloc_q gets its buffer places.
AllocResp(in) == IF in.allocRdy /\ allocq # <<>> THEN {Head(allocq)} ELSE {}

-----------------------------------------------------------------------------
FreeLo == {i \in 0 .. kOutst - 1 : ~cms[i].valid /\ \A j \in 0 .. i - 1 : cms[j].valid}
ReqFire(in) == IF in.req # <<>> THEN FreeLo ELSE {}

\* tag_match_c: machines of the same line that are still to wake; not those
\* whose pulse is out now, which the new machine will not see.
TagMatchWithWaking(r) ==  \* faulty variant
  {i \in CMs : cms[i].valid /\ cms[i].snooped /\ cms[i].info[1].tag = r.tag}
TagMatch(r) ==
  {i \in CMs : /\ cms[i].valid /\ cms[i].snooped /\ ~WakeupOut(cms[i])
               /\ cms[i].info[1].tag = r.tag}

Dec(n) == IF n = 0 THEN Wrap - 1 ELSE n - 1

NextWaiting(i, in) ==
  IF cms[i].wset THEN Cardinality(tagm)
  ELSE IF cms[i].wk THEN Dec(cms[i].waiting)
  ELSE cms[i].waiting

\* Write data and CompAck in one cycle: the data block of the code writes
\* compAck last, with the old value unless the data brings an ack itself.
GotData(i, in) == in.data # <<>> /\ in.data[1].cm = i
Acked(i, in) ==
  ~sn /\ IF GotData(i, in) THEN in.data[1].op # "data" ELSE in.ack = <<i>>

NextOwes(i, in) ==
  cms[i].owes \ ((IF Fires("rsp", i, in) THEN RspItems(cms[i]) ELSE {})
                 \cup (IF GotData(i, in) THEN {"wdata"} ELSE {})
                 \cup (IF in.r = <<i>> THEN {"rdata"} ELSE {})
                 \cup (IF Acked(i, in) THEN {"ack"} ELSE {}))

NextAxi(i, in) ==
  cms[i].axi \ ((IF Fires("aw", i, in) THEN {"aw"} ELSE {})
                \cup (IF Fires("ar", i, in) THEN {"ar"} ELSE {})
                \cup (IF i \in WFires(in) THEN {"w"} ELSE {})
                \cup (IF in.b = <<i>> THEN {"b"} ELSE {})
                \cup (IF in.r = <<i>> THEN {"r"} ELSE {})
                \cup (IF sn /\ GotData(i, in) /\ in.data[1].op = "cancel" THEN {"aw", "w", "b"} ELSE {}))

\* enqEntry
NewCm(r) ==
  [valid |-> TRUE, waiting |-> kOutst - 1, owes |-> OwesOf(r), axi |-> AxiOf(r),
   info |-> <<r>>, snooped |-> TRUE, issued |-> FALSE, buf |-> ~r.wr,
   wk |-> FALSE, wset |-> TRUE]

NextCm(i, in) ==
  LET e == cms[i]
  IN  IF i \in ReqFire(in) THEN NewCm(in.req[1])
      ELSE IF e.valid /\ ~AllDone(e)
      THEN [valid |-> TRUE, waiting |-> NextWaiting(i, in), owes |-> NextOwes(i, in),
            axi |-> NextAxi(i, in), info |-> e.info,
            snooped |-> e.snooped /\ ~WakeupOut(e),
            issued |-> e.issued \/ Fires("alloc", i, in),
            buf |-> e.buf \/ i \in AllocResp(in),
            wk |-> WakeupVld(i), wset |-> FALSE]
      ELSE [Idle EXCEPT !.wk = WakeupVld(i)]

\* Static gate of the whole array.
CmsAnyNoWk(in) == \E i \in CMs : cms[i].valid \/ cms[i].wset \/ i \in ReqFire(in)  \* faulty variant
CmsAny(in) == \E i \in CMs : cms[i].valid \/ cms[i].wk \/ cms[i].wset \/ i \in ReqFire(in)

-----------------------------------------------------------------------------
\* For older: the machines of a line that have not woken.
ToWake(tag) == {i \in CMs : cms[i].valid /\ cms[i].snooped /\ cms[i].info[1].tag = tag}

BridgeTick(in) ==
  /\ cms' = IF CmsAny(in) THEN [i \in CMs |-> NextCm(i, in)] ELSE cms
  /\ tagm' = IF ReqFire(in) # {} THEN TagMatch(in.req[1]) ELSE {}
  /\ sel' = [c \in Chans |-> NextSel(c, in.grant[c])]
  /\ awq' = QNext(AwQ, awq, in.grant["aw"], WFires(in) # {})
  /\ allocq' = QNext(AllocQ, allocq, in.grant["alloc"], in.allocRdy)
  /\ sn' = sn
  /\ older' = [i \in CMs |-> (IF i \in ReqFire(in) THEN ToWake(in.req[1].tag) ELSE older[i]) \ Waking]

BridgeInit ==
  /\ sn \in BOOLEAN
  /\ cms = [i \in CMs |-> Idle]
  /\ tagm = {}
  /\ sel = [c \in Chans |-> {}]
  /\ awq = <<>> /\ allocq = <<>>
  /\ older = [i \in CMs |-> {}]

(* What the surroundings may present.  Write data follows the DBID, a       *)
(* CompAck comes when everything else towards the ring is done (the order   *)
(* the code relies on, see Acked), B follows W, the last R follows AR.      *)
DataDue == {i \in CMs : cms[i].valid /\ "wdata" \in cms[i].owes /\ "dbid" \notin cms[i].owes}
AckDue == {i \in CMs : cms[i].valid /\ ~sn /\ "ack" \in cms[i].owes
                       /\ cms[i].owes \cap {"dbid", "wdata", "comp", "rdata"} = {}}
BDue == {i \in CMs : cms[i].valid /\ "b" \in cms[i].axi /\ cms[i].axi \cap {"aw", "w"} = {}}
RDue == {i \in CMs : cms[i].valid /\ "r" \in cms[i].axi /\ "ar" \notin cms[i].axi}
\* The ack may come inside the data only if one is expected.
Datas == {d \in [cm : DataDue, op : DataOp[sn]] : d.op = "ack" => "ack" \in cms[d.cm].owes}
\* alloc_q takes whenever it has room.
AllocGrants == IF sel["alloc"] # {} /\ Len(allocq) < 2 THEN {<<i>> : i \in sel["alloc"]} ELSE {<<>>}

BridgeNext ==
  \E req \in Opt(Req[sn]), rsp \in Opt(sel["rsp"]), aw \in Opt(sel["aw"]), ar \in Opt(sel["ar"]),
     al \in AllocGrants, allocRdy, wRdy \in BOOLEAN, data \in Opt(Datas), ack \in Opt(AckDue),
     b \in Opt(BDue), r \in Opt(RDue) :
    BridgeTick([req |-> req, allocRdy |-> allocRdy, wRdy |-> wRdy, data |-> data,
                ack |-> ack, b |-> b, r |-> r,
                grant |-> [c \in Chans |-> CASE c = "rsp" -> rsp [] c = "aw" -> aw
                                             [] c = "ar" -> ar [] c = "alloc" -> al]])

BridgeSpec == BridgeInit /\ [][BridgeNext]_bridgeVars

-----------------------------------------------------------------------------
(* The registers keep their types.                                         *)
BridgeTypeOK ==
  /\ sn \in BOOLEAN
  /\ cms \in [CMs -> [valid : BOOLEAN, waiting : 0 .. Wrap - 1, owes : SUBSET Up,
                      axi : SUBSET Down, info : Opt(Req[sn]), snooped : BOOLEAN,
                      issued : BOOLEAN, buf : BOOLEAN, wk : BOOLEAN, wset : BOOLEAN]]
  /\ tagm \in SUBSET CMs
  /\ sel \in [Chans -> SUBSET CMs]
  /\ awq \in Seq(CMs) /\ Len(awq) <= N
  /\ allocq \in Seq(CMs) /\ Len(allocq) <= 2
  /\ older \in [CMs -> SUBSET CMs]

(* A machine that has not woken yet waits for exactly the older ones of    *)
(* its line: one that wakes while the count is taken is neither counted    *)
(* nor missed, a pulse on its way (wk) is still in the count, and no two   *)
(* pulses of a line come together.                                         *)
WaitCountsOlder ==
  \A i \in CMs : cms[i].valid /\ cms[i].snooped =>
    IF cms[i].wset THEN tagm = older[i] /\ ~cms[i].wk
    ELSE cms[i].waiting = Cardinality(older[i]) + IF cms[i].wk THEN 1 ELSE 0

(* Seen from outside: transactions of a line finish on AXI in the order    *)
(* they came, one at a time, and other lines do not hold them up.          *)
Lines == {r.tag : r \in Req[TRUE] \cup Req[FALSE]}
Order == INSTANCE PerAddrFifo WITH
  Addr <- Lines, Place <- CMs, ahead <- older,
  at <- [i \in CMs |-> IF cms[i].valid /\ cms[i].snooped THEN {cms[i].info[1].tag} ELSE {}]
PerLineOrder == Order!Spec

(* aw_q holds exactly the machines whose AW is out and whose W is not, so  *)
(* it cannot overflow and W follows in the order of AW.                    *)
AwQueueExact ==
  /\ Cardinality({awq[k] : k \in DOMAIN awq}) = Len(awq)
  /\ {awq[k] : k \in DOMAIN awq}
       = {i \in CMs : cms[i].valid /\ "aw" \notin cms[i].axi /\ "w" \in cms[i].axi}

(* A port that an arbiter has registered still asks when it is granted:    *)
(* the arbiter does not look at its valid again.                           *)
NoStaleGrant == \A c \in Chans : sel[c] \subseteq Asks(c)

(* Nobody is forgotten: a machine that is not done asks for something, is  *)
(* owed something by its surroundings, or waits for an older one.          *)
Moving(i) ==
  \/ AllDone(cms[i]) \/ cms[i].wset \/ cms[i].wk \/ older[i] # {}
  \/ \E c \in Chans : i \in Asks(c)
  \/ i \in DataDue \cup AckDue \cup BDue \cup RDue
  \/ \E k \in DOMAIN awq : awq[k] = i
  \/ \E k \in DOMAIN allocq : allocq[k] = i
NobodyForgotten == \A i \in CMs : cms[i].valid => Moving(i)

(* A closed gate skips no change.                                          *)
QuietIn == [req |-> <<>>, allocRdy |-> FALSE, wRdy |-> FALSE, data |-> <<>>, ack |-> <<>>,
            b |-> <<>>, r |-> <<>>, grant |-> [c \in Chans |-> <<>>]]
CmsGateLosesNothing == ~CmsAny(QuietIn) => \A i \in CMs : NextCm(i, QuietIn) = cms[i]

(* What every state has: exact counts of the older ones, an exact aw_q,    *)
(* no grant gone stale, a gate that may be closed.                         *)
BridgeInv ==
  BridgeTypeOK /\ WaitCountsOlder /\ AwQueueExact /\ NoStaleGrant /\ CmsGateLosesNothing
=============================================================================
