---------------------------- MODULE Commit_proofs ----------------------------
(***************************************************************************)
(* The commit stage and its channel machines, for any number of            *)
(* transaction slots and machine entries and any rows that RowOK admits:   *)
(* CommitInv is an invariant (StageIsSafe).                                *)
(*                                                                         *)
(* That an entry leaves nothing behind is said by no register: an entry    *)
(* goes by its flags alone, and what is under way elsewhere it cannot see. *)
(* So StageInv says, for every slot, what each flag stands for:            *)
(*   wCmResp     the task is at exactly one place: still to send, in a     *)
(*               queue, in a pool, or answered by cmPipe (QueueOK, PoolOK, *)
(*               PipeOK), and the machine that has it knows exactly which  *)
(*               flits are due for it (ForeignOK);                         *)
(*   wXCB0/1     a beat of write data is due or not yet asked for (XcbOK); *)
(*   wCompAck    the ack is due, or the requester is not yet answered      *)
(*               (AckOK), and it is answered once, by the one way its row  *)
(*               has (AnswerOK);                                           *)
(*   wDataResp, wReplResp   a data task, a directory write (DataOK,        *)
(*               ReplOK);                                                  *)
(* and that the flags of an entry fit its state and its row (StateOK,      *)
(* FlagOK), and what is in a decoder its entry (InstOK, DecOK).  An entry  *)
(* without a flag then has nothing under way (NothingOut).                 *)
(*                                                                         *)
(* A step does one of four things to an entry: nothing to a free one, or   *)
(* it fills it, hears of its decoding, or runs on (EntryCase).  Each part  *)
(* of StageInv is then kept on its own (the lemmas ...Kept).               *)
(***************************************************************************)
EXTENDS Commit, Basics_proofs

Rows == Plans \cup Beside
\* The row of a slot, also when its task has only come to the door.
Row(h) == IF AllocHit(h) THEN pipe[1].plan ELSE entries[h].plan
Xcb == [b \in {0, 1} |-> IF b = 0 THEN "wXCB0" ELSE "wXCB1"]

-----------------------------------------------------------------------------
\* The places of a task: the types of the queues, pools and the answer.
InPool(h, k, i) == cms[k][i].task # <<>> /\ cms[k][i].task[1].hn = h

PlaceTypes ==
  /\ cmq \in [Kind -> Seq(CmTask)] /\ \A k \in Kind : Len(cmq[k]) <= 2
  /\ cms \in [Kind -> [CmEntry -> [state : CmStates, task : Opt(CmTask),
                                   got : SUBSET ({"resp", "comp"} \cup Beats)]]]
  /\ cmPipe \in Opt(Hn)

StatesOf(k) ==
  CASE k = "Snp" -> {"SendSnp", "WaitResp", "RespCmt"}
    [] k = "Rd"  -> {"SendReq", "WaitData0", "WaitData1", "RespCmt"}
    [] k = "Wr"  -> {"SendReq", "WaitDbid", "DataTask", "WaitData", "RespCmt"}
\* An entry of a pool is free, or in a state of its kind with a task.
Shape(k, i) ==
  \/ cms[k][i] = NoCm
  \/ cms[k][i].state \in StatesOf(k) /\ cms[k][i].task # <<>>

\* A task of h is elsewhere: its entry has sent it and waits.
Carried(h, k, t) ==
  /\ Has(h, "wCmResp") /\ ~Has(h, "sCmTask") /\ entries[h].task = k
  /\ t.direct = Direct(entries[h].plan, k) /\ t.half = (entries[h].plan.vec # {0, 1})
QueueOK(h) == \A k \in Kind : \A n \in 1 .. Len(cmq[k]) :
  cmq[k][n].hn = h =>
    /\ Carried(h, k, cmq[k][n]) /\ cmPipe # <<h>>
    /\ \A m \in 1 .. Len(cmq[k]) : cmq[k][m].hn = h => m = n
    /\ \A i \in CmEntry : ~InPool(h, k, i)
PoolOK(h) == \A k \in Kind : \A i \in CmEntry :
  InPool(h, k, i) =>
    /\ Carried(h, k, cms[k][i].task[1]) /\ cmPipe # <<h>>
    /\ \A j \in CmEntry : InPool(h, k, j) => i = j
PipeOK(h) == cmPipe = <<h>> => Has(h, "wCmResp") /\ ~Has(h, "sCmTask")

-----------------------------------------------------------------------------
\* What is due for a machine of each kind, by how far its entry has come.
OpsOf(k) == CASE k = "Snp" -> {"snp"} [] k = "Rd" -> {"mem"} [] k = "Wr" -> {"comp", "dbid", "compdbid"}
Of(h, ops) == {m \in due : m.hn = h /\ m.op \in ops}

SnpDue(h, r) ==
  LET D == Of(h, {"snp"})
  IN /\ r.state = "SendSnp" => r.got = {}
     /\ r.state = "WaitResp" =>
          \/ r.got = {} /\ (D = {Flit(h, "snp", 0), Flit(h, "snp", 1)} \/ D = {Flit(h, "snp", 2)})
          \/ r.got = {"resp", "beat0"} /\ D = {Flit(h, "snp", 1)}
          \/ r.got = {"resp", "beat1"} /\ D = {Flit(h, "snp", 0)}
     /\ r.state # "WaitResp" => D = {}
RdDue(h, r) ==
  LET D == Of(h, {"mem"})
  IN /\ r.state = "WaitData0" => D = {Flit(h, "mem", b) : b \in entries[h].plan.vec}
     /\ r.state = "WaitData1" => ~r.task[1].half /\ \E b \in {0, 1} : D = {Flit(h, "mem", b)}
     /\ r.state \notin {"WaitData0", "WaitData1"} => D = {}
WrDue(h, r) ==
  LET D == Of(h, {"comp", "dbid", "compdbid"})
  IN /\ r.state = "SendReq" => r.got = {} /\ D = {}
     /\ r.state = "WaitDbid" =>
          \/ r.got = {} /\ (D = {Flit(h, "comp", 0), Flit(h, "dbid", 0)} \/ D = {Flit(h, "compdbid", 0)})
          \/ r.got = {"comp"} /\ D = {Flit(h, "dbid", 0)}
     /\ r.state \in {"DataTask", "WaitData", "RespCmt"} =>
          \/ r.got = {} /\ D = {Flit(h, "comp", 0)}
          \/ r.got = {"comp"} /\ D = {}
ForeignOK(h) ==
  /\ \A i \in CmEntry : InPool(h, "Snp", i) => SnpDue(h, cms["Snp"][i])
  /\ \A i \in CmEntry : InPool(h, "Rd", i) => RdDue(h, cms["Rd"][i])
  /\ \A i \in CmEntry : InPool(h, "Wr", i) => WrDue(h, cms["Wr"][i])
  /\ \A k \in Kind : Of(h, OpsOf(k)) # {} => \E i \in CmEntry : InPool(h, k, i)

-----------------------------------------------------------------------------
\* The flags of an entry, and those it can have in each state.
Flags == {"sDecode", "sReqDB", "sCmTask", "sDataTask", "sWriDir", "sDbid", "sResp", "wCmResp", "wReplResp",
          "wDataResp", "wXCB0", "wXCB1", "wCompAck"}
FstFlags == {"sDecode", "sReqDB", "sCmTask", "wCmResp", "sDbid", "wXCB0", "wXCB1", "wCompAck"}
SecFlags == {"sDecode", "sReqDB", "sCmTask", "wCmResp", "wCompAck"}
CmtFlags == Flags \ {"sDecode", "sDbid"}

StateOK(h) ==
  LET r == entries[h]
      p == r.plan
  IN /\ r.state \in {"Free", "FstTask", "SecTask", "Commit", "Clean"}
     /\ r.state = "Free" => r = NoEntry
     /\ AllocHit(h) => r.state = "Free"
     /\ r.state # "Free" => p \in Rows
     /\ r.state = "FstTask" => FirstValid(p) /\ r.task = p.t1 /\ r.flag \subseteq FstFlags
     /\ r.state = "SecTask" => FirstValid(p) /\ p.t2 # "none" /\ p.wait /\ r.task = p.t2 /\ r.flag \subseteq SecFlags
     /\ r.state = "Commit" => r.flag \subseteq CmtFlags /\ (r.task = "none" \/ (r.task = p.t2 /\ ~p.wait))
     /\ r.state = "Clean" => r.flag = {}
FlagOK(h) ==
  LET p == entries[h].plan
  IN /\ Has(h, "sCmTask") => Has(h, "wCmResp")
     /\ Has(h, "wCmResp") => entries[h].task \in Kind
     /\ Has(h, "wCmResp") /\ Has(h, "wDataResp") => entries[h].task # "Wr"
     /\ Has(h, "sDataTask") => Has(h, "wDataResp") /\ p.op = "data" /\ p.alr # "data"
     /\ Has(h, "sWriDir") => Has(h, "wReplResp")
     /\ Has(h, "sResp") => p.rsp = "RSP"
     /\ Has(h, "sDbid") => p.dbid /\ p.alr # "dbid" /\ \A b \in p.vec : Has(h, Xcb[b])
     /\ \A b \in {0, 1} : Has(h, Xcb[b]) => b \in p.vec /\ WriteData(p)
     /\ Has(h, "wCompAck") => "wCompAck" \notin entries[h].got
\* What the third and the fourth decoding will look up is what has come.
InstOK(h) ==
  LET r == entries[h]
      p == r.plan
  IN /\ r.state = "FstTask" =>
          r.inst = If(p.t1 # "none" /\ ~Has(h, "wCmResp"), "cm")
                   \cup If(WriteData(p) /\ \E b \in p.vec : ~Has(h, Xcb[b]), "xcb")
     /\ r.state = "SecTask" => r.inst = If(~Has(h, "wCmResp"), "cm")
     /\ r.state \in {"Commit", "Clean"} => r.inst = {}

\* A decoder has the entry that asked it, with all it brings, and has it once.
Asked(d) == IF d = "third" THEN "FstTask" ELSE "SecTask"
First1(h, d) == dec[d].s1 # <<>> /\ dec[d].s1[1].hn = h
DecOK(h) ==
  \A d \in Decoder :
    /\ First1(h, d) \/ dec[d].s2 = <<h>> =>
         entries[h].state = Asked(d) /\ Lacks(h, {"sDecode", "wCmResp", "wXCB0", "wXCB1"})
    /\ First1(h, d) => dec[d].s2 # <<h>> /\ dec[d].s1[1].inst = Brought(h)

-----------------------------------------------------------------------------
\* The request of the task is still to go out; the requester has its answer.
Unsent(h) ==
  \/ Has(h, "sCmTask")
  \/ \E k \in Kind : \E n \in 1 .. Len(cmq[k]) : cmq[k][n].hn = h
  \/ \E k \in Kind : \E i \in CmEntry : InPool(h, k, i) /\ cms[k][i].state \in {"SendSnp", "SendReq"}
Answered(h) ==
  LET st == entries[h].state
      w == AnsweredBy(entries[h].plan)
  IN /\ "rsp" \in w => st \in {"Commit", "Clean"} /\ ~Has(h, "sResp")
     /\ "dat" \in w => st \in {"Commit", "Clean"} /\ ~Has(h, "sDataTask")
     /\ "dbid" \in w => ~Has(h, "sDbid")
     /\ "first" \in w => ~(st = "FstTask" /\ Unsent(h))
     /\ "second" \in w => st # "FstTask" /\ ~Unsent(h)
AnswerOK(h) ==
  /\ Busy(h) => answers[h] = IF Answered(h) THEN 1 ELSE 0
  /\ AllocHit(h) => answers[h] = IF pipe[1].plan.alr = "data" THEN 1 ELSE 0

\* Acks and beats of write data that are due are waited for.
AckOK(h) ==
  /\ \A m \in Of(h, {"ack"}) :
       /\ m = Flit(h, "ack", 0) /\ Row(h).ack /\ ~WriteData(Row(h))
       /\ \/ Busy(h) /\ Has(h, "wCompAck") /\ Answered(h)
          \/ AllocHit(h) /\ Row(h).alr = "data"
  /\ Busy(h) /\ entries[h].plan.ack /\ ~WriteData(entries[h].plan) /\ ~Answered(h) => Has(h, "wCompAck")
XcbOK(h) ==
  \A m \in Of(h, {"wr", "wrack"}) :
    /\ m \in WriteBeats(h, Row(h)) /\ WriteData(Row(h))
    /\ \/ Has(h, Xcb[m.beat]) /\ ~Has(h, "sDbid")
       \/ AllocHit(h) /\ Row(h).alr = "dbid"

\* So are the ends of data tasks and of directory writes.
DataOK(h) ==
  \A t \in data : t.hn = h =>
    IF t.by = "commit"
    THEN \/ Has(h, "wDataResp") /\ ~Has(h, "sDataTask")
         \/ AllocHit(h) /\ Row(h).alr = "data"
    ELSE t.by = "write" /\ \E i \in CmEntry : InPool(h, "Wr", i) /\ cms["Wr"][i].state = "WaitData"
ReplOK(h) ==
  h \in repls => entries[h].state = "Commit" /\ Has(h, "wReplResp") /\ Lacks(h, {"sWriDir", "wDataResp"})

\* The types of the rest.
OutTypes ==
  /\ pipe \in Opt([hn : Hn, plan : Rows])
  /\ due \subseteq [hn : Hn, op : {"ack", "wr", "wrack", "snp", "mem", "comp", "dbid", "compdbid"}, beat : {0, 1, 2}]
  /\ data \subseteq [hn : Hn, by : {"commit", "write"}] /\ repls \subseteq Hn
  /\ \A d \in Decoder : dec[d].s1 \in Opt([hn : Hn, inst : SUBSET {"cm", "xcb"}]) /\ dec[d].s2 \in Opt(Hn)
  /\ answers \in [Hn -> {0, 1}]

StageInv ==
  /\ PlaceTypes /\ OutTypes
  /\ \A k \in Kind : \A i \in CmEntry : Shape(k, i)
  /\ \A h \in Hn :
       /\ QueueOK(h) /\ PoolOK(h) /\ PipeOK(h) /\ ForeignOK(h)
       /\ StateOK(h) /\ FlagOK(h) /\ InstOK(h) /\ DecOK(h)
       /\ AnswerOK(h) /\ AckOK(h) /\ XcbOK(h) /\ DataOK(h) /\ ReplOK(h)

Step(in) == in \in CommitInputs /\ CommitTick(in) /\ CommitEnv(in)

-----------------------------------------------------------------------------
(* Who is served.                                                          *)

\* What an optional value holds.
LEMMA OptHas ==
  ASSUME NEW S, NEW x, <<x>> \in Opt(S)
  PROVE  x \in S
<1>1. PICK y \in S : <<x>> = <<y>>
  BY DEF Opt
<1>2. <<x>>[1] = <<y>>[1]
  BY <1>1
<1> QED BY <1>2

\* An optional value that is there is a sequence of one.
LEMMA OptOne ==
  ASSUME NEW S, NEW o \in Opt(S), o # <<>>
  PROVE  o[1] \in S /\ o = <<o[1]>> /\ DOMAIN o = {1} /\ Len(o) = 1
<1>1. PICK y \in S : o = <<y>>
  BY DEF Opt
<1> QED BY <1>1

\* Optional values are equal when what they hold is.
LEMMA SameOne ==
  ASSUME NEW x, NEW y, <<x>> = <<y>>
  PROVE  x = y
<1>1. <<x>>[1] = <<y>>[1]
  OBVIOUS
<1> QED BY <1>1

\* An arbiter of the entries serves one of those that ask, or none.
LEMMA ServedOne ==
  ASSUME NEW asks \in SUBSET Hn, NEW port, NEW in
  PROVE  Served(asks, port, in) \in Opt(asks)
<1>1. CASE asks = {} \/ in.stall = port
  BY <1>1 DEF Served, Opt
<1>2. CASE ~(asks = {} \/ in.stall = port)
  <2>1. asks \in SUBSET Nat /\ asks # {}
    BY <1>2, CmAssumption
  <2>2. \E h \in asks : \A g \in asks : h <= g
    BY <2>1, MinIsLeast
  <2>3. (CHOOSE h \in asks : \A g \in asks : h <= g) \in asks
    BY <2>2
  <2> DEFINE x == IF in.first \in asks THEN in.first ELSE CHOOSE h \in asks : \A g \in asks : h <= g
  <2>4. x \in asks
    BY <2>3
  <2>5. Served(asks, port, in) = <<x>>
    BY <1>2 DEF Served
  <2> HIDE DEF x
  <2> QED BY <2>4, <2>5 DEF Opt
<1> QED BY <1>1, <1>2

\* Likewise for the entries of the channel machines.
LEMMA CmServedOne ==
  ASSUME NEW asks, NEW port, NEW in
  PROVE  CmServed(asks, port, in) \in Opt(asks)
<1>1. CASE asks = {} \/ in.stall = port
  BY <1>1 DEF CmServed, Opt
<1>2. CASE ~(asks = {} \/ in.stall = port)
  <2> DEFINE favoured == {c \in asks : HnOf(c) = in.first}
             F == IF favoured # {} THEN favoured ELSE asks
             x == CHOOSE c \in F : TRUE
  <2>1. F # {} /\ F \subseteq asks
    BY <1>2
  <2>2. x \in F
    <3> HIDE DEF F
    <3> QED BY <2>1
  <2>3. CmServed(asks, port, in) = <<x>>
    BY <1>2 DEF CmServed
  <2> HIDE DEF x
  <2> QED BY <2>1, <2>2, <2>3 DEF Opt
<1> QED BY <1>1, <1>2


Outputs(h, in) ==
  /\ \A d \in Decoder : Decode(d, in) = <<h>> => DecodeAsks(h) /\ entries[h].state = Asked(d)
  /\ \A k \in Kind : CmTaskOf(k, in) = <<h>> => Has(h, "sCmTask") /\ entries[h].task = k
  /\ DataTaskOf(in) = <<h>> => Has(h, "sDataTask")
  /\ ReplTask(in) = <<h>> => Has(h, "sWriDir") /\ ~Has(h, "wDataResp")
  /\ TxRsp(in) = <<h>> => Has(h, "sDbid") \/ Has(h, "sResp")
  /\ CleanPos(in) = <<h>> => entries[h].state = "Clean"

\* Who is served at each port has the flags the port asks for.
LEMMA OutputsOf ==
  ASSUME NEW in, NEW h
  PROVE  Outputs(h, in)
<1>1. ASSUME NEW d \in Decoder, Decode(d, in) = <<h>> PROVE DecodeAsks(h) /\ entries[h].state = Asked(d)
  <2> DEFINE A == {g \in Hn : DecodeAsks(g) /\ entries[g].state = (IF d = "third" THEN "FstTask" ELSE "SecTask")}
  <2>1. A \in SUBSET Hn /\ Decode(d, in) = Served(A, "never", in)
    BY DEF Decode
  <2>2. Served(A, "never", in) \in Opt(A)
    BY <2>1, ServedOne
  <2>3. h \in A
    BY <1>1, <2>1, <2>2, OptHas
  <2> QED BY <2>3 DEF Asked
<1>2. ASSUME NEW k \in Kind, CmTaskOf(k, in) = <<h>> PROVE Has(h, "sCmTask") /\ entries[h].task = k
  <2> DEFINE A == {g \in Hn : Has(g, "sCmTask") /\ Lacks(g, {"sReqDB"}) /\ entries[g].task = k}
  <2>1. A \in SUBSET Hn /\ CmTaskOf(k, in) = Served(A, "never", in)
    <3>1. <<h>> # <<>>
      OBVIOUS
    <3> QED BY <1>2, <3>1 DEF CmTaskOf
  <2>2. Served(A, "never", in) \in Opt(A)
    BY <2>1, ServedOne
  <2>3. h \in A
    BY <1>2, <2>1, <2>2, OptHas
  <2> QED BY <2>3
<1>3. ASSUME DataTaskOf(in) = <<h>> PROVE Has(h, "sDataTask")
  <2> DEFINE A == {g \in Hn : Has(g, "sDataTask") /\ entries[g].db}
  <2>1. A \in SUBSET Hn /\ DataTaskOf(in) = Served(A, "data", in)
    BY DEF DataTaskOf
  <2>2. Served(A, "data", in) \in Opt(A)
    BY <2>1, ServedOne
  <2>3. h \in A
    BY <1>3, <2>1, <2>2, OptHas
  <2> QED BY <2>3
<1>4. ASSUME ReplTask(in) = <<h>> PROVE Has(h, "sWriDir") /\ ~Has(h, "wDataResp")
  <2> DEFINE A == {g \in Hn : Has(g, "sWriDir") /\ Lacks(g, {"wDataResp"})}
  <2>1. A \in SUBSET Hn /\ ReplTask(in) = Served(A, "repl", in)
    BY DEF ReplTask
  <2>2. Served(A, "repl", in) \in Opt(A)
    BY <2>1, ServedOne
  <2>3. h \in A
    BY <1>4, <2>1, <2>2, OptHas
  <2> QED BY <2>3 DEF Has, Lacks
<1>5. ASSUME TxRsp(in) = <<h>> PROVE Has(h, "sDbid") \/ Has(h, "sResp")
  <2> DEFINE A == {g \in Hn : ~Lacks(g, {"sDbid", "sResp"}) /\ Lacks(g, {"sReqDB"})}
  <2>1. A \in SUBSET Hn /\ TxRsp(in) = Served(A, "rsp", in)
    BY DEF TxRsp
  <2>2. Served(A, "rsp", in) \in Opt(A)
    BY <2>1, ServedOne
  <2>3. h \in A
    BY <1>5, <2>1, <2>2, OptHas
  <2> QED BY <2>3 DEF Has, Lacks
<1>6. ASSUME CleanPos(in) = <<h>> PROVE entries[h].state = "Clean"
  <2> DEFINE A == {g \in Hn : entries[g].state = "Clean"}
  <2>1. A \in SUBSET Hn /\ CleanPos(in) = Served(A, "clean", in)
    BY DEF CleanPos
  <2>2. Served(A, "clean", in) \in Opt(A)
    BY <2>1, ServedOne
  <2>3. h \in A
    BY <1>6, <2>1, <2>2, OptHas
  <2> QED BY <2>3
<1> QED BY <1>1, <1>2, <1>3, <1>4, <1>5, <1>6 DEF Outputs

-----------------------------------------------------------------------------
(* What arrives.                                                           *)

\* The flits that come at an edge.
Came(in) == {in.rsp[n] : n \in DOMAIN in.rsp} \cup {in.dat[n] : n \in DOMAIN in.dat}
Hears(h, in, ops) == \E m \in Came(in) : m.hn = h /\ m.op \in ops

\* A row of the plans is as the assumption on plans says.
LEMMA RowFacts ==
  ASSUME NEW p \in Rows
  PROVE  RowOK(p)
BY PlansAssumption DEF Rows

\* What the inputs of an edge may be.
LEMMA Inputs ==
  ASSUME NEW in \in CommitInputs
  PROVE  /\ in.open \in Opt(Opens) /\ in.rsp \in Opt(RspDue) /\ in.dat \in Opt(due \ RspDue)
         /\ in.data \in Opt(DataDone) /\ in.repl \in Opt(repls)
BY DEF CommitInputs

Arrived(h, in) ==
  /\ Came(in) \subseteq due
  /\ \A m : in.rsp = <<m>> => m \in Came(in) /\ m \in RspDue
  /\ \A m : in.dat = <<m>> => m \in Came(in) /\ m \notin RspDue
  /\ \A m \in Came(in) : m \in RspDue => in.rsp = <<m>>
  /\ \A m \in Came(in) : m \notin RspDue => in.dat = <<m>>

\* What arrives at an edge was due or under way.
LEMMA ArrivedIs ==
  ASSUME NEW in \in CommitInputs, NEW h
  PROVE  Arrived(h, in)
<1>0. in.rsp \in Opt(RspDue) /\ in.dat \in Opt(due \ RspDue) /\ RspDue \subseteq due
  BY Inputs DEF RspDue
<1> DEFINE R == {in.rsp[n] : n \in DOMAIN in.rsp}
           D == {in.dat[n] : n \in DOMAIN in.dat}
<1>1. R \subseteq RspDue /\ (\A m : in.rsp = <<m>> => m \in R) /\ (\A m \in R : in.rsp = <<m>>)
  <2>1. CASE in.rsp = <<>>
    <3>1. \A m : <<m>> # <<>>
      OBVIOUS
    <3> QED BY <2>1, <3>1
  <2>2. CASE in.rsp # <<>>
    <3>1. in.rsp[1] \in RspDue /\ in.rsp = <<in.rsp[1]>> /\ DOMAIN in.rsp = {1}
      BY <2>2, <1>0, OptOne
    <3>2. R = {in.rsp[1]}
      BY <3>1
    <3>3. \A m : in.rsp = <<m>> => in.rsp[1] = m
      OBVIOUS
    <3> QED BY <3>1, <3>2, <3>3
  <2> QED BY <2>1, <2>2
<1>2. D \subseteq due \ RspDue /\ (\A m : in.dat = <<m>> => m \in D) /\ (\A m \in D : in.dat = <<m>>)
  <2>1. CASE in.dat = <<>>
    <3>1. \A m : <<m>> # <<>>
      OBVIOUS
    <3> QED BY <2>1, <3>1
  <2>2. CASE in.dat # <<>>
    <3>1. in.dat[1] \in due \ RspDue /\ in.dat = <<in.dat[1]>> /\ DOMAIN in.dat = {1}
      BY <2>2, <1>0, OptOne
    <3>2. D = {in.dat[1]}
      BY <3>1
    <3>3. \A m : in.dat = <<m>> => in.dat[1] = m
      OBVIOUS
    <3> QED BY <3>1, <3>2, <3>3
  <2> QED BY <2>1, <2>2
<1>3. Came(in) = R \cup D
  BY DEF Came
<1> HIDE DEF R, D
<1> QED BY <1>0, <1>1, <1>2, <1>3 DEF Arrived

\* The channel a flit comes on, by its opcode.
LEMMA RspOrDat ==
  ASSUME NEW m \in due
  PROVE  /\ m.op = "ack" => m \in RspDue
         /\ m.op \in {"comp", "dbid", "compdbid"} => m \in RspDue
         /\ m.op \in {"wr", "wrack", "mem"} => m \notin RspDue
         /\ m.op = "snp" => (m \in RspDue <=> m.beat = 2)
BY DEF RspDue, RspOps

\* What the flags of an entry hear.
HitsAre(h, in) ==
  /\ AckHit(h, in) <=> Hears(h, in, {"ack", "wrack"})
  /\ XcbHits(h, in) # {} <=> Hears(h, in, {"wr", "wrack"})
  /\ XcbHits(h, in) \subseteq {"wXCB0", "wXCB1"}
  /\ \A m \in Came(in) : m.hn = h /\ m.op \in {"wr", "wrack"} /\ m.beat \in {0, 1} => XcbHits(h, in) = {Xcb[m.beat]}
  /\ Hits(h, in) \subseteq {"wXCB0", "wXCB1", "wCompAck"}
  /\ "wCompAck" \in Hits(h, in) <=> AckHit(h, in)
  /\ "wXCB0" \in Hits(h, in) <=> "wXCB0" \in XcbHits(h, in)
  /\ "wXCB1" \in Hits(h, in) <=> "wXCB1" \in XcbHits(h, in)

\* Which of its flags an entry hears of.
LEMMA HitsOf ==
  ASSUME NEW in \in CommitInputs, NEW h
  PROVE  HitsAre(h, in)
<1>0. Arrived(h, in)
  BY ArrivedIs
<1>1. in.rsp = <<>> \/ \E m : in.rsp = <<m>>
  BY Inputs DEF Opt
<1>2. in.dat = <<>> \/ \E m : in.dat = <<m>>
  BY Inputs DEF Opt
<1>3. \A m : <<m>> # <<>> /\ <<m>>[1] = m
  OBVIOUS
<1>4. \A m \in Came(in) : m \in due
  BY <1>0 DEF Arrived
<1>5. AckHit(h, in) <=> Hears(h, in, {"ack", "wrack"})
  <2>1. ASSUME AckHit(h, in) PROVE Hears(h, in, {"ack", "wrack"})
    BY <2>1, <1>0, <1>1, <1>2, <1>3 DEF AckHit, Hears, Arrived
  <2>2. ASSUME NEW m \in Came(in), m.hn = h, m.op \in {"ack", "wrack"} PROVE AckHit(h, in)
    BY <2>2, <1>0, <1>3, <1>4, RspOrDat DEF AckHit, Arrived
  <2> QED BY <2>1, <2>2 DEF Hears
<1>6. ASSUME NEW m \in Came(in), m.hn = h, m.op \in {"wr", "wrack"}
      PROVE  in.dat = <<m>> /\ XcbHits(h, in) = {IF m.beat = 0 THEN "wXCB0" ELSE "wXCB1"}
  <2>1. in.dat = <<m>>
    BY <1>6, <1>0, <1>4, RspOrDat DEF Arrived
  <2> QED BY <2>1, <1>3, <1>6 DEF XcbHits
<1>7. XcbHits(h, in) # {} => Hears(h, in, {"wr", "wrack"})
  BY <1>0, <1>2, <1>3 DEF XcbHits, Hears, Arrived
<1>8. XcbHits(h, in) \subseteq {"wXCB0", "wXCB1"}
  BY DEF XcbHits
<1>9. XcbHits(h, in) # {} <=> Hears(h, in, {"wr", "wrack"})
  BY <1>6, <1>7 DEF Hears
<1>10. \A m \in Came(in) : m.hn = h /\ m.op \in {"wr", "wrack"} /\ m.beat \in {0, 1} => XcbHits(h, in) = {Xcb[m.beat]}
  BY <1>6 DEF Xcb
<1>11. /\ Hits(h, in) \subseteq {"wXCB0", "wXCB1", "wCompAck"}
       /\ "wCompAck" \in Hits(h, in) <=> AckHit(h, in)
       /\ "wXCB0" \in Hits(h, in) <=> "wXCB0" \in XcbHits(h, in)
       /\ "wXCB1" \in Hits(h, in) <=> "wXCB1" \in XcbHits(h, in)
  BY <1>8 DEF Hits, If
<1> QED BY <1>5, <1>8, <1>9, <1>10, <1>11 DEF HitsAre

-----------------------------------------------------------------------------
(* What becomes of an entry.                                               *)

\* An edge gives an entry the value NextEntry computes.
LEMMA EntryNext ==
  ASSUME NEW in, Step(in), NEW h \in Hn
  PROVE  entries'[h] = NextEntry(h, in)
BY DEF Step, CommitTick

\* The flags of an edge that changes nothing but the flags, one by one.
FiredAre(h, in) ==
  /\ Fired(h, in) \subseteq Flags /\ "wCompAck" \notin Fired(h, in)
  /\ "wXCB0" \notin Fired(h, in) /\ "wXCB1" \notin Fired(h, in)
  /\ "sDecode" \in Fired(h, in) <=> \E d \in Decoder : Decode(d, in) = <<h>>
  /\ "sCmTask" \in Fired(h, in) <=> \E k \in Kind : CmTaskOf(k, in) = <<h>>
  /\ "sDataTask" \in Fired(h, in) <=> DataTaskOf(in) = <<h>>
  /\ "sWriDir" \in Fired(h, in) <=> ReplTask(in) = <<h>>
  /\ "sDbid" \in Fired(h, in) <=> TxRsp(in) = <<h>>
  /\ "sResp" \in Fired(h, in) <=> TxRsp(in) = <<h>>
  /\ "wCmResp" \in Fired(h, in) <=> CmHit(h)
  /\ "wReplResp" \in Fired(h, in) <=> in.repl = <<h>>
  /\ "wDataResp" \in Fired(h, in) <=> in.data = <<h>>

\* A flag fires when its port serves the entry.
LEMMA FiredOf ==
  ASSUME NEW in, NEW h
  PROVE  FiredAre(h, in)
<1> DEFINE a == \E d \in Decoder : Decode(d, in) = <<h>>
           b == ReqDB(in) = <<h>>
           c == \E k \in Kind : CmTaskOf(k, in) = <<h>>
           e == DataTaskOf(in) = <<h>>
           f == ReplTask(in) = <<h>>
           g == TxRsp(in) = <<h>>
           j == CmHit(h)
           k == in.repl = <<h>>
           l == in.data = <<h>>
<1>1. Fired(h, in) =
        If(a, "sDecode") \cup If(b, "sReqDB") \cup If(c, "sCmTask") \cup If(e, "sDataTask") \cup If(f, "sWriDir")
        \cup (IF g THEN {"sDbid", "sResp"} ELSE {})
        \cup If(j, "wCmResp") \cup If(k, "wReplResp") \cup If(l, "wDataResp")
  BY ZenonT(30) DEF Fired
<1> HIDE DEF a, b, c, e, f, g, j, k, l
<1>2. /\ Fired(h, in) \subseteq Flags /\ "wCompAck" \notin Fired(h, in)
      /\ "wXCB0" \notin Fired(h, in) /\ "wXCB1" \notin Fired(h, in)
  BY <1>1 DEF If, Flags
<1>3. /\ "sDecode" \in Fired(h, in) <=> a
      /\ "sCmTask" \in Fired(h, in) <=> c
      /\ "sDataTask" \in Fired(h, in) <=> e
  BY <1>1 DEF If
<1>4. /\ "sWriDir" \in Fired(h, in) <=> f
      /\ "sDbid" \in Fired(h, in) <=> g
      /\ "sResp" \in Fired(h, in) <=> g
  BY <1>1 DEF If
<1>5. /\ "wCmResp" \in Fired(h, in) <=> j
      /\ "wReplResp" \in Fired(h, in) <=> k
      /\ "wDataResp" \in Fired(h, in) <=> l
  BY <1>1 DEF If
<1> QED BY <1>2, <1>3, <1>4, <1>5 DEF a, b, c, e, f, g, j, k, l, FiredAre

\* The flags of a task, one by one.
TaskFlagsAre(F, task, cmt, p) ==
  LET sends == cmt /\ p.op = "data" /\ p.alr # "data"
  IN /\ F \subseteq Flags \ {"sDecode", "sDbid", "wXCB0", "wXCB1", "wCompAck"}
     /\ "sCmTask" \in F <=> task # "none"
     /\ "wCmResp" \in F <=> task # "none"
     /\ "sDataTask" \in F <=> sends
     /\ "wDataResp" \in F <=> sends \/ p.alr = "data"
     /\ "sWriDir" \in F <=> cmt /\ p.dir
     /\ "wReplResp" \in F <=> cmt /\ p.dir
     /\ "sResp" \in F <=> cmt /\ p.rsp = "RSP"

\* Which flags a task sets.
LEMMA TaskFlagsOf ==
  ASSUME NEW task, NEW needDB, NEW cmt, NEW p, NEW db
  PROVE  TaskFlagsAre(TaskFlags(task, needDB, cmt, p, db), task, cmt, p)
<1> DEFINE sends == cmt /\ p.op = "data" /\ p.alr # "data"
           a == (needDB \/ (cmt /\ p.op # "none")) /\ ~db
           b == task # "none"
           c == sends \/ p.alr = "data"
           d == cmt /\ p.dir
           e == cmt /\ p.rsp = "RSP"
           F == TaskFlags(task, needDB, cmt, p, db)
<1>1. F = If(a, "sReqDB") \cup (IF b THEN {"sCmTask", "wCmResp"} ELSE {}) \cup If(sends, "sDataTask")
          \cup If(c, "wDataResp") \cup (IF d THEN {"sWriDir", "wReplResp"} ELSE {}) \cup If(e, "sResp")
  BY ZenonT(30) DEF TaskFlags
<1> HIDE DEF sends, a, b, c, d, e, F
<1>2. F \subseteq Flags \ {"sDecode", "sDbid", "wXCB0", "wXCB1", "wCompAck"}
  BY <1>1 DEF If, Flags
<1>3. /\ "sCmTask" \in F <=> b
      /\ "wCmResp" \in F <=> b
      /\ "sDataTask" \in F <=> sends
      /\ "wDataResp" \in F <=> c
  BY <1>1 DEF If
<1>4. /\ "sWriDir" \in F <=> d
      /\ "wReplResp" \in F <=> d
      /\ "sResp" \in F <=> e
  BY <1>1 DEF If
<1> QED BY <1>2, <1>3, <1>4 DEF sends, a, b, c, d, e, F, TaskFlagsAre

\* An entry that is filled.
Filled(h, in) ==
  LET p == pipe[1].plan
      F == entries'[h].flag
  IN /\ entries'[h].state = (IF FirstValid(p) THEN "FstTask" ELSE "Commit")
     /\ entries'[h].plan = p /\ entries'[h].task = p.t1 /\ entries'[h].got = Hits(h, in)
     /\ entries'[h].inst = (IF FirstValid(p) THEN If(XcbHits(h, in) # {}, "xcb") ELSE {})
     /\ F \subseteq Flags
     /\ "sDecode" \in F <=> FirstValid(p)
     /\ "sCmTask" \in F <=> p.t1 # "none"
     /\ "wCmResp" \in F <=> p.t1 # "none"
     /\ "sDataTask" \in F <=> ~FirstValid(p) /\ p.op = "data" /\ p.alr # "data"
     /\ "wDataResp" \in F <=> (~FirstValid(p) /\ p.op = "data" /\ p.alr # "data") \/ p.alr = "data"
     /\ "sWriDir" \in F <=> ~FirstValid(p) /\ p.dir
     /\ "wReplResp" \in F <=> ~FirstValid(p) /\ p.dir
     /\ "sResp" \in F <=> ~FirstValid(p) /\ p.rsp = "RSP"
     /\ "sDbid" \in F <=> p.dbid /\ p.alr # "dbid"
     /\ \A b \in {0, 1} : Xcb[b] \in F <=> WriteData(p) /\ b \in p.vec /\ Xcb[b] \notin Hits(h, in)
     /\ "wCompAck" \in F <=> p.ack /\ ~(p.copy /\ WriteData(p)) /\ "wCompAck" \notin Hits(h, in)

\* The task that comes from the front end sets the flags of its row.
LEMMA FillStep ==
  ASSUME NEW in, Step(in), NEW h \in Hn, entries[h] = NoEntry, AllocHit(h)
  PROVE  Filled(h, in)
<1> DEFINE p == pipe[1].plan
           r == entries[h]
           T == TaskFlags(p.t1, p.db1, ~FirstValid(p), p, p.alr # "no")
           H == Hits(h, in)
           fv == FirstValid(p)
           wd == WriteData(p)
<1>1. entries'[h] = NextEntry(h, in) /\ HitsAre(h, in) /\ Outputs(h, in)
  BY EntryNext, HitsOf, OutputsOf DEF Step
<1>2. r.state = "Free" /\ r.got = {}
  BY DEF NoEntry
<1>3. NextState(h, in) = IF fv THEN "FstTask" ELSE "Commit"
  BY <1>2 DEF NextState
<1>4. CleanPos(in) # <<h>>
  BY <1>1, <1>2 DEF Outputs
<1>5. /\ entries'[h].state = NextState(h, in) /\ entries'[h].plan = p /\ entries'[h].task = p.t1
      /\ entries'[h].got = r.got \cup H /\ entries'[h].flag = NextFlag(h, in) /\ entries'[h].inst = NextInst(h, in)
  BY <1>1, <1>4 DEF NextEntry
<1>6. NextFlag(h, in) = AllocFlags(h, in)
  BY DEF NextFlag
<1>7. AllocFlags(h, in) = T \cup If(fv, "sDecode") \cup If(p.dbid /\ p.alr # "dbid", "sDbid")
        \cup (((IF wd THEN If(0 \in p.vec, "wXCB0") \cup If(1 \in p.vec, "wXCB1") ELSE {})
               \cup If(p.ack /\ ~(p.copy /\ wd), "wCompAck")) \ (H \cup r.got))
  BY ZenonT(30) DEF AllocFlags
<1>8. TaskFlagsAre(T, p.t1, ~fv, p)
  BY TaskFlagsOf
<1>9. entries'[h].inst = IF fv THEN If(XcbHits(h, in) # {}, "xcb") ELSE {}
  <2>1. InstLeft(h, in) <=> ~fv
    BY <1>2, <1>3 DEF InstLeft
  <2>2. NextInst(h, in) = IF ~fv THEN {} ELSE If(XcbHits(h, in) # {}, "xcb")
    <3>1. \A cm : InstWith(h, in, cm) = IF InstLeft(h, in) THEN {} ELSE If(XcbHits(h, in) # {}, "xcb")
      BY DEF InstWith
    <3> QED BY <2>1, <3>1 DEF NextInst
  <2> QED BY <1>5, <2>2
<1> DEFINE F == entries'[h].flag
<1>10. F = T \cup If(fv, "sDecode") \cup If(p.dbid /\ p.alr # "dbid", "sDbid")
        \cup (((IF wd THEN If(0 \in p.vec, "wXCB0") \cup If(1 \in p.vec, "wXCB1") ELSE {})
               \cup If(p.ack /\ ~(p.copy /\ wd), "wCompAck")) \ H)
  BY <1>2, <1>5, <1>6, <1>7
<1> HIDE DEF F, T, H, fv, wd
<1>11. F \subseteq Flags
  BY <1>8, <1>10 DEF If, Flags, TaskFlagsAre
<1>12. /\ "sCmTask" \in F <=> "sCmTask" \in T
       /\ "wCmResp" \in F <=> "wCmResp" \in T
       /\ "sDataTask" \in F <=> "sDataTask" \in T
       /\ "wDataResp" \in F <=> "wDataResp" \in T
       /\ "sWriDir" \in F <=> "sWriDir" \in T
       /\ "wReplResp" \in F <=> "wReplResp" \in T
       /\ "sResp" \in F <=> "sResp" \in T
  BY <1>10 DEF If
<1>13. /\ "sDecode" \in F <=> fv
       /\ "sDbid" \in F <=> p.dbid /\ p.alr # "dbid"
       /\ "wCompAck" \in F <=> p.ack /\ ~(p.copy /\ wd) /\ "wCompAck" \notin H
  BY <1>8, <1>10 DEF If, TaskFlagsAre
<1>14. \A b \in {0, 1} : Xcb[b] \in F <=> wd /\ b \in p.vec /\ Xcb[b] \notin H
  BY <1>8, <1>10 DEF If, TaskFlagsAre, Xcb
<1>15. /\ "sCmTask" \in F <=> p.t1 # "none"
       /\ "wCmResp" \in F <=> p.t1 # "none"
       /\ "sDataTask" \in F <=> ~fv /\ p.op = "data" /\ p.alr # "data"
       /\ "wDataResp" \in F <=> (~fv /\ p.op = "data" /\ p.alr # "data") \/ p.alr = "data"
       /\ "sWriDir" \in F <=> ~fv /\ p.dir
       /\ "wReplResp" \in F <=> ~fv /\ p.dir
       /\ "sResp" \in F <=> ~fv /\ p.rsp = "RSP"
  BY <1>8, <1>12 DEF TaskFlagsAre
<1>16. /\ entries'[h].state = (IF fv THEN "FstTask" ELSE "Commit")
       /\ entries'[h].plan = p /\ entries'[h].task = p.t1 /\ entries'[h].got = H
       /\ entries'[h].inst = (IF fv THEN If(XcbHits(h, in) # {}, "xcb") ELSE {})
  BY <1>2, <1>3, <1>5, <1>9
<1> QED BY <1>11, <1>13, <1>14, <1>15, <1>16 DEF Filled, F, H, fv, wd

\* A free entry that is not filled.
LEMMA FreeStep ==
  ASSUME NEW in, Step(in), NEW h \in Hn, entries[h] = NoEntry, ~AllocHit(h), Hits(h, in) = {}
  PROVE  entries'[h] = NoEntry
<1>1. entries'[h] = NextEntry(h, in) /\ HitsAre(h, in) /\ Outputs(h, in)
  BY EntryNext, HitsOf, OutputsOf DEF Step
<1>2. /\ entries[h].state = "Free" /\ entries[h].plan = NoPlan /\ entries[h].task = "none" /\ entries[h].db = FALSE
      /\ entries[h].flag = {} /\ entries[h].got = {} /\ entries[h].inst = {}
  BY DEF NoEntry
<1>3. NextState(h, in) = "Free" /\ ~Busy(h)
  BY <1>2 DEF NextState, Busy
<1>4. XcbHits(h, in) = {}
  BY <1>1 DEF HitsAre
<1> QED BY <1>1, <1>2, <1>3, <1>4 DEF NextEntry, NoEntry

\* An entry that hears of its decoding.
Redone(h, in) ==
  LET r == entries[h]
      p == r.plan
      cmt == ~(r.state = "FstTask" /\ p.wait)
      task == IF r.state = "FstTask" THEN p.t2 ELSE "none"
      F == entries'[h].flag
  IN /\ entries'[h].state = (IF cmt THEN "Commit" ELSE "SecTask")
     /\ entries'[h].plan = p /\ entries'[h].task = task /\ entries'[h].got = r.got \cup Hits(h, in)
     /\ entries'[h].inst = {}
     /\ F \subseteq Flags
     /\ "sDecode" \in F <=> ~cmt
     /\ "sCmTask" \in F <=> task # "none"
     /\ "wCmResp" \in F <=> task # "none"
     /\ "sDataTask" \in F <=> cmt /\ p.op = "data"
     /\ "wDataResp" \in F <=> cmt /\ p.op = "data"
     /\ "sWriDir" \in F <=> cmt /\ p.dir
     /\ "wReplResp" \in F <=> cmt /\ p.dir
     /\ "sResp" \in F <=> cmt /\ p.rsp = "RSP"
     /\ "sDbid" \notin F /\ "wXCB0" \notin F /\ "wXCB1" \notin F
     /\ "wCompAck" \in F <=> Has(h, "wCompAck") /\ "wCompAck" \notin Hits(h, in)

\* A decoding sets the flags of the next task.
LEMMA RedoStep ==
  ASSUME NEW in, Step(in), NEW h \in Hn, DecHit(h), ~AllocHit(h), StateOK(h), FlagOK(h),
         entries[h].state \in {"FstTask", "SecTask"}, XcbHits(h, in) = {}
  PROVE  Redone(h, in)
<1> DEFINE r == entries[h]
           p == r.plan
           fst == r.state = "FstTask"
           cmt == ~(fst /\ p.wait)
           task == IF fst THEN p.t2 ELSE "none"
           T == TaskFlags(task, fst /\ p.db2, cmt, p, r.db)
           H == Hits(h, in)
           F == entries'[h].flag
           ack == "wCompAck" \in r.flag \ r.got
<1>1. entries'[h] = NextEntry(h, in) /\ HitsAre(h, in) /\ Outputs(h, in)
  BY EntryNext, HitsOf, OutputsOf DEF Step
<1>2. p \in Rows /\ FirstValid(p)
  BY DEF StateOK
<1>3. RowOK(p)
  BY <1>2, RowFacts
<1>4. p.alr # "data" /\ (p.wait => p.t2 # "none")
  BY <1>2, <1>3 DEF RowOK
<1>5. NextState(h, in) = IF cmt THEN "Commit" ELSE "SecTask"
  BY <1>4 DEF NextState
<1>6. CleanPos(in) # <<h>> /\ Busy(h)
  BY <1>1 DEF Outputs, Busy
<1>7. /\ entries'[h].state = NextState(h, in) /\ entries'[h].plan = p /\ entries'[h].task = task
      /\ entries'[h].got = r.got \cup H /\ F = NextFlag(h, in) /\ entries'[h].inst = NextInst(h, in)
  BY <1>1, <1>5, <1>6 DEF NextEntry
<1>8. entries'[h].inst = {}
  <2>1. InstLeft(h, in)
    BY <1>5 DEF InstLeft
  <2>2. \A cm : InstWith(h, in, cm) = {}
    BY <2>1, <1>1 DEF InstWith, If
  <2> QED BY <1>7, <2>2 DEF NextInst
<1>9. F = (T \cup If(~cmt, "sDecode")) \cup (AckAwaited(h) \ H)
  <2>1. NextFlag(h, in) = DecodedFlags(h, in)
    BY DEF NextFlag
  <2>2. Decoded(h, in) = T \cup If(NextState(h, in) = "SecTask", "sDecode")
    BY ZenonT(30) DEF Decoded
  <2>3. If(NextState(h, in) = "SecTask", "sDecode") = If(~cmt, "sDecode")
    BY <1>5 DEF If
  <2> QED BY <1>7, <2>1, <2>2, <2>3 DEF DecodedFlags
<1>10. TaskFlagsAre(T, task, cmt, p)
  BY TaskFlagsOf
<1>11. ack <=> Has(h, "wCompAck")
  BY DEF FlagOK, Has
<1>12. \A f : f \in AckAwaited(h) \ H <=> f = "wCompAck" /\ ack /\ f \notin H
  BY DEF AckAwaited
<1> HIDE DEF F, T, H, cmt, task, ack
<1>13. F \subseteq Flags
  BY <1>9, <1>10, <1>12 DEF If, Flags, TaskFlagsAre
<1>14. /\ "sCmTask" \in F <=> "sCmTask" \in T
       /\ "wCmResp" \in F <=> "wCmResp" \in T
       /\ "sDataTask" \in F <=> "sDataTask" \in T
       /\ "wDataResp" \in F <=> "wDataResp" \in T
       /\ "sWriDir" \in F <=> "sWriDir" \in T
       /\ "wReplResp" \in F <=> "wReplResp" \in T
       /\ "sResp" \in F <=> "sResp" \in T
  BY <1>9, <1>12 DEF If
<1>15. /\ "sDecode" \in F <=> ~cmt
       /\ "sDbid" \notin F /\ "wXCB0" \notin F /\ "wXCB1" \notin F
       /\ "wCompAck" \in F <=> ack /\ "wCompAck" \notin H
  BY <1>9, <1>10, <1>12 DEF If, TaskFlagsAre
<1>16. /\ "sCmTask" \in F <=> task # "none"
       /\ "wCmResp" \in F <=> task # "none"
       /\ "sDataTask" \in F <=> cmt /\ p.op = "data"
       /\ "wDataResp" \in F <=> cmt /\ p.op = "data"
       /\ "sWriDir" \in F <=> cmt /\ p.dir
       /\ "wReplResp" \in F <=> cmt /\ p.dir
       /\ "sResp" \in F <=> cmt /\ p.rsp = "RSP"
  BY <1>4, <1>10, <1>14 DEF TaskFlagsAre
<1> QED BY <1>5, <1>7, <1>8, <1>11, <1>13, <1>15, <1>16 DEF Redone, F, H, cmt, task

\* An entry that is busy with something else.
Ran(h, in) ==
  LET r == entries[h]
      F == entries'[h].flag
  IN /\ entries'[h].state = (IF r.state = "Commit" /\ r.flag = {} THEN "Clean"
                             ELSE IF CleanPos(in) = <<h>> THEN "Free" ELSE r.state)
     /\ entries'[h].state # "Free" =>
          /\ entries'[h].plan = r.plan /\ entries'[h].task = r.task
          /\ entries'[h].got = r.got \cup Hits(h, in)
     /\ entries'[h].state = "Free" => entries'[h] = NoEntry
     /\ entries'[h].state # "Commit" =>
          entries'[h].inst = (IF ~CmHit(h) THEN r.inst ELSE IF r.state = "FstTask" THEN r.inst \cup {"cm"} ELSE {"cm"})
                             \cup If(XcbHits(h, in) # {}, "xcb")
     /\ entries'[h].state = "Commit" => entries'[h].inst = {}
     /\ F = r.flag \ (Fired(h, in) \cup Hits(h, in))

\* Between the two, an edge takes flags away and sets none.
LEMMA RunStep ==
  ASSUME NEW in, Step(in), NEW h \in Hn, Busy(h), ~DecHit(h), ~AllocHit(h), StateOK(h), InstOK(h),
         entries[h].state = "Clean" => ~CmHit(h) /\ XcbHits(h, in) = {}
  PROVE  Ran(h, in)
<1> DEFINE r == entries[h]
           cm == IF ~CmHit(h) THEN r.inst ELSE IF r.state = "FstTask" THEN r.inst \cup {"cm"} ELSE {"cm"}
           x == If(XcbHits(h, in) # {}, "xcb")
<1>1. entries'[h] = NextEntry(h, in) /\ Outputs(h, in)
  BY EntryNext, OutputsOf DEF Step
<1>2. r.state \in {"FstTask", "SecTask", "Commit", "Clean"}
  BY DEF StateOK, Busy
<1>3. NextState(h, in) = IF r.state = "Commit" /\ r.flag = {} THEN "Clean"
                         ELSE IF CleanPos(in) = <<h>> THEN "Free" ELSE r.state
  BY <1>1, <1>2 DEF NextState, Outputs
<1>4. CleanPos(in) = <<h>> => r.state = "Clean"
  BY <1>1 DEF Outputs
<1>5. /\ entries'[h].state = NextState(h, in) /\ entries'[h].flag = NextFlag(h, in)
      /\ entries'[h].inst = NextInst(h, in)
      /\ entries'[h].got = IF CleanPos(in) = <<h>> THEN {} ELSE r.got \cup Hits(h, in)
      /\ NextState(h, in) # "Free" => entries'[h].plan = r.plan /\ entries'[h].task = r.task
      /\ NextState(h, in) = "Free" => entries'[h].plan = NoPlan /\ entries'[h].task = "none" /\ entries'[h].db = FALSE
  <2> DEFINE n == NextState(h, in)
             b == n # "Free" /\ (r.db \/ ReqDB(in) = <<h>>)
             f == NextFlag(h, in)
             i == NextInst(h, in)
             H == Hits(h, in)
  <2>1. entries'[h] =
          [state |-> n,
           plan |-> IF n = "Free" THEN NoPlan ELSE r.plan,
           task |-> IF n = "Free" THEN "none" ELSE r.task,
           db |-> b, flag |-> f,
           got |-> IF CleanPos(in) = <<h>> THEN {} ELSE r.got \cup H,
           inst |-> i]
    BY <1>1 DEF NextEntry
  <2>2. n = "Free" => b = FALSE
    OBVIOUS
  <2> HIDE DEF n, b, f, i, H
  <2>3. entries'[h].state = n /\ entries'[h].flag = f /\ entries'[h].inst = i /\ entries'[h].db = b
    BY <2>1
  <2>4. /\ entries'[h].plan = IF n = "Free" THEN NoPlan ELSE r.plan
        /\ entries'[h].task = IF n = "Free" THEN "none" ELSE r.task
        /\ entries'[h].got = IF CleanPos(in) = <<h>> THEN {} ELSE r.got \cup H
    BY <2>1
  <2> QED BY <2>2, <2>3, <2>4 DEF n, f, i, H
<1>6. NextFlag(h, in) = r.flag \ (Fired(h, in) \cup Hits(h, in))
  BY DEF NextFlag
<1>7. NextInst(h, in) = InstWith(h, in, cm)
  BY DEF NextInst
<1>8. InstWith(h, in, cm) = IF NextState(h, in) = "Commit" THEN {} ELSE cm \cup x
  <2>1. InstLeft(h, in) <=> NextState(h, in) = "Commit"
    BY <1>2, <1>3, <1>4 DEF InstLeft
  <2> QED BY <2>1 DEF InstWith
<1> HIDE DEF cm, x
<1>9. NextState(h, in) # "Free" => CleanPos(in) # <<h>>
  BY <1>3, <1>4
<1>10. ASSUME NextState(h, in) = "Free" PROVE entries'[h] = NoEntry
  <2>1. CleanPos(in) = <<h>> /\ r.state = "Clean"
    BY <1>2, <1>3, <1>4, <1>10
  <2>2. r.flag = {} /\ cm = {} /\ x = {}
    BY <2>1 DEF StateOK, InstOK, cm, x, If
  <2>3. entries'[h].flag = {} /\ entries'[h].inst = {} /\ entries'[h].got = {}
    BY <2>1, <2>2, <1>5, <1>6, <1>7, <1>8, <1>10
  <2>4. entries'[h] = [state |-> entries'[h].state, plan |-> entries'[h].plan, task |-> entries'[h].task,
                       db |-> entries'[h].db, flag |-> entries'[h].flag, got |-> entries'[h].got,
                       inst |-> entries'[h].inst]
    BY <1>1, ZenonT(60) DEF NextEntry
  <2> QED BY <2>3, <2>4, <1>5, <1>10 DEF NoEntry
<1>11. entries'[h].state # "Free" => entries'[h].got = r.got \cup Hits(h, in)
  BY <1>5, <1>9
<1>12. /\ entries'[h].state # "Commit" => entries'[h].inst = cm \cup x
       /\ entries'[h].state = "Commit" => entries'[h].inst = {}
  BY <1>5, <1>7, <1>8
<1> QED BY <1>3, <1>5, <1>6, <1>10, <1>11, <1>12 DEF Ran, cm, x

-----------------------------------------------------------------------------
(* The places of a task on its way through a channel machine.              *)

\* The task that an entry hands to its machine.
CmTaskFor(h) == [hn |-> h, direct |-> Direct(entries[h].plan, entries[h].task),
                 half |-> entries[h].plan.vec # {0, 1}]
Handed(k, in) == IF CmTaskOf(k, in) = <<>> THEN <<>> ELSE <<CmTaskFor(CmTaskOf(k, in)[1])>>

\* A machine takes at most one task, and only with room in its queue.
LEMMA CmTaskOne ==
  ASSUME NEW in, NEW k
  PROVE  /\ CmTaskOf(k, in) \in Opt(Hn)
         /\ CmTaskOf(k, in) # <<>> => Len(cmq[k]) < 2
<1> DEFINE A == {g \in Hn : Has(g, "sCmTask") /\ Lacks(g, {"sReqDB"}) /\ entries[g].task = k}
<1>1. A \in SUBSET Hn /\ CmTaskOf(k, in) = IF ~CmRdy(k) THEN <<>> ELSE Served(A, "never", in)
  BY DEF CmTaskOf
<1>2. Served(A, "never", in) \in Opt(A)
  BY <1>1, ServedOne
<1> HIDE DEF A
<1>3. Served(A, "never", in) \in Opt(Hn)
  BY <1>1, <1>2 DEF Opt
<1> QED BY <1>1, <1>3 DEF CmRdy, Opt

\* It is a task of the type the queue holds.
LEMMA HandedOne ==
  ASSUME NEW in, NEW k
  PROVE  Handed(k, in) \in Opt(CmTask)
<1>1. CASE CmTaskOf(k, in) = <<>>
  BY <1>1 DEF Handed, Opt
<1>2. CASE CmTaskOf(k, in) # <<>>
  <2>1. CmTaskOf(k, in)[1] \in Hn
    BY <1>2, CmTaskOne, OptOne
  <2>2. ASSUME NEW h \in Hn PROVE CmTaskFor(h) \in CmTask
    <3>1. Direct(entries[h].plan, entries[h].task) \in BOOLEAN /\ (entries[h].plan.vec # {0, 1}) \in BOOLEAN
      BY DEF Direct
    <3> QED BY <3>1, ZenonT(30) DEF CmTaskFor, CmTask
  <2>3. CmTaskFor(CmTaskOf(k, in)[1]) \in CmTask
    BY <2>1, <2>2
  <2> QED BY <1>2, <2>3 DEF Handed, Opt
<1> QED BY <1>1, <1>2

\* What an edge does to queue, pool and answer of a machine.
LEMMA CmNext ==
  ASSUME NEW in, Step(in), NEW k \in Kind
  PROVE  /\ cmq'[k] = (IF CmAlloc(k) = <<>> THEN cmq[k] ELSE Tail(cmq[k])) \o Handed(k, in)
         /\ cms'[k] = NextPool(k, in)
         /\ cmPipe' = IF CmAnswer(in) = <<>> THEN <<>> ELSE <<HnOf(CmAnswer(in)[1])>>
         /\ DOMAIN cmq' = Kind /\ DOMAIN cms' = Kind
<1> DEFINE t(h) == [hn |-> h, direct |-> Direct(entries[h].plan, entries[h].task),
                    half |-> entries[h].plan.vec # {0, 1}]
           g(l) == IF CmTaskOf(l, in) = <<>> THEN <<>> ELSE <<t(CmTaskOf(l, in)[1])>>
<1>1. CmTick(in, [l \in Kind |-> g(l)])
  BY ZenonT(30) DEF Step, CommitTick
<1>2. g(k) = Handed(k, in)
  BY DEF Handed, CmTaskFor
<1> HIDE DEF g
<1> QED BY <1>1, <1>2 DEF CmTick

\* A queue q after an edge, n: d tasks left it, and g came.
QueueMoves(S, q, d, g, n) ==
  /\ q \in Seq(S) /\ d \in {0, 1} /\ (d = 1 => q # <<>>) /\ g \in Opt(S)
  /\ n = (IF d = 1 THEN Tail(q) ELSE q) \o g
QueueMoved(S, q, d, g, n) ==
  /\ n \in Seq(S) /\ Len(n) = Len(q) - d + Len(g) /\ Len(q) \in Nat
  /\ \A j \in 1 .. Len(n) :
       \/ j + d \in 1 .. Len(q) /\ n[j] = q[j + d]
       \/ j = Len(q) - d + 1 /\ g # <<>> /\ n[j] = g[1]

\* Where each task of a queue was before the edge.
LEMMA QueueAfter ==
  ASSUME NEW S, NEW q, NEW d, NEW g, NEW n, QueueMoves(S, q, d, g, n)
  PROVE  QueueMoved(S, q, d, g, n)
<1>0. q \in Seq(S) /\ d \in {0, 1} /\ (d = 1 => q # <<>>) /\ g \in Opt(S) /\ n = (IF d = 1 THEN Tail(q) ELSE q) \o g
  BY DEF QueueMoves
<1> DEFINE r == IF d = 1 THEN Tail(q) ELSE q
<1>1. /\ r \in Seq(S) /\ Len(r) = Len(q) - d /\ Len(r) \in Nat /\ Len(q) \in Nat
      /\ \A j \in 1 .. Len(r) : j + d \in 1 .. Len(q) /\ r[j] = q[j + d]
  <2>1. CASE d = 1
    <3>1. q # <<>>
      BY <2>1, <1>0
    <3>2. Len(q) \in Nat \ {0}
      BY <3>1, <1>0, EmptySeq, LenProperties
    <3>3. Tail(q) \in Seq(S) /\ Len(Tail(q)) = Len(q) - 1 /\ \A j \in 1 .. Len(Tail(q)) : Tail(q)[j] = q[j + 1]
      BY <3>1, <1>0, HeadTailProperties
    <3> QED BY <2>1, <3>1, <3>2, <3>3
  <2>2. CASE d = 0
    <3>1. Len(q) \in Nat /\ r = q
      BY <2>2, <1>0, LenProperties
    <3> QED BY <3>1, <2>2, <1>0
  <2> QED BY <1>0, <2>1, <2>2
<1> HIDE DEF r
<1>2. g \in Seq(S) /\ Len(g) \in Nat /\ Len(g) <= 1 /\ (g = <<>> => Len(g) = 0) /\ (g # <<>> => Len(g) = 1)
  BY <1>0, OptIsSeq
<1>3. n = r \o g
  BY <1>0 DEF r
<1>4. n \in Seq(S) /\ Len(n) = Len(r) + Len(g)
      /\ \A j \in 1 .. Len(r) + Len(g) : n[j] = IF j <= Len(r) THEN r[j] ELSE g[j - Len(r)]
  BY <1>1, <1>2, <1>3, ConcatProperties
<1>5. d \in Nat
  BY <1>0
<1>6. ASSUME NEW j \in 1 .. Len(n)
      PROVE  \/ j + d \in 1 .. Len(q) /\ n[j] = q[j + d]
             \/ j = Len(q) - d + 1 /\ g # <<>> /\ n[j] = g[1]
  <2>1. CASE j <= Len(r)
    <3>1. j \in 1 .. Len(r) /\ j \in 1 .. Len(r) + Len(g)
      BY <2>1, <1>1, <1>2
    <3> QED BY <3>1, <2>1, <1>1, <1>4
  <2>2. CASE ~(j <= Len(r))
    <3>1. j \in 1 .. Len(r) + Len(g) /\ Len(g) = 1 /\ j - Len(r) = 1 /\ j = Len(r) + 1
      BY <2>2, <1>1, <1>2, <1>4
    <3>2. n[j] = g[1]
      BY <3>1, <2>2, <1>4
    <3>3. j = Len(q) - d + 1
      BY <3>1, <1>1
    <3>4. g # <<>>
      BY <3>1, <1>2
    <3> QED BY <3>2, <3>3, <3>4
  <2> QED BY <2>1, <2>2
<1>7. Len(n) = Len(q) - d + Len(g)
  BY <1>1, <1>2, <1>4
<1> QED BY <1>1, <1>4, <1>6, <1>7 DEF QueueMoved

\* A task leaves its queue only for a free entry of the pool.
LEMMA CmAllocOne ==
  ASSUME NEW k \in Kind
  PROVE  /\ CmAlloc(k) \in Opt(FreeCm(k))
         /\ CmAlloc(k) # <<>> => cmq[k] # <<>>
<1>1. CASE cmq[k] = <<>> \/ FreeCm(k) = {}
  BY <1>1 DEF CmAlloc, Opt
<1>2. CASE ~(cmq[k] = <<>> \/ FreeCm(k) = {})
  <2>1. FreeCm(k) \in SUBSET Nat /\ FreeCm(k) # {}
    BY <1>2, CmAssumption DEF FreeCm
  <2>2. \E i \in FreeCm(k) : \A j \in FreeCm(k) : i <= j
    BY <2>1, MinIsLeast
  <2> DEFINE x == CHOOSE i \in FreeCm(k) : \A j \in FreeCm(k) : i <= j
  <2>3. x \in FreeCm(k)
    BY <2>2
  <2>4. CmAlloc(k) = <<x>>
    BY <1>2 DEF CmAlloc
  <2> HIDE DEF x
  <2> QED BY <1>2, <2>3, <2>4 DEF Opt
<1> QED BY <1>1, <1>2

\* Where the task of transaction h in place n of queue k was before the edge.
Shift(k) == IF CmAlloc(k) # <<>> THEN 1 ELSE 0
QueueFrom(h, k, n, in) ==
  \/ /\ n + Shift(k) \in 1 .. Len(cmq[k]) /\ cmq[k][n + Shift(k)].hn = h
     /\ cmq'[k][n] = cmq[k][n + Shift(k)]
  \/ /\ CmTaskOf(k, in) = <<h>> /\ n = Len(cmq[k]) - Shift(k) + 1
     /\ cmq'[k][n] = CmTaskFor(h)

\* A queue keeps its type, and each of its tasks was there or came.
LEMMA QueueNext ==
  ASSUME PlaceTypes, NEW in, Step(in), NEW k \in Kind
  PROVE  /\ cmq'[k] \in Seq(CmTask) /\ Len(cmq'[k]) <= 2
         /\ \A n \in 1 .. Len(cmq'[k]) : QueueFrom(cmq'[k][n].hn, k, n, in)
<1> DEFINE q == cmq[k]
           g == Handed(k, in)
           m == cmq'[k]
<1>1. q \in Seq(CmTask) /\ Len(q) <= 2
  BY DEF PlaceTypes
<1>2. Shift(k) \in {0, 1} /\ (Shift(k) = 1 => q # <<>>) /\ g \in Opt(CmTask)
  BY CmAllocOne, HandedOne DEF Shift
<1>3. m = (IF CmAlloc(k) = <<>> THEN q ELSE Tail(q)) \o g
  BY CmNext
<1>4. m = (IF Shift(k) = 1 THEN Tail(q) ELSE q) \o g
  <2>1. CASE CmAlloc(k) = <<>>
    BY <2>1, <1>3 DEF Shift
  <2>2. CASE CmAlloc(k) # <<>>
    BY <2>2, <1>3 DEF Shift
  <2> QED BY <2>1, <2>2
<1>5. /\ m \in Seq(CmTask) /\ Len(m) = Len(q) - Shift(k) + Len(g) /\ Len(q) \in Nat
      /\ \A j \in 1 .. Len(m) :
           \/ j + Shift(k) \in 1 .. Len(q) /\ m[j] = q[j + Shift(k)]
           \/ j = Len(q) - Shift(k) + 1 /\ g # <<>> /\ m[j] = g[1]
  <2>1. QueueMoves(CmTask, q, Shift(k), g, m)
    BY <1>1, <1>2, <1>4 DEF QueueMoves
  <2>2. QueueMoved(CmTask, q, Shift(k), g, m)
    BY <2>1, QueueAfter
  <2> HIDE DEF q, g, m
  <2> QED BY <2>2 DEF QueueMoved
<1>6. Len(m) <= 2
  <2>1. Len(g) \in Nat /\ Len(g) <= 1 /\ (g = <<>> => Len(g) = 0)
    BY <1>2, OptIsSeq
  <2>2. g # <<>> => Len(q) < 2
    BY CmTaskOne DEF Handed
  <2>3. Shift(k) \in {0, 1}
    BY DEF Shift
  <2> HIDE DEF q, g, m
  <2> QED BY <2>1, <2>2, <2>3, <1>1, <1>5
<1>7. ASSUME NEW n \in 1 .. Len(m) PROVE QueueFrom(m[n].hn, k, n, in)
  <2>1. CASE n + Shift(k) \in 1 .. Len(q) /\ m[n] = q[n + Shift(k)]
    BY <2>1 DEF QueueFrom
  <2>2. CASE n = Len(q) - Shift(k) + 1 /\ g # <<>> /\ m[n] = g[1]
    <3> DEFINE c == CmTaskOf(k, in)
    <3>1. c # <<>> /\ g = <<CmTaskFor(c[1])>>
      BY <2>2 DEF Handed
    <3>2. c = <<c[1]>>
      BY <3>1, CmTaskOne, OptOne
    <3>3. m[n] = CmTaskFor(c[1]) /\ CmTaskFor(c[1]).hn = c[1]
      BY <2>2, <3>1 DEF CmTaskFor
    <3> QED BY <2>2, <3>2, <3>3 DEF QueueFrom
  <2> QED BY <2>1, <2>2, <1>5
<1> QED BY <1>5, <1>6, <1>7

\* The outputs of the channel machines.
CmOut(out, states) ==
  out # <<>> => \E k \in Kind : \E i \in CmEntry : out = << <<k, i>> >> /\ cms[k][i].state \in states

\* Who is served at an output of the machines is in a state that asks.
LEMMA CmServedIs ==
  ASSUME NEW states, NEW asks, asks \subseteq CmIn(states), NEW port, NEW in
  PROVE  CmOut(CmServed(asks, port, in), states)
<1> DEFINE out == CmServed(asks, port, in)
<1>1. out \in Opt(asks)
  BY CmServedOne
<1> HIDE DEF out
<1>2. ASSUME out # <<>>
      PROVE  \E k \in Kind : \E i \in CmEntry : out = << <<k, i>> >> /\ cms[k][i].state \in states
  <2>1. out[1] \in asks /\ out = <<out[1]>>
    BY <1>1, <1>2, OptOne
  <2>2. out[1] \in Kind \X CmEntry /\ cms[out[1][1]][out[1][2]].state \in states
    BY <2>1 DEF CmIn
  <2>3. out[1][1] \in Kind /\ out[1][2] \in CmEntry /\ out[1] = <<out[1][1], out[1][2]>>
    BY <2>2
  <2> QED BY <2>1, <2>2, <2>3
<1>3. CmOut(out, states)
  BY <1>2 DEF CmOut
<1> QED BY <1>3 DEF out

CmOuts(in) ==
  /\ CmOut(TxSnp(in), {"SendSnp"}) /\ CmOut(TxReq(in), {"SendReq"})
  /\ CmOut(WrData(in), {"DataTask"}) /\ CmOut(CmAnswer(in), {"RespCmt"})
  /\ \A k \in Kind : \A i \in CmEntry :
       CmAnswer(in) = << <<k, i>> >> /\ k = "Wr" => "comp" \in cms[k][i].got

\* Likewise for all outputs.
LEMMA CmOutsOf ==
  ASSUME NEW in
  PROVE  CmOuts(in)
<1>1. CmOut(TxSnp(in), {"SendSnp"})
  BY CmServedIs DEF TxSnp
<1>2. CmOut(TxReq(in), {"SendReq"})
  BY CmServedIs DEF TxReq
<1>3. CmOut(WrData(in), {"DataTask"})
  BY CmServedIs DEF WrData
<1> DEFINE A == {c \in CmIn({"RespCmt"}) : Done(c)}
<1>4. A \subseteq CmIn({"RespCmt"}) /\ CmAnswer(in) = CmServed(A, "never", in)
  BY DEF CmAnswer
<1>5. CmOut(CmAnswer(in), {"RespCmt"})
  BY <1>4, CmServedIs
<1>6. ASSUME NEW k \in Kind, NEW i \in CmEntry, CmAnswer(in) = << <<k, i>> >>, k = "Wr"
      PROVE  "comp" \in cms[k][i].got
  <2>1. CmServed(A, "never", in) \in Opt(A)
    BY CmServedOne
  <2>2. <<k, i>> \in A
    BY <2>1, <1>4, <1>6, OptHas
  <2> QED BY <2>2, <1>6 DEF Done
<1> QED BY <1>1, <1>2, <1>3, <1>5, <1>6 DEF CmOuts

\* What becomes of an entry of a pool.
FirstOf(k) == IF k = "Snp" THEN "SendSnp" ELSE "SendReq"
StateNext(k, i, in) ==
  CASE k = "Snp" -> NextSnpState(i, in) [] k = "Rd" -> NextRdState(i, in) [] k = "Wr" -> NextWrState(i, in)
Heard(k, r, in) ==
  CASE k = "Snp" -> SnpHeard(r, in) [] k = "Rd" -> {} [] k = "Wr" -> WrHeard(r, in) \cap {"comp"}

Entered(k, i, in) ==
  /\ cms[k][i] = NoCm /\ CmAlloc(k) = <<i>> /\ cmq[k] # <<>>
  /\ cms'[k][i] = [state |-> FirstOf(k), task |-> <<Head(cmq[k])>>, got |-> {}]
Absent(k, i, in) ==
  /\ cms'[k][i] = NoCm
  /\ cms[k][i] = NoCm \/ (cms[k][i].state = "RespCmt" /\ cms[k][i].task # <<>> /\ CmAnswer(in) = << <<k, i>> >>)
Stayed(k, i, in) ==
  /\ cms[k][i].task # <<>> /\ cms[k][i].state \in StatesOf(k) /\ StateNext(k, i, in) \in StatesOf(k)
  /\ CmAnswer(in) # << <<k, i>> >>
  /\ cms'[k][i] = [state |-> StateNext(k, i, in), task |-> cms[k][i].task,
                   got |-> cms[k][i].got \cup Heard(k, cms[k][i], in)]
PoolMove(k, i, in) == Entered(k, i, in) \/ Absent(k, i, in) \/ Stayed(k, i, in)

\* An edge gives an entry of a pool the value NextCm computes.
LEMMA PoolEntry ==
  ASSUME NEW in, Step(in), NEW k \in Kind, NEW i \in CmEntry
  PROVE  cms'[k][i] = NextCm(k, i, in, StateNext(k, i, in), Heard(k, cms[k][i], in))
<1>1. cms'[k] = NextPool(k, in)
  BY CmNext
<1>2. CASE k = "Snp"
  BY <1>1, <1>2 DEF NextPool, StateNext, Heard
<1>3. CASE k = "Rd"
  BY <1>1, <1>3 DEF NextPool, StateNext, Heard
<1>4. CASE k = "Wr"
  BY <1>1, <1>4 DEF NextPool, StateNext, Heard
<1> QED BY <1>2, <1>3, <1>4 DEF Kind

\* A free entry stays free unless a task is let in.
LEMMA FreeMoves ==
  ASSUME NEW in, NEW k \in Kind, NEW i \in CmEntry, cms[k][i] = NoCm
  PROVE  /\ StateNext(k, i, in) = IF CmAlloc(k) = <<i>> THEN FirstOf(k) ELSE "Free"
         /\ Heard(k, cms[k][i], in) = {}
<1>1. cms[k][i].state = "Free" /\ cms[k][i].task = <<>>
  BY DEF NoCm
<1>2. \A m, ops : ~Mine(cms[k][i], m, ops)
  BY <1>1 DEF Mine
<1>3. CASE k = "Snp"
  BY <1>1, <1>2, <1>3 DEF StateNext, NextSnpState, To, Heard, SnpHeard, If, FirstOf
<1>4. CASE k = "Rd"
  BY <1>1, <1>2, <1>4 DEF StateNext, NextRdState, To, Heard, FirstOf
<1>5. CASE k = "Wr"
  BY <1>1, <1>2, <1>5 DEF StateNext, NextWrState, To, Heard, WrHeard, If, FirstOf
<1> QED BY <1>3, <1>4, <1>5 DEF Kind

\* A busy one stays in the states of its kind until it has answered.
LEMMA BusyMoves ==
  ASSUME NEW in, NEW k \in Kind, NEW i \in CmEntry, cms[k][i].state \in StatesOf(k)
  PROVE  IF CmAnswer(in) = << <<k, i>> >> THEN StateNext(k, i, in) = "Free" /\ cms[k][i].state = "RespCmt"
         ELSE StateNext(k, i, in) \in StatesOf(k)
<1>1. CmAnswer(in) = << <<k, i>> >> => cms[k][i].state = "RespCmt"
  <2>1. ASSUME CmAnswer(in) = << <<k, i>> >> PROVE cms[k][i].state = "RespCmt"
    <3>1. CmServed({c \in CmIn({"RespCmt"}) : Done(c)}, "never", in) \in Opt({c \in CmIn({"RespCmt"}) : Done(c)})
      BY CmServedOne
    <3>2. <<k, i>> \in {c \in CmIn({"RespCmt"}) : Done(c)}
      BY <2>1, <3>1, OptHas DEF CmAnswer
    <3> QED BY <3>2 DEF CmIn
  <2> QED BY <2>1
<1>2. CASE k = "Snp"
  BY <1>1, <1>2 DEF StateNext, NextSnpState, To, StatesOf
<1>3. CASE k = "Rd"
  BY <1>1, <1>3 DEF StateNext, NextRdState, To, StatesOf
<1>4. CASE k = "Wr"
  BY <1>1, <1>4 DEF StateNext, NextWrState, To, StatesOf
<1> QED BY <1>2, <1>3, <1>4 DEF Kind

\* So an entry of a pool is entered, absent or stays.
LEMMA PoolStep ==
  ASSUME NEW in, Step(in), NEW k \in Kind, NEW i \in CmEntry, Shape(k, i)
  PROVE  PoolMove(k, i, in)
<1>0. cms'[k][i] = NextCm(k, i, in, StateNext(k, i, in), Heard(k, cms[k][i], in))
  BY PoolEntry
<1>1. CASE cms[k][i] = NoCm
  <2>1. /\ StateNext(k, i, in) = IF CmAlloc(k) = <<i>> THEN FirstOf(k) ELSE "Free"
        /\ Heard(k, cms[k][i], in) = {}
    BY <1>1, FreeMoves
  <2>2. CASE CmAlloc(k) = <<i>>
    <3>1. cmq[k] # <<>>
      BY <2>2, CmAllocOne
    <3>2. FirstOf(k) # "Free" /\ cms[k][i].got = {}
      BY <1>1 DEF FirstOf, NoCm
    <3>3. cms'[k][i] = [state |-> FirstOf(k), task |-> <<Head(cmq[k])>>, got |-> {}]
      BY <1>0, <2>1, <2>2, <3>2 DEF NextCm
    <3> QED BY <1>1, <2>2, <3>1, <3>3 DEF PoolMove, Entered
  <2>3. CASE CmAlloc(k) # <<i>>
    <3>1. cms'[k][i] = NoCm
      BY <1>0, <2>1, <2>3 DEF NextCm
    <3> QED BY <1>1, <3>1 DEF PoolMove, Absent
  <2> QED BY <2>2, <2>3
<1>2. CASE cms[k][i].state \in StatesOf(k) /\ cms[k][i].task # <<>>
  <2>0. "Free" \notin StatesOf(k)
    BY DEF StatesOf, Kind
  <2>1. CASE CmAnswer(in) = << <<k, i>> >>
    <3>1. StateNext(k, i, in) = "Free" /\ cms[k][i].state = "RespCmt"
      BY <1>2, <2>1, BusyMoves
    <3>2. cms'[k][i] = NoCm
      BY <1>0, <3>1 DEF NextCm
    <3> QED BY <1>2, <2>1, <3>1, <3>2 DEF PoolMove, Absent
  <2>2. CASE CmAnswer(in) # << <<k, i>> >>
    <3>1. StateNext(k, i, in) \in StatesOf(k)
      BY <1>2, <2>2, BusyMoves
    <3>2. CmAlloc(k) # <<i>>
      <4>1. CmAlloc(k) \in Opt(FreeCm(k))
        BY CmAllocOne
      <4>2. i \notin FreeCm(k)
        BY <1>2, <2>0 DEF FreeCm
      <4> QED BY <4>1, <4>2, OptHas
    <3>3. cms'[k][i] = [state |-> StateNext(k, i, in), task |-> cms[k][i].task,
                        got |-> cms[k][i].got \cup Heard(k, cms[k][i], in)]
      BY <1>0, <2>0, <3>1, <3>2 DEF NextCm
    <3> QED BY <1>2, <2>2, <3>1, <3>3 DEF PoolMove, Stayed
  <2> QED BY <2>1, <2>2
<1> QED BY <1>1, <1>2 DEF Shape

-----------------------------------------------------------------------------
(* The four things that can happen to an entry.                            *)

StageAt(h) ==
  /\ QueueOK(h) /\ PoolOK(h) /\ PipeOK(h) /\ ForeignOK(h)
  /\ StateOK(h) /\ FlagOK(h) /\ InstOK(h) /\ DecOK(h)
  /\ AnswerOK(h) /\ AckOK(h) /\ XcbOK(h) /\ DataOK(h) /\ ReplOK(h)

\* The parts of the invariant, slot by slot.
LEMMA StageParts ==
  ASSUME StageInv
  PROVE  /\ PlaceTypes /\ OutTypes
         /\ \A k \in Kind : \A i \in CmEntry : Shape(k, i)
         /\ \A h \in Hn : StageAt(h)
BY DEF StageInv, StageAt

Idles(h) == entries[h] = NoEntry /\ ~AllocHit(h) /\ entries'[h] = NoEntry
Fills(h, in) == entries[h] = NoEntry /\ AllocHit(h) /\ Filled(h, in)
Redoes(h, in) ==
  /\ DecHit(h) /\ ~AllocHit(h) /\ entries[h].state \in {"FstTask", "SecTask"} /\ Redone(h, in)
  /\ Lacks(h, {"sDecode", "wCmResp", "wXCB0", "wXCB1"})
Runs(h, in) == Busy(h) /\ ~AllocHit(h) /\ ~DecHit(h) /\ Ran(h, in)

\* Only a busy entry has flags, and not when it is done.
LEMMA HasBusy ==
  ASSUME NEW h, StateOK(h), NEW f, Has(h, f)
  PROVE  Busy(h) /\ ~AllocHit(h) /\ entries[h].state # "Clean"
BY DEF StateOK, Has, Busy, NoEntry

\* The row of a slot is one of the plans.
LEMMA RowIs ==
  ASSUME OutTypes, NEW h, StateOK(h), Busy(h) \/ AllocHit(h)
  PROVE  Row(h) \in Rows /\ RowOK(Row(h))
<1>1. Row(h) \in Rows
  <2>1. CASE AllocHit(h)
    <3>1. pipe \in Opt([hn : Hn, plan : Rows]) /\ pipe # <<>>
      BY <2>1 DEF OutTypes, AllocHit
    <3>2. pipe[1] \in [hn : Hn, plan : Rows]
      BY <3>1, OptOne
    <3> QED BY <2>1, <3>2 DEF Row
  <2>2. CASE ~AllocHit(h)
    BY <2>2 DEF Row, StateOK, Busy
  <2> QED BY <2>1, <2>2
<1> QED BY <1>1, RowFacts

\* The beats of a write that are due.
LEMMA WriteDue ==
  ASSUME OutTypes, NEW h, StateOK(h), XcbOK(h), NEW m \in Of(h, {"wr", "wrack"})
  PROVE  /\ Busy(h) \/ AllocHit(h)
         /\ m \in due /\ m.hn = h /\ m.op \in {"wr", "wrack"} /\ m.beat \in {0, 1} /\ m.beat \in Row(h).vec
         /\ WriteData(Row(h)) /\ m = Flit(h, IF Row(h).ack /\ ~Row(h).copy THEN "wrack" ELSE "wr", m.beat)
         /\ \/ Has(h, Xcb[m.beat]) /\ ~Has(h, "sDbid")
            \/ AllocHit(h) /\ Row(h).alr = "dbid"
<1>1. /\ m \in WriteBeats(h, Row(h)) /\ WriteData(Row(h))
      /\ \/ Has(h, Xcb[m.beat]) /\ ~Has(h, "sDbid")
         \/ AllocHit(h) /\ Row(h).alr = "dbid"
  BY DEF XcbOK
<1>2. Busy(h) \/ AllocHit(h)
  BY <1>1, HasBusy
<1>3. RowOK(Row(h))
  BY <1>2, RowIs
<1>4. PICK b \in Row(h).vec : m = Flit(h, IF Row(h).ack /\ ~Row(h).copy THEN "wrack" ELSE "wr", b)
  BY <1>1 DEF WriteBeats
<1>5. m.beat = b /\ b \in {0, 1}
  BY <1>3, <1>4 DEF Flit, RowOK
<1> QED BY <1>1, <1>2, <1>4, <1>5 DEF Of

\* An entry hears of a beat only if the beat was due for it.
LEMMA BeatHeard ==
  ASSUME OutTypes, NEW in \in CommitInputs, NEW h, StateOK(h), XcbOK(h), XcbHits(h, in) # {}
  PROVE  \E m \in Of(h, {"wr", "wrack"}) : m \in Came(in) /\ XcbHits(h, in) = {Xcb[m.beat]}
<1>1. HitsAre(h, in) /\ Arrived(h, in)
  BY HitsOf, ArrivedIs
<1>2. PICK m \in Came(in) : m.hn = h /\ m.op \in {"wr", "wrack"}
  BY <1>1 DEF HitsAre, Hears
<1>3. m \in Of(h, {"wr", "wrack"})
  BY <1>1, <1>2 DEF Arrived, Of
<1>4. m.beat \in {0, 1}
  BY <1>3, WriteDue
<1> QED BY <1>1, <1>2, <1>3, <1>4 DEF HitsAre

\* Likewise of the ack, which may come with a beat.
LEMMA AckHeard ==
  ASSUME OutTypes, NEW in \in CommitInputs, NEW h, AckHit(h, in)
  PROVE  \E m \in Of(h, {"ack", "wr", "wrack"}) : m \in Came(in) /\ m.op \in {"ack", "wrack"}
<1>1. HitsAre(h, in) /\ Arrived(h, in)
  BY HitsOf, ArrivedIs
<1>2. PICK m \in Came(in) : m.hn = h /\ m.op \in {"ack", "wrack"}
  BY <1>1 DEF HitsAre, Hears
<1>3. m \in Of(h, {"ack", "wr", "wrack"})
  BY <1>1, <1>2 DEF Arrived, Of
<1> QED BY <1>2, <1>3

\* The four things that can happen to an entry: the decoded one still waits,
\* and a free one hears nothing.
LEMMA EntryCase ==
  ASSUME StageInv, NEW in, Step(in), NEW h \in Hn
  PROVE  Idles(h) \/ Fills(h, in) \/ Redoes(h, in) \/ Runs(h, in)
<1>1. StageAt(h) /\ OutTypes /\ in \in CommitInputs
  BY StageParts DEF Step
<1>2. StateOK(h) /\ FlagOK(h) /\ InstOK(h) /\ DecOK(h) /\ XcbOK(h) /\ AckOK(h) /\ PipeOK(h)
  BY <1>1 DEF StageAt
<1>3. HitsAre(h, in)
  BY <1>1, HitsOf
<1>4. DecHit(h) => /\ entries[h].state \in {"FstTask", "SecTask"} /\ ~AllocHit(h)
                   /\ Lacks(h, {"sDecode", "wCmResp", "wXCB0", "wXCB1"})
  BY <1>2 DEF DecHit, DecOK, Asked, StateOK
<1>5. CASE entries[h].state = "Free" /\ AllocHit(h)
  <2>1. entries[h] = NoEntry
    BY <1>2, <1>5 DEF StateOK
  <2> QED BY <1>5, <2>1, FillStep DEF Fills
<1>6. CASE entries[h].state = "Free" /\ ~AllocHit(h)
  <2>1. entries[h] = NoEntry /\ ~Busy(h)
    BY <1>2, <1>6 DEF StateOK, Busy
  <2>2. Of(h, {"wr", "wrack"}) = {}
    BY <1>1, <1>2, <1>6, <2>1, WriteDue
  <2>3. Of(h, {"ack"}) = {}
    BY <1>2, <1>6, <2>1 DEF AckOK
  <2>4. XcbHits(h, in) = {}
    BY <1>1, <1>2, <2>2, BeatHeard
  <2>5. ~AckHit(h, in)
    BY <1>1, <2>2, <2>3, AckHeard DEF Of
  <2>6. Hits(h, in) = {}
    BY <2>4, <2>5 DEF Hits, If
  <2> QED BY <1>6, <2>1, <2>6, FreeStep DEF Idles
<1>7. CASE DecHit(h)
  <2>1. ~Has(h, "wXCB0") /\ ~Has(h, "wXCB1")
    BY <1>4, <1>7 DEF Has, Lacks
  <2>2. XcbHits(h, in) = {}
    <3>1. ASSUME XcbHits(h, in) # {} PROVE FALSE
      <4>1. PICK m \in Of(h, {"wr", "wrack"}) : m \in Came(in)
        BY <1>1, <1>2, <3>1, BeatHeard
      <4>2. Has(h, Xcb[m.beat]) /\ m.beat \in {0, 1}
        BY <1>1, <1>2, <1>4, <1>7, <4>1, WriteDue
      <4> QED BY <4>2, <2>1 DEF Xcb
    <3> QED BY <3>1
  <2> QED BY <1>2, <1>4, <1>7, <2>2, RedoStep DEF Redoes
<1>8. CASE entries[h].state # "Free" /\ ~DecHit(h)
  <2>1. Busy(h) /\ ~AllocHit(h)
    BY <1>2, <1>8 DEF StateOK, Busy
  <2>2. ASSUME entries[h].state = "Clean" PROVE ~CmHit(h) /\ XcbHits(h, in) = {}
    <3>1. \A f : ~Has(h, f)
      BY <1>2, <2>2, HasBusy
    <3>2. ASSUME XcbHits(h, in) # {} PROVE FALSE
      <4>1. PICK m \in Of(h, {"wr", "wrack"}) : m \in Came(in)
        BY <1>1, <1>2, <3>2, BeatHeard
      <4> QED BY <1>1, <1>2, <2>1, <3>1, <4>1, WriteDue
    <3> QED BY <1>2, <3>1, <3>2 DEF CmHit, PipeOK
  <2> QED BY <1>2, <1>8, <2>1, <2>2, RunStep DEF Runs
<1> QED BY <1>5, <1>6, <1>7, <1>8

-----------------------------------------------------------------------------
(* A task keeps its place or moves on to the next one.                     *)

\* An entry that runs keeps a flag that does not fire.
LEMMA RunKeeps ==
  ASSUME NEW in, Step(in), NEW h, Runs(h, in), StateOK(h), NEW f, Has(h, f)
  PROVE  /\ entries'[h].plan = entries[h].plan /\ entries'[h].task = entries[h].task
         /\ entries'[h].state = entries[h].state
         /\ f \notin Fired(h, in) /\ f \notin Hits(h, in) => Has(h, f)'
         /\ \A e : e \in entries'[h].flag => e \in entries[h].flag
         /\ entries'[h].flag = entries[h].flag \ (Fired(h, in) \cup Hits(h, in))
<1>1. entries[h].state \in {"FstTask", "SecTask", "Commit"} /\ entries[h].flag # {}
  BY DEF StateOK, Has, NoEntry
<1>2. CleanPos(in) # <<h>>
  BY <1>1, OutputsOf DEF Outputs
<1>3. entries'[h].state = entries[h].state
  BY <1>1, <1>2 DEF Runs, Ran
<1>4. entries'[h].state # "Free"
  BY <1>1, <1>3
<1>5. /\ entries'[h].plan = entries[h].plan /\ entries'[h].task = entries[h].task
      /\ entries'[h].flag = entries[h].flag \ (Fired(h, in) \cup Hits(h, in))
  BY <1>4 DEF Runs, Ran
<1> QED BY <1>3, <1>5 DEF Has

\* A task under way, and its entry.
LEMMA CarryKept ==
  ASSUME StageInv, NEW in, Step(in), NEW h \in Hn, Has(h, "wCmResp"), cmPipe # <<h>>
  PROVE  /\ Runs(h, in) /\ Has(h, "wCmResp")'
         /\ entries'[h].plan = entries[h].plan /\ entries'[h].task = entries[h].task
         /\ entries'[h].state = entries[h].state
         /\ ~Has(h, "sCmTask") => ~Has(h, "sCmTask")'
         /\ (\E k \in Kind : CmTaskOf(k, in) = <<h>>) => ~Has(h, "sCmTask")'
         /\ Has(h, "sCmTask") /\ ~(\E k \in Kind : CmTaskOf(k, in) = <<h>>) => Has(h, "sCmTask")'
<1>1. StateOK(h) /\ in \in CommitInputs
  BY StageParts DEF StageAt, Step
<1>2. Busy(h) /\ ~AllocHit(h)
  BY <1>1, HasBusy
<1>3. Runs(h, in)
  <2>1. ~Redoes(h, in)
    BY DEF Redoes, Lacks, Has
  <2>2. entries[h] # NoEntry
    BY <1>2 DEF Busy, NoEntry
  <2> QED BY <2>1, <2>2, EntryCase DEF Idles, Fills
<1>4. FiredAre(h, in) /\ HitsAre(h, in)
  BY <1>1, FiredOf, HitsOf
<1>5. "wCmResp" \notin Fired(h, in) /\ "wCmResp" \notin Hits(h, in) /\ "sCmTask" \notin Hits(h, in)
  BY <1>4 DEF FiredAre, HitsAre, CmHit
<1>6. "sCmTask" \in Fired(h, in) <=> \E k \in Kind : CmTaskOf(k, in) = <<h>>
  BY <1>4 DEF FiredAre
<1>7. entries'[h].flag = entries[h].flag \ (Fired(h, in) \cup Hits(h, in))
  BY <1>1, <1>3, RunKeeps
<1>8. Has(h, "wCmResp")'
  BY <1>5, <1>7 DEF Has
<1>9. /\ entries'[h].plan = entries[h].plan /\ entries'[h].task = entries[h].task
      /\ entries'[h].state = entries[h].state
  BY <1>1, <1>3, RunKeeps
<1> QED BY <1>3, <1>5, <1>6, <1>7, <1>8, <1>9 DEF Has

\* A task that is elsewhere is so after an edge that does not answer it.
LEMMA CarriedOn ==
  ASSUME StageInv, NEW in, Step(in), NEW h \in Hn, NEW k, NEW t, Carried(h, k, t), cmPipe # <<h>>
  PROVE  Carried(h, k, t)'
BY CarryKept DEF Carried

\* A task that is handed over is elsewhere from then on.
LEMMA CarriedFirst ==
  ASSUME StageInv, NEW in, Step(in), NEW h \in Hn, NEW k \in Kind, CmTaskOf(k, in) = <<h>>
  PROVE  /\ (\A t : t = CmTaskFor(h) => Carried(h, k, t)') /\ cmPipe # <<h>> /\ Has(h, "sCmTask") /\ entries[h].task = k
         /\ entries'[h].plan = entries[h].plan
<1>1. Has(h, "sCmTask") /\ entries[h].task = k
  BY OutputsOf DEF Outputs
<1>2. Has(h, "wCmResp") /\ cmPipe # <<h>>
  BY <1>1, StageParts DEF StageAt, FlagOK, PipeOK
<1>3. /\ Has(h, "wCmResp")' /\ entries'[h].plan = entries[h].plan /\ entries'[h].task = entries[h].task
      /\ ~Has(h, "sCmTask")'
  BY <1>2, CarryKept
<1>4. ASSUME NEW t, t = CmTaskFor(h) PROVE Carried(h, k, t)'
  BY <1>1, <1>3, <1>4 DEF Carried, CmTaskFor
<1> QED BY <1>1, <1>2, <1>3, <1>4

\* Where a place of transaction h comes from.
QueueOf(h, k, n) == n \in 1 .. Len(cmq[k]) /\ cmq[k][n].hn = h
PoolFrom(h, k, i, in) ==
  \/ Stayed(k, i, in) /\ InPool(h, k, i) /\ cms'[k][i].task = cms[k][i].task
  \/ Entered(k, i, in) /\ QueueOf(h, k, 1) /\ cms'[k][i].task = <<cmq[k][1]>>
PipeFrom(h, in) ==
  \E k \in Kind : \E i \in CmEntry :
    CmAnswer(in) = << <<k, i>> >> /\ InPool(h, k, i) /\ cms[k][i].state = "RespCmt"

\* A task in a pool was in it, or first in the queue.
LEMMA PoolNext ==
  ASSUME StageInv, NEW in, Step(in), NEW h \in Hn, NEW k \in Kind, NEW i \in CmEntry, InPool(h, k, i)'
  PROVE  PoolFrom(h, k, i, in)
<1>1. cms'[k][i].task # <<>> /\ cms'[k][i].task[1].hn = h
  BY DEF InPool
<1>2. PoolMove(k, i, in)
  BY StageParts, PoolStep
<1>3. ~Absent(k, i, in)
  BY <1>1 DEF Absent, NoCm
<1>4. CASE Stayed(k, i, in)
  <2>1. cms'[k][i].task = cms[k][i].task
    BY <1>4 DEF Stayed
  <2> QED BY <1>1, <1>4, <2>1 DEF InPool, PoolFrom
<1>5. CASE Entered(k, i, in)
  <2>1. cms'[k][i].task = <<Head(cmq[k])>> /\ cmq[k] # <<>>
    BY <1>5 DEF Entered
  <2>2. cmq[k] \in Seq(CmTask)
    BY StageParts DEF PlaceTypes
  <2>3. Head(cmq[k]) = cmq[k][1] /\ 1 \in 1 .. Len(cmq[k])
    <3>1. Len(cmq[k]) \in Nat \ {0}
      BY <2>1, <2>2, EmptySeq, LenProperties
    <3> QED BY <2>1, <2>2, <3>1
  <2> QED BY <1>1, <1>5, <2>1, <2>3 DEF PoolFrom, QueueOf
<1> QED BY <1>2, <1>3, <1>4, <1>5 DEF PoolMove

\* An answer comes from an entry of a pool that is done.
LEMMA PipeNext ==
  ASSUME StageInv, NEW in, Step(in), NEW h \in Hn, cmPipe' = <<h>>
  PROVE  PipeFrom(h, in)
<1>1. CmAnswer(in) # <<>> /\ cmPipe' = <<HnOf(CmAnswer(in)[1])>>
  <2>1. cmPipe' = IF CmAnswer(in) = <<>> THEN <<>> ELSE <<HnOf(CmAnswer(in)[1])>>
    BY CmNext DEF Kind
  <2> QED BY <2>1
<1>2. CmOut(CmAnswer(in), {"RespCmt"})
  BY CmOutsOf DEF CmOuts
<1>3. PICK k \in Kind, i \in CmEntry : CmAnswer(in) = << <<k, i>> >> /\ cms[k][i].state = "RespCmt"
  BY <1>1, <1>2 DEF CmOut
<1>4. HnOf(CmAnswer(in)[1]) = h
  BY <1>1, SameOne
<1>5. cms[k][i].task[1].hn = h
  BY <1>3, <1>4 DEF HnOf
<1>6. cms[k][i].task # <<>>
  <2>1. Shape(k, i)
    BY StageParts
  <2> QED BY <2>1, <1>3 DEF Shape, NoCm
<1> QED BY <1>3, <1>5, <1>6 DEF PipeFrom, InPool

\* The parts of the invariant about places, by place.
Placed(h) ==
  /\ \A k \in Kind : \A n : QueueOf(h, k, n) =>
       /\ Carried(h, k, cmq[k][n]) /\ cmPipe # <<h>>
       /\ \A m : QueueOf(h, k, m) => m = n
       /\ \A i \in CmEntry : ~InPool(h, k, i)
  /\ \A k \in Kind : \A i \in CmEntry : InPool(h, k, i) =>
       /\ Carried(h, k, cms[k][i].task[1]) /\ cmPipe # <<h>>
       /\ \A j \in CmEntry : InPool(h, k, j) => i = j
  /\ cmPipe = <<h>> => Has(h, "wCmResp") /\ ~Has(h, "sCmTask")

\* Placed is the three parts about places.
LEMMA PlacedIs ==
  ASSUME NEW h
  PROVE  Placed(h) <=> QueueOK(h) /\ PoolOK(h) /\ PipeOK(h)
BY DEF Placed, QueueOK, PoolOK, PipeOK, QueueOf

\* A task in a queue was in it, or has been handed over.
LEMMA QueueFromIs ==
  ASSUME StageInv, NEW in, Step(in), NEW h \in Hn, NEW k \in Kind, NEW n, QueueOf(h, k, n)'
  PROVE  /\ QueueFrom(h, k, n, in) /\ n \in Nat /\ n >= 1
<1>1. n \in 1 .. Len(cmq'[k]) /\ cmq'[k][n].hn = h
  BY DEF QueueOf
<1>2. PlaceTypes
  BY StageParts
<1>3. QueueFrom(cmq'[k][n].hn, k, n, in)
  BY <1>1, <1>2, QueueNext
<1>4. cmq'[k] \in Seq(CmTask)
  BY <1>2, QueueNext
<1> QED BY <1>1, <1>3, <1>4

\* A task in a queue is at no other place.
LEMMA QueuePlaced ==
  ASSUME StageInv, NEW in, Step(in), NEW h \in Hn, NEW k \in Kind, NEW n, QueueOf(h, k, n)'
  PROVE  /\ Carried(h, k, cmq[k][n])' /\ cmPipe' # <<h>>
         /\ \A m : QueueOf(h, k, m)' => m = n
         /\ \A i \in CmEntry : ~InPool(h, k, i)'
<1>1. Placed(h)
  BY StageParts, PlacedIs DEF StageAt
<1>2. QueueFrom(h, k, n, in) /\ n \in Nat /\ n >= 1
  BY QueueFromIs
<1>3. Shift(k) \in {0, 1}
  BY DEF Shift
<1>4. CASE CmTaskOf(k, in) = <<h>> /\ n = Len(cmq[k]) - Shift(k) + 1 /\ cmq'[k][n] = CmTaskFor(h)
  <2>1. \A t : t = CmTaskFor(h) => Carried(h, k, t)'
    BY <1>4, CarriedFirst
  <2>2. Has(h, "sCmTask") /\ entries[h].task = k
    BY <1>4, CarriedFirst
  <2>3. \A l \in Kind : (\A m : ~QueueOf(h, l, m)) /\ (\A i \in CmEntry : ~InPool(h, l, i))
    BY <1>1, <2>2 DEF Placed, Carried
  <2>4. Carried(h, k, cmq[k][n])'
    <3>1. ASSUME NEW t, t = cmq'[k][n] PROVE Carried(h, k, t)'
      BY <2>1, <1>4, <3>1
    <3> QED BY <3>1 DEF Carried
  <2>5. cmPipe' # <<h>>
    BY <2>3, PipeNext DEF PipeFrom
  <2>6. ASSUME NEW m, QueueOf(h, k, m)' PROVE m = n
    <3>1. QueueFrom(h, k, m, in)
      BY <2>6, QueueFromIs
    <3> QED BY <3>1, <2>3, <1>4 DEF QueueFrom, QueueOf
  <2>7. \A i \in CmEntry : ~InPool(h, k, i)'
    BY <2>3, PoolNext DEF PoolFrom
  <2> QED BY <2>4, <2>5, <2>6, <2>7
<1>5. CASE QueueOf(h, k, n + Shift(k)) /\ cmq'[k][n] = cmq[k][n + Shift(k)]
  <2>1. Carried(h, k, cmq[k][n + Shift(k)]) /\ cmPipe # <<h>>
    BY <1>1, <1>5 DEF Placed
  <2>2. ~Has(h, "sCmTask") /\ entries[h].task = k
    BY <2>1 DEF Carried
  <2>3. \A l \in Kind : l # k => (\A m : ~QueueOf(h, l, m)) /\ (\A i \in CmEntry : ~InPool(h, l, i))
    BY <1>1, <2>2 DEF Placed, Carried
  <2>4. (\A m : QueueOf(h, k, m) => m = n + Shift(k)) /\ (\A i \in CmEntry : ~InPool(h, k, i))
    BY <1>1, <1>5 DEF Placed
  <2>5. Carried(h, k, cmq[k][n])'
    <3>1. ASSUME NEW t, t = cmq'[k][n] PROVE Carried(h, k, t)'
      <4>1. Carried(h, k, t)
        BY <1>5, <2>1, <3>1
      <4> QED BY <4>1, <2>1, CarriedOn
    <3> QED BY <3>1 DEF Carried
  <2>6. cmPipe' # <<h>>
    BY <2>3, <2>4, PipeNext DEF PipeFrom
  <2>7. ASSUME NEW m, QueueOf(h, k, m)' PROVE m = n
    <3>1. QueueFrom(h, k, m, in) /\ m \in Nat
      BY <2>7, QueueFromIs
    <3>2. CmTaskOf(k, in) # <<h>>
      BY <2>2, CarriedFirst
    <3>3. QueueOf(h, k, m + Shift(k))
      BY <3>1, <3>2 DEF QueueFrom, QueueOf
    <3>4. m + Shift(k) = n + Shift(k)
      BY <3>3, <2>4
    <3> QED BY <3>1, <3>4, <1>2, <1>3
  <2>8. ASSUME NEW i \in CmEntry, InPool(h, k, i)' PROVE FALSE
    <3>1. PoolFrom(h, k, i, in)
      BY <2>8, PoolNext
    <3>2. Entered(k, i, in) /\ QueueOf(h, k, 1)
      BY <3>1, <2>4 DEF PoolFrom
    <3>3. CmAlloc(k) # <<>>
      BY <3>2 DEF Entered
    <3>4. Shift(k) = 1 /\ 1 = n + Shift(k)
      BY <3>2, <3>3, <2>4 DEF Shift
    <3> QED BY <3>4, <1>2
  <2> QED BY <2>5, <2>6, <2>7, <2>8
<1> QED BY <1>2, <1>4, <1>5 DEF QueueFrom, QueueOf

\* Nor is one in a pool.
LEMMA PoolPlaced ==
  ASSUME StageInv, NEW in, Step(in), NEW h \in Hn, NEW k \in Kind, NEW i \in CmEntry, InPool(h, k, i)'
  PROVE  /\ Carried(h, k, cms[k][i].task[1])' /\ cmPipe' # <<h>>
         /\ \A j \in CmEntry : InPool(h, k, j)' => i = j
<1>1. Placed(h)
  BY StageParts, PlacedIs DEF StageAt
<1>2. PoolFrom(h, k, i, in)
  BY PoolNext
<1>3. CASE Stayed(k, i, in) /\ InPool(h, k, i) /\ cms'[k][i].task = cms[k][i].task
  <2>1. Carried(h, k, cms[k][i].task[1]) /\ cmPipe # <<h>> /\ \A j \in CmEntry : InPool(h, k, j) => i = j
    BY <1>1, <1>3 DEF Placed
  <2>2. \A n : ~QueueOf(h, k, n)
    BY <1>1, <1>3 DEF Placed
  <2>3. \A l \in Kind : l # k => \A j \in CmEntry : ~InPool(h, l, j)
    BY <1>1, <2>1 DEF Placed, Carried
  <2>4. Carried(h, k, cms[k][i].task[1])'
    <3>1. ASSUME NEW t, t = cms'[k][i].task[1] PROVE Carried(h, k, t)'
      <4>1. Carried(h, k, t)
        BY <1>3, <2>1, <3>1
      <4> QED BY <4>1, <2>1, CarriedOn
    <3> QED BY <3>1 DEF Carried
  <2>5. cmPipe' # <<h>>
    <3>1. ASSUME cmPipe' = <<h>> PROVE FALSE
      <4>1. PipeFrom(h, in)
        BY <3>1, PipeNext
      <4>2. PICK l \in Kind, j \in CmEntry : CmAnswer(in) = << <<l, j>> >> /\ InPool(h, l, j)
        BY <4>1 DEF PipeFrom
      <4>3. l = k /\ j = i
        BY <4>2, <2>1, <2>3
      <4> QED BY <4>2, <4>3, <1>3 DEF Stayed
    <3> QED BY <3>1
  <2>6. \A j \in CmEntry : InPool(h, k, j)' => i = j
    BY <2>1, <2>2, PoolNext DEF PoolFrom
  <2> QED BY <2>4, <2>5, <2>6
<1>4. CASE Entered(k, i, in) /\ QueueOf(h, k, 1) /\ cms'[k][i].task = <<cmq[k][1]>>
  <2>1. Carried(h, k, cmq[k][1]) /\ cmPipe # <<h>> /\ \A j \in CmEntry : ~InPool(h, k, j)
    BY <1>1, <1>4 DEF Placed
  <2>2. \A l \in Kind : l # k => \A j \in CmEntry : ~InPool(h, l, j)
    BY <1>1, <2>1 DEF Placed, Carried
  <2>3. Carried(h, k, cms[k][i].task[1])'
    <3>1. ASSUME NEW t, t = cms'[k][i].task[1] PROVE Carried(h, k, t)'
      <4>1. Carried(h, k, t)
        BY <1>4, <2>1, <3>1
      <4> QED BY <4>1, <2>1, CarriedOn
    <3> QED BY <3>1 DEF Carried
  <2>4. cmPipe' # <<h>>
    BY <2>1, <2>2, PipeNext DEF PipeFrom
  <2>5. ASSUME NEW j \in CmEntry, InPool(h, k, j)' PROVE i = j
    <3>1. PoolFrom(h, k, j, in)
      BY <2>5, PoolNext
    <3>2. CmAlloc(k) = <<j>> /\ CmAlloc(k) = <<i>>
      BY <3>1, <2>1, <1>4 DEF PoolFrom, Entered
    <3> QED BY <3>2, SameOne
  <2> QED BY <2>3, <2>4, <2>5
<1> QED BY <1>2, <1>3, <1>4 DEF PoolFrom

\* A step keeps the places apart.
LEMMA PlacesKept ==
  ASSUME StageInv, NEW in, Step(in), NEW h \in Hn
  PROVE  (QueueOK(h) /\ PoolOK(h) /\ PipeOK(h))'
<1>1. cmPipe' = <<h>> => Has(h, "wCmResp")' /\ ~Has(h, "sCmTask")'
  <2>1. ASSUME cmPipe' = <<h>> PROVE Has(h, "wCmResp")' /\ ~Has(h, "sCmTask")'
    <3>1. PICK k \in Kind, i \in CmEntry : InPool(h, k, i)
      BY <2>1, PipeNext DEF PipeFrom
    <3>2. Carried(h, k, cms[k][i].task[1]) /\ cmPipe # <<h>>
      BY <3>1, StageParts, PlacedIs DEF StageAt, Placed
    <3> QED BY <3>2, CarryKept DEF Carried
  <2> QED BY <2>1
<1>2. Placed(h)'
  BY <1>1, QueuePlaced, PoolPlaced DEF Placed
<1>3. Placed(h)' <=> (QueueOK(h) /\ PoolOK(h) /\ PipeOK(h))'
  BY DEF Placed, QueueOK, PoolOK, PipeOK, QueueOf
<1> QED BY <1>2, <1>3

\* A step keeps the shape of a pool entry.
LEMMA ShapeKept ==
  ASSUME StageInv, NEW in, Step(in), NEW k \in Kind, NEW i \in CmEntry
  PROVE  Shape(k, i)'
<1>1. PoolMove(k, i, in)
  BY StageParts, PoolStep
<1>2. CASE Entered(k, i, in)
  <2>1. cms'[k][i].state = FirstOf(k) /\ cms'[k][i].task # <<>>
    BY <1>2 DEF Entered
  <2>2. FirstOf(k) \in StatesOf(k)
    BY DEF FirstOf, StatesOf, Kind
  <2> QED BY <2>1, <2>2 DEF Shape
<1>3. CASE Absent(k, i, in)
  BY <1>3 DEF Absent, Shape, NoCm
<1>4. CASE Stayed(k, i, in)
  <2>1. cms'[k][i].state = StateNext(k, i, in) /\ cms'[k][i].task = cms[k][i].task
    BY <1>4 DEF Stayed
  <2> QED BY <1>4, <2>1 DEF Stayed, Shape
<1> QED BY <1>1, <1>2, <1>3, <1>4 DEF PoolMove

CmRecord == [state : CmStates, task : Opt(CmTask), got : SUBSET ({"resp", "comp"} \cup Beats)]

\* What an entry of a pool hears has its type.
LEMMA HeardType ==
  ASSUME OutTypes, NEW in \in CommitInputs, NEW k \in Kind, NEW r
  PROVE  Heard(k, r, in) \subseteq {"resp", "comp"} \cup Beats
<1>1. CASE k = "Snp"
  <2>1. CASE Mine(r, in.dat, {"snp"})
    <3>1. in.dat # <<>> /\ in.dat[1].op = "snp"
      BY <2>1 DEF Mine
    <3>2. in.dat[1] \in due \ RspDue
      BY <3>1, Inputs, OptOne
    <3>3. in.dat[1].beat \in {0, 1, 2} /\ in.dat[1].beat # 2
      BY <3>1, <3>2, RspOrDat DEF OutTypes
    <3>4. BeatName[in.dat[1].beat] \in Beats
      BY <3>3 DEF BeatName, Beats
    <3> QED BY <1>1, <2>1, <3>4 DEF Heard, SnpHeard
  <2>2. CASE ~Mine(r, in.dat, {"snp"})
    BY <1>1, <2>2 DEF Heard, SnpHeard, If
  <2> QED BY <2>1, <2>2
<1>2. CASE k # "Snp"
  BY <1>2 DEF Heard, Kind
<1> QED BY <1>1, <1>2

\* An entry of a pool keeps its type.
LEMMA PoolType ==
  ASSUME StageInv, NEW in, Step(in), NEW k \in Kind, NEW i \in CmEntry
  PROVE  cms'[k][i] \in CmRecord
<1>1. PoolMove(k, i, in) /\ PlaceTypes /\ OutTypes /\ in \in CommitInputs
  BY StageParts, PoolStep DEF Step
<1>2. StatesOf(k) \subseteq CmStates
  BY DEF StatesOf, CmStates, Kind
<1>3. CASE Entered(k, i, in)
  <2>1. cmq[k] \in Seq(CmTask) /\ cmq[k] # <<>>
    BY <1>1, <1>3 DEF PlaceTypes, Entered
  <2>2. Head(cmq[k]) \in CmTask
    BY <2>1
  <2>3. FirstOf(k) \in CmStates /\ <<Head(cmq[k])>> \in Opt(CmTask)
    BY <2>2 DEF FirstOf, CmStates, Opt
  <2> QED BY <1>3, <2>3 DEF Entered, CmRecord
<1>4. CASE Absent(k, i, in)
  BY <1>4 DEF Absent, NoCm, CmRecord, CmStates, Opt
<1>5. CASE Stayed(k, i, in)
  <2>1. Heard(k, cms[k][i], in) \subseteq {"resp", "comp"} \cup Beats
    BY <1>1, HeardType
  <2>2. cms[k][i].task \in Opt(CmTask) /\ cms[k][i].got \subseteq {"resp", "comp"} \cup Beats
    BY <1>1 DEF PlaceTypes
  <2>3. StateNext(k, i, in) \in CmStates
    BY <1>2, <1>5 DEF Stayed
  <2>4. cms'[k][i] = [state |-> StateNext(k, i, in), task |-> cms[k][i].task,
                      got |-> cms[k][i].got \cup Heard(k, cms[k][i], in)]
    BY <1>5 DEF Stayed
  <2> QED BY <2>1, <2>2, <2>3, <2>4 DEF CmRecord
<1> QED BY <1>1, <1>3, <1>4, <1>5 DEF PoolMove

\* Queues, pools and answer keep their types.
LEMMA PlaceTypesKept ==
  ASSUME StageInv, NEW in, Step(in)
  PROVE  PlaceTypes'
<1>1. PlaceTypes
  BY StageParts
<1>2. cmq' \in [Kind -> Seq(CmTask)] /\ \A k \in Kind : Len(cmq'[k]) <= 2
  <2>1. \A k \in Kind : cmq'[k] \in Seq(CmTask) /\ Len(cmq'[k]) <= 2
    BY <1>1, QueueNext
  <2>2. cmq' = [k \in Kind |-> cmq'[k]]
    <3> DEFINE g(k) == (IF CmAlloc(k) = <<>> THEN cmq[k] ELSE Tail(cmq[k]))
               t(h) == [hn |-> h, direct |-> Direct(entries[h].plan, entries[h].task),
                        half |-> entries[h].plan.vec # {0, 1}]
               x(l) == IF CmTaskOf(l, in) = <<>> THEN <<>> ELSE <<t(CmTaskOf(l, in)[1])>>
    <3>1. CmTick(in, [l \in Kind |-> x(l)])
      BY ZenonT(30) DEF Step, CommitTick
    <3> HIDE DEF x
    <3>2. cmq' = [k \in Kind |-> g(k) \o [l \in Kind |-> x(l)][k]]
      BY <3>1 DEF CmTick
    <3> HIDE DEF g
    <3> QED BY <3>2
  <2> QED BY <2>1, <2>2
<1>3. cms' \in [Kind -> [CmEntry -> CmRecord]]
  <2>1. ASSUME NEW k \in Kind PROVE cms'[k] \in [CmEntry -> CmRecord]
    <3>1. cms'[k] = NextPool(k, in)
      BY CmNext
    <3>2. \A i \in CmEntry : cms'[k][i] \in CmRecord
      BY PoolType
    <3>3. cms'[k] = [i \in CmEntry |-> cms'[k][i]]
      BY <3>1, ZenonT(30) DEF NextPool
    <3> QED BY <3>2, <3>3
  <2>2. cms' = [k \in Kind |-> cms'[k]]
    <3>1. cms' = [k \in Kind |-> NextPool(k, in)]
      BY DEF Step, CommitTick, CmTick
    <3> QED BY <3>1
  <2> QED BY <2>1, <2>2
<1>4. cmPipe' \in Opt(Hn)
  <2>1. cmPipe' = IF CmAnswer(in) = <<>> THEN <<>> ELSE <<HnOf(CmAnswer(in)[1])>>
    BY CmNext DEF Kind
  <2>2. ASSUME CmAnswer(in) # <<>> PROVE HnOf(CmAnswer(in)[1]) \in Hn
    <3>1. PICK k \in Kind, i \in CmEntry : CmAnswer(in) = << <<k, i>> >> /\ cms[k][i].state = "RespCmt"
      BY <2>2, CmOutsOf DEF CmOuts, CmOut
    <3>2. cms[k][i].task # <<>> /\ cms[k][i].task \in Opt(CmTask)
      BY <3>1, <1>1, StageParts DEF Shape, NoCm, PlaceTypes
    <3>3. cms[k][i].task[1] \in CmTask
      BY <3>2, OptOne
    <3> QED BY <3>1, <3>3 DEF HnOf, CmTask
  <2> QED BY <2>1, <2>2 DEF Opt
<1> QED BY <1>2, <1>3, <1>4 DEF PlaceTypes, CmRecord

-----------------------------------------------------------------------------
(* What is due after an edge, by the kind of the flit.                     *)

\* What goes out for h at an edge, and what becomes due for it.
SnpSent(h, in) == TxSnp(in) # <<>> /\ HnOf(TxSnp(in)[1]) = h
ReqSent(h, k, in) == TxReq(in) # <<>> /\ HnOf(TxReq(in)[1]) = h /\ TxReq(in)[1][1] = k
IsOpened(h, in) == in.open # <<>> /\ in.open[1].hn = h
NewSnp(h, in) == IF in.reply THEN {Flit(h, "snp", b) : b \in {0, 1}} ELSE {Flit(h, "snp", 2)}
NewMem(h) == {Flit(h, "mem", b) : b \in entries[h].plan.vec}
NewWr(h, in) == IF in.reply THEN {Flit(h, "comp", 0), Flit(h, "dbid", 0)} ELSE {Flit(h, "compdbid", 0)}

SnpSentAt(h, i, in) == TxSnp(in) = << <<"Snp", i>> >> /\ InPool(h, "Snp", i) /\ cms["Snp"][i].state = "SendSnp"
ReqSentAt(h, k, i, in) == TxReq(in) = << <<k, i>> >> /\ InPool(h, k, i) /\ cms[k][i].state = "SendReq"

\* What goes out for h goes out from an entry that has a task of h.
LEMMA SentFrom ==
  ASSUME StageInv, NEW in, NEW h
  PROVE  /\ SnpSent(h, in) => \E i \in CmEntry : SnpSentAt(h, i, in)
         /\ \A k : ReqSent(h, k, in) => k \in {"Rd", "Wr"} /\ \E i \in CmEntry : ReqSentAt(h, k, i, in)
<1>0. \A k \in Kind : \A i \in CmEntry : Shape(k, i)
  BY StageParts
<1>1. ASSUME SnpSent(h, in) PROVE \E i \in CmEntry : SnpSentAt(h, i, in)
  <2>1. PICK l \in Kind, i \in CmEntry : TxSnp(in) = << <<l, i>> >> /\ cms[l][i].state = "SendSnp"
    BY <1>1, CmOutsOf DEF SnpSent, CmOuts, CmOut
  <2>2. cms[l][i].task # <<>> /\ cms[l][i].state \in StatesOf(l)
    BY <1>0, <2>1 DEF Shape, NoCm
  <2>3. l = "Snp"
    BY <2>1, <2>2 DEF StatesOf, Kind
  <2>4. cms[l][i].task[1].hn = h
    BY <1>1, <2>1 DEF SnpSent, HnOf
  <2> QED BY <2>1, <2>2, <2>3, <2>4 DEF SnpSentAt, InPool
<1>2. ASSUME NEW k, ReqSent(h, k, in)
      PROVE  k \in {"Rd", "Wr"} /\ \E i \in CmEntry : ReqSentAt(h, k, i, in)
  <2>1. PICK l \in Kind, i \in CmEntry : TxReq(in) = << <<l, i>> >> /\ cms[l][i].state = "SendReq"
    BY <1>2, CmOutsOf DEF ReqSent, CmOuts, CmOut
  <2>2. cms[l][i].task # <<>> /\ cms[l][i].state \in StatesOf(l)
    BY <1>0, <2>1 DEF Shape, NoCm
  <2>3. l \in {"Rd", "Wr"}
    BY <2>1, <2>2 DEF StatesOf, Kind
  <2>4. cms[l][i].task[1].hn = h /\ l = k
    BY <1>2, <2>1 DEF ReqSent, HnOf
  <2> QED BY <2>1, <2>2, <2>3, <2>4 DEF ReqSentAt, InPool
<1> QED BY <1>1, <1>2

\* What is due after an edge: the rest, and what the five senders add.
LEMMA DueNext ==
  ASSUME NEW in, Step(in)
  PROVE  due' = (due \ Came(in)) \cup AfterTxSnp(in) \cup AfterTxReq(in) \cup AfterTxRsp(in) \cup AfterData(in)
                \cup AfterOpen(in)
<1>1. CommitEnv(in)
  BY DEF Step
<1>2. due' = (due \ ({in.rsp[n] : n \in DOMAIN in.rsp} \cup {in.dat[n] : n \in DOMAIN in.dat}))
             \cup AfterTxSnp(in) \cup AfterTxReq(in) \cup AfterTxRsp(in) \cup AfterData(in) \cup AfterOpen(in)
  BY <1>1, ZenonT(60) DEF CommitEnv
<1> QED BY <1>2 DEF Came

\* What an ack is.
LEMMA AckIs ==
  ASSUME NEW h, NEW p, NEW m \in Acks(h, p)
  PROVE  m = Flit(h, "ack", 0) /\ p.ack /\ ~WriteData(p) /\ m.hn = h /\ m.op = "ack" /\ m.beat = 0
BY DEF Acks, If, Flit

\* What a beat of write data is.
LEMMA BeatIs ==
  ASSUME NEW h, NEW p, NEW m \in WriteBeats(h, p)
  PROVE  /\ m = Flit(h, IF p.ack /\ ~p.copy THEN "wrack" ELSE "wr", m.beat) /\ m.beat \in p.vec
         /\ m.hn = h /\ m.op \in {"wr", "wrack"}
<1>1. PICK b \in p.vec : m = Flit(h, IF p.ack /\ ~p.copy THEN "wrack" ELSE "wr", b)
  BY DEF WriteBeats
<1> QED BY <1>1 DEF Flit

\* What the flits are that the machines make due.
LEMMA NewIs ==
  ASSUME NEW h, NEW in
  PROVE  /\ \A m \in NewSnp(h, in) : m.hn = h /\ m.op = "snp" /\ (m.beat \in {0, 1} \/ m.beat = 2)
         /\ \A m \in NewMem(h) : m.hn = h /\ m.op = "mem" /\ m.beat \in entries[h].plan.vec
         /\ \A m \in NewWr(h, in) : m.hn = h /\ m.op \in {"comp", "dbid", "compdbid"} /\ m.beat = 0
BY DEF NewSnp, NewMem, NewWr, Flit

\* What a snoop makes due: its responses, and an ack when it answers.
LEMMA AfterSnpIs ==
  ASSUME NEW in
  PROVE  /\ \A m \in AfterTxSnp(in) :
              \E h : SnpSent(h, in) /\ (m \in NewSnp(h, in) \/ (Direct(entries[h].plan, "Snp") /\ m \in Acks(h, entries[h].plan)))
         /\ \A h : SnpSent(h, in) => NewSnp(h, in) \subseteq AfterTxSnp(in)
<1>1. CASE TxSnp(in) = <<>>
  BY <1>1 DEF AfterTxSnp, SnpSent
<1>2. CASE TxSnp(in) # <<>>
  <2> DEFINE h == HnOf(TxSnp(in)[1])
             p == entries[h].plan
  <2>1. AfterTxSnp(in) = NewSnp(h, in) \cup (IF Direct(p, "Snp") THEN Acks(h, p) ELSE {})
    BY <1>2, ZenonT(30) DEF AfterTxSnp, NewSnp
  <2>2. \A g : SnpSent(g, in) <=> g = h
    BY <1>2 DEF SnpSent
  <2> HIDE DEF h
  <2> QED BY <2>1, <2>2
<1> QED BY <1>1, <1>2

\* What a request makes due, by read and write.
LEMMA AfterReqIs ==
  ASSUME StageInv, NEW in
  PROVE  /\ \A m \in AfterTxReq(in) : \E h :
              \/ ReqSent(h, "Wr", in) /\ m \in NewWr(h, in)
              \/ ReqSent(h, "Rd", in) /\ ~cms["Rd"][TxReq(in)[1][2]].task[1].direct /\ m \in NewMem(h)
              \/ ReqSent(h, "Rd", in) /\ cms["Rd"][TxReq(in)[1][2]].task[1].direct /\ m \in Acks(h, entries[h].plan)
         /\ \A h : ReqSent(h, "Wr", in) => NewWr(h, in) \subseteq AfterTxReq(in)
         /\ \A h : ReqSent(h, "Rd", in) /\ ~cms["Rd"][TxReq(in)[1][2]].task[1].direct => NewMem(h) \subseteq AfterTxReq(in)
<1>1. CASE TxReq(in) = <<>>
  BY <1>1 DEF AfterTxReq, ReqSent
<1>2. CASE TxReq(in) # <<>>
  <2> DEFINE c == TxReq(in)[1]
             h == HnOf(c)
             p == entries[h].plan
  <2>1. AfterTxReq(in) = IF c[1] = "Wr" THEN NewWr(h, in)
                         ELSE IF cms[c[1]][c[2]].task[1].direct THEN Acks(h, p) ELSE NewMem(h)
    BY <1>2, ZenonT(30) DEF AfterTxReq, NewWr, NewMem
  <2>2. \A g, k : ReqSent(g, k, in) <=> g = h /\ k = c[1]
    BY <1>2 DEF ReqSent
  <2>3. ReqSent(h, c[1], in)
    BY <2>2
  <2> HIDE DEF h
  <2>4. c[1] \in {"Rd", "Wr"}
    BY <2>3, SentFrom
  <2>5. CASE c[1] = "Wr"
    BY <2>1, <2>2, <2>5
  <2>6. CASE c[1] = "Rd"
    BY <2>1, <2>2, <2>6
  <2> QED BY <2>4, <2>5, <2>6
<1> QED BY <1>1, <1>2

\* What a response makes due: an ack, or the beats of a write.
LEMMA AfterRspIs ==
  ASSUME NEW in, NEW m \in AfterTxRsp(in)
  PROVE  \E h \in Hn : TxRsp(in) = <<h>> /\ IF Has(h, "sResp") THEN m \in Acks(h, entries[h].plan)
                                           ELSE m \in WriteBeats(h, entries[h].plan)
<1>1. TxRsp(in) # <<>>
  BY DEF AfterTxRsp
<1>2. TxRsp(in) \in Opt({h \in Hn : ~Lacks(h, {"sDbid", "sResp"}) /\ Lacks(h, {"sReqDB"})})
  BY ServedOne DEF TxRsp
<1>3. TxRsp(in)[1] \in Hn /\ TxRsp(in) = <<TxRsp(in)[1]>>
  BY <1>1, <1>2, OptOne
<1>4. PICK h \in Hn : TxRsp(in) = <<h>> /\ h = TxRsp(in)[1]
  BY <1>3
<1>5. IF Has(h, "sResp") THEN m \in Acks(h, entries[h].plan) ELSE m \in WriteBeats(h, entries[h].plan)
  BY <1>1, <1>4, ZenonT(30) DEF AfterTxRsp
<1> QED BY <1>4, <1>5

\* What data for the requester make due: an ack.
LEMMA AfterDataIs ==
  ASSUME NEW in, NEW m \in AfterData(in)
  PROVE  \E h \in Hn : DataTaskOf(in) = <<h>> /\ entries[h].plan.rsp = "DAT" /\ m \in Acks(h, entries[h].plan)
<1>1. DataTaskOf(in) # <<>>
  BY DEF AfterData
<1>2. DataTaskOf(in) \in Opt({h \in Hn : Has(h, "sDataTask") /\ entries[h].db})
  BY ServedOne DEF DataTaskOf
<1>3. DataTaskOf(in)[1] \in Hn /\ DataTaskOf(in) = <<DataTaskOf(in)[1]>>
  BY <1>1, <1>2, OptOne
<1>4. PICK h \in Hn : DataTaskOf(in) = <<h>> /\ h = DataTaskOf(in)[1]
  BY <1>3
<1>5. entries[h].plan.rsp = "DAT" /\ m \in Acks(h, entries[h].plan)
  BY <1>1, <1>4, ZenonT(30) DEF AfterData
<1> QED BY <1>4, <1>5

\* What an answer of the front end makes due.
LEMMA AfterOpenIs ==
  ASSUME NEW in, NEW m \in AfterOpen(in)
  PROVE  /\ in.open # <<>>
         /\ \/ in.open[1].plan.alr = "data" /\ m \in Acks(in.open[1].hn, in.open[1].plan)
            \/ in.open[1].plan.alr = "dbid" /\ m \in WriteBeats(in.open[1].hn, in.open[1].plan)
BY DEF AfterOpen

\* The answers of an edge, one by one.
AnswersAre(h, in) ==
  LET p == entries[h].plan
  IN /\ AnswersNow(h, in) \subseteq {"rsp", "dat", "fwd", "dmt"}
     /\ "rsp" \in AnswersNow(h, in) <=> TxRsp(in) = <<h>> /\ (Has(h, "sResp") \/ p.copy)
     /\ "dat" \in AnswersNow(h, in) <=> DataTaskOf(in) = <<h>> /\ p.rsp = "DAT"
     /\ "fwd" \in AnswersNow(h, in) <=> SnpSent(h, in) /\ Direct(p, "Snp")
     /\ "dmt" \in AnswersNow(h, in) <=> \E k : ReqSent(h, k, in) /\ Direct(p, k)

\* AnswersNow, one answer after the other.
LEMMA AnswersOf ==
  ASSUME NEW in, NEW h
  PROVE  AnswersAre(h, in)
<1> DEFINE p == entries[h].plan
           a == TxRsp(in) = <<h>> /\ (Has(h, "sResp") \/ p.copy)
           b == DataTaskOf(in) = <<h>> /\ p.rsp = "DAT"
           c == (TxSnp(in) # <<>> /\ HnOf(TxSnp(in)[1]) = h) /\ Direct(p, "Snp")
           d == (TxReq(in) # <<>> /\ HnOf(TxReq(in)[1]) = h) /\ Direct(p, TxReq(in)[1][1])
<1>1. AnswersNow(h, in) = If(a, "rsp") \cup If(b, "dat") \cup If(c, "fwd") \cup If(d, "dmt")
  BY ZenonT(30) DEF AnswersNow
<1>2. c <=> SnpSent(h, in) /\ Direct(p, "Snp")
  BY DEF SnpSent
<1>3. d <=> \E k : ReqSent(h, k, in) /\ Direct(p, k)
  BY DEF ReqSent
<1> HIDE DEF a, b, c, d
<1>4. /\ AnswersNow(h, in) \subseteq {"rsp", "dat", "fwd", "dmt"}
      /\ "rsp" \in AnswersNow(h, in) <=> a
      /\ "dat" \in AnswersNow(h, in) <=> b
      /\ "fwd" \in AnswersNow(h, in) <=> c
      /\ "dmt" \in AnswersNow(h, in) <=> d
  BY <1>1 DEF If
<1> QED BY <1>2, <1>3, <1>4 DEF a, b, AnswersAre

AckFrom(h, in, m) ==
  \/ AnswersNow(h, in) # {} /\ m \in Acks(h, entries[h].plan)
  \/ IsOpened(h, in) /\ in.open[1].plan.alr = "data" /\ m \in Acks(h, in.open[1].plan)
BeatFrom(h, in, m) ==
  \/ TxRsp(in) = <<h>> /\ ~Has(h, "sResp") /\ m \in WriteBeats(h, entries[h].plan)
  \/ IsOpened(h, in) /\ in.open[1].plan.alr = "dbid" /\ m \in WriteBeats(h, in.open[1].plan)
\* A read that brings its data to the home node goes out.
MemSent(h, in) == ReqSent(h, "Rd", in) /\ ~cms["Rd"][TxReq(in)[1][2]].task[1].direct

\* Where a flit comes from that was not due before the edge.
DueFrom(m, in) ==
  \/ m.op = "snp" /\ SnpSent(m.hn, in) /\ m \in NewSnp(m.hn, in)
  \/ m.op = "mem" /\ MemSent(m.hn, in) /\ m \in NewMem(m.hn)
  \/ m.op \in {"comp", "dbid", "compdbid"} /\ ReqSent(m.hn, "Wr", in) /\ m \in NewWr(m.hn, in)
  \/ m.op = "ack" /\ AckFrom(m.hn, in, m)
  \/ m.op \in {"wr", "wrack"} /\ BeatFrom(m.hn, in, m)

\* A flit that is due was due, or was made due by the one who waits for it.
LEMMA DueOrigin ==
  ASSUME StageInv, NEW in, Step(in), NEW m \in due'
  PROVE  (m \in due /\ m \notin Came(in)) \/ DueFrom(m, in)
<1>1. CASE m \in AfterTxSnp(in)
  <2>1. PICK h : SnpSent(h, in) /\ (m \in NewSnp(h, in) \/ (Direct(entries[h].plan, "Snp") /\ m \in Acks(h, entries[h].plan)))
    BY <1>1, AfterSnpIs
  <2>2. CASE m \in NewSnp(h, in)
    BY <2>1, <2>2, NewIs DEF DueFrom
  <2>3. CASE Direct(entries[h].plan, "Snp") /\ m \in Acks(h, entries[h].plan)
    <3>1. "fwd" \in AnswersNow(h, in)
      BY <2>1, <2>3, AnswersOf DEF AnswersAre
    <3>2. m.hn = h /\ m.op = "ack"
      BY <2>3, AckIs
    <3> QED BY <2>3, <3>1, <3>2 DEF DueFrom, AckFrom
  <2> QED BY <2>1, <2>2, <2>3
<1>2. CASE m \in AfterTxReq(in)
  <2>1. PICK h :
              \/ ReqSent(h, "Wr", in) /\ m \in NewWr(h, in)
              \/ ReqSent(h, "Rd", in) /\ ~cms["Rd"][TxReq(in)[1][2]].task[1].direct /\ m \in NewMem(h)
              \/ ReqSent(h, "Rd", in) /\ cms["Rd"][TxReq(in)[1][2]].task[1].direct /\ m \in Acks(h, entries[h].plan)
    BY <1>2, AfterReqIs
  <2>2. CASE ReqSent(h, "Wr", in) /\ m \in NewWr(h, in)
    BY <2>2, NewIs DEF DueFrom
  <2>3. CASE ReqSent(h, "Rd", in) /\ ~cms["Rd"][TxReq(in)[1][2]].task[1].direct /\ m \in NewMem(h)
    BY <2>3, NewIs DEF DueFrom, MemSent
  <2>4. CASE ReqSent(h, "Rd", in) /\ cms["Rd"][TxReq(in)[1][2]].task[1].direct /\ m \in Acks(h, entries[h].plan)
    <3>1. PICK i \in CmEntry : ReqSentAt(h, "Rd", i, in)
      BY <2>4, SentFrom
    <3>2. TxReq(in)[1][2] = i /\ InPool(h, "Rd", i)
      BY <3>1 DEF ReqSentAt
    <3>3. h \in Hn
      <4>1. PlaceTypes
        BY StageParts
      <4>2. cms["Rd"][i].task \in Opt(CmTask) /\ cms["Rd"][i].task # <<>>
        BY <3>2, <4>1 DEF PlaceTypes, InPool, Kind
      <4>3. cms["Rd"][i].task[1] \in CmTask
        BY <4>2, OptOne
      <4> QED BY <3>2, <4>3 DEF InPool, CmTask
    <3>4. Carried(h, "Rd", cms["Rd"][i].task[1])
      BY <3>2, <3>3, StageParts DEF StageAt, PoolOK, Kind
    <3>5. Direct(entries[h].plan, "Rd")
      BY <2>4, <3>2, <3>4 DEF Carried
    <3>6. "dmt" \in AnswersNow(h, in)
      BY <2>4, <3>5, AnswersOf DEF AnswersAre
    <3>7. m.hn = h /\ m.op = "ack"
      BY <2>4, AckIs
    <3> QED BY <2>4, <3>6, <3>7 DEF DueFrom, AckFrom
  <2> QED BY <2>1, <2>2, <2>3, <2>4
<1>3. CASE m \in AfterTxRsp(in)
  <2>1. PICK h \in Hn : TxRsp(in) = <<h>> /\ IF Has(h, "sResp") THEN m \in Acks(h, entries[h].plan)
                                           ELSE m \in WriteBeats(h, entries[h].plan)
    BY <1>3, AfterRspIs
  <2>2. CASE Has(h, "sResp")
    <3>1. "rsp" \in AnswersNow(h, in)
      BY <2>1, <2>2, AnswersOf DEF AnswersAre
    <3>2. m.hn = h /\ m.op = "ack"
      BY <2>1, <2>2, AckIs
    <3> QED BY <2>1, <2>2, <3>1, <3>2 DEF DueFrom, AckFrom
  <2>3. CASE ~Has(h, "sResp")
    <3>2. m.hn = h /\ m.op \in {"wr", "wrack"}
      BY <2>1, <2>3, BeatIs
    <3> QED BY <2>1, <2>3, <3>2 DEF DueFrom, BeatFrom
  <2> QED BY <2>2, <2>3
<1>4. CASE m \in AfterData(in)
  <2>1. PICK h \in Hn : DataTaskOf(in) = <<h>> /\ entries[h].plan.rsp = "DAT" /\ m \in Acks(h, entries[h].plan)
    BY <1>4, AfterDataIs
  <2>2. "dat" \in AnswersNow(h, in)
    BY <2>1, AnswersOf DEF AnswersAre
  <2>3. m.hn = h /\ m.op = "ack"
    BY <2>1, AckIs
  <2> QED BY <2>1, <2>2, <2>3 DEF DueFrom, AckFrom
<1>5. CASE m \in AfterOpen(in)
  <2>1. CASE in.open[1].plan.alr = "data" /\ m \in Acks(in.open[1].hn, in.open[1].plan)
    <3>1. in.open # <<>> /\ m.hn = in.open[1].hn /\ m.op = "ack"
      BY <1>5, <2>1, AckIs, AfterOpenIs
    <3> QED BY <2>1, <3>1 DEF DueFrom, AckFrom, IsOpened
  <2>2. CASE in.open[1].plan.alr = "dbid" /\ m \in WriteBeats(in.open[1].hn, in.open[1].plan)
    <3>1. in.open # <<>> /\ m.hn = in.open[1].hn /\ m.op \in {"wr", "wrack"}
      BY <1>5, <2>2, BeatIs, AfterOpenIs
    <3> QED BY <2>2, <3>1 DEF DueFrom, BeatFrom, IsOpened
  <2> QED BY <1>5, <2>1, <2>2, AfterOpenIs
<1> QED BY <1>1, <1>2, <1>3, <1>4, <1>5, DueNext

\* What the channel machines wait for.
ForeignDue(h, in) ==
  /\ Of(h, {"snp"})' = (Of(h, {"snp"}) \ Came(in)) \cup (IF SnpSent(h, in) THEN NewSnp(h, in) ELSE {})
  /\ Of(h, {"mem"})' = (Of(h, {"mem"}) \ Came(in)) \cup (IF MemSent(h, in) THEN NewMem(h) ELSE {})
  /\ Of(h, {"comp", "dbid", "compdbid"})' =
       (Of(h, {"comp", "dbid", "compdbid"}) \ Came(in)) \cup (IF ReqSent(h, "Wr", in) THEN NewWr(h, in) ELSE {})

\* What is due for the machines after an edge.
LEMMA ForeignNext ==
  ASSUME StageInv, NEW in, Step(in), NEW h
  PROVE  ForeignDue(h, in)
<1>0. due \ Came(in) \subseteq due'
  BY DueNext
<1>1. /\ SnpSent(h, in) => NewSnp(h, in) \subseteq due'
      /\ MemSent(h, in) => NewMem(h) \subseteq due'
      /\ ReqSent(h, "Wr", in) => NewWr(h, in) \subseteq due'
  BY DueNext, AfterSnpIs, AfterReqIs DEF MemSent
<1>2. Of(h, {"snp"})' = (Of(h, {"snp"}) \ Came(in)) \cup (IF SnpSent(h, in) THEN NewSnp(h, in) ELSE {})
  <2>1. ASSUME NEW m \in due', m.hn = h, m.op = "snp"
        PROVE  (m \in due /\ m \notin Came(in)) \/ (SnpSent(h, in) /\ m \in NewSnp(h, in))
    BY <2>1, DueOrigin DEF DueFrom
  <2> QED BY <1>0, <1>1, <2>1, NewIs DEF Of
<1>3. Of(h, {"mem"})' = (Of(h, {"mem"}) \ Came(in)) \cup (IF MemSent(h, in) THEN NewMem(h) ELSE {})
  <2>1. ASSUME NEW m \in due', m.hn = h, m.op = "mem"
        PROVE  (m \in due /\ m \notin Came(in)) \/ (MemSent(h, in) /\ m \in NewMem(h))
    BY <2>1, DueOrigin DEF DueFrom
  <2> DEFINE N == IF MemSent(h, in) THEN NewMem(h) ELSE {}
             O == Of(h, {"mem"}) \ Came(in)
             Q == Of(h, {"mem"})'
  <2>2. N \subseteq Q
    <3>1. \A m \in N : m \in due' /\ m.hn = h /\ m.op \in {"mem"}
      BY <1>1, NewIs
    <3> QED BY <3>1 DEF Of
  <2>3. O \subseteq Q
    BY <1>0 DEF Of
  <2>4. \A m \in Q : m \in O \/ m \in N
    <3>1. \A m \in Q : m \in due' /\ m.hn = h /\ m.op = "mem"
      BY DEF Of
    <3> QED BY <3>1, <2>1 DEF Of
  <2> HIDE DEF N, O, Q
  <2>5. Q = O \cup N
    BY <2>2, <2>3, <2>4
  <2> QED BY <2>5 DEF N, O, Q
<1>4. Of(h, {"comp", "dbid", "compdbid"})' =
       (Of(h, {"comp", "dbid", "compdbid"}) \ Came(in)) \cup (IF ReqSent(h, "Wr", in) THEN NewWr(h, in) ELSE {})
  <2>1. ASSUME NEW m \in due', m.hn = h, m.op \in {"comp", "dbid", "compdbid"}
        PROVE  (m \in due /\ m \notin Came(in)) \/ (ReqSent(h, "Wr", in) /\ m \in NewWr(h, in))
    BY <2>1, DueOrigin DEF DueFrom
  <2> DEFINE N == IF ReqSent(h, "Wr", in) THEN NewWr(h, in) ELSE {}
             O == Of(h, {"comp", "dbid", "compdbid"}) \ Came(in)
             Q == Of(h, {"comp", "dbid", "compdbid"})'
  <2>2. N \subseteq Q
    <3>1. \A m \in N : m \in due' /\ m.hn = h /\ m.op \in {"comp", "dbid", "compdbid"}
      BY <1>1, NewIs
    <3> QED BY <3>1 DEF Of
  <2>3. O \subseteq Q
    BY <1>0 DEF Of
  <2>4. \A m \in Q : m \in O \/ m \in N
    <3>1. \A m \in Q : m \in due' /\ m.hn = h /\ m.op \in {"comp", "dbid", "compdbid"}
      BY DEF Of
    <3> QED BY <3>1, <2>1 DEF Of
  <2> HIDE DEF N, O, Q
  <2>5. Q = O \cup N
    BY <2>2, <2>3, <2>4
  <2> QED BY <2>5 DEF N, O, Q
<1> QED BY <1>2, <1>3, <1>4 DEF ForeignDue

-----------------------------------------------------------------------------
(* The exchanges of the channel machines.                                  *)

\* A task that enters a pool finds nothing due of its kind, nor is anything sent.
LEMMA EnteredClean ==
  ASSUME StageInv, NEW in, Step(in), NEW h \in Hn, NEW k \in Kind, NEW i \in CmEntry, Entered(k, i, in), QueueOf(h, k, 1)
  PROVE  /\ Of(h, OpsOf(k)) = {} /\ (\A l \in Kind, j \in CmEntry : ~InPool(h, l, j))
         /\ ~SnpSent(h, in) /\ \A l : ~ReqSent(h, l, in)
<1>1. Placed(h) /\ ForeignOK(h)
  BY StageParts, PlacedIs DEF StageAt
<1>2. Carried(h, k, cmq[k][1]) /\ \A j \in CmEntry : ~InPool(h, k, j)
  BY <1>1 DEF Placed
<1>3. \A l \in Kind : \A j \in CmEntry : ~InPool(h, l, j)
  BY <1>1, <1>2 DEF Placed, Carried
<1>4. Of(h, OpsOf(k)) = {}
  BY <1>1, <1>3 DEF ForeignOK
<1>5. ~SnpSent(h, in)
  BY <1>3, SentFrom DEF SnpSentAt, Kind
<1>6. \A l : ~ReqSent(h, l, in)
  BY <1>3, SentFrom DEF ReqSentAt, Kind
<1> QED BY <1>3, <1>4, <1>5, <1>6

\* What is sent for h is sent by the entry of h.
LEMMA SentBy ==
  ASSUME StageInv, NEW in, NEW h \in Hn, NEW k \in Kind, NEW i \in CmEntry, InPool(h, k, i)
  PROVE  /\ k = "Snp" => (SnpSent(h, in) <=> TxSnp(in) = << <<k, i>> >>)
         /\ k # "Snp" => (ReqSent(h, k, in) <=> TxReq(in) = << <<k, i>> >>)
         /\ k # "Snp" => ~SnpSent(h, in)
         /\ \A l : l # k => ~ReqSent(h, l, in)
         /\ TxSnp(in) = << <<k, i>> >> => cms[k][i].state = "SendSnp"
         /\ TxReq(in) = << <<k, i>> >> => cms[k][i].state = "SendReq"
<1>1. Placed(h)
  BY StageParts, PlacedIs DEF StageAt
<1>2. \A l \in Kind : \A j \in CmEntry : InPool(h, l, j) => l = k /\ j = i
  BY <1>1 DEF Placed, Carried
<1>3. cms[k][i].task[1].hn = h /\ <<k, i>>[1] = k /\ <<k, i>>[2] = i
  BY DEF InPool
<1>4. SnpSent(h, in) => k = "Snp" /\ TxSnp(in) = << <<k, i>> >>
  BY <1>2, SentFrom DEF SnpSentAt, Kind
<1>5. \A l : ReqSent(h, l, in) => l = k /\ TxReq(in) = << <<k, i>> >> /\ k # "Snp"
  <2>1. ASSUME NEW l, ReqSent(h, l, in) PROVE l = k /\ TxReq(in) = << <<k, i>> >> /\ k # "Snp"
    <3>1. l \in {"Rd", "Wr"}
      BY <2>1, SentFrom
    <3>2. PICK j \in CmEntry : ReqSentAt(h, l, j, in)
      BY <2>1, SentFrom
    <3>3. l = k /\ j = i
      BY <1>2, <3>1, <3>2 DEF ReqSentAt, Kind
    <3> QED BY <3>1, <3>2, <3>3 DEF ReqSentAt
  <2> QED BY <2>1
<1>6. TxSnp(in) = << <<k, i>> >> => SnpSent(h, in)
  BY <1>3 DEF SnpSent, HnOf
<1>7. TxReq(in) = << <<k, i>> >> => ReqSent(h, k, in)
  BY <1>3 DEF ReqSent, HnOf
<1>8. TxSnp(in) = << <<k, i>> >> => cms[k][i].state = "SendSnp"
  <2>1. ASSUME TxSnp(in) = << <<k, i>> >> PROVE cms[k][i].state = "SendSnp"
    <3>1. PICK j \in CmEntry : SnpSentAt(h, j, in)
      BY <1>6, <2>1, SentFrom
    <3>2. j = i /\ k = "Snp"
      BY <1>2, <3>1 DEF SnpSentAt, Kind
    <3> QED BY <3>1, <3>2 DEF SnpSentAt
  <2> QED BY <2>1
<1>9. TxReq(in) = << <<k, i>> >> => cms[k][i].state = "SendReq"
  <2>1. ASSUME TxReq(in) = << <<k, i>> >> PROVE cms[k][i].state = "SendReq"
    <3>1. PICK j \in CmEntry : ReqSentAt(h, k, j, in)
      BY <1>7, <2>1, SentFrom
    <3>2. j = i
      BY <1>2, <3>1 DEF ReqSentAt
    <3> QED BY <3>1, <3>2 DEF ReqSentAt
  <2> QED BY <2>1
<1> QED BY <1>4, <1>5, <1>6, <1>7, <1>8, <1>9

\* What an entry r of transaction h hears.
MineAre(h, r, ops, in) ==
  /\ Mine(r, in.dat, ops) => in.dat[1] \in Came(in) /\ in.dat[1] \in Of(h, ops) /\ in.dat[1] \notin RspDue
  /\ Mine(r, in.rsp, ops) => in.rsp[1] \in Came(in) /\ in.rsp[1] \in Of(h, ops) /\ in.rsp[1] \in RspDue
  /\ \A m \in Of(h, ops) : m \in Came(in) /\ m \notin RspDue => Mine(r, in.dat, ops) /\ in.dat[1] = m
  /\ \A m \in Of(h, ops) : m \in Came(in) /\ m \in RspDue => Mine(r, in.rsp, ops) /\ in.rsp[1] = m

\* An entry of a pool hears the flits of its transaction, and no others.
LEMMA MineIs ==
  ASSUME NEW in \in CommitInputs, NEW h, NEW r, r.task # <<>>, r.task[1].hn = h, NEW ops
  PROVE  MineAre(h, r, ops, in)
<1>1. Arrived(h, in)
  BY ArrivedIs
<1>2. in.dat \in Opt(due \ RspDue) /\ in.rsp \in Opt(RspDue)
  BY Inputs
<1>3. Mine(r, in.dat, ops) => in.dat[1] \in Came(in) /\ in.dat[1] \in Of(h, ops) /\ in.dat[1] \notin RspDue
  <2>1. ASSUME Mine(r, in.dat, ops) PROVE in.dat[1] \in Came(in) /\ in.dat[1] \in Of(h, ops) /\ in.dat[1] \notin RspDue
    <3>1. in.dat # <<>> /\ in.dat[1].hn = h /\ in.dat[1].op \in ops
      BY <2>1 DEF Mine
    <3>2. in.dat[1] \in due \ RspDue /\ in.dat = <<in.dat[1]>>
      BY <3>1, <1>2, OptOne
    <3> QED BY <3>1, <3>2, <1>1 DEF Arrived, Of
  <2> QED BY <2>1
<1>4. Mine(r, in.rsp, ops) => in.rsp[1] \in Came(in) /\ in.rsp[1] \in Of(h, ops) /\ in.rsp[1] \in RspDue
  <2>1. ASSUME Mine(r, in.rsp, ops) PROVE in.rsp[1] \in Came(in) /\ in.rsp[1] \in Of(h, ops) /\ in.rsp[1] \in RspDue
    <3>1. in.rsp # <<>> /\ in.rsp[1].hn = h /\ in.rsp[1].op \in ops
      BY <2>1 DEF Mine
    <3>2. in.rsp[1] \in RspDue /\ in.rsp = <<in.rsp[1]>>
      BY <3>1, <1>2, OptOne
    <3> QED BY <3>1, <3>2, <1>1 DEF Arrived, Of, RspDue
  <2> QED BY <2>1
<1>5. ASSUME NEW m \in Of(h, ops), m \in Came(in), m \notin RspDue PROVE Mine(r, in.dat, ops) /\ in.dat[1] = m
  <2>1. in.dat = <<m>>
    BY <1>1, <1>5 DEF Arrived
  <2>2. m.hn = h /\ m.op \in ops /\ in.dat # <<>> /\ in.dat[1] = m
    BY <2>1 DEF Of
  <2> QED BY <2>2 DEF Mine
<1>6. ASSUME NEW m \in Of(h, ops), m \in Came(in), m \in RspDue PROVE Mine(r, in.rsp, ops) /\ in.rsp[1] = m
  <2>1. in.rsp = <<m>>
    BY <1>1, <1>6 DEF Arrived
  <2>2. m.hn = h /\ m.op \in ops /\ in.rsp # <<>> /\ in.rsp[1] = m
    BY <2>1 DEF Of
  <2> QED BY <2>2 DEF Mine
<1> QED BY <1>3, <1>4, <1>5, <1>6 DEF MineAre

\* When a snoop has heard all.
LEMMA SnpDoneOf ==
  /\ ~SnpDone({}) /\ SnpDone({"resp"}) /\ ~SnpDone({"resp", "beat0"}) /\ ~SnpDone({"resp", "beat1"})
  /\ SnpDone({"resp", "beat0", "beat1"})
<1>1. {"resp"} \cap Beats = {} /\ {"resp", "beat0"} \cap Beats = {"beat0"} /\ {"resp", "beat1"} \cap Beats = {"beat1"}
      /\ {"resp", "beat0", "beat1"} \cap Beats = {"beat0", "beat1"}
  BY DEF Beats
<1>2. Cardinality({}) = 0 /\ Cardinality({"beat0"}) = 1 /\ Cardinality({"beat1"}) = 1
  BY FS_EmptySet, FS_Singleton
<1>3. Cardinality({"beat0", "beat1"}) = 2
  BY PairCard
<1> QED BY <1>1, <1>2, <1>3 DEF SnpDone

\* What a snoop hears, by what comes.
LEMMA SnpHears ==
  ASSUME NEW in \in CommitInputs, NEW h, NEW r, r.task # <<>>, r.task[1].hn = h
  PROVE  /\ (\A m \in Of(h, {"snp"}) : m \notin Came(in)) => SnpHeard(r, in) = {}
         /\ \A m \in Of(h, {"snp"}) : m \in Came(in) /\ m.beat # 2 => SnpHeard(r, in) = {"resp", BeatName[m.beat]}
         /\ (\A m \in Of(h, {"snp"}) : m.beat = 2) /\ (\E m \in Of(h, {"snp"}) : m \in Came(in)) => SnpHeard(r, in) = {"resp"}
<1>0. \A m \in Of(h, {"snp"}) : m \in RspDue <=> m.beat = 2
  BY RspOrDat DEF Of
<1>1. MineAre(h, r, {"snp"}, in)
  BY MineIs
<1>2. ASSUME \A m \in Of(h, {"snp"}) : m \notin Came(in) PROVE SnpHeard(r, in) = {}
  <2>1. ~Mine(r, in.dat, {"snp"}) /\ ~Mine(r, in.rsp, {"snp"})
    BY <1>1, <1>2 DEF MineAre
  <2> QED BY <2>1 DEF SnpHeard, If
<1>3. ASSUME NEW m \in Of(h, {"snp"}), m \in Came(in), m.beat # 2 PROVE SnpHeard(r, in) = {"resp", BeatName[m.beat]}
  <2>1. Mine(r, in.dat, {"snp"}) /\ in.dat[1] = m
    BY <1>0, <1>1, <1>3 DEF MineAre
  <2> QED BY <2>1 DEF SnpHeard
<1>4. ASSUME \A m \in Of(h, {"snp"}) : m.beat = 2, NEW n \in Of(h, {"snp"}), n \in Came(in) PROVE SnpHeard(r, in) = {"resp"}
  <2>1. ~Mine(r, in.dat, {"snp"}) /\ Mine(r, in.rsp, {"snp"})
    BY <1>0, <1>1, <1>4 DEF MineAre
  <2> QED BY <2>1 DEF SnpHeard, If
<1> QED BY <1>2, <1>3, <1>4

\* Two beats, or a response, and how an entry comes to have heard all.
SnpWaits(h, g, D) ==
  IF SnpDone(g) THEN D = {}
  ELSE \/ g = {} /\ (D = {Flit(h, "snp", 0), Flit(h, "snp", 1)} \/ D = {Flit(h, "snp", 2)})
       \/ g = {"resp", "beat0"} /\ D = {Flit(h, "snp", 1)}
       \/ g = {"resp", "beat1"} /\ D = {Flit(h, "snp", 0)}

\* A snoop that waits goes on to wait for the rest.
LEMMA SnpWait ==
  ASSUME NEW in \in CommitInputs, NEW h, NEW r, r.task # <<>>, r.task[1].hn = h, r.state = "WaitResp", SnpDue(h, r)
  PROVE  SnpWaits(h, r.got \cup SnpHeard(r, in), Of(h, {"snp"}) \ Came(in))
<1> DEFINE D == Of(h, {"snp"}) \ Came(in)
           g == r.got \cup SnpHeard(r, in)
<1> DEFINE O == Of(h, {"snp"})
           f0 == Flit(h, "snp", 0)
           f1 == Flit(h, "snp", 1)
           f2 == Flit(h, "snp", 2)
           C == Came(in)
<1>1. f0.beat = 0 /\ f1.beat = 1 /\ f2.beat = 2 /\ BeatName[0] = "beat0" /\ BeatName[1] = "beat1"
  BY DEF Flit, BeatName
<1>2. /\ (\A m \in O : m \notin C) => SnpHeard(r, in) = {}
      /\ \A m \in O : m \in C /\ m.beat # 2 => SnpHeard(r, in) = {"resp", BeatName[m.beat]}
      /\ (\A m \in O : m.beat = 2) /\ (\E m \in O : m \in C) => SnpHeard(r, in) = {"resp"}
  BY SnpHears
<1>3. \/ r.got = {} /\ (O = {f0, f1} \/ O = {f2})
      \/ r.got = {"resp", "beat0"} /\ O = {f1}
      \/ r.got = {"resp", "beat1"} /\ O = {f0}
  BY DEF SnpDue
<1>4. D = O \ C
  OBVIOUS
<1>g. g = r.got \cup SnpHeard(r, in)
  OBVIOUS
<1> SUFFICES SnpWaits(h, g, D)
  OBVIOUS
<1> HIDE DEF O, f0, f1, f2, C, D, g
<1>5. f0 # f1
  BY <1>1
<1>6. CASE r.got = {} /\ O = {f0, f1}
  <2>1. CASE f0 \in C
    <3>1. SnpHeard(r, in) = {"resp", "beat0"}
      BY <1>1, <1>2, <1>6, <2>1
    <3>2. g = {"resp", "beat0"} /\ f1 \notin C
      <4>1. f1 \in C => SnpHeard(r, in) = {"resp", "beat1"}
        BY <1>1, <1>2, <1>6
      <4> QED BY <3>1, <4>1, <1>6, <1>g
    <3>3. D = {f1}
      BY <1>4, <1>g, <1>6, <2>1, <3>2
    <3> QED BY <3>2, <3>3, SnpDoneOf DEF SnpWaits, f1
  <2>2. CASE f0 \notin C /\ f1 \in C
    <3>1. SnpHeard(r, in) = {"resp", "beat1"}
      BY <1>1, <1>2, <1>6, <2>2
    <3>2. g = {"resp", "beat1"} /\ D = {f0}
      BY <1>4, <1>g, <1>6, <2>2, <3>1
    <3> QED BY <3>2, SnpDoneOf DEF SnpWaits, f0
  <2>3. CASE f0 \notin C /\ f1 \notin C
    <3>1. SnpHeard(r, in) = {}
      BY <1>2, <1>6, <2>3
    <3>2. g = {} /\ D = {f0, f1}
      BY <1>4, <1>g, <1>6, <2>3, <3>1
    <3> QED BY <3>2, SnpDoneOf DEF SnpWaits, f0, f1
  <2> QED BY <2>1, <2>2, <2>3
<1>7. CASE r.got = {} /\ O = {f2}
  <2>1. CASE f2 \in C
    <3>1. SnpHeard(r, in) = {"resp"}
      BY <1>1, <1>2, <1>7, <2>1
    <3>2. g = {"resp"} /\ D = {}
      BY <1>4, <1>g, <1>7, <2>1, <3>1
    <3> QED BY <3>2, SnpDoneOf DEF SnpWaits
  <2>2. CASE f2 \notin C
    <3>1. SnpHeard(r, in) = {}
      BY <1>2, <1>7, <2>2
    <3>2. g = {} /\ D = {f2}
      BY <1>4, <1>g, <1>7, <2>2, <3>1
    <3> QED BY <3>2, SnpDoneOf DEF SnpWaits, f2
  <2> QED BY <2>1, <2>2
<1>8. CASE r.got = {"resp", "beat0"} /\ O = {f1}
  <2>1. CASE f1 \in C
    <3>1. SnpHeard(r, in) = {"resp", "beat1"}
      BY <1>1, <1>2, <1>8, <2>1
    <3>2. g = {"resp", "beat0", "beat1"} /\ D = {}
      BY <1>4, <1>g, <1>8, <2>1, <3>1
    <3> QED BY <3>2, SnpDoneOf DEF SnpWaits
  <2>2. CASE f1 \notin C
    <3>1. SnpHeard(r, in) = {}
      BY <1>2, <1>8, <2>2
    <3>2. g = {"resp", "beat0"} /\ D = {f1}
      BY <1>4, <1>g, <1>8, <2>2, <3>1
    <3> QED BY <3>2, SnpDoneOf DEF SnpWaits, f1
  <2> QED BY <2>1, <2>2
<1>9. CASE r.got = {"resp", "beat1"} /\ O = {f0}
  <2>1. CASE f0 \in C
    <3>1. SnpHeard(r, in) = {"resp", "beat0"}
      BY <1>1, <1>2, <1>9, <2>1
    <3>2. g = {"resp", "beat0", "beat1"} /\ D = {}
      BY <1>4, <1>g, <1>9, <2>1, <3>1
    <3> QED BY <3>2, SnpDoneOf DEF SnpWaits
  <2>2. CASE f0 \notin C
    <3>1. SnpHeard(r, in) = {}
      BY <1>2, <1>9, <2>2
    <3>2. g = {"resp", "beat1"} /\ D = {f0}
      BY <1>4, <1>g, <1>9, <2>2, <3>1
    <3> QED BY <3>2, SnpDoneOf DEF SnpWaits, f0
  <2> QED BY <2>1, <2>2
<1> QED BY <1>3, <1>6, <1>7, <1>8, <1>9

\* SnpDue with the flits that are due in D, likewise below.
SnpState(h, r, D) ==
  /\ r.state = "SendSnp" => r.got = {}
  /\ r.state = "WaitResp" =>
       \/ r.got = {} /\ (D = {Flit(h, "snp", 0), Flit(h, "snp", 1)} \/ D = {Flit(h, "snp", 2)})
       \/ r.got = {"resp", "beat0"} /\ D = {Flit(h, "snp", 1)}
       \/ r.got = {"resp", "beat1"} /\ D = {Flit(h, "snp", 0)}
  /\ r.state # "WaitResp" => D = {}

\* A step keeps SnpDue.
LEMMA SnpKept ==
  ASSUME StageInv, NEW in, Step(in), NEW h \in Hn, NEW i \in CmEntry, InPool(h, "Snp", i)'
  PROVE  SnpState(h, cms'["Snp"][i], Of(h, {"snp"})')
<1> DEFINE r == cms["Snp"][i]
           D == Of(h, {"snp"})
           C == Came(in)
           s == cms'["Snp"][i]
           E == Of(h, {"snp"})'
<1>0. in \in CommitInputs /\ "Snp" \in Kind
  BY DEF Step, Kind
<1>1. PoolFrom(h, "Snp", i, in)
  BY <1>0, PoolNext
<1>2. E = (D \ C) \cup (IF SnpSent(h, in) THEN NewSnp(h, in) ELSE {})
  BY ForeignNext DEF ForeignDue
<1>3. CASE Entered("Snp", i, in) /\ QueueOf(h, "Snp", 1)
  <2>1. D = {} /\ ~SnpSent(h, in)
    BY <1>0, <1>3, EnteredClean DEF OpsOf
  <2>2. s.state = "SendSnp" /\ s.got = {}
    BY <1>3 DEF Entered, FirstOf
  <2> HIDE DEF D, E, s
  <2>3. E = {}
    BY <1>2, <2>1
  <2>4. SnpState(h, s, E)
    BY <2>2, <2>3 DEF SnpState
  <2> QED BY <2>4 DEF s, E
<1>4. CASE Stayed("Snp", i, in) /\ InPool(h, "Snp", i)
  <2>1. r.task # <<>> /\ r.task[1].hn = h /\ r.state \in {"SendSnp", "WaitResp", "RespCmt"}
    BY <1>4 DEF InPool, Stayed, StatesOf
  <2>2. SnpDue(h, r)
    BY <1>0, <1>4, StageParts DEF StageAt, ForeignOK
  <2>3. /\ s.state = NextSnpState(i, in) /\ s.got = r.got \cup SnpHeard(r, in)
        /\ CmAnswer(in) # << <<"Snp", i>> >>
    BY <1>0, <1>4 DEF Stayed, StateNext, Heard
  <2>4. /\ SnpSent(h, in) <=> TxSnp(in) = << <<"Snp", i>> >>
        /\ TxSnp(in) = << <<"Snp", i>> >> => r.state = "SendSnp"
    BY <1>0, <1>4, SentBy
  <2>5. (\A m \in D : m \notin C) => SnpHeard(r, in) = {}
    BY <1>0, <2>1, SnpHears
  <2>6. CASE r.state = "SendSnp"
    <3>1. D = {} /\ r.got = {}
      BY <2>2, <2>6 DEF SnpDue
    <3>2. s.got = {}
      BY <2>3, <2>5, <3>1
    <3>3. s.state = IF SnpSent(h, in) THEN "WaitResp" ELSE "SendSnp"
      BY <2>3, <2>4, <2>6 DEF NextSnpState, To
    <3>4. NewSnp(h, in) = {Flit(h, "snp", 0), Flit(h, "snp", 1)} \/ NewSnp(h, in) = {Flit(h, "snp", 2)}
      BY DEF NewSnp
    <3> HIDE DEF D, E, s
    <3>5. E = IF SnpSent(h, in) THEN NewSnp(h, in) ELSE {}
      BY <1>2, <3>1
    <3>6. SnpState(h, s, E)
      BY <3>2, <3>3, <3>4, <3>5 DEF SnpState
    <3> QED BY <3>6 DEF s, E
  <2>7. CASE r.state = "WaitResp"
    <3>1. s.state = IF SnpDone(s.got) THEN "RespCmt" ELSE "WaitResp"
      BY <2>3, <2>7 DEF NextSnpState, To
    <3>2. E = D \ C
      BY <1>2, <2>4, <2>7
    <3>3. SnpWaits(h, r.got \cup SnpHeard(r, in), D \ C)
      BY <1>0, <2>1, <2>2, <2>7, SnpWait
    <3> HIDE DEF D, E, s, r, C
    <3>4. SnpWaits(h, s.got, E)
      BY <2>3, <3>2, <3>3
    <3>5. SnpState(h, s, E)
      BY <3>1, <3>4 DEF SnpState, SnpWaits
    <3> QED BY <3>5 DEF s, E
  <2>8. CASE r.state = "RespCmt"
    <3>1. D = {}
      BY <2>2, <2>8 DEF SnpDue
    <3>2. s.state = "RespCmt"
      BY <2>3, <2>8 DEF NextSnpState, To
    <3> HIDE DEF D, E, s
    <3>3. E = {}
      BY <1>2, <2>4, <2>8, <3>1
    <3>4. SnpState(h, s, E)
      BY <3>2, <3>3 DEF SnpState
    <3> QED BY <3>4 DEF s, E
  <2> QED BY <2>1, <2>6, <2>7, <2>8
<1> QED BY <1>1, <1>3, <1>4 DEF PoolFrom

RdState(h, r, D, vec) ==
  /\ r.state = "WaitData0" => D = {Flit(h, "mem", b) : b \in vec}
  /\ r.state = "WaitData1" => ~r.task[1].half /\ \E b \in {0, 1} : D = {Flit(h, "mem", b)}
  /\ r.state \notin {"WaitData0", "WaitData1"} => D = {}

\* One beat at most comes, and the entry hears of it.
LEMMA RdHears ==
  ASSUME NEW in \in CommitInputs, NEW h, NEW r, r.task # <<>>, r.task[1].hn = h
  PROVE  /\ RdHeard(r, in) = {} => Of(h, {"mem"}) \ Came(in) = Of(h, {"mem"})
         /\ RdHeard(r, in) # {} => \E m \in Of(h, {"mem"}) : Of(h, {"mem"}) \ Came(in) = Of(h, {"mem"}) \ {m}
<1>0. \A m \in Of(h, {"mem"}) : m \notin RspDue
  BY RspOrDat DEF Of
<1>1. MineAre(h, r, {"mem"}, in)
  BY MineIs
<1>2. RdHeard(r, in) # {} <=> Mine(r, in.dat, {"mem"})
  BY DEF RdHeard, If
<1>3. ASSUME RdHeard(r, in) = {} PROVE Of(h, {"mem"}) \ Came(in) = Of(h, {"mem"})
  BY <1>0, <1>1, <1>2, <1>3 DEF MineAre
<1>4. ASSUME RdHeard(r, in) # {} PROVE \E m \in Of(h, {"mem"}) : Of(h, {"mem"}) \ Came(in) = Of(h, {"mem"}) \ {m}
  <2>1. in.dat[1] \in Of(h, {"mem"}) /\ in.dat[1] \in Came(in)
    BY <1>1, <1>2, <1>4 DEF MineAre
  <2>2. \A m \in Of(h, {"mem"}) : m \in Came(in) => m = in.dat[1]
    BY <1>0, <1>1 DEF MineAre
  <2> HIDE <1>0, <1>1
  <2>3. Of(h, {"mem"}) \ Came(in) = Of(h, {"mem"}) \ {in.dat[1]}
    BY <2>1, <2>2
  <2> QED BY <2>1, <2>3
<1> QED BY <1>3, <1>4

\* A step keeps RdDue.
LEMMA RdKept ==
  ASSUME StageInv, NEW in, Step(in), NEW h \in Hn, NEW i \in CmEntry, InPool(h, "Rd", i)'
  PROVE  RdState(h, cms'["Rd"][i], Of(h, {"mem"})', entries'[h].plan.vec)
<1> DEFINE r == cms["Rd"][i]
           D == Of(h, {"mem"})
           C == Came(in)
           s == cms'["Rd"][i]
           E == Of(h, {"mem"})'
           v == entries'[h].plan.vec
<1>0. in \in CommitInputs /\ "Rd" \in Kind
  BY DEF Step, Kind
<1>1. PoolFrom(h, "Rd", i, in)
  BY <1>0, PoolNext
<1>2. E = (D \ C) \cup (IF MemSent(h, in) THEN NewMem(h) ELSE {})
  BY ForeignNext DEF ForeignDue
<1>3. CASE Entered("Rd", i, in) /\ QueueOf(h, "Rd", 1)
  <2>1. D = {} /\ ~MemSent(h, in)
    BY <1>0, <1>3, EnteredClean DEF OpsOf, MemSent
  <2>2. s.state = "SendReq"
    BY <1>3 DEF Entered, FirstOf
  <2> HIDE DEF D, E, s
  <2>3. E = {}
    BY <1>2, <2>1
  <2>4. RdState(h, s, E, v)
    BY <2>2, <2>3 DEF RdState
  <2> QED BY <2>4 DEF s, E
<1>4. CASE Stayed("Rd", i, in) /\ InPool(h, "Rd", i)
  <2>1. r.task # <<>> /\ r.task[1].hn = h /\ r.state \in {"SendReq", "WaitData0", "WaitData1", "RespCmt"}
    BY <1>4 DEF InPool, Stayed, StatesOf
  <2>2. RdDue(h, r)
    BY <1>0, <1>4, StageParts DEF StageAt, ForeignOK
  <2>3. s.state = NextRdState(i, in) /\ s.task = r.task /\ CmAnswer(in) # << <<"Rd", i>> >>
    BY <1>0, <1>4 DEF Stayed, StateNext
  <2>4. /\ ReqSent(h, "Rd", in) <=> TxReq(in) = << <<"Rd", i>> >>
        /\ TxReq(in) = << <<"Rd", i>> >> => r.state = "SendReq"
    BY <1>0, <1>4, SentBy
  <2>5. MemSent(h, in) <=> TxReq(in) = << <<"Rd", i>> >> /\ ~r.task[1].direct
    BY <2>4 DEF MemSent
  <2>6. /\ RdHeard(r, in) = {} => D \ C = D
        /\ RdHeard(r, in) # {} => \E m \in D : D \ C = D \ {m}
    BY <1>0, <2>1, RdHears
  <2>7. Carried(h, "Rd", r.task[1]) /\ cmPipe # <<h>> /\ StateOK(h)
    BY <1>0, <1>4, StageParts DEF StageAt, PoolOK
  <2>8. v = entries[h].plan.vec
    BY <2>7, CarryKept DEF Carried
  <2>9. v \subseteq {0, 1} /\ v # {} /\ (r.task[1].half <=> v # {0, 1})
    <3>1. entries[h].plan \in Rows
      BY <2>7, HasBusy DEF Carried, StateOK, Busy
    <3>2. RowOK(entries[h].plan)
      BY <3>1, RowFacts
    <3> QED BY <2>7, <2>8, <3>2 DEF Carried, RowOK
  <2>10. CASE r.state = "SendReq"
    <3>1. D = {}
      BY <2>2, <2>10 DEF RdDue
    <3>2. s.state = IF TxReq(in) = << <<"Rd", i>> >> THEN (IF r.task[1].direct THEN "RespCmt" ELSE "WaitData0") ELSE "SendReq"
      BY <2>3, <2>10 DEF NextRdState, To
    <3>3. NewMem(h) = {Flit(h, "mem", b) : b \in v}
      BY <2>8 DEF NewMem
    <3> HIDE DEF D, E, s, v
    <3>4. E = IF MemSent(h, in) THEN NewMem(h) ELSE {}
      BY <1>2, <3>1
    <3>5. RdState(h, s, E, v)
      BY <2>5, <3>2, <3>3, <3>4 DEF RdState
    <3> QED BY <3>5 DEF s, E, v
  <2>11. CASE r.state = "WaitData0"
    <3>1. D = {Flit(h, "mem", b) : b \in v}
      BY <2>2, <2>8, <2>11 DEF RdDue
    <3>2. s.state = IF RdHeard(r, in) # {} THEN (IF r.task[1].half THEN "RespCmt" ELSE "WaitData1") ELSE "WaitData0"
      BY <2>3, <2>11 DEF NextRdState, To
    <3>3. E = D \ C
      BY <1>2, <2>5, <2>4, <2>11
    <3>4. Flit(h, "mem", 0) # Flit(h, "mem", 1)
      <4>1. Flit(h, "mem", 0).beat = 0 /\ Flit(h, "mem", 1).beat = 1
        BY DEF Flit
      <4> QED BY <4>1
    <3> DEFINE f(b) == Flit(h, "mem", b)
               half == s.task[1].half
    <3>5. r.task[1].half <=> half
      BY <2>3
    <3>6. ASSUME RdHeard(r, in) # {} PROVE RdState(h, s, E, v)
      <4>1. PICK m \in D : D \ C = D \ {m}
        BY <2>6, <3>6
      <4>2. CASE half
        <5>1. \E b \in {0, 1} : v = {b}
          BY <2>9, <3>5, <4>2
        <5>2. E = {} /\ s.state = "RespCmt"
          BY <5>1, <4>1, <3>1, <3>2, <3>3, <3>5, <3>6, <4>2
        <5> QED BY <5>2 DEF RdState
      <4>3. CASE ~half
        <5>1. v = {0, 1}
          BY <2>9, <3>5, <4>3
        <5>2. D = {f(0), f(1)}
          BY <3>1, <5>1
        <5>3. \E b \in {0, 1} : E = {f(b)}
          <6> HIDE DEF D, E
          <6>1. CASE m = f(0)
            BY <3>3, <3>4, <4>1, <5>2, <6>1
          <6>2. CASE m = f(1)
            BY <3>3, <3>4, <4>1, <5>2, <6>2
          <6> QED BY <4>1, <5>2, <6>1, <6>2
        <5>4. s.state = "WaitData1"
          BY <3>2, <3>5, <3>6, <4>3
        <5> QED BY <5>3, <5>4, <4>3 DEF RdState
      <4> QED BY <4>2, <4>3
    <3>7. ASSUME RdHeard(r, in) = {} PROVE RdState(h, s, E, v)
      <4>1. E = D /\ s.state = "WaitData0"
        BY <2>6, <3>2, <3>3, <3>7
      <4> QED BY <4>1, <3>1 DEF RdState
    <3> QED BY <3>6, <3>7
  <2>12. CASE r.state = "WaitData1"
    <3>1. PICK b \in {0, 1} : D = {Flit(h, "mem", b)}
      BY <2>2, <2>12 DEF RdDue
    <3>2. s.state = IF RdHeard(r, in) # {} THEN "RespCmt" ELSE "WaitData1"
      BY <2>3, <2>12 DEF NextRdState, To
    <3>3. E = D \ C /\ ~r.task[1].half
      BY <1>2, <2>2, <2>5, <2>4, <2>12 DEF RdDue
    <3>4. E = IF RdHeard(r, in) # {} THEN {} ELSE {Flit(h, "mem", b)}
      <4> HIDE DEF D, E, C, r
      <4> QED BY <2>6, <3>1, <3>3
    <3> QED BY <2>3, <3>2, <3>3, <3>4 DEF RdState
  <2>13. CASE r.state = "RespCmt"
    <3>1. D = {}
      BY <2>2, <2>13 DEF RdDue
    <3>2. s.state = "RespCmt"
      BY <2>3, <2>13 DEF NextRdState, To
    <3>3. ~MemSent(h, in)
      BY <2>4, <2>5, <2>13
    <3> HIDE DEF D, E, s, v
    <3>4. E = {}
      BY <1>2, <3>1, <3>3
    <3>5. RdState(h, s, E, v)
      BY <3>2, <3>4 DEF RdState
    <3> QED BY <3>5 DEF s, E, v
  <2> QED BY <2>1, <2>10, <2>11, <2>12, <2>13
<1> QED BY <1>1, <1>3, <1>4 DEF PoolFrom

WrState(h, r, D) ==
  /\ r.state = "SendReq" => r.got = {} /\ D = {}
  /\ r.state = "WaitDbid" =>
       \/ r.got = {} /\ (D = {Flit(h, "comp", 0), Flit(h, "dbid", 0)} \/ D = {Flit(h, "compdbid", 0)})
       \/ r.got = {"comp"} /\ D = {Flit(h, "dbid", 0)}
  /\ r.state \in {"DataTask", "WaitData", "RespCmt"} =>
       \/ r.got = {} /\ D = {Flit(h, "comp", 0)}
       \/ r.got = {"comp"} /\ D = {}

WrOps == {"comp", "dbid", "compdbid"}

\* One response at most comes to a write, and the entry hears of it.
LEMMA WrHears ==
  ASSUME NEW in \in CommitInputs, NEW h, NEW r, r.task # <<>>, r.task[1].hn = h
  PROVE  \/ WrHeard(r, in) = {} /\ Of(h, WrOps) \ Came(in) = Of(h, WrOps)
         \/ \E m \in Of(h, WrOps) :
              /\ Of(h, WrOps) \ Came(in) = Of(h, WrOps) \ {m}
              /\ "dbid" \in WrHeard(r, in) <=> m.op \in {"dbid", "compdbid"}
              /\ "comp" \in WrHeard(r, in) <=> m.op \in {"comp", "compdbid"}
<1>0. \A m \in Of(h, WrOps) : m \in RspDue
  BY RspOrDat DEF Of, WrOps
<1>1. MineAre(h, r, WrOps, in)
  BY MineIs
<1>2. /\ Mine(r, in.rsp, {"dbid", "compdbid"}) <=> Mine(r, in.rsp, WrOps) /\ in.rsp[1].op \in {"dbid", "compdbid"}
      /\ Mine(r, in.rsp, {"comp", "compdbid"}) <=> Mine(r, in.rsp, WrOps) /\ in.rsp[1].op \in {"comp", "compdbid"}
  BY DEF Mine, WrOps
<1>3. CASE Mine(r, in.rsp, WrOps)
  <2>1. in.rsp[1] \in Of(h, WrOps) /\ in.rsp[1] \in Came(in)
    BY <1>1, <1>3 DEF MineAre
  <2>2. \A m \in Of(h, WrOps) : m \in Came(in) => m = in.rsp[1]
    BY <1>0, <1>1 DEF MineAre
  <2>3. /\ "dbid" \in WrHeard(r, in) <=> in.rsp[1].op \in {"dbid", "compdbid"}
        /\ "comp" \in WrHeard(r, in) <=> in.rsp[1].op \in {"comp", "compdbid"}
    BY <1>2, <1>3 DEF WrHeard, If
  <2> HIDE <1>0, <1>1, <1>2
  <2>4. Of(h, WrOps) \ Came(in) = Of(h, WrOps) \ {in.rsp[1]}
    BY <2>1, <2>2
  <2> QED BY <2>1, <2>3, <2>4
<1>4. CASE ~Mine(r, in.rsp, WrOps)
  <2>1. \A m \in Of(h, WrOps) : m \notin Came(in)
    BY <1>0, <1>1, <1>4 DEF MineAre
  <2>2. WrHeard(r, in) = {}
    BY <1>2, <1>4 DEF WrHeard, If
  <2> QED BY <2>1, <2>2
<1> QED BY <1>3, <1>4

\* A write r that has sent nothing at an edge, s after it, and E due for it.
WrMoves(h, r, s, E, in) ==
  /\ r.task # <<>> /\ r.task[1].hn = h /\ WrDue(h, r)
  /\ r.state \in {"SendReq", "WaitDbid", "DataTask", "WaitData", "RespCmt"}
  /\ s.got = r.got \cup (WrHeard(r, in) \cap {"comp"}) /\ E = Of(h, WrOps) \ Came(in)
  /\ r.state = "SendReq" => s.state = "SendReq"
  /\ r.state = "WaitDbid" => s.state = (IF "dbid" \in WrHeard(r, in) THEN "DataTask" ELSE "WaitDbid")
  /\ r.state \in {"DataTask", "WaitData", "RespCmt"} => s.state \in {"DataTask", "WaitData", "RespCmt"}

\* A write that waits goes on to wait for the rest.
LEMMA WrWait ==
  ASSUME NEW in \in CommitInputs, NEW h, NEW r, NEW s, NEW E, WrMoves(h, r, s, E, in)
  PROVE  WrState(h, s, E)
<1> DEFINE O == Of(h, WrOps)
           fc == Flit(h, "comp", 0)
           fd == Flit(h, "dbid", 0)
           fb == Flit(h, "compdbid", 0)
           H == WrHeard(r, in)
<1>1. fc.op = "comp" /\ fd.op = "dbid" /\ fb.op = "compdbid"
  BY DEF Flit
<1>2. \/ H = {} /\ E = O
      \/ \E m \in O : /\ E = O \ {m}
                      /\ "dbid" \in H <=> m.op \in {"dbid", "compdbid"}
                      /\ "comp" \in H <=> m.op \in {"comp", "compdbid"}
  BY WrHears DEF WrMoves
<1>3. WrState(h, r, O)
  BY DEF WrDue, WrState, WrOps, WrMoves
<1>4. s.got = r.got \cup (H \cap {"comp"})
      /\ (r.state = "WaitDbid" => s.state = (IF "dbid" \in H THEN "DataTask" ELSE "WaitDbid"))
      /\ (r.state = "SendReq" => s.state = "SendReq")
      /\ r.state \in {"SendReq", "WaitDbid", "DataTask", "WaitData", "RespCmt"}
      /\ (r.state \in {"DataTask", "WaitData", "RespCmt"} => s.state \in {"DataTask", "WaitData", "RespCmt"})
  BY DEF WrMoves
<1> HIDE DEF O, H
<1>5. CASE r.state = "SendReq"
  <2>1. O = {} /\ r.got = {}
    BY <1>3, <1>5 DEF WrState
  <2>2. H = {} /\ E = {}
    BY <1>2, <2>1
  <2> QED BY <1>4, <1>5, <2>1, <2>2 DEF WrState
<1>6. CASE r.state = "WaitDbid"
  <2>1. CASE H = {} /\ E = O
    BY <1>3, <1>4, <1>6, <2>1 DEF WrState
  <2>2. ASSUME NEW m \in O, E = O \ {m}, "dbid" \in H <=> m.op \in {"dbid", "compdbid"},
               "comp" \in H <=> m.op \in {"comp", "compdbid"}
        PROVE  WrState(h, s, E)
    <3>1. CASE r.got = {} /\ O = {fc, fd}
      <4>1. CASE m = fc
        <5>1. E = {fd} /\ s.got = {"comp"} /\ s.state = "WaitDbid"
          BY <1>1, <1>4, <1>6, <2>2, <3>1, <4>1
        <5> QED BY <5>1 DEF WrState
      <4>2. CASE m = fd
        <5>1. E = {fc} /\ s.got = {} /\ s.state = "DataTask"
          BY <1>1, <1>4, <1>6, <2>2, <3>1, <4>2
        <5> QED BY <5>1 DEF WrState
      <4> QED BY <2>2, <3>1, <4>1, <4>2
    <3>2. CASE r.got = {} /\ O = {fb}
      <4>1. E = {} /\ s.got = {"comp"} /\ s.state = "DataTask"
        BY <1>1, <1>4, <1>6, <2>2, <3>2
      <4> QED BY <4>1 DEF WrState
    <3>3. CASE r.got = {"comp"} /\ O = {fd}
      <4>1. E = {} /\ s.got = {"comp"} /\ s.state = "DataTask"
        BY <1>1, <1>4, <1>6, <2>2, <3>3
      <4> QED BY <4>1 DEF WrState
    <3> QED BY <1>3, <1>6, <3>1, <3>2, <3>3 DEF WrState
  <2> QED BY <1>2, <2>1, <2>2
<1>7. CASE r.state \in {"DataTask", "WaitData", "RespCmt"}
  <2>1. CASE r.got = {} /\ O = {fc}
    <3>1. (E = {fc} /\ s.got = {}) \/ (E = {} /\ s.got = {"comp"})
      BY <1>1, <1>2, <1>4, <2>1
    <3> QED BY <3>1, <1>4, <1>7 DEF WrState
  <2>2. CASE r.got = {"comp"} /\ O = {}
    <3>1. E = {} /\ s.got = {"comp"}
      BY <1>2, <1>4, <2>2
    <3> QED BY <3>1, <1>4, <1>7 DEF WrState
  <2> QED BY <1>3, <1>7, <2>1, <2>2 DEF WrState
<1> QED BY <1>4, <1>5, <1>6, <1>7

\* A step keeps WrDue.
LEMMA WrKept ==
  ASSUME StageInv, NEW in, Step(in), NEW h \in Hn, NEW i \in CmEntry, InPool(h, "Wr", i)'
  PROVE  WrState(h, cms'["Wr"][i], Of(h, WrOps)')
<1> DEFINE r == cms["Wr"][i]
           D == Of(h, WrOps)
           C == Came(in)
           s == cms'["Wr"][i]
           E == Of(h, WrOps)'
<1>0. in \in CommitInputs /\ "Wr" \in Kind
  BY DEF Step, Kind
<1>1. PoolFrom(h, "Wr", i, in)
  BY <1>0, PoolNext
<1>2. E = (D \ C) \cup (IF ReqSent(h, "Wr", in) THEN NewWr(h, in) ELSE {})
  BY ForeignNext DEF ForeignDue, WrOps
<1>3. CASE Entered("Wr", i, in) /\ QueueOf(h, "Wr", 1)
  <2>1. D = {} /\ ~ReqSent(h, "Wr", in)
    BY <1>0, <1>3, EnteredClean DEF OpsOf, WrOps
  <2>2. s.state = "SendReq" /\ s.got = {}
    BY <1>3 DEF Entered, FirstOf
  <2> HIDE DEF D, E, s
  <2>3. E = {}
    BY <1>2, <2>1
  <2>4. WrState(h, s, E)
    BY <2>2, <2>3 DEF WrState
  <2> QED BY <2>4 DEF s, E
<1>4. CASE Stayed("Wr", i, in) /\ InPool(h, "Wr", i)
  <2>1. r.task # <<>> /\ r.task[1].hn = h /\ r.state \in {"SendReq", "WaitDbid", "DataTask", "WaitData", "RespCmt"}
    BY <1>4 DEF InPool, Stayed, StatesOf
  <2>2. WrDue(h, r)
    BY <1>0, <1>4, StageParts DEF StageAt, ForeignOK
  <2>3. /\ s.state = NextWrState(i, in) /\ s.got = r.got \cup (WrHeard(r, in) \cap {"comp"})
        /\ CmAnswer(in) # << <<"Wr", i>> >>
    BY <1>0, <1>4 DEF Stayed, StateNext, Heard
  <2>4. /\ ReqSent(h, "Wr", in) <=> TxReq(in) = << <<"Wr", i>> >>
        /\ TxReq(in) = << <<"Wr", i>> >> => r.state = "SendReq"
    BY <1>0, <1>4, SentBy
  <2>5. CASE ReqSent(h, "Wr", in)
    <3>1. r.state = "SendReq" /\ s.state = "WaitDbid"
      BY <2>3, <2>4, <2>5 DEF NextWrState, To
    <3>2. D = {} /\ r.got = {}
      BY <2>2, <3>1 DEF WrDue, WrOps
    <3>3. WrHeard(r, in) = {}
      BY <1>0, <2>1, <3>2, WrHears
    <3>4. NewWr(h, in) = {Flit(h, "comp", 0), Flit(h, "dbid", 0)} \/ NewWr(h, in) = {Flit(h, "compdbid", 0)}
      BY DEF NewWr
    <3>5. s.got = {}
      BY <2>3, <3>2, <3>3
    <3> HIDE DEF D, E, s
    <3>6. E = NewWr(h, in)
      BY <1>2, <2>5, <3>2
    <3>7. WrState(h, s, E)
      BY <3>1, <3>4, <3>5, <3>6 DEF WrState
    <3> QED BY <3>7 DEF s, E
  <2>6. CASE ~ReqSent(h, "Wr", in)
    <3>1. E = D \ C
      BY <1>2, <2>6
    <3>2. /\ r.state = "SendReq" => s.state = "SendReq"
          /\ r.state = "WaitDbid" => s.state = (IF "dbid" \in WrHeard(r, in) THEN "DataTask" ELSE "WaitDbid")
          /\ r.state \in {"DataTask", "WaitData", "RespCmt"} => s.state \in {"DataTask", "WaitData", "RespCmt"}
      BY <2>3, <2>4, <2>6 DEF NextWrState, To
    <3>3. WrMoves(h, r, s, E, in)
      BY <2>1, <2>2, <2>3, <3>1, <3>2 DEF WrMoves
    <3> HIDE DEF r, s, E
    <3>4. WrState(h, s, E)
      BY <1>0, <3>3, WrWait
    <3> QED BY <3>4 DEF s, E
  <2> QED BY <2>5, <2>6
<1> QED BY <1>1, <1>3, <1>4 DEF PoolFrom

\* Nothing is due for a machine that has not the task.
LEMMA ForeignHeld ==
  ASSUME StageInv, NEW in, Step(in), NEW h \in Hn, NEW k \in Kind, Of(h, OpsOf(k))' # {}
  PROVE  \E i \in CmEntry : InPool(h, k, i)'
<1>0. ForeignOK(h) /\ PlaceTypes
  BY StageParts DEF StageAt
<1>1. \/ Of(h, OpsOf(k)) # {}
      \/ k = "Snp" /\ SnpSent(h, in)
      \/ k # "Snp" /\ ReqSent(h, k, in)
  BY ForeignNext DEF ForeignDue, OpsOf, Kind, MemSent
<1>2. PICK i \in CmEntry : InPool(h, k, i)
  BY <1>0, <1>1, SentFrom DEF ForeignOK, SnpSentAt, ReqSentAt
<1>3. PoolMove(k, i, in)
  BY StageParts, PoolStep
<1>4. CASE Stayed(k, i, in)
  <2>1. cms'[k][i].task = cms[k][i].task
    BY <1>4 DEF Stayed
  <2> QED BY <1>2, <2>1 DEF InPool
<1>5. CASE Entered(k, i, in)
  BY <1>2, <1>5 DEF Entered, InPool, NoCm
<1>6. CASE Absent(k, i, in)
  <2>1. cms[k][i].state = "RespCmt" /\ CmAnswer(in) = << <<k, i>> >>
    BY <1>2, <1>6 DEF Absent, InPool, NoCm
  <2>2. ~(k = "Snp" /\ SnpSent(h, in)) /\ ~(k # "Snp" /\ ReqSent(h, k, in))
    BY <1>2, <2>1, SentBy
  <2>3. Of(h, OpsOf(k)) # {}
    BY <1>1, <2>2
  <2>4. CASE k = "Snp"
    BY <1>0, <1>2, <2>1, <2>3, <2>4 DEF ForeignOK, SnpDue, OpsOf
  <2>5. CASE k = "Rd"
    BY <1>0, <1>2, <2>1, <2>3, <2>5 DEF ForeignOK, RdDue, OpsOf
  <2>6. CASE k = "Wr"
    <3>1. "comp" \in cms[k][i].got
      BY <2>1, <2>6, CmOutsOf DEF CmOuts
    <3>2. WrDue(h, cms["Wr"][i])
      BY <1>0, <1>2, <2>6 DEF ForeignOK
    <3> QED BY <2>1, <2>3, <2>6, <3>1, <3>2 DEF WrDue, OpsOf
  <2> QED BY <2>4, <2>5, <2>6 DEF Kind
<1> QED BY <1>3, <1>4, <1>5, <1>6 DEF PoolMove

\* A step keeps what is due for the machines.
LEMMA ForeignKept ==
  ASSUME StageInv, NEW in, Step(in), NEW h \in Hn
  PROVE  ForeignOK(h)'
<1>1. ASSUME NEW i \in CmEntry, InPool(h, "Snp", i)' PROVE SnpDue(h, cms["Snp"][i])'
  <2>1. SnpState(h, cms'["Snp"][i], Of(h, {"snp"})')
    BY <1>1, SnpKept
  <2> QED BY <2>1 DEF SnpState, SnpDue
<1>2. ASSUME NEW i \in CmEntry, InPool(h, "Rd", i)' PROVE RdDue(h, cms["Rd"][i])'
  <2>1. RdState(h, cms'["Rd"][i], Of(h, {"mem"})', entries'[h].plan.vec)
    BY <1>2, RdKept
  <2> QED BY <2>1 DEF RdState, RdDue
<1>3. ASSUME NEW i \in CmEntry, InPool(h, "Wr", i)' PROVE WrDue(h, cms["Wr"][i])'
  <2>1. WrState(h, cms'["Wr"][i], Of(h, WrOps)')
    BY <1>3, WrKept
  <2> QED BY <2>1 DEF WrState, WrDue, WrOps
<1> QED BY <1>1, <1>2, <1>3, ForeignHeld DEF ForeignOK

-----------------------------------------------------------------------------
(* The entries.                                                            *)

\* Who comes from the front end at an edge finds its slot free.
LEMMA OpenIs ==
  ASSUME NEW in, Step(in)
  PROVE  /\ pipe' = in.open /\ in.open \in Opt([hn : Hn, plan : Rows])
         /\ \A h : IsOpened(h, in) <=> AllocHit(h)'
         /\ \A h : IsOpened(h, in) => h \in Hn /\ ~Busy(h) /\ ~AllocHit(h) /\ in.open[1].plan \in Rows
<1>1. pipe' = in.open
  BY DEF Step, CommitTick
<1>2. in.open \in Opt(Opens)
  BY Inputs DEF Step
<1>3. Opens \subseteq [hn : Openable, plan : Rows]
  BY DEF Opens, Rows
<1>4. Openable \subseteq Hn /\ \A h \in Openable : ~Busy(h) /\ ~AllocHit(h)
  BY DEF Openable
<1>5. in.open \in Opt([hn : Hn, plan : Rows])
  BY <1>2, <1>3, <1>4 DEF Opt
<1>6. \A h : IsOpened(h, in) <=> AllocHit(h)'
  BY <1>1 DEF IsOpened, AllocHit
<1>7. ASSUME NEW h, IsOpened(h, in) PROVE h \in Hn /\ ~Busy(h) /\ ~AllocHit(h) /\ in.open[1].plan \in Rows
  <2>1. in.open[1] \in Opens
    BY <1>2, <1>7, OptOne DEF IsOpened
  <2> QED BY <2>1, <1>3, <1>4, <1>7 DEF IsOpened
<1> QED BY <1>1, <1>5, <1>6, <1>7

\* What a beat finds that comes.
LEMMA BeatFinds ==
  ASSUME StageInv, NEW in, Step(in), NEW h \in Hn, XcbHits(h, in) # {}
  PROVE  \E b \in {0, 1} : /\ XcbHits(h, in) = {Xcb[b]} /\ b \in Row(h).vec /\ WriteData(Row(h))
                           /\ \/ Has(h, Xcb[b]) /\ ~Has(h, "sDbid")
                              \/ AllocHit(h) /\ Row(h).alr = "dbid"
<1>1. OutTypes /\ StateOK(h) /\ XcbOK(h) /\ in \in CommitInputs
  BY StageParts DEF StageAt, Step
<1>2. PICK m \in Of(h, {"wr", "wrack"}) : m \in Came(in) /\ XcbHits(h, in) = {Xcb[m.beat]}
  BY <1>1, BeatHeard
<1> QED BY <1>1, <1>2, WriteDue

\* The flags of the two beats.
LEMMA XcbNames ==
  /\ Xcb[0] = "wXCB0" /\ Xcb[1] = "wXCB1" /\ Xcb[0] # Xcb[1]
  /\ \A b \in {0, 1} : Xcb[b] \in {"wXCB0", "wXCB1"} /\ Xcb[b] \in Flags
BY DEF Xcb, Flags

\* A step keeps state and flags of an entry in accord with its row.
LEMMA StateKept ==
  ASSUME StageInv, NEW in, Step(in), NEW h \in Hn
  PROVE  StateOK(h)'
<1> DEFINE r == entries[h]
           s == entries'[h]
           p == pipe[1].plan
<1>1. OutTypes /\ StateOK(h) /\ in \in CommitInputs
  BY StageParts DEF StageAt, Step
<1>2. AllocHit(h)' => ~Busy(h) /\ ~AllocHit(h)
  BY OpenIs
<1>3. CASE Idles(h)
  BY <1>3 DEF Idles, StateOK, NoEntry
<1>4. CASE Fills(h, in)
  <2>1. ~AllocHit(h)' /\ AllocHit(h)
    BY <1>2, <1>4 DEF Fills
  <2>2. p \in Rows /\ RowOK(p)
    BY <1>1, <2>1, RowIs DEF Row
  <2>3. p.alr = "data" => ~FirstValid(p)
    BY <2>2 DEF RowOK
  <2>4. s.plan = p /\ s.task = p.t1 /\ s.state = IF FirstValid(p) THEN "FstTask" ELSE "Commit"
    BY <1>4 DEF Fills, Filled
  <2>5. FirstValid(p) => s.flag \subseteq FstFlags
    BY <1>4, <2>3 DEF Fills, Filled, Flags, FstFlags
  <2>6. ~FirstValid(p) => s.flag \subseteq CmtFlags /\ p.t1 = "none"
    BY <1>4 DEF Fills, Filled, Flags, CmtFlags, FirstValid
  <2> QED BY <2>1, <2>2, <2>4, <2>5, <2>6 DEF StateOK
<1>5. CASE Redoes(h, in)
  <2>1. ~AllocHit(h)' /\ r.plan \in Rows /\ FirstValid(r.plan)
    BY <1>1, <1>2, <1>5 DEF Redoes, StateOK, Busy
  <2>2. RowOK(r.plan)
    BY <2>1, RowFacts
  <2>3. r.plan.wait => r.plan.t2 # "none"
    BY <2>2 DEF RowOK
  <2>4. CASE r.state = "FstTask" /\ r.plan.wait
    <3>1. s.state = "SecTask" /\ s.plan = r.plan /\ s.task = r.plan.t2
      BY <1>5, <2>4 DEF Redoes, Redone
    <3>2. s.flag \subseteq SecFlags
      BY <1>5, <2>4 DEF Redoes, Redone, Flags, SecFlags
    <3> QED BY <2>1, <2>3, <2>4, <3>1, <3>2 DEF StateOK
  <2>5. CASE ~(r.state = "FstTask" /\ r.plan.wait)
    <3>1. s.state = "Commit" /\ s.plan = r.plan /\ (s.task = "none" \/ (s.task = r.plan.t2 /\ ~r.plan.wait))
      BY <1>5, <2>5 DEF Redoes, Redone
    <3>2. s.flag \subseteq CmtFlags
      BY <1>5, <2>5 DEF Redoes, Redone, Flags, CmtFlags
    <3> QED BY <2>1, <3>1, <3>2 DEF StateOK
  <2> QED BY <2>4, <2>5
<1>6. CASE Runs(h, in)
  <2>1. ~AllocHit(h)'
    BY <1>2, <1>6 DEF Runs
  <2>2. s.flag \subseteq r.flag
    BY <1>6 DEF Runs, Ran
  <2>3. CASE s.state = "Free"
    BY <1>6, <2>1, <2>3 DEF Runs, Ran, StateOK, NoEntry
  <2>4. CASE s.state # "Free"
    <3>1. s.plan = r.plan /\ s.task = r.task
      BY <1>6, <2>4 DEF Runs, Ran
    <3>2. s.state = r.state \/ (s.state = "Clean" /\ r.state = "Commit" /\ r.flag = {})
      BY <1>6, <2>4 DEF Runs, Ran
    <3>3. r.state # "Free"
      BY <1>6 DEF Runs, Busy
    <3> QED BY <1>1, <2>1, <2>2, <3>1, <3>2, <3>3 DEF StateOK
  <2> QED BY <2>3, <2>4
<1> QED BY <1>3, <1>4, <1>5, <1>6, EntryCase

\* The end of a data task or of a directory write finds an entry that has sent it.
LEMMA EndsFind ==
  ASSUME StageInv, NEW in, Step(in), NEW h \in Hn
  PROVE  /\ in.data = <<h>> => ~Has(h, "sDataTask") /\ Busy(h) /\ ~AllocHit(h)
         /\ in.repl = <<h>> => ~Has(h, "sWriDir")
<1>1. DataOK(h) /\ FlagOK(h) /\ ReplOK(h) /\ StateOK(h) /\ PoolOK(h)
  BY StageParts DEF StageAt
<1>2. in.data \in Opt(DataDone) /\ in.repl \in Opt(repls)
  BY Inputs DEF Step
<1>3. ASSUME in.data = <<h>> PROVE ~Has(h, "sDataTask") /\ Busy(h) /\ ~AllocHit(h)
  <2>1. h \in DataDone
    BY <1>2, <1>3, OptHas
  <2>2. PICK t \in data : t.hn = h /\ Busy(h)
    BY <2>1 DEF DataDone
  <2>3. ~AllocHit(h)
    BY <1>1, <2>2 DEF StateOK, Busy
  <2>4. CASE t.by = "commit"
    BY <1>1, <2>2, <2>3, <2>4 DEF DataOK
  <2>5. CASE t.by # "commit"
    <3>1. PICK i \in CmEntry : InPool(h, "Wr", i)
      BY <1>1, <2>2, <2>5 DEF DataOK
    <3>2. Has(h, "wCmResp") /\ entries[h].task = "Wr"
      BY <1>1, <3>1 DEF PoolOK, Carried, Kind
    <3> QED BY <1>1, <2>2, <2>3, <3>2 DEF FlagOK
  <2> QED BY <2>2, <2>4, <2>5
<1>4. ASSUME in.repl = <<h>> PROVE ~Has(h, "sWriDir")
  <2>1. h \in repls
    BY <1>2, <1>4, OptHas
  <2> QED BY <1>1, <2>1 DEF ReplOK, Has, Lacks
<1> QED BY <1>3, <1>4

\* A step keeps what the flags say of each other.
LEMMA FlagKept ==
  ASSUME StageInv, NEW in, Step(in), NEW h \in Hn
  PROVE  FlagOK(h)'
<1> DEFINE r == entries[h]
           s == entries'[h]
           p == pipe[1].plan
<1>1. OutTypes /\ StateOK(h) /\ FlagOK(h) /\ PipeOK(h) /\ in \in CommitInputs
  BY StageParts DEF StageAt, Step
<1>2. HitsAre(h, in) /\ FiredAre(h, in)
  BY <1>1, HitsOf, FiredOf
<1>3. CASE Idles(h)
  BY <1>3, XcbNames DEF Idles, FlagOK, NoEntry, Has
<1>4. CASE Fills(h, in)
  <2>1. p \in Rows /\ RowOK(p) /\ Row(h) = p /\ AllocHit(h)
    BY <1>1, <1>4, RowIs DEF Row, Fills
  <2>2. p.alr = "data" => ~FirstValid(p)
    BY <2>1 DEF RowOK
  <2>3. s.plan = p /\ s.task = p.t1 /\ s.got = Hits(h, in)
    BY <1>4 DEF Fills, Filled
  <2>4. /\ "sCmTask" \in s.flag => "wCmResp" \in s.flag
        /\ "wCmResp" \in s.flag => p.t1 \in Kind
        /\ ~("wCmResp" \in s.flag /\ "wDataResp" \in s.flag)
    BY <1>4, <2>1, <2>2 DEF Fills, Filled, RowOK, FirstValid
  <2>5. /\ "sDataTask" \in s.flag => "wDataResp" \in s.flag /\ p.op = "data" /\ p.alr # "data"
        /\ "sWriDir" \in s.flag => "wReplResp" \in s.flag
        /\ "sResp" \in s.flag => p.rsp = "RSP"
        /\ "wCompAck" \in s.flag => "wCompAck" \notin Hits(h, in)
    BY <1>4 DEF Fills, Filled
  <2>6. \A b \in {0, 1} : Xcb[b] \in s.flag <=> WriteData(p) /\ b \in p.vec /\ Xcb[b] \notin Hits(h, in)
    BY <1>4 DEF Fills, Filled
  <2>7. ASSUME "sDbid" \in s.flag PROVE p.dbid /\ p.alr # "dbid" /\ \A b \in p.vec : Xcb[b] \in s.flag
    <3>1. p.dbid /\ p.alr # "dbid"
      BY <1>4, <2>7 DEF Fills, Filled
    <3>2. \A f : ~Has(h, f)
      BY <1>1, <2>1, HasBusy
    <3>3. XcbHits(h, in) = {}
      BY <2>1, <3>1, <3>2, BeatFinds
    <3>4. \A b \in p.vec : Xcb[b] \notin Hits(h, in) /\ b \in {0, 1}
      BY <1>2, <2>1, <3>3, XcbNames DEF HitsAre, RowOK
    <3> QED BY <2>6, <3>1, <3>4 DEF WriteData
  <2> QED BY <2>3, <2>4, <2>5, <2>6, <2>7 DEF FlagOK, Has
<1>5. CASE Redoes(h, in)
  <2>1. r.plan \in Rows /\ FirstValid(r.plan)
    BY <1>1, <1>5 DEF Redoes, StateOK
  <2>2. RowOK(r.plan)
    BY <2>1, RowFacts
  <2>3. s.plan = r.plan /\ s.got = r.got \cup Hits(h, in) /\ s.task = IF r.state = "FstTask" THEN r.plan.t2 ELSE "none"
    BY <1>5 DEF Redoes, Redone
  <2>4. /\ "sCmTask" \in s.flag => "wCmResp" \in s.flag
        /\ "wCmResp" \in s.flag => s.task \in Kind
    BY <1>5, <2>2, <2>3 DEF Redoes, Redone, RowOK
  <2>5. "wCmResp" \in s.flag /\ "wDataResp" \in s.flag => s.task # "Wr"
    BY <1>5, <2>2, <2>3 DEF Redoes, Redone, RowOK
  <2>6. r.plan.alr # "data"
    BY <2>1, <2>2 DEF RowOK
  <2>7. /\ "sDataTask" \in s.flag => "wDataResp" \in s.flag /\ r.plan.op = "data"
        /\ "sWriDir" \in s.flag => "wReplResp" \in s.flag
        /\ "sResp" \in s.flag => r.plan.rsp = "RSP"
        /\ "sDbid" \notin s.flag /\ \A b \in {0, 1} : Xcb[b] \notin s.flag
    BY <1>5, XcbNames DEF Redoes, Redone
  <2>8. "wCompAck" \in s.flag => "wCompAck" \notin s.got
    BY <1>1, <1>5, <2>3 DEF Redoes, Redone, FlagOK
  <2> QED BY <2>3, <2>4, <2>5, <2>6, <2>7, <2>8 DEF FlagOK, Has
<1>6. CASE Runs(h, in)
  <2>1. CASE r.flag = {}
    <3>1. s.flag = {}
      BY <1>6, <2>1 DEF Runs, Ran
    <3> QED BY <3>1 DEF FlagOK, Has
  <2>2. CASE r.flag # {}
    <3>1. PICK f : Has(h, f)
      BY <2>2 DEF Has
    <3>2. s.plan = r.plan /\ s.task = r.task /\ s.state = r.state /\ s.flag = r.flag \ (Fired(h, in) \cup Hits(h, in))
      BY <1>1, <1>6, <3>1, RunKeeps
    <3>3. s.got = r.got \cup Hits(h, in)
      BY <1>6, <3>1, <3>2, <1>1, HasBusy DEF Runs, Ran, Busy
    <3>4. /\ in.data = <<h>> => ~Has(h, "sDataTask")
          /\ in.repl = <<h>> => ~Has(h, "sWriDir")
      BY EndsFind
    <3>5. "sCmTask" \in s.flag => "wCmResp" \in s.flag
      BY <1>1, <1>2, <3>2 DEF FlagOK, PipeOK, CmHit, Has, FiredAre, HitsAre
    <3>6. "sDataTask" \in s.flag => "wDataResp" \in s.flag
      BY <1>1, <1>2, <3>2, <3>4 DEF FlagOK, Has, FiredAre, HitsAre
    <3>7. "sWriDir" \in s.flag => "wReplResp" \in s.flag
      BY <1>1, <1>2, <3>2, <3>4 DEF FlagOK, Has, FiredAre, HitsAre
    <3>8. ASSUME "sDbid" \in s.flag PROVE \A b \in r.plan.vec : Xcb[b] \in s.flag
      <4>1. Has(h, "sDbid") /\ ~AllocHit(h)
        BY <1>6, <3>2, <3>8 DEF Has, Runs
      <4>2. XcbHits(h, in) = {}
        BY <4>1, BeatFinds
      <4>3. r.plan \in Rows
        BY <1>1, <1>6 DEF StateOK, Runs, Busy
      <4>4. r.plan.vec \subseteq {0, 1}
        BY <4>3, RowFacts DEF RowOK
      <4>5. \A b \in r.plan.vec : Xcb[b] \in {"wXCB0", "wXCB1"} /\ Xcb[b] \in r.flag
        BY <1>1, <4>1, <4>4, XcbNames DEF FlagOK, Has
      <4>6. \A x \in {"wXCB0", "wXCB1"} : x \notin Fired(h, in) /\ x \notin Hits(h, in)
        BY <1>2, <4>2 DEF FiredAre, HitsAre
      <4> QED BY <3>2, <4>5, <4>6
    <3>9. "wCompAck" \in s.flag => "wCompAck" \notin s.got
      BY <1>1, <3>2, <3>3 DEF FlagOK, Has
    <3>10. \A x \in s.flag : x \in r.flag
      BY <3>2
    <3> HIDE DEF s, r
    <3> QED BY <1>1, <3>2, <3>5, <3>6, <3>7, <3>8, <3>9, <3>10 DEF FlagOK, Has, r, s
  <2> QED BY <2>1, <2>2
<1> QED BY <1>3, <1>4, <1>5, <1>6, EntryCase

\* A step keeps what the next decoding will look up.
LEMMA InstKept ==
  ASSUME StageInv, NEW in, Step(in), NEW h \in Hn
  PROVE  InstOK(h)'
<1> DEFINE r == entries[h]
           s == entries'[h]
           p == pipe[1].plan
           X == XcbHits(h, in)
<1>1. OutTypes /\ StateOK(h) /\ FlagOK(h) /\ PipeOK(h) /\ InstOK(h) /\ in \in CommitInputs
  BY StageParts DEF StageAt, Step
<1>2. HitsAre(h, in) /\ FiredAre(h, in)
  BY <1>1, HitsOf, FiredOf
<1>3. CASE Idles(h)
  BY <1>3 DEF Idles, InstOK, NoEntry
<1>4. CASE Fills(h, in)
  <2>1. p \in Rows /\ RowOK(p) /\ Row(h) = p
    BY <1>1, <1>4, RowIs DEF Row, Fills
  <2>2. s.plan = p /\ s.state = (IF FirstValid(p) THEN "FstTask" ELSE "Commit")
    BY <1>4 DEF Fills, Filled
  <2>3. s.inst = IF FirstValid(p) THEN If(X # {}, "xcb") ELSE {}
    BY <1>4 DEF Fills, Filled
  <2>4. CASE ~FirstValid(p)
    BY <2>2, <2>3, <2>4 DEF InstOK
  <2>5. CASE FirstValid(p)
    <3>1. "wCmResp" \in s.flag <=> p.t1 # "none"
      BY <1>4 DEF Fills, Filled
    <3>2. \A b \in {0, 1} : Xcb[b] \in s.flag <=> WriteData(p) /\ b \in p.vec /\ Xcb[b] \notin Hits(h, in)
      BY <1>4 DEF Fills, Filled
    <3>3. ASSUME X # {} PROVE WriteData(p) /\ \E b \in p.vec : Xcb[b] \notin s.flag
      <4>1. PICK b \in {0, 1} : X = {Xcb[b]} /\ b \in p.vec /\ WriteData(p)
        BY <2>1, <3>3, BeatFinds
      <4>2. Xcb[b] \in Hits(h, in)
        BY <4>1 DEF Hits
      <4> QED BY <3>2, <4>1, <4>2
    <3>4. ASSUME WriteData(p), NEW b \in p.vec, Xcb[b] \notin s.flag PROVE X # {}
      <4>1. b \in {0, 1}
        BY <2>1 DEF RowOK
      <4>2. Xcb[b] \in Hits(h, in)
        BY <3>2, <3>4, <4>1
      <4> QED BY <1>2, <4>1, <4>2, XcbNames DEF HitsAre
    <3>5. X # {} <=> WriteData(p) /\ \E b \in p.vec : Xcb[b] \notin s.flag
      BY <3>3, <3>4
    <3>6. s.inst = If(p.t1 # "none" /\ "wCmResp" \notin s.flag, "cm")
                   \cup If(WriteData(p) /\ \E b \in p.vec : Xcb[b] \notin s.flag, "xcb")
      BY <2>3, <2>5, <3>1, <3>5 DEF If
    <3> QED BY <2>2, <2>5, <3>6 DEF InstOK, Has
  <2> QED BY <2>4, <2>5
<1>5. CASE Redoes(h, in)
  <2>1. s.inst = {}
    BY <1>5 DEF Redoes, Redone
  <2>2. s.state \in {"SecTask", "Commit"}
    BY <1>5 DEF Redoes, Redone
  <2>3. s.state = "SecTask" => "wCmResp" \in s.flag
    <3>1. r.plan \in Rows
      BY <1>1, <1>5 DEF Redoes, StateOK
    <3>2. r.plan.wait => r.plan.t2 # "none"
      BY <3>1, RowFacts DEF RowOK
    <3> QED BY <1>5, <3>2 DEF Redoes, Redone
  <2> QED BY <2>1, <2>2, <2>3 DEF InstOK, If, Has
<1>6. CASE Runs(h, in)
  <2>1. s.flag = r.flag \ (Fired(h, in) \cup Hits(h, in))
    BY <1>6 DEF Runs, Ran
  <2>2. "wCmResp" \in s.flag <=> "wCmResp" \in r.flag /\ ~CmHit(h)
    BY <1>2, <2>1 DEF FiredAre, HitsAre
  <2>3. \A b \in {0, 1} : Xcb[b] \in s.flag <=> Xcb[b] \in r.flag /\ Xcb[b] \notin X
    <3>1. \A x \in {"wXCB0", "wXCB1"} : x \notin Fired(h, in) /\ (x \in Hits(h, in) <=> x \in X)
      BY <1>2 DEF FiredAre, HitsAre
    <3> QED BY <2>1, <3>1, XcbNames
  <2>4. CmHit(h) => "wCmResp" \in r.flag
    BY <1>1 DEF CmHit, PipeOK, Has
  <2>5. r.state \in {"FstTask", "SecTask", "Commit", "Clean"}
    BY <1>1, <1>6 DEF StateOK, Runs, Busy
  <2>6. X # {} => \E b \in {0, 1} : X = {Xcb[b]} /\ b \in r.plan.vec /\ WriteData(r.plan) /\ Xcb[b] \in r.flag
    BY <1>6, BeatFinds DEF Runs, Row, Has
  <2>7. CASE r.state = "FstTask"
    <3>1. s.state = "FstTask"
      BY <1>1, <1>6, <2>7, OutputsOf DEF Runs, Ran, Outputs
    <3>2. s.plan = r.plan /\ s.inst = (IF ~CmHit(h) THEN r.inst ELSE r.inst \cup {"cm"}) \cup If(X # {}, "xcb")
      BY <1>6, <2>7, <3>1 DEF Runs, Ran
    <3>3. r.inst = If(r.plan.t1 # "none" /\ "wCmResp" \notin r.flag, "cm")
                   \cup If(WriteData(r.plan) /\ \E b \in r.plan.vec : Xcb[b] \notin r.flag, "xcb")
      BY <1>1, <2>7 DEF InstOK, Has
    <3>4. CmHit(h) => r.plan.t1 # "none"
      BY <1>1, <2>4, <2>7 DEF StateOK, FlagOK, Has, Kind
    <3>5. r.plan.vec \subseteq {0, 1}
      <4>1. r.plan \in Rows
        BY <1>1, <2>7 DEF StateOK
      <4> QED BY <4>1, RowFacts DEF RowOK
    <3> DEFINE a == r.plan.t1 # "none" /\ "wCmResp" \notin r.flag
               c == r.plan.t1 # "none" /\ "wCmResp" \notin s.flag
               b == WriteData(r.plan) /\ \E x \in r.plan.vec : Xcb[x] \notin r.flag
               d == WriteData(r.plan) /\ \E x \in r.plan.vec : Xcb[x] \notin s.flag
               e == X # {}
               k == CmHit(h)
    <3>6. c <=> a \/ k
      BY <2>2, <3>4
    <3>7. d <=> b \/ e
      BY <2>3, <2>6, <3>5, XcbNames
    <3>8. s.inst = (IF ~k THEN r.inst ELSE r.inst \cup {"cm"}) \cup If(e, "xcb") /\ r.inst = If(a, "cm") \cup If(b, "xcb")
      BY <3>2, <3>3
    <3> HIDE DEF a, b, c, d, e, k, r, s
    <3>9. s.inst = If(c, "cm") \cup If(d, "xcb")
      BY <3>6, <3>7, <3>8 DEF If
    <3> QED BY <3>1, <3>2, <3>9 DEF InstOK, Has, c, d, s
  <2>8. CASE r.state = "SecTask"
    <3>1. s.state = "SecTask"
      BY <1>1, <1>6, <2>8, OutputsOf DEF Runs, Ran, Outputs
    <3>2. X = {}
      BY <1>1, <2>6, <2>8, XcbNames DEF StateOK, SecFlags
    <3>3. s.inst = (IF ~CmHit(h) THEN r.inst ELSE {"cm"})
      BY <1>6, <2>8, <3>1, <3>2 DEF Runs, Ran, If
    <3>4. r.inst = If("wCmResp" \notin r.flag, "cm")
      BY <1>1, <2>8 DEF InstOK, Has
    <3>5. s.inst = If("wCmResp" \notin s.flag, "cm")
      BY <2>2, <2>4, <3>3, <3>4 DEF If
    <3> QED BY <3>1, <3>5 DEF InstOK, Has
  <2>9. CASE r.state \in {"Commit", "Clean"}
    <3>1. CASE s.state = "Commit"
      BY <1>6, <3>1 DEF Runs, Ran, InstOK
    <3>2. CASE s.state = "Clean"
      <4>1. r.flag = {} /\ r.inst = {}
        BY <1>1, <1>6, <2>9, <3>2 DEF Runs, Ran, StateOK, InstOK
      <4>2. ~CmHit(h) /\ X = {}
        BY <2>4, <2>6, <4>1
      <4>3. s.inst = {}
        BY <1>6, <3>2, <4>1, <4>2 DEF Runs, Ran, If
      <4> QED BY <3>2, <4>3 DEF InstOK
    <3>3. CASE s.state = "Free"
      BY <3>3 DEF InstOK
    <3> QED BY <1>6, <2>9, <3>1, <3>2, <3>3 DEF Runs, Ran
  <2> QED BY <2>5, <2>7, <2>8, <2>9
<1> QED BY <1>3, <1>4, <1>5, <1>6, EntryCase

\* A decoder takes one entry at most.
LEMMA DecodeOne ==
  ASSUME NEW in, NEW d
  PROVE  Decode(d, in) \in Opt(Hn)
<1> DEFINE A == {h \in Hn : DecodeAsks(h) /\ entries[h].state = (IF d = "third" THEN "FstTask" ELSE "SecTask")}
<1>1. Decode(d, in) \in Opt(A)
  BY ServedOne DEF Decode
<1> QED BY <1>1 DEF Opt

\* What an edge does to the two stages of a decoder.
LEMMA DecNext ==
  ASSUME NEW in, Step(in), NEW d \in Decoder
  PROVE  /\ dec'[d].s1 = (IF Decode(d, in) = <<>> THEN <<>>
                          ELSE <<[hn |-> Decode(d, in)[1], inst |-> entries[Decode(d, in)[1]].inst]>>)
         /\ dec'[d].s2 = (IF dec[d].s1 = <<>> THEN <<>> ELSE <<dec[d].s1[1].hn>>)
<1>1. dec'[d] = NextDec(d, in)
  BY DEF Step, CommitTick
<1> DEFINE a == IF Decode(d, in) = <<>> THEN <<>>
                ELSE <<[hn |-> Decode(d, in)[1], inst |-> entries[Decode(d, in)[1]].inst]>>
           b == IF dec[d].s1 = <<>> THEN <<>> ELSE <<dec[d].s1[1].hn>>
<1>2. NextDec(d, in) = [s1 |-> a, s2 |-> b]
  BY ZenonT(30) DEF NextDec
<1> HIDE DEF a, b
<1>3. dec'[d].s1 = a /\ dec'[d].s2 = b
  BY <1>1, <1>2
<1> QED BY <1>3 DEF a, b

\* A step keeps what the decoders hold in accord with the entries.
LEMMA DecKept ==
  ASSUME StageInv, NEW in, Step(in), NEW h \in Hn
  PROVE  DecOK(h)'
<1> DEFINE r == entries[h]
           s == entries'[h]
           L == {"sDecode", "wCmResp", "wXCB0", "wXCB1"}
<1>1. OutTypes /\ StateOK(h) /\ FlagOK(h) /\ InstOK(h) /\ DecOK(h) /\ in \in CommitInputs
  BY StageParts DEF StageAt, Step
<1>2. FiredAre(h, in)
  BY <1>1, FiredOf
<1>3. ASSUME NEW d \in Decoder, First1(h, d)'
      PROVE  Decode(d, in) = <<h>> /\ dec'[d].s1[1].inst = r.inst
  <2>1. dec'[d].s1 # <<>> /\ dec'[d].s1[1].hn = h
    BY <1>3 DEF First1
  <2>0. dec'[d].s1 = (IF Decode(d, in) = <<>> THEN <<>>
                      ELSE <<[hn |-> Decode(d, in)[1], inst |-> entries[Decode(d, in)[1]].inst]>>)
    BY DecNext
  <2>2. Decode(d, in) # <<>> /\ Decode(d, in) = <<Decode(d, in)[1]>>
    BY <2>0, <2>1, DecodeOne, OptOne
  <2>3. dec'[d].s1[1].hn = Decode(d, in)[1] /\ dec'[d].s1[1].inst = entries[Decode(d, in)[1]].inst
    BY <2>0, <2>2
  <2> QED BY <2>1, <2>2, <2>3
<1>4. ASSUME NEW d \in Decoder, dec'[d].s2 = <<h>> PROVE First1(h, d)
  <2>0. dec'[d].s2 = (IF dec[d].s1 = <<>> THEN <<>> ELSE <<dec[d].s1[1].hn>>)
    BY DecNext
  <2>1. dec[d].s1 # <<>> /\ dec'[d].s2 = <<dec[d].s1[1].hn>>
    BY <1>4, <2>0
  <2> QED BY <1>4, <2>1, SameOne DEF First1
<1>5. ASSUME NEW d \in Decoder, Decode(d, in) = <<h>>
      PROVE  /\ r.state = Asked(d) /\ Lacks(h, L)' /\ s.state = r.state /\ s.plan = r.plan /\ r.inst = Brought(h)
             /\ Lacks(h, {"wCmResp", "wXCB0", "wXCB1"}) /\ Has(h, "sDecode")
  <2>1. Has(h, "sDecode") /\ Lacks(h, {"wCmResp", "wXCB0", "wXCB1"}) /\ r.state = Asked(d)
    BY <1>5, OutputsOf DEF Outputs, DecodeAsks
  <2>2. Runs(h, in)
    <3>1. r # NoEntry
      BY <2>1 DEF NoEntry, Has
    <3>2. ~Redoes(h, in)
      BY <2>1 DEF Redoes, Lacks, Has
    <3> QED BY <3>1, <3>2, EntryCase DEF Idles, Fills
  <2>3. s.state = r.state /\ s.plan = r.plan /\ s.flag = r.flag \ (Fired(h, in) \cup Hits(h, in))
    BY <1>1, <2>1, <2>2, RunKeeps
  <2>4. "sDecode" \in Fired(h, in)
    BY <1>2, <1>5 DEF FiredAre
  <2>5. Lacks(h, L)'
    BY <2>1, <2>3, <2>4 DEF Lacks
  <2>6. r.inst = Brought(h)
    <3>1. \A b \in {0, 1} : ~Has(h, Xcb[b])
      BY <2>1, XcbNames DEF Lacks, Has
    <3>2. ~Has(h, "wCmResp")
      BY <2>1 DEF Lacks, Has
    <3>3. r.plan \in Rows
      BY <1>1, <2>1 DEF StateOK, Asked
    <3>4. \E b \in r.plan.vec : ~Has(h, Xcb[b])
      BY <3>1, <3>3, RowFacts DEF RowOK
    <3>5. r.state \in {"FstTask", "SecTask"}
      BY <2>1 DEF Asked
    <3> QED BY <1>1, <3>2, <3>4, <3>5 DEF InstOK, Brought, If
  <2> QED BY <2>1, <2>3, <2>5, <2>6
<1>6. ASSUME NEW d \in Decoder, First1(h, d) PROVE s.state = Asked(d) /\ Lacks(h, L)'
  <2>1. r.state = Asked(d) /\ Lacks(h, L)
    BY <1>1, <1>6 DEF DecOK
  <2>2. ~DecHit(h)
    <3>1. ASSUME NEW e \in Decoder, dec[e].s2 = <<h>> PROVE FALSE
      <4>1. r.state = Asked(e)
        BY <1>1, <3>1 DEF DecOK
      <4>2. e = d
        BY <2>1, <4>1 DEF Asked, Decoder
      <4> QED BY <1>1, <1>6, <3>1, <4>2 DEF DecOK
    <3> QED BY <3>1 DEF DecHit
  <2>3. r.state \in {"FstTask", "SecTask"}
    BY <2>1 DEF Asked
  <2>4. Runs(h, in)
    BY <2>2, <2>3, EntryCase DEF Idles, Fills, Redoes, NoEntry
  <2>5. s.state = r.state /\ s.flag \subseteq r.flag
    BY <2>3, <2>4, OutputsOf DEF Runs, Ran, Outputs
  <2> QED BY <2>1, <2>5 DEF Lacks
<1>7. ASSUME NEW d \in Decoder
      PROVE  /\ (First1(h, d) \/ dec[d].s2 = <<h>>)' => (entries[h].state = Asked(d) /\ Lacks(h, L))'
             /\ First1(h, d)' => dec'[d].s2 # <<h>> /\ dec'[d].s1[1].inst = Brought(h)'
  <2>1. ASSUME First1(h, d)'
        PROVE  s.state = Asked(d) /\ Lacks(h, L)' /\ dec'[d].s2 # <<h>> /\ dec'[d].s1[1].inst = Brought(h)'
    <3>1. Decode(d, in) = <<h>> /\ dec'[d].s1[1].inst = r.inst
      BY <1>3, <2>1
    <3>2. r.state = Asked(d) /\ Lacks(h, L)' /\ s.state = r.state /\ s.plan = r.plan /\ r.inst = Brought(h) /\ Has(h, "sDecode")
      BY <1>5, <3>1
    <3>3. dec'[d].s2 # <<h>>
      BY <1>1, <1>4, <3>2 DEF DecOK, Lacks, Has
    <3>4. Brought(h)' = Brought(h)
      BY <3>2 DEF Brought
    <3> QED BY <3>1, <3>2, <3>3, <3>4
  <2>2. ASSUME dec'[d].s2 = <<h>> PROVE s.state = Asked(d) /\ Lacks(h, L)'
    BY <1>4, <1>6, <2>2
  <2> QED BY <2>1, <2>2
<1> QED BY <1>7 DEF DecOK

-----------------------------------------------------------------------------
(* Who answers the requester.                                              *)

\* The ways a row can answer the requester.
LEMMA Ways ==
  ASSUME NEW p
  PROVE  /\ AnsweredBy(p) \subseteq {"early", "rsp", "dat", "dbid", "first", "second"}
         /\ "early" \in AnsweredBy(p) <=> p.alr = "data"
         /\ "rsp" \in AnsweredBy(p) <=> p.rsp = "RSP"
         /\ "dat" \in AnsweredBy(p) <=> p.op = "data" /\ p.rsp = "DAT" /\ p.alr # "data"
         /\ "dbid" \in AnsweredBy(p) <=> p.dbid /\ p.alr # "dbid" /\ p.copy
         /\ "first" \in AnsweredBy(p) <=> Direct(p, p.t1)
         /\ "second" \in AnsweredBy(p) <=> Direct(p, p.t2)
<1> DEFINE a == p.alr = "data"
           b == p.rsp = "RSP"
           c == p.op = "data" /\ p.rsp = "DAT" /\ p.alr # "data"
           d == p.dbid /\ p.alr # "dbid" /\ p.copy
           e == Direct(p, p.t1)
           f == Direct(p, p.t2)
<1>1. AnsweredBy(p) = If(a, "early") \cup If(b, "rsp") \cup If(c, "dat") \cup If(d, "dbid") \cup If(e, "first")
                      \cup If(f, "second")
  BY DEF AnsweredBy
<1> HIDE DEF a, b, c, d, e, f
<1>2. /\ AnsweredBy(p) \subseteq {"early", "rsp", "dat", "dbid", "first", "second"}
      /\ "early" \in AnsweredBy(p) <=> a
      /\ "rsp" \in AnsweredBy(p) <=> b
      /\ "dat" \in AnsweredBy(p) <=> c
  BY <1>1 DEF If
<1>3. /\ "dbid" \in AnsweredBy(p) <=> d
      /\ "first" \in AnsweredBy(p) <=> e
      /\ "second" \in AnsweredBy(p) <=> f
  BY <1>1 DEF If
<1> QED BY <1>2, <1>3 DEF a, b, c, d, e, f

\* The request of the task goes out.
Launched(h, in) == SnpSent(h, in) \/ \E k : ReqSent(h, k, in)

\* A request goes out for h from its one place; with it goes the answer,
\* when the data go straight to the requester.
LEMMA LaunchIs ==
  ASSUME StageInv, NEW in, Step(in), NEW h \in Hn
  PROVE  /\ Launched(h, in) => \E k \in Kind : \E i \in CmEntry :
              /\ InPool(h, k, i) /\ cms[k][i].state \in {"SendSnp", "SendReq"}
              /\ entries[h].task = k /\ Has(h, "wCmResp") /\ ~Has(h, "sCmTask") /\ cmPipe # <<h>>
         /\ "fwd" \in AnswersNow(h, in) \/ "dmt" \in AnswersNow(h, in) <=>
              Launched(h, in) /\ Direct(entries[h].plan, entries[h].task)
         /\ ~("fwd" \in AnswersNow(h, in) /\ "dmt" \in AnswersNow(h, in))
<1>0. Placed(h) /\ AnswersAre(h, in)
  BY StageParts, PlacedIs, AnswersOf DEF StageAt
<1>1. ASSUME Launched(h, in)
      PROVE  \E k \in Kind : \E i \in CmEntry : InPool(h, k, i) /\ cms[k][i].state \in {"SendSnp", "SendReq"}
  <2>1. CASE SnpSent(h, in)
    BY <2>1, SentFrom DEF SnpSentAt, Kind
  <2>2. CASE \E k : ReqSent(h, k, in)
    BY <2>2, SentFrom DEF ReqSentAt, Kind
  <2> QED BY <1>1, <2>1, <2>2 DEF Launched
<1>2. \A k \in Kind : \A i \in CmEntry : InPool(h, k, i) =>
        entries[h].task = k /\ Has(h, "wCmResp") /\ ~Has(h, "sCmTask") /\ cmPipe # <<h>>
  BY <1>0 DEF Placed, Carried
<1>3. SnpSent(h, in) => entries[h].task = "Snp"
  BY <1>2, SentFrom DEF SnpSentAt, Kind
<1>4. \A k : ReqSent(h, k, in) => entries[h].task = k /\ k \in {"Rd", "Wr"}
  BY <1>2, SentFrom DEF ReqSentAt, Kind
<1>5. "fwd" \in AnswersNow(h, in) \/ "dmt" \in AnswersNow(h, in) <=>
              Launched(h, in) /\ Direct(entries[h].plan, entries[h].task)
  BY <1>0, <1>3, <1>4 DEF AnswersAre, Launched
<1>6. ~("fwd" \in AnswersNow(h, in) /\ "dmt" \in AnswersNow(h, in))
  BY <1>0, <1>3, <1>4 DEF AnswersAre
<1> QED BY <1>1, <1>2, <1>5, <1>6

\* A task in a queue moves up, and one handed over is in it.
LEMMA QueueMovesUp ==
  ASSUME StageInv, NEW in, Step(in), NEW h \in Hn, NEW k \in Kind
  PROVE  /\ \A n, x : QueueOf(h, k, n) /\ x = n - Shift(k) /\ x >= 1 => QueueOf(h, k, x)'
         /\ CmTaskOf(k, in) = <<h>> => \E n : QueueOf(h, k, n)'
<1> DEFINE q == cmq[k]
           g == Handed(k, in)
           m == cmq'[k]
           r == IF Shift(k) = 1 THEN Tail(q) ELSE q
<1>1. q \in Seq(CmTask) /\ g \in Opt(CmTask) /\ Shift(k) \in {0, 1} /\ (Shift(k) = 1 => q # <<>>)
  BY StageParts, CmAllocOne, HandedOne DEF PlaceTypes, Shift
<1>2. m = r \o g
  <2>1. m = (IF CmAlloc(k) = <<>> THEN q ELSE Tail(q)) \o g
    BY CmNext
  <2>2. CASE CmAlloc(k) = <<>>
    BY <2>1, <2>2 DEF Shift
  <2>3. CASE CmAlloc(k) # <<>>
    BY <2>1, <2>3 DEF Shift
  <2> QED BY <2>2, <2>3
<1>3. /\ r \in Seq(CmTask) /\ Len(r) = Len(q) - Shift(k) /\ Len(q) \in Nat
      /\ \A j \in 1 .. Len(r) : r[j] = q[j + Shift(k)]
  <2>1. CASE Shift(k) = 1
    <3>1. q # <<>>
      BY <1>1, <2>1
    <3>2. Len(q) \in Nat /\ Tail(q) \in Seq(CmTask) /\ Len(Tail(q)) = Len(q) - 1
          /\ \A j \in 1 .. Len(Tail(q)) : Tail(q)[j] = q[j + 1]
      BY <1>1, <3>1, HeadTailProperties, LenProperties
    <3> QED BY <2>1, <3>2
  <2>2. CASE Shift(k) = 0
    BY <1>1, <2>2, LenProperties
  <2> QED BY <1>1, <2>1, <2>2
<1> HIDE DEF q, g, m, r
<1>4. g \in Seq(CmTask) /\ Len(g) \in Nat
  BY <1>1, OptIsSeq
<1>5. Len(r) \in Nat
  BY <1>3, LenProperties
<1>6. Len(m) = Len(r) + Len(g) /\ \A j \in 1 .. Len(r) + Len(g) : m[j] = IF j <= Len(r) THEN r[j] ELSE g[j - Len(r)]
  BY <1>2, <1>3, <1>4, ConcatProperties
<1>7. ASSUME NEW n, NEW x, QueueOf(h, k, n), x = n - Shift(k), x >= 1 PROVE QueueOf(h, k, x)'
  <2>1. n \in 1 .. Len(q) /\ q[n].hn = h
    BY <1>7 DEF QueueOf, q
  <2>2. x \in 1 .. Len(r) /\ x + Shift(k) = n
    BY <2>1, <1>1, <1>3, <1>7
  <2>3. x \in 1 .. Len(r) + Len(g) /\ x \in 1 .. Len(m)
    BY <2>2, <1>4, <1>5, <1>6
  <2>4. m[x] = q[n]
    BY <2>2, <2>3, <1>3, <1>5, <1>6
  <2> QED BY <2>1, <2>3, <2>4 DEF QueueOf, m
<1>8. ASSUME CmTaskOf(k, in) = <<h>> PROVE \E n : QueueOf(h, k, n)'
  <2>1. g = <<CmTaskFor(h)>> /\ Len(g) = 1
    <3>1. CmTaskOf(k, in)[1] = h /\ CmTaskOf(k, in) # <<>>
      BY <1>8
    <3>2. g = <<CmTaskFor(h)>>
      BY <3>1 DEF g, Handed
    <3> QED BY <3>2
  <2>2. g[1].hn = h
    BY <2>1 DEF CmTaskFor
  <2> DEFINE x == Len(r) + 1
  <2>3. x \in 1 .. Len(m) /\ m[x] = g[1]
    <3>1. x \in 1 .. Len(r) + Len(g) /\ x - Len(r) = 1 /\ ~(x <= Len(r))
      BY <1>5, <2>1
    <3> QED BY <3>1, <1>6
  <2>4. ASSUME NEW y, y = x PROVE QueueOf(h, k, y)'
    BY <2>2, <2>3, <2>4 DEF QueueOf, m
  <2> QED BY <2>4
<1> QED BY <1>7, <1>8

\* The first of a queue that leaves it enters a pool.
LEMMA AllocEnters ==
  ASSUME StageInv, NEW in, Step(in), NEW h \in Hn, NEW k \in Kind, QueueOf(h, k, 1), CmAlloc(k) # <<>>
  PROVE  \E i \in CmEntry : InPool(h, k, i)' /\ cms'[k][i].state \in {"SendSnp", "SendReq"}
<1>1. CmAlloc(k)[1] \in FreeCm(k) /\ CmAlloc(k) = <<CmAlloc(k)[1]>>
  BY CmAllocOne, OptOne
<1>2. PICK i \in CmEntry : CmAlloc(k) = <<i>> /\ cms[k][i].state = "Free"
  BY <1>1 DEF FreeCm
<1>3. cms[k][i] = NoCm
  <2>1. Shape(k, i)
    BY StageParts
  <2>2. "Free" \notin StatesOf(k)
    BY DEF StatesOf, Kind
  <2> QED BY <1>2, <2>1, <2>2 DEF Shape
<1>4. cms'[k][i] = NextCm(k, i, in, StateNext(k, i, in), Heard(k, cms[k][i], in))
  BY PoolEntry
<1>5. StateNext(k, i, in) = FirstOf(k)
  BY <1>2, <1>3, FreeMoves
<1>6. cms'[k][i].state = FirstOf(k) /\ cms'[k][i].task = <<Head(cmq[k])>>
  <2>1. FirstOf(k) # "Free"
    BY DEF FirstOf
  <2> QED BY <1>2, <1>4, <1>5, <2>1 DEF NextCm
<1>7. Head(cmq[k]) = cmq[k][1] /\ cmq[k][1].hn = h
  BY DEF QueueOf
<1> DEFINE t == cms'[k][i].task
<1>8. t = <<Head(cmq[k])>>
  BY <1>6
<1> HIDE DEF t
<1>9. t # <<>> /\ t[1].hn = h
  BY <1>7, <1>8
<1>10. InPool(h, k, i)'
  BY <1>9 DEF InPool, t
<1>11. FirstOf(k) \in {"SendSnp", "SendReq"}
  BY DEF FirstOf
<1> QED BY <1>6, <1>10, <1>11

\* Whether the request of the task is still to go out, after an edge.
LEMMA UnsentStays ==
  ASSUME StageInv, NEW in, Step(in), NEW h \in Hn, Unsent(h), ~Launched(h, in)
  PROVE  Unsent(h)'
<1>1. Placed(h) /\ FlagOK(h)
  BY StageParts, PlacedIs DEF StageAt
<1>2. CASE Has(h, "sCmTask")
  <2>1. Has(h, "wCmResp") /\ cmPipe # <<h>>
    BY <1>1, <1>2 DEF FlagOK, Placed
  <2>2. CASE \E k \in Kind : CmTaskOf(k, in) = <<h>>
    <3>1. PICK k \in Kind : CmTaskOf(k, in) = <<h>>
      BY <2>2
    <3>2. \E n : QueueOf(h, k, n)'
      BY <3>1, QueueMovesUp
    <3> QED BY <3>2 DEF Unsent, QueueOf
  <2>3. CASE ~\E k \in Kind : CmTaskOf(k, in) = <<h>>
    <3>1. Has(h, "sCmTask")'
      BY <1>2, <2>1, <2>3, CarryKept
    <3> QED BY <3>1 DEF Unsent
  <2> QED BY <2>2, <2>3
<1>3. ASSUME NEW k \in Kind, NEW n, QueueOf(h, k, n) PROVE Unsent(h)'
  <2>1. n \in Nat /\ n >= 1
    <3>1. n \in 1 .. Len(cmq[k]) /\ cmq[k] \in Seq(CmTask)
      BY <1>3, StageParts DEF QueueOf, PlaceTypes
    <3> QED BY <3>1
  <2>2. Shift(k) \in {0, 1}
    BY DEF Shift
  <2>3. CASE n - Shift(k) >= 1
    <3>1. \E x : QueueOf(h, k, x)'
      BY <1>3, <2>3, QueueMovesUp
    <3> QED BY <3>1 DEF Unsent, QueueOf
  <2>4. CASE ~(n - Shift(k) >= 1)
    <3>1. n = 1 /\ Shift(k) = 1
      BY <2>1, <2>2, <2>4
    <3>2. CmAlloc(k) # <<>>
      BY <3>1 DEF Shift
    <3>3. \E i \in CmEntry : InPool(h, k, i)' /\ cms'[k][i].state \in {"SendSnp", "SendReq"}
      BY <1>3, <3>1, <3>2, AllocEnters
    <3> QED BY <3>3 DEF Unsent
  <2> QED BY <2>3, <2>4
<1>4. ASSUME NEW k \in Kind, NEW i \in CmEntry, InPool(h, k, i), cms[k][i].state \in {"SendSnp", "SendReq"}
      PROVE  Unsent(h)'
  <2>1. PoolMove(k, i, in)
    BY StageParts, PoolStep
  <2>2. Stayed(k, i, in)
    BY <1>4, <2>1 DEF PoolMove, Entered, Absent, NoCm, InPool
  <2>3. TxSnp(in) # << <<k, i>> >> /\ TxReq(in) # << <<k, i>> >>
    <3>1. ~SnpSent(h, in) /\ \A l : ~ReqSent(h, l, in)
      BY DEF Launched
    <3>2. /\ k = "Snp" => (SnpSent(h, in) <=> TxSnp(in) = << <<k, i>> >>)
          /\ k # "Snp" => (ReqSent(h, k, in) <=> TxReq(in) = << <<k, i>> >>)
      BY <1>4, SentBy, ZenonT(30)
    <3>3. cms[k][i].task[1].hn = h
      BY <1>4 DEF InPool
    <3>4. TxSnp(in) = << <<k, i>> >> => SnpSent(h, in)
      BY <3>3 DEF SnpSent, HnOf
    <3>5. TxReq(in) = << <<k, i>> >> => ReqSent(h, k, in)
      BY <3>3 DEF ReqSent, HnOf
    <3> QED BY <3>1, <3>4, <3>5
  <2>4. StateNext(k, i, in) = cms[k][i].state
    <3>1. CASE k = "Snp"
      BY <1>4, <2>2, <2>3, <3>1 DEF StateNext, NextSnpState, To, Stayed, StatesOf
    <3>2. CASE k = "Rd"
      BY <1>4, <2>2, <2>3, <3>2 DEF StateNext, NextRdState, To, Stayed, StatesOf
    <3>3. CASE k = "Wr"
      BY <1>4, <2>2, <2>3, <3>3 DEF StateNext, NextWrState, To, Stayed, StatesOf
    <3> QED BY <3>1, <3>2, <3>3 DEF Kind
  <2>5. cms'[k][i].state = cms[k][i].state /\ cms'[k][i].task = cms[k][i].task
    BY <2>2, <2>4 DEF Stayed
  <2>6. InPool(h, k, i)'
    BY <1>4, <2>5 DEF InPool
  <2> QED BY <1>4, <2>5, <2>6 DEF Unsent
<1> QED BY <1>2, <1>3, <1>4 DEF Unsent, QueueOf

\* A request that is to go out after an edge was so before, or is new.
LEMMA UnsentFrom ==
  ASSUME StageInv, NEW in, Step(in), NEW h \in Hn, Unsent(h)'
  PROVE  Has(h, "sCmTask")' \/ (Unsent(h) /\ ~Launched(h, in))
<1>1. Placed(h) /\ FlagOK(h)
  BY StageParts, PlacedIs DEF StageAt
<1>2. ASSUME NEW k \in Kind, NEW n, QueueOf(h, k, n)' PROVE Unsent(h) /\ ~Launched(h, in)
  <2>1. QueueFrom(h, k, n, in)
    BY <1>2, QueueFromIs
  <2>2. CASE CmTaskOf(k, in) = <<h>>
    <3>1. Has(h, "sCmTask")
      BY <2>2, CarriedFirst
    <3> QED BY <3>1, LaunchIs DEF Unsent
  <2>3. CASE CmTaskOf(k, in) # <<h>>
    <3>1. QueueOf(h, k, n + Shift(k))
      BY <2>1, <2>3 DEF QueueFrom, QueueOf
    <3>2. Carried(h, k, cmq[k][n + Shift(k)]) /\ \A i \in CmEntry : ~InPool(h, k, i)
      BY <1>1, <3>1 DEF Placed
    <3>3. ~Launched(h, in)
      BY <3>2, LaunchIs DEF Carried
    <3> QED BY <3>1, <3>3 DEF Unsent, QueueOf
  <2> QED BY <2>2, <2>3
<1>3. ASSUME NEW k \in Kind, NEW i \in CmEntry, InPool(h, k, i)', cms'[k][i].state \in {"SendSnp", "SendReq"}
      PROVE  Unsent(h) /\ ~Launched(h, in)
  <2>1. PoolFrom(h, k, i, in)
    BY <1>3, PoolNext
  <2>2. CASE Entered(k, i, in) /\ QueueOf(h, k, 1)
    <3>1. ~Launched(h, in)
      BY <2>2, EnteredClean DEF Launched
    <3> QED BY <2>2, <3>1 DEF Unsent, QueueOf
  <2>3. CASE Stayed(k, i, in) /\ InPool(h, k, i)
    <3>1. cms'[k][i].state = StateNext(k, i, in)
      BY <2>3 DEF Stayed
    <3>2. cms[k][i].state = cms'[k][i].state
      <4>1. CASE k = "Snp"
        BY <1>3, <2>3, <3>1, <4>1 DEF StateNext, NextSnpState, To, Stayed, StatesOf
      <4>2. CASE k = "Rd"
        BY <1>3, <2>3, <3>1, <4>2 DEF StateNext, NextRdState, To, Stayed, StatesOf
      <4>3. CASE k = "Wr"
        BY <1>3, <2>3, <3>1, <4>3 DEF StateNext, NextWrState, To, Stayed, StatesOf
      <4> QED BY <4>1, <4>2, <4>3 DEF Kind
    <3>3. ~Launched(h, in)
      <4>1. CASE k = "Snp"
        <5>1. TxSnp(in) # << <<k, i>> >>
          BY <1>3, <2>3, <3>1, <4>1 DEF StateNext, NextSnpState, To, Stayed, StatesOf
        <5>2. ~SnpSent(h, in)
          BY <4>1, <5>1, <2>3, SentBy
        <5>3. \A l : ~ReqSent(h, l, in)
          <6>1. SUFFICES ASSUME NEW l, ReqSent(h, l, in) PROVE FALSE
            OBVIOUS
          <6>2. l \in {"Rd", "Wr"} /\ \E j \in CmEntry : InPool(h, l, j)
            BY <6>1, SentFrom DEF ReqSentAt
          <6>3. entries[h].task = l /\ entries[h].task = k
            BY <1>1, <2>3, <6>2 DEF Placed, Carried, Kind
          <6> QED BY <4>1, <6>2, <6>3
        <5> QED BY <5>2, <5>3 DEF Launched
      <4>2. CASE k = "Rd"
        <5>1. TxReq(in) # << <<k, i>> >>
          BY <1>3, <2>3, <3>1, <4>2 DEF StateNext, NextRdState, To, Stayed, StatesOf
        <5> QED BY <4>2, <5>1, <2>3, SentBy DEF Launched
      <4>3. CASE k = "Wr"
        <5>1. TxReq(in) # << <<k, i>> >>
          BY <1>3, <2>3, <3>1, <4>3 DEF StateNext, NextWrState, To, Stayed, StatesOf
        <5> QED BY <4>3, <5>1, <2>3, SentBy DEF Launched
      <4> QED BY <4>1, <4>2, <4>3 DEF Kind
    <3> QED BY <1>3, <2>3, <3>2, <3>3 DEF Unsent
  <2> QED BY <2>1, <2>2, <2>3 DEF PoolFrom
<1> QED BY <1>2, <1>3 DEF Unsent, QueueOf

\* An entry that runs has sent its request, or has it still to send.
LEMMA UnsentRuns ==
  ASSUME StageInv, NEW in, Step(in), NEW h \in Hn, Runs(h, in)
  PROVE  Unsent(h)' <=> Unsent(h) /\ ~Launched(h, in)
<1>1. ASSUME Unsent(h)' PROVE Unsent(h) /\ ~Launched(h, in)
  <2>1. CASE Has(h, "sCmTask")'
    <3>1. Has(h, "sCmTask")
      BY <2>1 DEF Runs, Ran, Has
    <3> QED BY <3>1, LaunchIs DEF Unsent
  <2> QED BY <1>1, <2>1, UnsentFrom
<1> QED BY <1>1, UnsentStays

\* Whose request is still to go out waits for it.
LEMMA UnsentWaits ==
  ASSUME StageInv, NEW h \in Hn, Unsent(h)
  PROVE  Has(h, "wCmResp")
<1>1. Placed(h) /\ FlagOK(h)
  BY StageParts, PlacedIs DEF StageAt
<1> QED BY <1>1 DEF Placed, FlagOK, Carried, Unsent, QueueOf

\* The answer that an edge gives, by the way the row has.
AnswerIs(h, in, way) ==
  LET A == AnswersNow(h, in)
  IN /\ A = {} \/ \E x : A = {x}
     /\ way = "early" => A = {}
     /\ way = "rsp" => (A # {} <=> TxRsp(in) = <<h>> /\ Has(h, "sResp"))
     /\ way = "dbid" => (A # {} <=> TxRsp(in) = <<h>> /\ Has(h, "sDbid"))
     /\ way = "dat" => (A # {} <=> DataTaskOf(in) = <<h>>)
     /\ way = "first" => (A # {} <=> Launched(h, in) /\ entries[h].state = "FstTask")
     /\ way = "second" => (A # {} <=> Launched(h, in) /\ entries[h].state # "FstTask")

\* An answer is of the way the row has, and finds that none was given.
LEMMA AnswerFinds ==
  ASSUME StageInv, NEW in, Step(in), NEW h \in Hn, NEW way, AnsweredBy(entries[h].plan) = {way}
  PROVE  AnswerIs(h, in, way)
<1> DEFINE p == entries[h].plan
           A == AnswersNow(h, in)
<1>1. StateOK(h) /\ FlagOK(h) /\ Outputs(h, in) /\ AnswersAre(h, in)
  BY StageParts, OutputsOf, AnswersOf DEF StageAt
<1>2. /\ way \in {"early", "rsp", "dat", "dbid", "first", "second"}
      /\ way = "early" <=> p.alr = "data"
      /\ way = "rsp" <=> p.rsp = "RSP"
      /\ way = "dat" <=> p.op = "data" /\ p.rsp = "DAT" /\ p.alr # "data"
      /\ way = "dbid" <=> p.dbid /\ p.alr # "dbid" /\ p.copy
      /\ way = "first" <=> Direct(p, p.t1)
      /\ way = "second" <=> Direct(p, p.t2)
  BY Ways
<1>3. "rsp" \in A <=> \/ way = "rsp" /\ TxRsp(in) = <<h>> /\ Has(h, "sResp")
                      \/ way = "dbid" /\ TxRsp(in) = <<h>> /\ Has(h, "sDbid")
  <2>1. Has(h, "sResp") => way = "rsp"
    BY <1>1, <1>2 DEF FlagOK
  <2>2. Has(h, "sDbid") => p.dbid /\ p.alr # "dbid"
    BY <1>1 DEF FlagOK
  <2>3. "rsp" \in A <=> TxRsp(in) = <<h>> /\ (Has(h, "sResp") \/ p.copy)
    BY <1>1 DEF AnswersAre
  <2>4. TxRsp(in) = <<h>> => Has(h, "sResp") \/ Has(h, "sDbid")
    BY <1>1 DEF Outputs
  <2> QED BY <1>2, <2>1, <2>2, <2>3, <2>4
<1>4. "dat" \in A <=> way = "dat" /\ DataTaskOf(in) = <<h>>
  <2>1. DataTaskOf(in) = <<h>> => p.op = "data" /\ p.alr # "data"
    BY <1>1 DEF Outputs, FlagOK
  <2>2. "dat" \in A <=> DataTaskOf(in) = <<h>> /\ p.rsp = "DAT"
    BY <1>1 DEF AnswersAre
  <2> QED BY <1>2, <2>1, <2>2
<1>5. ("fwd" \in A \/ "dmt" \in A) <=> \/ way = "first" /\ Launched(h, in) /\ entries[h].state = "FstTask"
                                       \/ way = "second" /\ Launched(h, in) /\ entries[h].state # "FstTask"
  <2>1. Launched(h, in) => entries[h].task = IF entries[h].state = "FstTask" THEN p.t1 ELSE p.t2
    <3>1. ASSUME Launched(h, in) PROVE entries[h].task \in Kind /\ Has(h, "wCmResp")
      BY <3>1, LaunchIs
    <3>2. Launched(h, in) => entries[h].state \in {"FstTask", "SecTask", "Commit"} /\ entries[h].task # "none"
      BY <1>1, <3>1, HasBusy DEF StateOK, Busy, Kind
    <3> QED BY <1>1, <3>2 DEF StateOK
  <2>2. "fwd" \in A \/ "dmt" \in A <=> Launched(h, in) /\ Direct(p, entries[h].task)
    BY LaunchIs
  <2> QED BY <1>2, <2>1, <2>2
<1>6. A \subseteq {"rsp", "dat", "fwd", "dmt"} /\ ~("fwd" \in A /\ "dmt" \in A)
  BY <1>1, LaunchIs DEF AnswersAre
<1> HIDE DEF A, p
<1>7. A = {} \/ \E x : A = {x}
  <2>1. "rsp" \in A => A = {"rsp"}
    BY <1>2, <1>3, <1>4, <1>5, <1>6
  <2>2. "dat" \in A => A = {"dat"}
    BY <1>2, <1>3, <1>4, <1>5, <1>6
  <2>3. "fwd" \in A => A = {"fwd"}
    BY <1>2, <1>3, <1>4, <1>5, <1>6
  <2>4. "dmt" \in A => A = {"dmt"}
    BY <1>2, <1>3, <1>4, <1>5, <1>6
  <2> QED BY <1>6, <2>1, <2>2, <2>3, <2>4
<1>8. A # {} <=> "rsp" \in A \/ "dat" \in A \/ ("fwd" \in A \/ "dmt" \in A)
  BY <1>6
<1> QED BY <1>3, <1>4, <1>5, <1>7, <1>8 DEF AnswerIs, A

\* A free slot answers nobody.
LEMMA NobodyAnswered ==
  ASSUME StageInv, NEW in, Step(in), NEW h \in Hn, ~Busy(h)
  PROVE  AnswersNow(h, in) = {}
<1>1. StateOK(h) /\ Outputs(h, in) /\ AnswersAre(h, in)
  BY StageParts, OutputsOf, AnswersOf DEF StageAt
<1>2. \A f : ~Has(h, f)
  BY <1>1, HasBusy
<1>3. ~Launched(h, in)
  BY <1>2, LaunchIs
<1> QED BY <1>1, <1>2, <1>3, LaunchIs DEF AnswersAre, Outputs

\* An answer is given once.
AnswerStep(h, in) ==
  /\ AnswersNow(h, in) = {} \/ \E x : AnswersNow(h, in) = {x}
  /\ AnswersNow(h, in) # {} => ~Answered(h)
  /\ Busy(h)' => (Answered(h)' <=> Answered(h) \/ AnswersNow(h, in) # {})

AnsweredIs(h, way) ==
  LET st == entries[h].state
  IN /\ way = "early" => Answered(h)
     /\ way = "rsp" => (Answered(h) <=> st \in {"Commit", "Clean"} /\ ~Has(h, "sResp"))
     /\ way = "dat" => (Answered(h) <=> st \in {"Commit", "Clean"} /\ ~Has(h, "sDataTask"))
     /\ way = "dbid" => (Answered(h) <=> ~Has(h, "sDbid"))
     /\ way = "first" => (Answered(h) <=> ~(st = "FstTask" /\ Unsent(h)))
     /\ way = "second" => (Answered(h) <=> st # "FstTask" /\ ~Unsent(h))

\* Answered, by the way of the row.
LEMMA AnsweredWay ==
  ASSUME NEW h, NEW way, way \in {"early", "rsp", "dat", "dbid", "first", "second"}
  PROVE  /\ AnsweredBy(entries[h].plan) = {way} => AnsweredIs(h, way)
         /\ (AnsweredBy(entries[h].plan) = {way})' => AnsweredIs(h, way)'
<1>1. ASSUME AnsweredBy(entries[h].plan) = {way} PROVE AnsweredIs(h, way)
  <2> DEFINE w == AnsweredBy(entries[h].plan)
  <2>1. \A x : x \in w <=> x = way
    BY <1>1
  <2> HIDE DEF w
  <2> QED BY <2>1 DEF Answered, AnsweredIs, w
<1>2. ASSUME (AnsweredBy(entries[h].plan) = {way})' PROVE AnsweredIs(h, way)'
  <2> DEFINE w == AnsweredBy(entries[h].plan)'
  <2>1. \A x : x \in w <=> x = way
    BY <1>2
  <2> HIDE DEF w
  <2> QED BY <2>1 DEF Answered, AnsweredIs, w
<1> QED BY <1>1, <1>2

\* An entry that runs counts its answer once.
LEMMA AnswerRuns ==
  ASSUME StageInv, NEW in, Step(in), NEW h \in Hn, NEW way, AnsweredBy(entries[h].plan) = {way}, Runs(h, in)
  PROVE  AnswerStep(h, in)
<1> DEFINE r == entries[h]
           s == entries'[h]
           A == AnswersNow(h, in)
<1>1. StateOK(h) /\ FlagOK(h) /\ in \in CommitInputs /\ Busy(h)
  BY StageParts DEF StageAt, Step, Runs
<1>2. way \in {"early", "rsp", "dat", "dbid", "first", "second"}
  BY Ways
<1>3. AnswerIs(h, in, way) /\ AnsweredIs(h, way)
  BY <1>2, AnswerFinds, AnsweredWay
<1>4. r.state \in {"FstTask", "SecTask", "Commit", "Clean"} /\ (r.state = "Clean" => r.flag = {})
  BY <1>1 DEF StateOK, Busy
<1>5. Unsent(h)' <=> Unsent(h) /\ ~Launched(h, in)
  BY UnsentRuns
<1>6. Launched(h, in) => Unsent(h)
  BY LaunchIs DEF Unsent
<1>7. A # {} => ~Answered(h)
  <2>1. Has(h, "sResp") => ~(way = "rsp" /\ Answered(h))
    BY <1>3 DEF AnsweredIs
  <2>2. DataTaskOf(in) = <<h>> => Has(h, "sDataTask")
    BY OutputsOf DEF Outputs
  <2> QED BY <1>2, <1>3, <1>6, <2>1, <2>2 DEF AnsweredIs, AnswerIs
<1>8. ASSUME Busy(h)' PROVE Answered(h)' <=> Answered(h) \/ A # {}
  <2>1. s.plan = r.plan /\ (s.state = r.state \/ (r.state = "Commit" /\ s.state = "Clean"))
    BY <1>4, <1>8, OutputsOf DEF Runs, Ran, Outputs, Busy
  <2>2. AnsweredIs(h, way)'
    BY <1>2, <2>1, AnsweredWay
  <2>3. /\ "sResp" \in s.flag <=> "sResp" \in r.flag /\ TxRsp(in) # <<h>>
        /\ "sDbid" \in s.flag <=> "sDbid" \in r.flag /\ TxRsp(in) # <<h>>
        /\ "sDataTask" \in s.flag <=> "sDataTask" \in r.flag /\ DataTaskOf(in) # <<h>>
    <3>1. s.flag = r.flag \ (Fired(h, in) \cup Hits(h, in))
      BY DEF Runs, Ran
    <3>2. FiredAre(h, in) /\ HitsAre(h, in)
      BY <1>1, FiredOf, HitsOf
    <3>3. "sResp" \notin Hits(h, in) /\ "sDbid" \notin Hits(h, in) /\ "sDataTask" \notin Hits(h, in)
      BY <3>2 DEF HitsAre
    <3> HIDE DEF r, s
    <3> QED BY <3>1, <3>2, <3>3 DEF FiredAre
  <2>4. /\ Has(h, "sResp") => r.state \in {"Commit", "Clean"}
        /\ Has(h, "sDataTask") => r.state \in {"Commit", "Clean"}
        /\ DataTaskOf(in) = <<h>> => Has(h, "sDataTask")
    BY <1>1, <1>4, OutputsOf DEF StateOK, Has, FstFlags, SecFlags, Outputs
  <2>5. s.state \in {"Commit", "Clean"} <=> r.state \in {"Commit", "Clean"}
    BY <2>1
  <2>6. s.state = "FstTask" <=> r.state = "FstTask"
    BY <2>1
  <2> HIDE DEF r, s, A
  <2>7. CASE way = "early"
    BY <1>3, <2>2, <2>7 DEF AnsweredIs
  <2>8. CASE way = "rsp"
    BY <1>3, <2>2, <2>3, <2>4, <2>5, <2>8 DEF AnsweredIs, AnswerIs, Has, r, s, A
  <2>9. CASE way = "dat"
    BY <1>3, <2>2, <2>3, <2>4, <2>5, <2>9 DEF AnsweredIs, AnswerIs, Has, r, s, A
  <2>10. CASE way = "dbid"
    BY <1>3, <2>2, <2>3, <2>10 DEF AnsweredIs, AnswerIs, Has, r, s, A
  <2>11. CASE way = "first"
    BY <1>3, <1>5, <1>6, <2>2, <2>6, <2>11 DEF AnsweredIs, AnswerIs, r, s, A
  <2>12. CASE way = "second"
    BY <1>3, <1>5, <1>6, <2>2, <2>6, <2>12 DEF AnsweredIs, AnswerIs, r, s, A
  <2> QED BY <1>2, <2>7, <2>8, <2>9, <2>10, <2>11, <2>12
<1> QED BY <1>3, <1>7, <1>8 DEF AnswerStep, AnswerIs

\* A decoding answers nobody, and forgets no answer.
LEMMA AnswerRedoes ==
  ASSUME StageInv, NEW in, Step(in), NEW h \in Hn, NEW way, AnsweredBy(entries[h].plan) = {way}, Redoes(h, in)
  PROVE  AnswerStep(h, in) /\ AnswersNow(h, in) = {}
<1> DEFINE r == entries[h]
           s == entries'[h]
           p == r.plan
           A == AnswersNow(h, in)
<1>1. StateOK(h) /\ FlagOK(h) /\ in \in CommitInputs /\ r.state \in {"FstTask", "SecTask"}
  BY StageParts DEF StageAt, Step, Redoes
<1>2. way \in {"early", "rsp", "dat", "dbid", "first", "second"}
  BY Ways
<1>3. AnswerIs(h, in, way) /\ AnsweredIs(h, way)
  BY <1>2, AnswerFinds, AnsweredWay
<1>4. p \in Rows /\ RowOK(p)
  BY <1>1, RowFacts DEF StateOK
<1>5. ~Unsent(h) /\ ~Launched(h, in)
  <2>1. ~Has(h, "wCmResp")
    BY DEF Redoes, Lacks, Has
  <2> QED BY <2>1, UnsentWaits, LaunchIs
<1>6. ~Has(h, "sDbid") /\ ~Has(h, "sResp") /\ ~Has(h, "sDataTask")
  <2>1. ~Has(h, "sResp") /\ ~Has(h, "sDataTask")
    BY <1>1 DEF StateOK, Has, FstFlags, SecFlags
  <2>2. \A b \in p.vec : Xcb[b] \in {"wXCB0", "wXCB1"}
    BY <1>4, XcbNames DEF RowOK
  <2>3. \A b \in p.vec : ~Has(h, Xcb[b])
    BY <2>2 DEF Redoes, Lacks, Has
  <2>4. p.vec # {}
    BY <1>4 DEF RowOK
  <2> QED BY <1>1, <2>1, <2>3, <2>4 DEF FlagOK
<1>7. A = {}
  <2>1. DataTaskOf(in) # <<h>>
    BY <1>6, OutputsOf DEF Outputs
  <2> QED BY <1>2, <1>3, <1>5, <1>6, <2>1 DEF AnswerIs
<1>8. Answered(h)' <=> Answered(h)
  <2>1. s.plan = p
    BY DEF Redoes, Redone
  <2>2. AnsweredIs(h, way)'
    BY <1>2, <2>1, AnsweredWay
  <2>3. s.state \in {"SecTask", "Commit"}
    BY DEF Redoes, Redone
  <2>4. Unsent(h)' => Has(h, "sCmTask")'
    BY <1>5, UnsentFrom
  <2>5. CASE way = "early"
    BY <1>3, <2>2, <2>5 DEF AnsweredIs
  <2>6. CASE way = "rsp"
    <3>1. p.rsp = "RSP"
      BY <2>6, Ways
    <3>2. s.state = "Commit" => "sResp" \in s.flag
      BY <3>1 DEF Redoes, Redone
    <3> QED BY <1>1, <1>3, <2>2, <2>3, <2>6, <3>2 DEF AnsweredIs, Has
  <2>7. CASE way = "dat"
    <3>1. p.op = "data"
      BY <2>7, Ways
    <3>2. s.state = "Commit" => "sDataTask" \in s.flag
      BY <3>1 DEF Redoes, Redone
    <3> QED BY <1>1, <1>3, <2>2, <2>3, <2>7, <3>2 DEF AnsweredIs, Has
  <2>8. CASE way = "dbid"
    <3>1. "sDbid" \notin s.flag
      BY DEF Redoes, Redone
    <3> QED BY <1>3, <1>6, <2>2, <2>8, <3>1 DEF AnsweredIs, Has
  <2>9. CASE way = "first"
    BY <1>3, <1>5, <2>2, <2>3, <2>9 DEF AnsweredIs
  <2>10. CASE way = "second"
    <3>1. p.t2 # "none"
      BY <2>10, Ways DEF Direct
    <3>2. CASE r.state = "FstTask"
      <4>1. "sCmTask" \in s.flag
        BY <3>1, <3>2 DEF Redoes, Redone
      <4>2. Unsent(h)'
        BY <4>1 DEF Unsent, Has
      <4> QED BY <1>3, <2>2, <2>3, <2>10, <3>2, <4>2 DEF AnsweredIs
    <3>3. CASE r.state = "SecTask"
      <4>1. "sCmTask" \notin s.flag
        BY <3>3 DEF Redoes, Redone
      <4>2. ~Unsent(h)'
        BY <2>4, <4>1 DEF Has
      <4> QED BY <1>3, <1>5, <2>2, <2>3, <2>10, <3>3, <4>2 DEF AnsweredIs
    <3> QED BY <1>1, <3>2, <3>3
  <2> QED BY <1>2, <2>5, <2>6, <2>7, <2>8, <2>9, <2>10
<1> QED BY <1>7, <1>8 DEF AnswerStep

\* A new entry is answered just when the front end has done so.
LEMMA AnswerFills ==
  ASSUME StageInv, NEW in, Step(in), NEW h \in Hn, Fills(h, in)
  PROVE  Answered(h)' <=> pipe[1].plan.alr = "data"
<1> DEFINE p == pipe[1].plan
           s == entries'[h]
<1>1. StateOK(h) /\ OutTypes /\ AllocHit(h)
  BY StageParts DEF StageAt, Fills
<1>2. RowOK(p)
  BY <1>1, RowIs DEF Row
<1>3. PICK way : AnsweredBy(p) = {way}
  BY <1>2 DEF RowOK
<1>4. way \in {"early", "rsp", "dat", "dbid", "first", "second"} /\ (way = "early" <=> p.alr = "data")
  BY <1>3, Ways
<1>5. s.plan = p /\ s.state = (IF FirstValid(p) THEN "FstTask" ELSE "Commit")
  BY DEF Fills, Filled
<1>6. AnsweredIs(h, way)'
  BY <1>3, <1>4, <1>5, AnsweredWay
<1>7. CASE way = "early"
  BY <1>4, <1>6, <1>7 DEF AnsweredIs
<1>8. CASE way = "rsp"
  <2>1. p.rsp = "RSP"
    BY <1>3, <1>8, Ways
  <2>2. s.state = "Commit" => "sResp" \in s.flag
    BY <2>1 DEF Fills, Filled
  <2> QED BY <1>4, <1>5, <1>6, <1>8, <2>2 DEF AnsweredIs, Has
<1>9. CASE way = "dat"
  <2>1. p.op = "data" /\ p.alr # "data"
    BY <1>3, <1>9, Ways
  <2>2. s.state = "Commit" => "sDataTask" \in s.flag
    BY <2>1 DEF Fills, Filled
  <2> QED BY <1>4, <1>5, <1>6, <1>9, <2>2 DEF AnsweredIs, Has
<1>10. CASE way = "dbid"
  <2>1. p.dbid /\ p.alr # "dbid"
    BY <1>3, <1>10, Ways
  <2>2. "sDbid" \in s.flag
    BY <2>1 DEF Fills, Filled
  <2> QED BY <1>4, <1>6, <1>10, <2>2 DEF AnsweredIs, Has
<1>11. CASE way = "first"
  <2>1. p.t1 # "none"
    BY <1>3, <1>11, Ways DEF Direct
  <2>2. "sCmTask" \in s.flag /\ s.state = "FstTask"
    BY <2>1 DEF Fills, Filled, FirstValid
  <2>3. Unsent(h)'
    BY <2>2 DEF Unsent, Has
  <2> QED BY <1>4, <1>6, <1>11, <2>2, <2>3 DEF AnsweredIs
<1>12. CASE way = "second"
  <2>1. p.t2 # "none"
    BY <1>3, <1>12, Ways DEF Direct
  <2>2. s.state = "FstTask"
    BY <1>2, <1>5, <2>1 DEF RowOK
  <2> QED BY <1>4, <1>6, <1>12, <2>2 DEF AnsweredIs
<1> QED BY <1>4, <1>7, <1>8, <1>9, <1>10, <1>11, <1>12

\* How the count of answers goes on.
LEMMA AnswerNumber ==
  ASSUME NEW in, Step(in), NEW h \in Hn
  PROVE  /\ IsOpened(h, in) => answers'[h] = IF in.open[1].plan.alr = "data" THEN 1 ELSE 0
         /\ ~IsOpened(h, in) => answers'[h] = answers[h] + Cardinality(AnswersNow(h, in))
<1> DEFINE E == {o.hn : o \in {x \in {in.open[i] : i \in DOMAIN in.open} : x.plan.alr = "data"}}
<1>1. CommitEnv(in) /\ in.open \in Opt([hn : Hn, plan : Rows])
  BY OpenIs DEF Step
<1>2. answers' = [g \in Hn |-> IF in.open # <<>> /\ in.open[1].hn = g THEN Cardinality(E)
                               ELSE answers[g] + Cardinality(AnswersNow(g, in))]
  BY <1>1, ZenonT(60) DEF CommitEnv
<1>3. ASSUME IsOpened(h, in) PROVE Cardinality(E) = IF in.open[1].plan.alr = "data" THEN 1 ELSE 0
  <2>1. in.open = <<in.open[1]>> /\ DOMAIN in.open = {1}
    BY <1>1, <1>3, OptOne DEF IsOpened
  <2>2. \A x : x \in {in.open[i] : i \in DOMAIN in.open} <=> x = in.open[1]
    BY <2>1
  <2>3. CASE in.open[1].plan.alr = "data"
    <3>1. E = {in.open[1].hn}
      BY <2>2, <2>3
    <3> QED BY <2>3, <3>1, FS_Singleton
  <2>4. CASE in.open[1].plan.alr # "data"
    <3>1. E = {}
      BY <2>2, <2>4
    <3> QED BY <2>4, <3>1, FS_EmptySet
  <2> QED BY <2>3, <2>4
<1> HIDE DEF E
<1>4. answers'[h] = IF in.open # <<>> /\ in.open[1].hn = h THEN Cardinality(E)
                    ELSE answers[h] + Cardinality(AnswersNow(h, in))
  BY <1>2
<1> QED BY <1>3, <1>4 DEF IsOpened

\* Either way a busy entry counts its answer once.
LEMMA AnswerSteps ==
  ASSUME StageInv, NEW in, Step(in), NEW h \in Hn, Busy(h)
  PROVE  AnswerStep(h, in)
<1>1. StateOK(h)
  BY StageParts DEF StageAt
<1>2. entries[h].plan \in Rows /\ RowOK(entries[h].plan)
  BY <1>1, RowFacts DEF StateOK, Busy
<1>3. PICK way : AnsweredBy(entries[h].plan) = {way}
  BY <1>2 DEF RowOK
<1>4. Redoes(h, in) \/ Runs(h, in)
  BY EntryCase DEF Idles, Fills, Busy, NoEntry
<1>5. Redoes(h, in) => AnswerStep(h, in)
  BY <1>3, AnswerRedoes
<1>6. Runs(h, in) => AnswerStep(h, in)
  BY <1>3, AnswerRuns
<1> QED BY <1>4, <1>5, <1>6

\* A step keeps the count of answers: one when answered, none before.
LEMMA AnswerKept ==
  ASSUME StageInv, NEW in, Step(in), NEW h \in Hn
  PROVE  AnswerOK(h)' /\ answers'[h] \in {0, 1}
<1>1. AnswerOK(h) /\ StateOK(h) /\ OutTypes /\ answers[h] \in {0, 1}
  BY StageParts DEF StageAt, OutTypes
<1>2. AllocHit(h)' <=> IsOpened(h, in)
  BY OpenIs
<1>3. CASE IsOpened(h, in)
  <2>1. answers'[h] = (IF in.open[1].plan.alr = "data" THEN 1 ELSE 0) /\ pipe' = in.open
    BY <1>3, AnswerNumber, OpenIs
  <2>2. ~Busy(h)'
    <3>1. ~Busy(h) /\ ~AllocHit(h)
      BY <1>3, OpenIs
    <3> QED BY <3>1, EntryCase DEF Idles, Fills, Redoes, Runs, Busy, NoEntry
  <2> QED BY <2>1, <2>2 DEF AnswerOK
<1>4. CASE ~IsOpened(h, in)
  <2>1. answers'[h] = answers[h] + Cardinality(AnswersNow(h, in)) /\ ~AllocHit(h)'
    BY <1>2, <1>4, AnswerNumber
  <2>2. CASE ~Busy(h)
    <3>1. answers'[h] = answers[h]
      <4>1. Cardinality(AnswersNow(h, in)) = 0
        BY <2>2, NobodyAnswered, FS_EmptySet
      <4> QED BY <1>1, <2>1, <4>1
    <3>2. CASE Fills(h, in)
      <4>1. answers[h] = IF pipe[1].plan.alr = "data" THEN 1 ELSE 0
        BY <1>1, <3>2 DEF AnswerOK, Fills
      <4>2. Answered(h)' <=> pipe[1].plan.alr = "data"
        BY <3>2, AnswerFills
      <4> QED BY <1>1, <2>1, <3>1, <4>1, <4>2 DEF AnswerOK
    <3>3. CASE Idles(h)
      BY <1>1, <2>1, <3>1, <3>3 DEF Idles, AnswerOK, Busy, NoEntry
    <3> QED BY <2>2, <3>2, <3>3, EntryCase DEF Redoes, Runs, Busy
  <2>3. CASE Busy(h)
    <3>3. AnswerStep(h, in)
      BY <2>3, AnswerSteps
    <3>4. answers[h] = IF Answered(h) THEN 1 ELSE 0
      BY <1>1, <2>3 DEF AnswerOK
    <3>5. CASE AnswersNow(h, in) = {}
      <4>1. answers'[h] = answers[h]
        BY <1>1, <2>1, <3>5, FS_EmptySet
      <4> QED BY <1>1, <2>1, <3>3, <3>4, <3>5, <4>1 DEF AnswerOK, AnswerStep
    <3>6. CASE AnswersNow(h, in) # {}
      <4>1. PICK x : AnswersNow(h, in) = {x}
        BY <3>3, <3>6 DEF AnswerStep
      <4>2. Cardinality(AnswersNow(h, in)) = 1
        BY <4>1, FS_Singleton
      <4>3. ~Answered(h) /\ answers'[h] = 1
        BY <2>1, <3>3, <3>4, <3>6, <4>2 DEF AnswerStep
      <4> QED BY <2>1, <3>3, <3>6, <4>3 DEF AnswerOK, AnswerStep
    <3> QED BY <3>5, <3>6
  <2> QED BY <2>2, <2>3
<1> QED BY <1>3, <1>4

-----------------------------------------------------------------------------
(* The acknowledgement of the requester.                                   *)

\* An ack that comes alone finds its requester answered.
LEMMA AckFinds ==
  ASSUME StageInv, NEW in, Step(in), NEW h \in Hn, AckHit(h, in), ~WriteData(Row(h))
  PROVE  /\ Flit(h, "ack", 0) \in Came(in)
         /\ (Busy(h) /\ Answered(h)) \/ (AllocHit(h) /\ Row(h).alr = "data")
<1>1. OutTypes /\ StateOK(h) /\ XcbOK(h) /\ AckOK(h) /\ in \in CommitInputs
  BY StageParts DEF StageAt, Step
<1>2. PICK m \in Of(h, {"ack", "wr", "wrack"}) : m \in Came(in) /\ m.op \in {"ack", "wrack"}
  BY <1>1, AckHeard
<1>3. m.op # "wrack"
  <2>1. m.op = "wrack" => m \in Of(h, {"wr", "wrack"})
    BY DEF Of
  <2> QED BY <1>1, <2>1, WriteDue
<1>4. m \in Of(h, {"ack"})
  BY <1>2, <1>3 DEF Of
<1> QED BY <1>1, <1>2, <1>4 DEF AckOK

\* Who waits for an ack waits until it comes.
LEMMA FlagStays ==
  ASSUME StageInv, NEW in, Step(in), NEW h \in Hn, Busy(h), Has(h, "wCompAck"), ~AckHit(h, in)
  PROVE  Has(h, "wCompAck")' /\ Busy(h)' /\ ~AllocHit(h)' /\ entries'[h].plan = entries[h].plan
<1>1. StateOK(h) /\ in \in CommitInputs
  BY StageParts DEF StageAt, Step
<1>2. HitsAre(h, in) /\ FiredAre(h, in)
  BY <1>1, HitsOf, FiredOf
<1>3. "wCompAck" \notin Hits(h, in) /\ "wCompAck" \notin Fired(h, in)
  BY <1>2 DEF HitsAre, FiredAre
<1>4. ~AllocHit(h)'
  BY OpenIs
<1>5. CASE Runs(h, in)
  <2>1. entries'[h].plan = entries[h].plan /\ entries'[h].state = entries[h].state /\ Has(h, "wCompAck")'
    BY <1>1, <1>3, <1>5, RunKeeps
  <2> QED BY <1>4, <2>1 DEF Busy
<1>6. CASE Redoes(h, in)
  BY <1>3, <1>4, <1>6 DEF Redoes, Redone, Busy, Has
<1> QED BY <1>5, <1>6, EntryCase DEF Idles, Fills, Busy, NoEntry

\* A step keeps the acks that are due waited for.
LEMMA AckKept ==
  ASSUME StageInv, NEW in, Step(in), NEW h \in Hn
  PROVE  AckOK(h)'
<1> DEFINE p == entries[h].plan
           a == Flit(h, "ack", 0)
<1>1. OutTypes /\ StateOK(h) /\ AckOK(h) /\ in \in CommitInputs
  BY StageParts DEF StageAt, Step
<1>2. HitsAre(h, in)
  BY <1>1, HitsOf
\* An entry that waits for it goes on waiting.
<1>3. ASSUME Busy(h), Has(h, "wCompAck"), ~AckHit(h, in), p.ack, ~WriteData(p)
      PROVE  /\ Row(h)' = p /\ Busy(h)' /\ Has(h, "wCompAck")'
             /\ Answered(h) \/ AnswersNow(h, in) # {} => Answered(h)'
  <2>1. Has(h, "wCompAck")' /\ Busy(h)' /\ ~AllocHit(h)' /\ entries'[h].plan = p
    BY <1>3, FlagStays
  <2>2. AnswerStep(h, in)
    BY <1>3, AnswerSteps
  <2> QED BY <2>1, <2>2 DEF Row, AnswerStep
<1>4. ASSUME Fills(h, in), Row(h).ack, ~WriteData(Row(h)), ~AckHit(h, in)
      PROVE  /\ Row(h)' = Row(h) /\ Busy(h)' /\ Has(h, "wCompAck")'
             /\ Row(h).alr = "data" => Answered(h)'
  <2>1. ~AllocHit(h)' /\ Row(h) = pipe[1].plan
    BY <1>4, OpenIs DEF Fills, Row
  <2>2. entries'[h].plan = pipe[1].plan /\ entries'[h].state \in {"FstTask", "Commit"}
    BY <1>4 DEF Fills, Filled
  <2>3. "wCompAck" \in entries'[h].flag
    BY <1>2, <1>4, <2>1 DEF Fills, Filled, HitsAre
  <2> QED BY <1>4, <2>1, <2>2, <2>3, AnswerFills DEF Row, Busy, Has
<1>5. ASSUME NEW m \in Of(h, {"ack"})'
      PROVE  /\ m = a /\ Row(h)'.ack /\ ~WriteData(Row(h)')
             /\ \/ Busy(h)' /\ Has(h, "wCompAck")' /\ Answered(h)'
                \/ AllocHit(h)' /\ Row(h)'.alr = "data"
  <2>1. m \in due' /\ m.hn = h /\ m.op = "ack"
    BY <1>5 DEF Of
  <2>2. (m \in due /\ m \notin Came(in)) \/ AckFrom(h, in, m)
    BY <2>1, DueOrigin DEF DueFrom
  <2>3. CASE m \in due /\ m \notin Came(in)
    <3>1. m \in Of(h, {"ack"})
      BY <2>1, <2>3 DEF Of
    <3>2. /\ m = a /\ Row(h).ack /\ ~WriteData(Row(h))
          /\ \/ Busy(h) /\ Has(h, "wCompAck") /\ Answered(h)
             \/ AllocHit(h) /\ Row(h).alr = "data"
      BY <1>1, <3>1 DEF AckOK
    <3>3. ~AckHit(h, in)
      BY <2>3, <3>2, AckFinds
    <3>4. CASE Busy(h) /\ Has(h, "wCompAck") /\ Answered(h)
      <4>1. Row(h) = p
        BY <1>1, <3>4 DEF StateOK, Row, Busy
      <4> QED BY <1>3, <3>2, <3>3, <3>4, <4>1
    <3>5. CASE AllocHit(h) /\ Row(h).alr = "data"
      <4>1. Fills(h, in)
        BY <3>5, EntryCase DEF Idles, Redoes, Runs
      <4> QED BY <1>4, <3>2, <3>3, <3>5, <4>1
    <3> QED BY <3>2, <3>4, <3>5
  <2>4. CASE AnswersNow(h, in) # {} /\ m \in Acks(h, p)
    <3>1. m = a /\ p.ack /\ ~WriteData(p)
      BY <2>4, AckIs
    <3>2. Busy(h)
      BY <2>4, NobodyAnswered
    <3>3. ~Answered(h) /\ Row(h) = p /\ ~AllocHit(h)
      BY <1>1, <2>4, <3>2, AnswerSteps DEF AnswerStep, StateOK, Row, Busy
    <3>4. Has(h, "wCompAck")
      BY <1>1, <3>1, <3>2, <3>3 DEF AckOK
    <3>5. ~AckHit(h, in)
      BY <3>1, <3>3, AckFinds
    <3> QED BY <1>3, <2>4, <3>1, <3>2, <3>4, <3>5
  <2>5. CASE IsOpened(h, in) /\ in.open[1].plan.alr = "data" /\ m \in Acks(h, in.open[1].plan)
    <3>1. AllocHit(h)' /\ pipe' = in.open
      BY <2>5, OpenIs
    <3>2. Row(h)' = in.open[1].plan
      BY <3>1 DEF Row
    <3> QED BY <2>5, <3>1, <3>2, AckIs
  <2> QED BY <2>2, <2>3, <2>4, <2>5 DEF AckFrom
<1>6. ASSUME Busy(h)', entries'[h].plan.ack, ~WriteData(entries'[h].plan), ~Answered(h)'
      PROVE  Has(h, "wCompAck")'
  <2>1. CASE Busy(h)
    <3>1. entries'[h].plan = p
      BY <1>6, <2>1, EntryCase DEF Idles, Fills, Redoes, Redone, Runs, Ran, Busy, NoEntry
    <3>2. ~Answered(h)
      BY <1>6, <2>1, AnswerSteps DEF AnswerStep
    <3>3. Has(h, "wCompAck") /\ Row(h) = p /\ ~AllocHit(h)
      BY <1>1, <1>6, <2>1, <3>1, <3>2 DEF AckOK, StateOK, Row, Busy
    <3>4. ~AckHit(h, in)
      BY <1>6, <3>1, <3>2, <3>3, AckFinds
    <3> QED BY <1>3, <1>6, <2>1, <3>1, <3>3, <3>4
  <2>2. CASE ~Busy(h)
    <3>1. Fills(h, in)
      BY <1>6, <2>2, EntryCase DEF Idles, Redoes, Runs, Busy, NoEntry
    <3>2. Row(h) = entries'[h].plan
      BY <3>1 DEF Fills, Filled, Row
    <3>3. Row(h).alr # "data"
      BY <1>6, <3>1, AnswerFills DEF Row, Fills
    <3>4. ~AckHit(h, in)
      BY <1>6, <2>2, <3>2, <3>3, AckFinds
    <3> QED BY <1>4, <1>6, <3>1, <3>2, <3>4
  <2> QED BY <2>1, <2>2
<1> QED BY <1>5, <1>6 DEF AckOK

-----------------------------------------------------------------------------
(* The data of a write, the data tasks and the directory writes.           *)

\* Who waits for a beat waits until it comes.
LEMMA BeatStays ==
  ASSUME StageInv, NEW in, Step(in), NEW h \in Hn, NEW b \in {0, 1}, Has(h, Xcb[b]), Xcb[b] \notin XcbHits(h, in)
  PROVE  /\ Has(h, Xcb[b])' /\ Row(h) = entries[h].plan /\ Row(h)' = entries[h].plan
         /\ ~Has(h, "sDbid") \/ TxRsp(in) = <<h>> => ~Has(h, "sDbid")'
<1>1. StateOK(h) /\ in \in CommitInputs
  BY StageParts DEF StageAt, Step
<1>2. HitsAre(h, in) /\ FiredAre(h, in)
  BY <1>1, HitsOf, FiredOf
<1>3. Busy(h) /\ ~AllocHit(h)
  BY <1>1, HasBusy
<1>4. Runs(h, in)
  BY <1>3, XcbNames, EntryCase DEF Idles, Fills, Redoes, Busy, NoEntry, Lacks, Has
<1>5. Xcb[b] \notin Fired(h, in) /\ Xcb[b] \notin Hits(h, in)
  BY <1>2, XcbNames DEF FiredAre, HitsAre
<1>6. /\ Has(h, Xcb[b])' /\ entries'[h].plan = entries[h].plan
      /\ entries'[h].flag = entries[h].flag \ (Fired(h, in) \cup Hits(h, in))
  BY <1>1, <1>4, <1>5, RunKeeps
<1>7. ~AllocHit(h)'
  BY <1>3, OpenIs
<1>8. ~Has(h, "sDbid") \/ TxRsp(in) = <<h>> => ~Has(h, "sDbid")'
  BY <1>2, <1>6 DEF FiredAre, Has
<1> QED BY <1>3, <1>6, <1>7, <1>8 DEF Row

\* A step keeps the beats that are due waited for.
LEMMA XcbKept ==
  ASSUME StageInv, NEW in, Step(in), NEW h \in Hn
  PROVE  XcbOK(h)'
<1> DEFINE p == entries[h].plan
<1>1. OutTypes /\ StateOK(h) /\ FlagOK(h) /\ XcbOK(h) /\ in \in CommitInputs
  BY StageParts DEF StageAt, Step
<1>2. SUFFICES ASSUME NEW m \in Of(h, {"wr", "wrack"})'
               PROVE  /\ m \in WriteBeats(h, Row(h)') /\ WriteData(Row(h)')
                      /\ \/ Has(h, Xcb[m.beat])' /\ ~Has(h, "sDbid")'
                         \/ AllocHit(h)' /\ Row(h)'.alr = "dbid"
  <2>1. (\A m \in Of(h, {"wr", "wrack"}) :
           /\ m \in WriteBeats(h, Row(h)) /\ WriteData(Row(h))
           /\ \/ Has(h, Xcb[m.beat]) /\ ~Has(h, "sDbid")
              \/ AllocHit(h) /\ Row(h).alr = "dbid")'
    BY <1>2 DEF Has, WriteBeats, WriteData, Flit, Xcb
  <2> QED BY <2>1 DEF XcbOK
<1>3. m \in due' /\ m.hn = h /\ m.op \in {"wr", "wrack"}
  BY <1>2 DEF Of
<1>4. (m \in due /\ m \notin Came(in)) \/ BeatFrom(h, in, m)
  BY <1>3, DueOrigin DEF DueFrom
<1>5. CASE m \in due /\ m \notin Came(in)
  <2>1. m \in Of(h, {"wr", "wrack"})
    BY <1>3, <1>5 DEF Of
  <2>2. /\ m.beat \in {0, 1} /\ m.beat \in Row(h).vec /\ WriteData(Row(h)) /\ m \in WriteBeats(h, Row(h))
        /\ m = Flit(h, IF Row(h).ack /\ ~Row(h).copy THEN "wrack" ELSE "wr", m.beat)
        /\ \/ Has(h, Xcb[m.beat]) /\ ~Has(h, "sDbid")
           \/ AllocHit(h) /\ Row(h).alr = "dbid"
    BY <1>1, <2>1, WriteDue DEF XcbOK
  <2>3. Xcb[m.beat] \notin XcbHits(h, in)
    <3>1. SUFFICES ASSUME Xcb[m.beat] \in XcbHits(h, in) PROVE FALSE
      OBVIOUS
    <3>2. PICK n \in Of(h, {"wr", "wrack"}) : n \in Came(in) /\ XcbHits(h, in) = {Xcb[n.beat]}
      BY <1>1, <3>1, BeatHeard
    <3>3. n.beat \in {0, 1} /\ n = Flit(h, IF Row(h).ack /\ ~Row(h).copy THEN "wrack" ELSE "wr", n.beat)
      BY <1>1, <3>2, WriteDue
    <3>4. n.beat = m.beat
      BY <2>2, <3>1, <3>2, <3>3, XcbNames
    <3>5. n = m
      BY <2>2, <3>3, <3>4
    <3> QED BY <1>5, <3>2, <3>5
  <2>4. CASE Has(h, Xcb[m.beat]) /\ ~Has(h, "sDbid")
    <3>1. Has(h, Xcb[m.beat])' /\ ~Has(h, "sDbid")' /\ Row(h)' = Row(h)
      <4>1. ASSUME NEW b, b = m.beat PROVE Has(h, Xcb[b])' /\ ~Has(h, "sDbid")' /\ Row(h)' = Row(h)
        BY <2>2, <2>3, <2>4, <4>1, BeatStays
      <4> QED BY <4>1
    <3> QED BY <2>2, <3>1
  <2>5. CASE AllocHit(h) /\ Row(h).alr = "dbid"
    <3>1. Fills(h, in) /\ Row(h) = pipe[1].plan
      BY <2>5, EntryCase DEF Idles, Redoes, Runs, Row
    <3>2. ~AllocHit(h)' /\ entries'[h].plan = Row(h)
      BY <2>5, <3>1, OpenIs DEF Fills, Filled
    <3>3. Xcb[m.beat] \notin Hits(h, in)
      <4>1. HitsAre(h, in)
        BY <1>1, HitsOf
      <4> QED BY <2>2, <2>3, <4>1, XcbNames DEF HitsAre
    <3>4. Xcb[m.beat] \in entries'[h].flag
      BY <2>2, <3>1, <3>3 DEF Fills, Filled
    <3>5. "sDbid" \notin entries'[h].flag
      BY <2>5, <3>1 DEF Fills, Filled
    <3>6. Row(h)' = Row(h)
      BY <3>2 DEF Row
    <3> QED BY <2>2, <3>4, <3>5, <3>6 DEF Has, Xcb
  <2> QED BY <2>2, <2>4, <2>5
<1>6. CASE TxRsp(in) = <<h>> /\ ~Has(h, "sResp") /\ m \in WriteBeats(h, p)
  <2>1. Has(h, "sDbid")
    BY <1>6, OutputsOf DEF Outputs
  <2>2. p.dbid /\ \A b \in p.vec : Has(h, Xcb[b])
    BY <1>1, <2>1 DEF FlagOK
  <2>3. m.beat \in p.vec
    BY <1>6, BeatIs
  <2>4. Busy(h) /\ ~AllocHit(h)
    BY <1>1, <2>1, HasBusy
  <2>5. XcbHits(h, in) = {}
    BY <2>1, <2>4, BeatFinds
  <2>6. m.beat \in {0, 1}
    <3>1. p \in Rows
      BY <1>1, <2>4 DEF StateOK, Busy
    <3> QED BY <2>3, <3>1, RowFacts DEF RowOK
  <2>7. ASSUME NEW b, b = m.beat PROVE Has(h, Xcb[b])' /\ ~Has(h, "sDbid")' /\ Row(h)' = p
    BY <1>6, <2>2, <2>3, <2>5, <2>6, <2>7, BeatStays
  <2> QED BY <1>6, <2>2, <2>7 DEF WriteData
<1>7. CASE IsOpened(h, in) /\ in.open[1].plan.alr = "dbid" /\ m \in WriteBeats(h, in.open[1].plan)
  <2>1. AllocHit(h)' /\ pipe' = in.open
    BY <1>7, OpenIs
  <2>2. Row(h)' = in.open[1].plan
    BY <2>1 DEF Row
  <2> QED BY <1>7, <2>1, <2>2 DEF WriteData
<1> QED BY <1>4, <1>5, <1>6, <1>7 DEF BeatFrom

\* Where a data task comes from.
DataFrom(t, in) ==
  \/ t \in data /\ in.data # <<t.hn>>
  \/ t.by = "commit" /\ t = [hn |-> t.hn, by |-> "commit"] /\ DataTaskOf(in) = <<t.hn>> /\ t.hn \in Hn
  \/ t.by = "commit" /\ t = [hn |-> t.hn, by |-> "commit"] /\ IsOpened(t.hn, in) /\ in.open[1].plan.alr = "data"
  \/ /\ t.by = "write" /\ t = [hn |-> t.hn, by |-> "write"]
     /\ \E i \in CmEntry : WrData(in) = << <<"Wr", i>> >> /\ InPool(t.hn, "Wr", i) /\ cms["Wr"][i].state = "DataTask"

\* A data task was under way, or was started by an entry or a write machine.
LEMMA DataOrigin ==
  ASSUME StageInv, NEW in, Step(in), NEW t \in data'
  PROVE  DataFrom(t, in)
<1> DEFINE E == {o.hn : o \in {x \in {in.open[i] : i \in DOMAIN in.open} : x.plan.alr = "data"}}
           D == DataTaskOf(in)
           W == WrData(in)
<1>1. CommitEnv(in) /\ in.open \in Opt([hn : Hn, plan : Rows])
  BY OpenIs DEF Step
<1>2. data' = {x \in data : x.hn \notin {in.data[i] : i \in DOMAIN in.data}}
              \cup {[hn |-> h, by |-> "commit"] : h \in {D[i] : i \in DOMAIN D} \cup E}
              \cup {[hn |-> HnOf(c), by |-> "write"] : c \in {W[i] : i \in DOMAIN W}}
  BY <1>1, ZenonT(60) DEF CommitEnv
<1>3. CASE t \in data /\ t.hn \notin {in.data[i] : i \in DOMAIN in.data}
  <2>1. in.data # <<t.hn>>
    <3>1. SUFFICES ASSUME in.data = <<t.hn>> PROVE FALSE
      OBVIOUS
    <3>2. 1 \in DOMAIN in.data /\ in.data[1] = t.hn
      BY <3>1
    <3> QED BY <1>3, <3>2
  <2> QED BY <1>3, <2>1 DEF DataFrom
<1>4. ASSUME NEW h \in {D[i] : i \in DOMAIN D}, t = [hn |-> h, by |-> "commit"] PROVE DataFrom(t, in)
  <2>1. D \in Opt({g \in Hn : Has(g, "sDataTask") /\ entries[g].db})
    BY ServedOne DEF DataTaskOf
  <2>2. D # <<>>
    <3>1. \E i : i \in DOMAIN D
      BY <1>4
    <3> QED BY <3>1
  <2>3. D = <<D[1]>> /\ D[1] \in Hn /\ DOMAIN D = {1}
    BY <2>1, <2>2, OptOne
  <2>4. h = D[1]
    BY <1>4, <2>3
  <2> HIDE DEF D
  <2> QED BY <1>4, <2>3, <2>4 DEF DataFrom, D
<1>5. ASSUME NEW h \in E, t = [hn |-> h, by |-> "commit"] PROVE DataFrom(t, in)
  <2>1. PICK o \in {in.open[i] : i \in DOMAIN in.open} : o.plan.alr = "data" /\ h = o.hn
    BY <1>5
  <2>2. in.open # <<>>
    <3>1. \E i : i \in DOMAIN in.open
      BY <2>1
    <3> QED BY <3>1
  <2>3. in.open = <<in.open[1]>> /\ DOMAIN in.open = {1}
    BY <1>1, <2>2, OptOne
  <2>4. o = in.open[1]
    BY <2>1, <2>3
  <2>5. IsOpened(h, in) /\ in.open[1].plan.alr = "data"
    BY <2>1, <2>2, <2>4 DEF IsOpened
  <2> QED BY <1>5, <2>5 DEF DataFrom
<1>6. ASSUME NEW c \in {W[i] : i \in DOMAIN W}, t = [hn |-> HnOf(c), by |-> "write"] PROVE DataFrom(t, in)
  <2>1. W # <<>>
    <3>1. \E i : i \in DOMAIN W
      BY <1>6
    <3> QED BY <3>1
  <2>2. PICK l \in Kind, i \in CmEntry : W = << <<l, i>> >> /\ cms[l][i].state = "DataTask"
    BY <2>1, CmOutsOf DEF CmOuts, CmOut
  <2>3. Shape(l, i)
    BY StageParts
  <2>4. l = "Wr" /\ cms[l][i].task # <<>>
    BY <2>2, <2>3 DEF Shape, StatesOf, NoCm, Kind
  <2>5. c = <<l, i>>
    <3>1. DOMAIN W = {1} /\ W[1] = <<l, i>>
      BY <2>2
    <3> HIDE DEF W
    <3> QED BY <1>6, <3>1
  <2>6. HnOf(c) = cms["Wr"][i].task[1].hn
    BY <2>4, <2>5 DEF HnOf
  <2>7. InPool(HnOf(c), "Wr", i)
    BY <2>4, <2>6 DEF InPool
  <2> QED BY <1>6, <2>2, <2>4, <2>7 DEF DataFrom
<1> HIDE DEF D, E, W
<1> QED BY <1>2, <1>3, <1>4, <1>5, <1>6

\* A step keeps the data tasks waited for.
LEMMA DataKept ==
  ASSUME StageInv, NEW in, Step(in), NEW h \in Hn
  PROVE  DataOK(h)'
<1> DEFINE r == entries[h]
           s == entries'[h]
<1>1. OutTypes /\ StateOK(h) /\ FlagOK(h) /\ DataOK(h) /\ PoolOK(h) /\ in \in CommitInputs
  BY StageParts DEF StageAt, Step
<1>2. HitsAre(h, in) /\ FiredAre(h, in)
  BY <1>1, HitsOf, FiredOf
\* An entry that waits for the end of its task goes on waiting.
<1>3. ASSUME Has(h, "wDataResp"), ~Has(h, "sDataTask") \/ DataTaskOf(in) = <<h>>, in.data # <<h>>
      PROVE  Has(h, "wDataResp")' /\ ~Has(h, "sDataTask")'
  <2>1. Busy(h)
    BY <1>1, <1>3, HasBusy
  <2>2. Runs(h, in)
    <3>1. r.state \notin {"FstTask", "SecTask"}
      BY <1>1, <1>3 DEF StateOK, Has, FstFlags, SecFlags
    <3> QED BY <2>1, <3>1, EntryCase DEF Idles, Fills, Redoes, Busy, NoEntry
  <2>3. s.flag = r.flag \ (Fired(h, in) \cup Hits(h, in))
    BY <2>2 DEF Runs, Ran
  <2>4. "wDataResp" \notin Fired(h, in) /\ "wDataResp" \notin Hits(h, in)
    BY <1>2, <1>3 DEF FiredAre, HitsAre
  <2>5. ~Has(h, "sDataTask") \/ "sDataTask" \in Fired(h, in)
    BY <1>2, <1>3 DEF FiredAre
  <2> QED BY <1>3, <2>3, <2>4, <2>5 DEF Has
<1>4. SUFFICES ASSUME NEW t \in data', t.hn = h
               PROVE  IF t.by = "commit"
                      THEN \/ Has(h, "wDataResp")' /\ ~Has(h, "sDataTask")'
                           \/ AllocHit(h)' /\ Row(h)'.alr = "data"
                      ELSE t.by = "write" /\ \E i \in CmEntry : InPool(h, "Wr", i)' /\ cms'["Wr"][i].state = "WaitData"
  BY DEF DataOK
<1>5. DataFrom(t, in)
  BY <1>4, DataOrigin
<1>6. CASE t.by = "commit"
  <2>1. CASE t \in data /\ in.data # <<h>>
    <3>1. CASE Has(h, "wDataResp") /\ ~Has(h, "sDataTask")
      BY <1>3, <1>6, <2>1, <3>1
    <3>2. CASE AllocHit(h) /\ Row(h).alr = "data"
      <4>1. Fills(h, in) /\ pipe[1].plan.alr = "data"
        BY <3>2, EntryCase DEF Idles, Redoes, Runs, Row
      <4> QED BY <1>6, <4>1 DEF Fills, Filled, Has
    <3> QED BY <1>1, <1>4, <1>6, <2>1, <3>1, <3>2 DEF DataOK
  <2>2. CASE DataTaskOf(in) = <<h>>
    <3>1. Has(h, "sDataTask")
      BY <2>2, OutputsOf DEF Outputs
    <3>2. Has(h, "wDataResp") /\ in.data # <<h>>
      BY <1>1, <3>1, EndsFind DEF FlagOK
    <3> QED BY <1>3, <1>6, <2>2, <3>2
  <2>3. CASE IsOpened(h, in) /\ in.open[1].plan.alr = "data"
    <3>1. AllocHit(h)' /\ pipe' = in.open
      BY <2>3, OpenIs
    <3> QED BY <1>6, <2>3, <3>1 DEF Row
  <2> QED BY <1>4, <1>5, <1>6, <2>1, <2>2, <2>3 DEF DataFrom
<1>7. CASE t.by # "commit"
  <2>1. PICK i \in CmEntry : /\ t.by = "write" /\ InPool(h, "Wr", i)
                             /\ \/ cms["Wr"][i].state = "WaitData" /\ in.data # <<h>>
                                \/ cms["Wr"][i].state = "DataTask" /\ WrData(in) = << <<"Wr", i>> >>
    BY <1>1, <1>4, <1>5, <1>7 DEF DataFrom, DataOK
  <2>2. cms["Wr"][i].task[1].hn = h /\ cms["Wr"][i].task # <<>>
    BY <2>1 DEF InPool
  <2>3. Stayed("Wr", i, in)
    <3>1. PoolMove("Wr", i, in)
      BY StageParts, PoolStep DEF Kind
    <3> QED BY <2>1, <2>2, <3>1 DEF PoolMove, Entered, Absent, NoCm
  <2>4. StateNext("Wr", i, in) = "WaitData"
    <3>1. StateNext("Wr", i, in) = NextWrState(i, in)
      BY DEF StateNext
    <3>2. CASE cms["Wr"][i].state = "WaitData" /\ in.data # <<h>>
      BY <2>2, <3>1, <3>2 DEF NextWrState, To
    <3>3. CASE cms["Wr"][i].state = "DataTask" /\ WrData(in) = << <<"Wr", i>> >>
      BY <3>1, <3>3 DEF NextWrState, To
    <3> QED BY <2>1, <3>2, <3>3
  <2>5. cms'["Wr"][i].state = "WaitData" /\ cms'["Wr"][i].task = cms["Wr"][i].task
    BY <2>3, <2>4 DEF Stayed
  <2>6. InPool(h, "Wr", i)'
    BY <2>2, <2>5 DEF InPool
  <2> QED BY <1>7, <2>1, <2>5, <2>6
<1> QED BY <1>6, <1>7

\* A directory write was under way, or was started at the edge.
LEMMA ReplOrigin ==
  ASSUME NEW in, Step(in), NEW h \in repls'
  PROVE  (h \in repls /\ in.repl # <<h>>) \/ (ReplTask(in) = <<h>> /\ h \in Hn)
<1> DEFINE R == ReplTask(in)
<1>1. CommitEnv(in)
  BY DEF Step
<1>2. repls' = (repls \ {in.repl[i] : i \in DOMAIN in.repl}) \cup {R[i] : i \in DOMAIN R}
  BY <1>1, ZenonT(60) DEF CommitEnv
<1>3. CASE h \in repls /\ h \notin {in.repl[i] : i \in DOMAIN in.repl}
  <2>1. SUFFICES ASSUME in.repl = <<h>> PROVE FALSE
    BY <1>3
  <2>2. 1 \in DOMAIN in.repl /\ in.repl[1] = h
    BY <2>1
  <2> QED BY <1>3, <2>2
<1>4. CASE h \in {R[i] : i \in DOMAIN R}
  <2>1. R \in Opt({g \in Hn : Has(g, "sWriDir") /\ Lacks(g, {"wDataResp"})})
    BY ServedOne DEF ReplTask
  <2>2. R # <<>>
    <3>1. \E i : i \in DOMAIN R
      BY <1>4
    <3> QED BY <3>1
  <2>3. R = <<R[1]>> /\ R[1] \in Hn /\ DOMAIN R = {1}
    BY <2>1, <2>2, OptOne
  <2>4. h = R[1]
    BY <1>4, <2>3
  <2> HIDE DEF R
  <2> QED BY <2>3, <2>4 DEF R
<1> HIDE DEF R
<1> QED BY <1>2, <1>3, <1>4

\* A step keeps the directory writes waited for, after the data.
LEMMA ReplKept ==
  ASSUME StageInv, NEW in, Step(in), NEW h \in Hn
  PROVE  ReplOK(h)'
<1>1. OutTypes /\ StateOK(h) /\ FlagOK(h) /\ ReplOK(h) /\ in \in CommitInputs
  BY StageParts DEF StageAt, Step
<1>2. HitsAre(h, in) /\ FiredAre(h, in)
  BY <1>1, HitsOf, FiredOf
<1>3. SUFFICES ASSUME h \in repls'
               PROVE  entries'[h].state = "Commit" /\ Has(h, "wReplResp")' /\ Lacks(h, {"sWriDir", "wDataResp"})'
  BY DEF ReplOK
<1>4. /\ entries[h].state = "Commit" /\ Has(h, "wReplResp") /\ ~Has(h, "wDataResp") /\ in.repl # <<h>>
      /\ ~Has(h, "sWriDir") \/ ReplTask(in) = <<h>>
  <2>1. CASE h \in repls /\ in.repl # <<h>>
    BY <1>1, <2>1 DEF ReplOK, Lacks, Has
  <2>2. CASE ReplTask(in) = <<h>>
    <3>1. Has(h, "sWriDir") /\ ~Has(h, "wDataResp")
      BY <2>2, OutputsOf DEF Outputs
    <3>2. Busy(h) /\ entries[h].state # "Clean"
      BY <1>1, <3>1, HasBusy
    <3>3. entries[h].state = "Commit"
      BY <1>1, <3>1, <3>2 DEF StateOK, Busy, Has, FstFlags, SecFlags
    <3>4. Has(h, "wReplResp") /\ in.repl # <<h>>
      BY <1>1, <3>1, EndsFind DEF FlagOK
    <3> QED BY <2>2, <3>1, <3>3, <3>4
  <2> QED BY <1>3, <2>1, <2>2, ReplOrigin
<1>5. Runs(h, in)
  BY <1>4, EntryCase DEF Idles, Fills, Redoes, NoEntry
<1>6. "wReplResp" \notin Fired(h, in) /\ "wReplResp" \notin Hits(h, in)
  BY <1>2, <1>4 DEF FiredAre, HitsAre
<1>7. /\ entries'[h].state = "Commit" /\ Has(h, "wReplResp")'
      /\ entries'[h].flag = entries[h].flag \ (Fired(h, in) \cup Hits(h, in))
  BY <1>1, <1>4, <1>5, <1>6, RunKeeps
<1>8. ~Has(h, "sWriDir") \/ "sWriDir" \in Fired(h, in)
  BY <1>2, <1>4 DEF FiredAre
<1> QED BY <1>4, <1>7, <1>8 DEF Lacks, Has

-----------------------------------------------------------------------------
(* The types of what is under way.                                         *)

\* A task in a pool is of a slot.
LEMMA PoolHn ==
  ASSUME StageInv, NEW h, NEW k \in Kind, NEW i \in CmEntry, InPool(h, k, i)
  PROVE  h \in Hn
<1>1. PlaceTypes
  BY StageParts
<1>2. cms[k][i].task \in Opt(CmTask) /\ cms[k][i].task # <<>>
  BY <1>1 DEF PlaceTypes, InPool
<1>3. cms[k][i].task[1] \in CmTask
  BY <1>2, OptOne
<1> QED BY <1>3 DEF InPool, CmTask

\* What goes out is of a slot, with the beats of its row.
LEMMA SentHn ==
  ASSUME StageInv, NEW in, Step(in), NEW h
  PROVE  /\ SnpSent(h, in) => h \in Hn
         /\ \A k : ReqSent(h, k, in) => h \in Hn /\ entries[h].plan.vec \subseteq {0, 1}
         /\ AnswersNow(h, in) # {} => h \in Hn
         /\ TxRsp(in) = <<h>> => h \in Hn /\ entries[h].plan.vec \subseteq {0, 1}
<1>1. SnpSent(h, in) => h \in Hn
  BY SentFrom, PoolHn DEF SnpSentAt, Kind
<1>2. \A k : ReqSent(h, k, in) => h \in Hn /\ \E i \in CmEntry : InPool(h, k, i) /\ k \in Kind
  BY SentFrom, PoolHn DEF ReqSentAt, Kind
<1>3. TxRsp(in) = <<h>> => h \in Hn
  <2>1. TxRsp(in) \in Opt({g \in Hn : ~Lacks(g, {"sDbid", "sResp"}) /\ Lacks(g, {"sReqDB"})})
    BY ServedOne DEF TxRsp
  <2> QED BY <2>1, OptHas
<1>4. DataTaskOf(in) = <<h>> => h \in Hn
  <2>1. DataTaskOf(in) \in Opt({g \in Hn : Has(g, "sDataTask") /\ entries[g].db})
    BY ServedOne DEF DataTaskOf
  <2> QED BY <2>1, OptHas
<1>5. AnswersNow(h, in) # {} => h \in Hn
  BY <1>1, <1>2, <1>3, <1>4, AnswersOf DEF AnswersAre
<1>6. ASSUME h \in Hn, NEW f, Has(h, f) PROVE entries[h].plan.vec \subseteq {0, 1}
  <2>1. StateOK(h)
    BY <1>6, StageParts DEF StageAt
  <2>2. entries[h].plan \in Rows
    BY <1>6, <2>1, HasBusy DEF StateOK, Busy
  <2> QED BY <2>2, RowFacts DEF RowOK
<1>7. ASSUME NEW k, ReqSent(h, k, in) PROVE entries[h].plan.vec \subseteq {0, 1}
  <2>1. PoolOK(h) /\ h \in Hn
    BY <1>2, <1>7, StageParts DEF StageAt
  <2>2. Has(h, "wCmResp")
    BY <1>2, <1>7, <2>1 DEF PoolOK, Carried
  <2> QED BY <1>6, <2>1, <2>2
<1>8. TxRsp(in) = <<h>> => entries[h].plan.vec \subseteq {0, 1}
  BY <1>3, <1>6, OutputsOf DEF Outputs
<1> QED BY <1>1, <1>2, <1>3, <1>5, <1>7, <1>8

DueOps == {"ack", "wr", "wrack", "snp", "mem", "comp", "dbid", "compdbid"}
FlitSet == [hn : Hn, op : {"ack", "wr", "wrack", "snp", "mem", "comp", "dbid", "compdbid"}, beat : {0, 1, 2}]

\* What is due after an edge is a flit.
LEMMA DueType ==
  ASSUME StageInv, NEW in, Step(in), NEW m \in due'
  PROVE  m \in FlitSet
<1>1. OutTypes /\ (m \in due \/ DueFrom(m, in))
  BY StageParts, DueOrigin
<1>2. CASE m \in due
  BY <1>1, <1>2 DEF OutTypes, FlitSet
<1>3. \A h \in Hn : \A op \in DueOps : \A b \in {0, 1, 2} : Flit(h, op, b) \in FlitSet
  BY DEF Flit, FlitSet, DueOps
<1>4. CASE SnpSent(m.hn, in) /\ m \in NewSnp(m.hn, in)
  <2>1. m.hn \in Hn
    BY <1>4, SentHn
  <2>2. \E b \in {0, 1, 2} : m = Flit(m.hn, "snp", b)
    BY <1>4 DEF NewSnp
  <2> QED BY <1>3, <2>1, <2>2 DEF DueOps
<1>5. CASE MemSent(m.hn, in) /\ m \in NewMem(m.hn)
  <2>1. m.hn \in Hn /\ entries[m.hn].plan.vec \subseteq {0, 1}
    BY <1>5, SentHn DEF MemSent
  <2>2. \E b \in {0, 1, 2} : m = Flit(m.hn, "mem", b)
    BY <1>5, <2>1 DEF NewMem
  <2> QED BY <1>3, <2>1, <2>2 DEF DueOps
<1>6. CASE ReqSent(m.hn, "Wr", in) /\ m \in NewWr(m.hn, in)
  <2>1. m.hn \in Hn
    BY <1>6, SentHn
  <2>2. \E op \in {"comp", "dbid", "compdbid"} : m = Flit(m.hn, op, 0)
    BY <1>6 DEF NewWr
  <2> QED BY <1>3, <2>1, <2>2 DEF DueOps
<1>7. IsOpened(m.hn, in) => m.hn \in Hn /\ in.open[1].plan \in Rows
  BY OpenIs
<1>8. CASE AckFrom(m.hn, in, m)
  <2>1. m.hn \in Hn
    BY <1>7, <1>8, SentHn DEF AckFrom
  <2>2. m = Flit(m.hn, "ack", 0)
    BY <1>8, AckIs DEF AckFrom
  <2> QED BY <1>3, <2>1, <2>2 DEF DueOps
<1>9. CASE BeatFrom(m.hn, in, m)
  <2>1. PICK p : m.hn \in Hn /\ p.vec \subseteq {0, 1} /\ m \in WriteBeats(m.hn, p)
    <3>1. CASE TxRsp(in) = <<m.hn>> /\ m \in WriteBeats(m.hn, entries[m.hn].plan)
      BY <3>1, SentHn
    <3>2. CASE IsOpened(m.hn, in) /\ m \in WriteBeats(m.hn, in.open[1].plan)
      BY <1>7, <3>2, RowFacts DEF RowOK
    <3> QED BY <1>9, <3>1, <3>2 DEF BeatFrom
  <2>2. \E op \in {"wr", "wrack"} : m = Flit(m.hn, op, m.beat) /\ m.beat \in p.vec
    BY <2>1, BeatIs
  <2> QED BY <1>3, <2>1, <2>2 DEF DueOps
<1> QED BY <1>1, <1>2, <1>4, <1>5, <1>6, <1>8, <1>9 DEF DueFrom

\* The decoders keep their types.
LEMMA DecType ==
  ASSUME StageInv, NEW in, Step(in), NEW d \in Decoder
  PROVE  dec'[d].s1 \in Opt([hn : Hn, inst : SUBSET {"cm", "xcb"}]) /\ dec'[d].s2 \in Opt(Hn)
<1>1. dec[d].s1 \in Opt([hn : Hn, inst : SUBSET {"cm", "xcb"}])
  BY StageParts DEF OutTypes
<1>2. dec'[d].s1 = (IF Decode(d, in) = <<>> THEN <<>>
                    ELSE <<[hn |-> Decode(d, in)[1], inst |-> entries[Decode(d, in)[1]].inst]>>)
  BY DecNext
<1>3. dec'[d].s2 = (IF dec[d].s1 = <<>> THEN <<>> ELSE <<dec[d].s1[1].hn>>)
  BY DecNext
<1>4. dec'[d].s2 \in Opt(Hn)
  <2>1. CASE dec[d].s1 = <<>>
    BY <1>3, <2>1 DEF Opt
  <2>2. CASE dec[d].s1 # <<>>
    <3>1. dec[d].s1[1] \in [hn : Hn, inst : SUBSET {"cm", "xcb"}]
      BY <1>1, <2>2, OptOne
    <3> QED BY <1>3, <2>2, <3>1 DEF Opt
  <2> QED BY <2>1, <2>2
<1>5. dec'[d].s1 \in Opt([hn : Hn, inst : SUBSET {"cm", "xcb"}])
  <2>1. CASE Decode(d, in) = <<>>
    BY <1>2, <2>1 DEF Opt
  <2>2. CASE Decode(d, in) # <<>>
    <3> DEFINE h == Decode(d, in)[1]
    <3>1. h \in Hn /\ Decode(d, in) = <<h>>
      BY <2>2, DecodeOne, OptOne
    <3>2. StateOK(h) /\ InstOK(h) /\ entries[h].state = Asked(d)
      BY <3>1, StageParts, OutputsOf DEF StageAt, Outputs
    <3>3. entries[h].inst \in SUBSET {"cm", "xcb"}
      BY <3>2 DEF InstOK, If, Asked
    <3>4. dec'[d].s1 = <<[hn |-> h, inst |-> entries[h].inst]>>
      BY <1>2, <2>2
    <3> HIDE DEF h
    <3> QED BY <3>1, <3>3, <3>4 DEF Opt
  <2> QED BY <2>1, <2>2
<1> QED BY <1>4, <1>5

\* The rest keeps its types.
LEMMA OutTypesKept ==
  ASSUME StageInv, NEW in, Step(in)
  PROVE  OutTypes'
<1>1. pipe' \in Opt([hn : Hn, plan : Rows])
  BY OpenIs
<1>2. due' \subseteq FlitSet
  BY DueType
<1>3. data' \subseteq [hn : Hn, by : {"commit", "write"}]
  <2>1. SUFFICES ASSUME NEW t \in data' PROVE t \in [hn : Hn, by : {"commit", "write"}]
    OBVIOUS
  <2>2. DataFrom(t, in)
    BY DataOrigin
  <2>3. t \in data => t \in [hn : Hn, by : {"commit", "write"}]
    BY StageParts DEF OutTypes
  <2>4. t.hn \in Hn => [hn |-> t.hn, by |-> "commit"] \in [hn : Hn, by : {"commit", "write"}]
                       /\ [hn |-> t.hn, by |-> "write"] \in [hn : Hn, by : {"commit", "write"}]
    OBVIOUS
  <2>5. IsOpened(t.hn, in) => t.hn \in Hn
    BY OpenIs
  <2>6. \A i \in CmEntry : InPool(t.hn, "Wr", i) => t.hn \in Hn
    BY PoolHn DEF Kind
  <2> QED BY <2>2, <2>3, <2>4, <2>5, <2>6 DEF DataFrom
<1>4. repls' \subseteq Hn
  BY StageParts, ReplOrigin DEF OutTypes
<1>5. answers' \in [Hn -> {0, 1}]
  <2>1. \A h \in Hn : answers'[h] \in {0, 1}
    BY AnswerKept
  <2>2. CommitEnv(in)
    BY DEF Step
  <2>3. answers' = [h \in Hn |-> answers'[h]]
    BY <2>2, ZenonT(60) DEF CommitEnv
  <2> QED BY <2>1, <2>3
<1>6. \A d \in Decoder : dec'[d].s1 \in Opt([hn : Hn, inst : SUBSET {"cm", "xcb"}]) /\ dec'[d].s2 \in Opt(Hn)
  BY DecType
<1> QED BY <1>1, <1>2, <1>3, <1>4, <1>5, <1>6 DEF OutTypes, FlitSet, Rows, Opt, Decoder

-----------------------------------------------------------------------------
(* The inductive invariant.                                                *)

\* The invariant holds at the start, when all is empty.
LEMMA StageInit == CommitInit => StageInv
<1> SUFFICES ASSUME CommitInit PROVE StageInv
  OBVIOUS
<1>1. /\ cmq = [k \in Kind |-> <<>>] /\ cms = [k \in Kind |-> [i \in CmEntry |-> NoCm]] /\ cmPipe = <<>>
      /\ entries = [h \in Hn |-> NoEntry] /\ dec = [d \in Decoder |-> [s1 |-> <<>>, s2 |-> <<>>]]
      /\ pipe = <<>> /\ due = {} /\ data = {} /\ repls = {} /\ answers = [h \in Hn |-> 0]
  BY DEF CommitInit, CmInit
<1>2. \A k \in Kind : cmq[k] = <<>> /\ \A i \in CmEntry : cms[k][i] = NoCm
  BY <1>1
<1>3. \A h \in Hn : entries[h] = NoEntry
  BY <1>1
<1>4. \A d \in Decoder : dec[d].s1 = <<>> /\ dec[d].s2 = <<>>
  BY <1>1
<1>5. PlaceTypes
  <2>1. cmq \in [Kind -> Seq(CmTask)] /\ \A k \in Kind : Len(cmq[k]) <= 2
    <3>1. <<>> \in Seq(CmTask) /\ Len(<<>>) <= 2
      OBVIOUS
    <3> QED BY <1>1, <1>2, <3>1
  <2>2. NoCm \in [state : CmStates, task : Opt(CmTask), got : SUBSET ({"resp", "comp"} \cup Beats)]
    BY DEF NoCm, CmStates, Opt
  <2> QED BY <1>1, <2>1, <2>2 DEF PlaceTypes, Opt
<1>6. OutTypes
  BY <1>1, <1>4 DEF OutTypes, Opt
<1>7. ASSUME NEW h \in Hn
      PROVE  QueueOK(h) /\ PoolOK(h) /\ PipeOK(h) /\ ForeignOK(h)
  <2>1. \A k \in Kind, i \in CmEntry : ~InPool(h, k, i)
    BY <1>2 DEF InPool, NoCm
  <2>2. \A k \in Kind : \A n \in 1 .. Len(cmq[k]) : FALSE
    BY <1>2
  <2>3. \A ops : Of(h, ops) = {}
    BY <1>1 DEF Of
  <2> QED BY <1>1, <2>1, <2>2, <2>3 DEF QueueOK, PoolOK, PipeOK, ForeignOK, Kind
<1>8. ASSUME NEW h \in Hn
      PROVE  StateOK(h) /\ FlagOK(h) /\ InstOK(h) /\ DecOK(h)
  <2>1. StateOK(h)
    BY <1>1, <1>3 DEF StateOK, NoEntry, AllocHit
  <2>2. FlagOK(h)
    BY <1>3, XcbNames DEF FlagOK, NoEntry, Has
  <2>3. InstOK(h)
    BY <1>3 DEF InstOK, NoEntry
  <2>4. DecOK(h)
    BY <1>4 DEF DecOK, First1
  <2> QED BY <2>1, <2>2, <2>3, <2>4
<1>9. ASSUME NEW h \in Hn
      PROVE  AnswerOK(h) /\ AckOK(h) /\ XcbOK(h) /\ DataOK(h) /\ ReplOK(h)
  BY <1>1, <1>3 DEF AnswerOK, AckOK, XcbOK, DataOK, ReplOK, Busy, AllocHit, NoEntry, Of
<1> QED BY <1>2, <1>5, <1>6, <1>7, <1>8, <1>9 DEF StageInv, Shape

\* A step keeps the invariant.
LEMMA StageMoves ==
  ASSUME StageInv, NEW in, Step(in)
  PROVE  StageInv'
<1>1. PlaceTypes' /\ OutTypes'
  BY PlaceTypesKept, OutTypesKept
<1>2. ASSUME NEW k \in Kind, NEW i \in CmEntry PROVE Shape(k, i)'
  BY ShapeKept
<1>3. ASSUME NEW h \in Hn
      PROVE  /\ (QueueOK(h) /\ PoolOK(h) /\ PipeOK(h))' /\ ForeignOK(h)'
             /\ StateOK(h)' /\ FlagOK(h)' /\ InstOK(h)' /\ DecOK(h)'
             /\ AnswerOK(h)' /\ AckOK(h)' /\ XcbOK(h)' /\ DataOK(h)' /\ ReplOK(h)'
  <2>1. (QueueOK(h) /\ PoolOK(h) /\ PipeOK(h))'
    BY PlacesKept
  <2>2. ForeignOK(h)'
    BY ForeignKept
  <2>3. StateOK(h)' /\ FlagOK(h)' /\ InstOK(h)' /\ DecOK(h)'
    BY StateKept, FlagKept, InstKept, DecKept
  <2>4. AnswerOK(h)' /\ AckOK(h)'
    BY AnswerKept, AckKept
  <2>5. XcbOK(h)' /\ DataOK(h)' /\ ReplOK(h)'
    BY XcbKept, DataKept, ReplKept
  <2> QED BY <2>1, <2>2, <2>3, <2>4, <2>5
<1> QED BY <1>1, <1>2, <1>3 DEF StageInv

\* So does a step that changes nothing.
LEMMA StageStutter ==
  ASSUME StageInv, UNCHANGED commitVars
  PROVE  StageInv'
<1>1. UNCHANGED <<cmq, cms, cmPipe, entries, dec, pipe, due, data, repls, answers>>
  BY DEF commitVars, cmVars
<1>2. PlaceTypes' /\ OutTypes' /\ \A k \in Kind : \A i \in CmEntry : Shape(k, i)'
  BY <1>1, StageParts DEF PlaceTypes, OutTypes, Shape
<1>3. ASSUME NEW h \in Hn PROVE (QueueOK(h) /\ PoolOK(h) /\ PipeOK(h))'
  BY <1>1, StageParts DEF StageAt, QueueOK, PoolOK, PipeOK, Carried, InPool, Has
<1>4. ASSUME NEW h \in Hn PROVE ForeignOK(h)'
  <2>1. ForeignOK(h)
    BY StageParts DEF StageAt
  <2> QED BY <1>1, <2>1 DEF ForeignOK, SnpDue, RdDue, WrDue, Of, InPool
<1>5. ASSUME NEW h \in Hn PROVE StateOK(h)' /\ FlagOK(h)' /\ InstOK(h)'
  BY <1>1, StageParts DEF StageAt, StateOK, FlagOK, InstOK, AllocHit, Has
<1>6. ASSUME NEW h \in Hn PROVE DecOK(h)'
  BY <1>1, StageParts DEF StageAt, DecOK, First1, Lacks, Brought
<1>7. ASSUME NEW h \in Hn PROVE AnswerOK(h)' /\ AckOK(h)'
  <2>1. AnswerOK(h) /\ AckOK(h)
    BY StageParts DEF StageAt
  <2>2. Answered(h)' = Answered(h)
    BY <1>1 DEF Answered, Unsent, Has, InPool
  <2>3. Row(h)' = Row(h) /\ Busy(h)' = Busy(h) /\ AllocHit(h)' = AllocHit(h) /\ Of(h, {"ack"})' = Of(h, {"ack"})
    BY <1>1 DEF Row, Busy, AllocHit, Of
  <2> QED BY <1>1, <2>1, <2>2, <2>3 DEF AnswerOK, AckOK, Has
<1>8. ASSUME NEW h \in Hn PROVE XcbOK(h)' /\ DataOK(h)' /\ ReplOK(h)'
  BY <1>1, StageParts DEF StageAt, XcbOK, DataOK, ReplOK, Of, Row, AllocHit, Has, Lacks, InPool
<1> QED BY <1>2, <1>3, <1>4, <1>5, <1>6, <1>7, <1>8 DEF StageInv

\* Every state the stage reaches is one StageInv describes.
THEOREM StageInvariant == CommitSpec => []StageInv
<1>1. StageInv /\ [CommitNext]_commitVars => StageInv'
  <2>1. ASSUME StageInv, CommitNext PROVE StageInv'
    <3>1. PICK in \in CommitInputs : CommitTick(in) /\ CommitEnv(in)
      BY <2>1 DEF CommitNext
    <3>2. Step(in)
      BY <3>1 DEF Step
    <3> QED BY <2>1, <3>2, StageMoves
  <2> QED BY <2>1, StageStutter
<1> QED BY StageInit, <1>1, PTL DEF CommitSpec

-----------------------------------------------------------------------------
(* What it means.                                                          *)

\* An entry without a flag, and with no task coming, has nothing under way.
LEMMA NothingOut ==
  ASSUME StageInv, NEW h \in Hn, entries[h].flag = {}, ~AllocHit(h), entries[h].state \in {"Free", "Clean"}
  PROVE  h \notin Outside
<1>1. /\ OutTypes /\ StateOK(h) /\ FlagOK(h) /\ DecOK(h) /\ ForeignOK(h) /\ AckOK(h) /\ XcbOK(h) /\ DataOK(h)
      /\ ReplOK(h) /\ Placed(h) /\ PlaceTypes
  BY StageParts, PlacedIs DEF StageAt
<1>2. \A f : ~Has(h, f)
  BY DEF Has
<1>3. \A k \in Kind : \A i \in CmEntry : ~InPool(h, k, i)
  BY <1>1, <1>2 DEF Placed, Carried
<1>4. h \notin CmBusy
  <2>1. \A k \in Kind : \A n : ~QueueOf(h, k, n)
    BY <1>1, <1>2 DEF Placed, Carried
  <2>2. cmPipe # <<h>>
    BY <1>1, <1>2 DEF Placed
  <2>3. \A n \in DOMAIN cmPipe : cmPipe[n] # h
    <3>1. cmPipe \in Opt(Hn)
      BY <1>1 DEF PlaceTypes
    <3>2. ASSUME NEW n \in DOMAIN cmPipe PROVE cmPipe[n] # h
      <4>1. cmPipe # <<>>
        BY <3>2
      <4>2. cmPipe = <<cmPipe[1]>> /\ DOMAIN cmPipe = {1}
        BY <3>1, <4>1, OptOne
      <4> QED BY <2>2, <4>2
    <3> QED BY <3>2
  <2>4. \A k \in Kind : \A n \in DOMAIN cmq[k] : cmq[k][n].hn # h
    <3>1. ASSUME NEW k \in Kind PROVE DOMAIN cmq[k] = 1 .. Len(cmq[k])
      BY <1>1 DEF PlaceTypes
    <3> QED BY <2>1, <3>1 DEF QueueOf
  <2>5. ASSUME NEW c \in CmIn(CmStates \ {"Free"}) PROVE HnOf(c) # h
    <3>1. c[1] \in Kind /\ c[2] \in CmEntry /\ cms[c[1]][c[2]].state # "Free"
      BY DEF CmIn
    <3>2. Shape(c[1], c[2])
      BY <3>1, StageParts
    <3>3. cms[c[1]][c[2]].task # <<>>
      BY <3>1, <3>2 DEF Shape, NoCm
    <3>4. ~InPool(h, c[1], c[2])
      BY <1>3, <3>1
    <3> QED BY <3>3, <3>4 DEF InPool, HnOf
  <2>6. h \notin {HnOf(c) : c \in CmIn(CmStates \ {"Free"})}
    BY <2>5
  <2>7. h \notin UNION {{cmq[k][n].hn : n \in DOMAIN cmq[k]} : k \in Kind}
    BY <2>4
  <2>8. h \notin {cmPipe[n] : n \in DOMAIN cmPipe}
    BY <2>3
  <2> DEFINE A == {HnOf(c) : c \in CmIn(CmStates \ {"Free"})}
             B == UNION {{cmq[k][n].hn : n \in DOMAIN cmq[k]} : k \in Kind}
             C == {cmPipe[n] : n \in DOMAIN cmPipe}
  <2>9. CmBusy = A \cup B \cup C
    BY ZenonT(30) DEF CmBusy
  <2> HIDE DEF A, B, C
  <2>10. h \notin A /\ h \notin B /\ h \notin C
    BY <2>6, <2>7, <2>8 DEF A, B, C
  <2> QED BY <2>9, <2>10
<1>5. \A m \in due : m.hn # h
  <2>1. SUFFICES ASSUME NEW m \in due, m.hn = h PROVE FALSE
    OBVIOUS
  <2>2. m.op \in {"ack", "wr", "wrack", "snp", "mem", "comp", "dbid", "compdbid"}
    BY <1>1 DEF OutTypes
  <2>3. m \in Of(h, {m.op})
    BY <2>1 DEF Of
  <2>4. m.op # "ack"
    BY <1>1, <1>2, <2>3 DEF AckOK
  <2>5. m.op \notin {"wr", "wrack"}
    <3>1. m.op \in {"wr", "wrack"} => m \in Of(h, {"wr", "wrack"})
      BY <2>1 DEF Of
    <3> QED BY <1>1, <1>2, <3>1, WriteDue
  <2>6. \A k \in Kind : Of(h, OpsOf(k)) = {}
    BY <1>1, <1>3 DEF ForeignOK
  <2>7. \E k \in Kind : m \in Of(h, OpsOf(k))
    BY <2>1, <2>2, <2>4, <2>5 DEF Of, OpsOf, Kind
  <2> QED BY <2>6, <2>7
<1>6. \A t \in data : t.hn # h
  BY <1>1, <1>2, <1>3 DEF DataOK, Kind
<1>7. h \notin repls
  BY <1>1, <1>2 DEF ReplOK
<1>8. \A d \in Decoder : (\A n \in DOMAIN dec[d].s1 : dec[d].s1[n].hn # h) /\ (\A n \in DOMAIN dec[d].s2 : dec[d].s2[n] # h)
  <2>1. SUFFICES ASSUME NEW d \in Decoder
                 PROVE  /\ \A n \in DOMAIN dec[d].s1 : dec[d].s1[n].hn # h
                        /\ \A n \in DOMAIN dec[d].s2 : dec[d].s2[n] # h
    OBVIOUS
  <2>2. dec[d].s1 \in Opt([hn : Hn, inst : SUBSET {"cm", "xcb"}]) /\ dec[d].s2 \in Opt(Hn)
    BY <1>1 DEF OutTypes
  <2>3. ~First1(h, d) /\ dec[d].s2 # <<h>>
    BY <1>1 DEF DecOK, Asked
  <2>4. ASSUME NEW n \in DOMAIN dec[d].s1 PROVE dec[d].s1[n].hn # h
    <3>1. dec[d].s1 # <<>>
      BY <2>4
    <3>2. DOMAIN dec[d].s1 = {1}
      BY <2>2, <3>1, OptOne
    <3> QED BY <2>3, <3>1, <3>2 DEF First1
  <2>5. ASSUME NEW n \in DOMAIN dec[d].s2 PROVE dec[d].s2[n] # h
    <3>1. dec[d].s2 # <<>>
      BY <2>5
    <3>2. dec[d].s2 = <<dec[d].s2[1]>> /\ DOMAIN dec[d].s2 = {1}
      BY <2>2, <3>1, OptOne
    <3> QED BY <2>3, <3>2
  <2> QED BY <2>4, <2>5
<1> QED BY <1>4, <1>5, <1>6, <1>7, <1>8 DEF Outside

\* The invariant implies the properties that the runs check.
LEMMA StageMeans == StageInv => CommitInv
<1> SUFFICES ASSUME StageInv PROVE CommitInv
  OBVIOUS
<1>1. PlaceTypes /\ OutTypes /\ \A h \in Hn : StageAt(h)
  BY StageParts
<1>2. CommitTypeOK
  BY <1>1 DEF PlaceTypes, StageAt, StateOK, CommitTypeOK
<1>3. ASSUME NEW h \in Hn, entries[h].state = "Clean" PROVE h \notin Outside /\ answers[h] = 1
  <2>1. StateOK(h) /\ AnswerOK(h)
    BY <1>1 DEF StageAt
  <2>2. entries[h].flag = {} /\ ~AllocHit(h) /\ Busy(h)
    BY <1>3, <2>1 DEF StateOK, Busy
  <2>3. ~Unsent(h)
    BY <2>2, UnsentWaits DEF Has
  <2>4. Answered(h)
    BY <1>3, <2>2, <2>3 DEF Answered, Has
  <2> QED BY <1>3, <2>1, <2>2, <2>4, NothingOut DEF AnswerOK
<1>4. ASSUME NEW h \in Hn, ~Busy(h), ~AllocHit(h) PROVE h \notin Outside /\ entries[h].got = {}
  <2>1. entries[h] = NoEntry
    BY <1>1, <1>4 DEF StageAt, StateOK, Busy
  <2>2. entries[h].flag = {} /\ entries[h].state = "Free" /\ entries[h].got = {}
    BY <2>1 DEF NoEntry
  <2> QED BY <1>4, <2>2, NothingOut
<1>5. NothingComesLate
  BY <1>3, <1>4 DEF NothingComesLate
<1>6. DecodedWhole
  <2>1. SUFFICES ASSUME NEW d \in Decoder, NEW i \in DOMAIN dec[d].s1
                 PROVE  dec[d].s1[i].inst = Brought(dec[d].s1[i].hn)
    BY DEF DecodedWhole
  <2>2. dec[d].s1 \in Opt([hn : Hn, inst : SUBSET {"cm", "xcb"}]) /\ dec[d].s1 # <<>>
    <3>1. dec[d].s1 \in Opt([hn : Hn, inst : SUBSET {"cm", "xcb"}])
      BY <1>1 DEF OutTypes
    <3>2. dec[d].s1 # <<>>
      BY <2>1
    <3> QED BY <3>1, <3>2
  <2>3. i = 1 /\ dec[d].s1[1].hn \in Hn
    BY <2>1, <2>2, OptOne
  <2> DEFINE h == dec[d].s1[1].hn
  <2>4. First1(h, d)
    BY <2>2 DEF First1
  <2> QED BY <1>1, <2>3, <2>4 DEF StageAt, DecOK
<1>7. OneDataTask
  <2>1. \A t \in data : t.hn \in Hn /\ t \in [hn : Hn, by : {"commit", "write"}]
    BY <1>1 DEF OutTypes
  <2>2. ASSUME NEW t \in data, t.by = "commit"
        PROVE  t.hn \notin repls /\ (Has(t.hn, "wDataResp") \/ AllocHit(t.hn))
    BY <1>1, <2>1, <2>2 DEF StageAt, DataOK, ReplOK, StateOK, Lacks, Has
  <2>3. ASSUME NEW t \in data, t.by = "write"
        PROVE  ~Has(t.hn, "wDataResp") /\ ~AllocHit(t.hn)
    <3>1. StageAt(t.hn)
      BY <1>1, <2>1
    <3>2. PICK i \in CmEntry : InPool(t.hn, "Wr", i)
      BY <2>3, <3>1 DEF StageAt, DataOK
    <3>3. Has(t.hn, "wCmResp") /\ entries[t.hn].task = "Wr"
      BY <3>1, <3>2 DEF StageAt, PoolOK, Carried, Kind
    <3> QED BY <3>1, <3>3, HasBusy DEF StageAt, FlagOK
  <2>4. ASSUME NEW t \in data, NEW u \in data, t.hn = u.hn PROVE t = u
    <3>1. t.by = u.by
      BY <2>1, <2>2, <2>3, <2>4
    <3> QED BY <2>1, <2>4, <3>1
  <2> QED BY <2>2, <2>3, <2>4 DEF OneDataTask
<1> QED BY <1>2, <1>5, <1>6, <1>7 DEF CommitInv

(* Whatever the rows (RowOK), the number of slots and machine entries, and *)
(* the order in which flits come: an entry gives its slot back only when   *)
(* nothing of its transaction is under way and its requester was answered  *)
(* once, a decoding looks up all that was brought, and there is one data   *)
(* task of a transaction at a time, none beside the directory write        *)
(* (commit.cpp, cm.cpp).                                                   *)
THEOREM StageIsSafe == CommitSpec => []CommitInv
BY StageInvariant, StageMeans, PTL
=============================================================================
