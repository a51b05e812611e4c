------------------------------- MODULE Commit -------------------------------
(***************************************************************************)
(* The commit stage (model/dj/commit.cpp) with its channel machines and    *)
(* the exchanges they carry.  A transaction that the front end has decoded *)
(* comes here with its plan, a row of the decode tables:                   *)
(*   t1     the first task: snoop, read, write, or only take write data    *)
(*          (dbid)                                                         *)
(*   t2     the task the second decoding adds, with what t1 brought; if    *)
(*          the plan waits for it, a third decoding follows                *)
(*   dir, op, rsp   what is done at last, in any order the flags allow:    *)
(*          write the directory, move the data, answer                     *)
(* An entry is a slot of the PoS set; its id is the transaction's.  It     *)
(* keeps a flag for everything still to send (s..) and to hear (w..), and  *)
(* leaves when no flag is left.                                            *)
(*                                                                         *)
(* The surroundings: the requester, the snooped owner and memory send what *)
(* CHI makes them send, in any order; data block and replacement engine    *)
(* answer at some edge.  A reply to an answer of the front end (alr) comes *)
(* when its task enters the entry at the earliest: the task is one stage   *)
(* from it, the answer at the way out of the chip.                         *)
(***************************************************************************)
EXTENDS ChanMach

CONSTANTS
  Plans,   \* rows of the decode tables
  Beside,  \* rows of a transaction that comes while another is under way
  Txns     \* bound on the transactions

ASSUME CommitAssumption == 0 \in Hn /\ Txns \in Nat

\* What a plan means.  The requester is answered by the front end (early), by
\* the commit with a response or with data, with the buffer id of a write back,
\* or by whom the first or the second task sends the data of.
FirstValid(p) == p.t1 # "none" \/ p.dbid
WriteData(p) == p.dbid \/ p.alr = "dbid"
Direct(p, task) ==
  p.rsp = "no" /\ ~p.copy /\ (task = "Rd" \/ (task = "Snp" /\ p.t2 # "Rd"))
AnsweredBy(p) ==
  If(p.alr = "data", "early") \cup If(p.rsp = "RSP", "rsp")
  \cup If(p.op = "data" /\ p.rsp = "DAT" /\ p.alr # "data", "dat")
  \cup If(p.dbid /\ p.alr # "dbid" /\ p.copy, "dbid")
  \cup If(Direct(p, p.t1), "first") \cup If(Direct(p, p.t2), "second")

\* What all rows of the tables have: one answer; a second task only after a
\* decoding, and data moved beside it only if it does not write memory; and
\* the front end answers with data when no first task is there, with a buffer
\* id to any write but a write back.
RowOK(p) ==
  /\ {p.t1, p.t2} \subseteq Kind \cup {"none"} /\ p.vec \subseteq {0, 1} /\ p.vec # {}
  /\ \E way \in AnsweredBy(p) : AnsweredBy(p) = {way}
  /\ ~FirstValid(p) => p.t2 = "none"
  /\ p.t2 = "none" => ~p.wait
  /\ p.t2 = "Wr" /\ p.op = "data" => p.wait
  /\ p.alr = "data" => ~FirstValid(p)
  /\ p.alr = "dbid" => ~p.copy
ASSUME PlansAssumption == \A p \in Plans \cup Beside : RowOK(p)

VARIABLES
  entries,  \* entries of Commit, by transaction id
  dec,      \* the two decoders: what their two stages hold
  pipe,     \* cmt_pipe: the task of the front end that comes next
  left,     \* transactions to come
  due,      \* flits on their way to the home node
  data,     \* data tasks under way, and whose
  repls,    \* directory writes under way
  answers   \* how often the requester was answered

commitVars == <<entries, dec, pipe, left, due, data, repls, answers, cmVars>>

NoPlan == [t1 |-> "none", t2 |-> "none", dbid |-> FALSE, wait |-> FALSE, db1 |-> FALSE, db2 |-> FALSE,
           dir |-> FALSE, op |-> "none", rsp |-> "no", ack |-> FALSE, copy |-> FALSE,
           vec |-> {0, 1}, alr |-> "no"]
NoEntry == [state |-> "Free", plan |-> NoPlan, task |-> "none", db |-> FALSE,
            flag |-> {}, got |-> {}, inst |-> {}]
Decoder == {"third", "fourth"}

CommitInit ==
  /\ CmInit
  /\ entries = [h \in Hn |-> NoEntry]
  /\ dec = [d \in Decoder |-> [s1 |-> <<>>, s2 |-> <<>>]]
  /\ pipe = <<>> /\ left = Txns
  /\ due = {} /\ data = {} /\ repls = {} /\ answers = [h \in Hn |-> 0]

-----------------------------------------------------------------------------
(* Outputs.                                                                *)

Busy(h) == entries[h].state # "Free"
Has(h, f) == f \in entries[h].flag
Lacks(h, fs) == entries[h].flag \cap fs = {}

Served(asks, port, in) ==
  IF asks = {} \/ in.stall = port THEN <<>>
  ELSE <<IF in.first \in asks THEN in.first ELSE CHOOSE h \in asks : \A g \in asks : h <= g>>

DecodeAsksEarly(h) == Has(h, "sDecode") /\ Lacks(h, {"wCmResp"})  \* faulty variant
DecodeAsks(h) == Has(h, "sDecode") /\ Lacks(h, {"wCmResp", "wXCB0", "wXCB1"})
Decode(d, in) ==
  Served({h \in Hn : DecodeAsks(h) /\ entries[h].state = (IF d = "third" THEN "FstTask" ELSE "SecTask")},
         "never", in)

ReqDB(in) == Served({h \in Hn : Busy(h) /\ Has(h, "sReqDB")}, "db", in)
CmTaskOf(k, in) ==
  IF ~CmRdy(k) THEN <<>>
  ELSE Served({h \in Hn : Has(h, "sCmTask") /\ Lacks(h, {"sReqDB"}) /\ entries[h].task = k}, "never", in)
DataTaskOf(in) == Served({h \in Hn : Has(h, "sDataTask") /\ entries[h].db}, "data", in)
ReplTask(in) == Served({h \in Hn : Has(h, "sWriDir") /\ Lacks(h, {"wDataResp"})}, "repl", in)
TxRsp(in) == Served({h \in Hn : ~Lacks(h, {"sDbid", "sResp"}) /\ Lacks(h, {"sReqDB"})}, "rsp", in)
CleanPos(in) == Served({h \in Hn : entries[h].state = "Clean"}, "clean", in)

-----------------------------------------------------------------------------
(* What an entry hears; its validity is not asked for acks and data.       *)

AllocHit(h) == pipe # <<>> /\ pipe[1].hn = h
DecHit(h) == \E d \in Decoder : dec[d].s2 = <<h>>
CmHit(h) == Busy(h) /\ cmPipe = <<h>>
AckHit(h, in) ==
  \/ in.rsp # <<>> /\ in.rsp[1].hn = h /\ in.rsp[1].op = "ack"
  \/ in.dat # <<>> /\ in.dat[1].hn = h /\ in.dat[1].op = "wrack"
XcbHits(h, in) ==
  IF in.dat # <<>> /\ in.dat[1].hn = h /\ in.dat[1].op \in {"wr", "wrack"}
  THEN {IF in.dat[1].beat = 0 THEN "wXCB0" ELSE "wXCB1"} ELSE {}
Hits(h, in) == XcbHits(h, in) \cup If(AckHit(h, in), "wCompAck")

NextState(h, in) ==
  LET r == entries[h]
      On(c, st) == IF c THEN st ELSE r.state
  IN CASE r.state = "Free"    -> On(AllocHit(h), IF FirstValid(pipe[1].plan) THEN "FstTask" ELSE "Commit")
       [] r.state = "FstTask" -> On(DecHit(h), IF r.plan.t2 # "none" /\ r.plan.wait THEN "SecTask"
                                               ELSE "Commit")
       [] r.state = "SecTask" -> On(DecHit(h), "Commit")
       [] r.state = "Commit"  -> On(r.flag = {}, "Clean")
       [] r.state = "Clean"   -> On(CleanPos(in) = <<h>>, "Free")

\* The flags of a decoded task, and of the commit unless it has to wait.
TaskFlags(task, needDB, cmt, p, db) ==
  LET sends == cmt /\ p.op = "data" /\ p.alr # "data"
  IN If((needDB \/ (cmt /\ p.op # "none")) /\ ~db, "sReqDB")
     \cup (IF task # "none" THEN {"sCmTask", "wCmResp"} ELSE {})
     \cup If(sends, "sDataTask") \cup If(sends \/ p.alr = "data", "wDataResp")
     \cup (IF cmt /\ p.dir THEN {"sWriDir", "wReplResp"} ELSE {})
     \cup If(cmt /\ p.rsp = "RSP", "sResp")

AllocFlags(h, in) ==
  LET p == pipe[1].plan
      beats == If(0 \in p.vec, "wXCB0") \cup If(1 \in p.vec, "wXCB1")
      waits == (IF WriteData(p) THEN beats ELSE {})
               \cup If(p.ack /\ ~(p.copy /\ WriteData(p)), "wCompAck")
  IN TaskFlags(p.t1, p.db1, ~FirstValid(p), p, p.alr # "no")
     \cup If(FirstValid(p), "sDecode") \cup If(p.dbid /\ p.alr # "dbid", "sDbid")
     \cup (waits \ (Hits(h, in) \cup entries[h].got))

Decoded(h, in) ==
  LET r == entries[h]
      fst == r.state = "FstTask"
      task == IF fst THEN r.plan.t2 ELSE "none"
  IN TaskFlags(task, fst /\ r.plan.db2, ~(fst /\ r.plan.wait), r.plan, r.db)
     \cup If(NextState(h, in) = "SecTask", "sDecode")
AckAwaited(h) == {"wCompAck"} \cap (entries[h].flag \ entries[h].got)
DecodedFlagsLatchOnly(h, in) == Decoded(h, in) \cup AckAwaited(h)  \* faulty variant
DecodedFlags(h, in) == Decoded(h, in) \cup (AckAwaited(h) \ Hits(h, in))

Fired(h, in) ==
  LET mine(out) == out = <<h>>
  IN If(\E d \in Decoder : mine(Decode(d, in)), "sDecode")
     \cup If(mine(ReqDB(in)), "sReqDB")
     \cup If(\E k \in Kind : mine(CmTaskOf(k, in)), "sCmTask")
     \cup If(mine(DataTaskOf(in)), "sDataTask")
     \cup If(mine(ReplTask(in)), "sWriDir")
     \cup (IF mine(TxRsp(in)) THEN {"sDbid", "sResp"} ELSE {})
     \cup If(CmHit(h), "wCmResp") \cup If(in.repl = <<h>>, "wReplResp")
     \cup If(in.data = <<h>>, "wDataResp")

NextFlag(h, in) ==
  IF AllocHit(h) THEN AllocFlags(h, in)
  ELSE IF DecHit(h) THEN DecodedFlags(h, in)
  ELSE entries[h].flag \ (Fired(h, in) \cup Hits(h, in))

\* The task instruction: what the first or second task brought.
InstLeft(h, in) ==
  \/ entries[h].state = "FstTask" /\ NextState(h, in) = "SecTask"
  \/ NextState(h, in) = "Commit"
InstWith(h, in, cm) ==
  IF InstLeft(h, in) THEN {} ELSE (IF AllocHit(h) THEN {} ELSE cm) \cup If(XcbHits(h, in) # {}, "xcb")
NextInstReplaced(h, in) ==  \* faulty variant
  InstWith(h, in, IF CmHit(h) THEN {"cm"} ELSE entries[h].inst)
NextInst(h, in) ==
  LET inst == entries[h].inst
  IN InstWith(h, in, IF ~CmHit(h) THEN inst
                     ELSE IF entries[h].state = "FstTask" THEN inst \cup {"cm"} ELSE {"cm"})

NextEntry(h, in) ==
  LET r == entries[h]
      st == NextState(h, in)
      set == AllocHit(h) \/ Busy(h) \/ XcbHits(h, in) # {}
  IN [state |-> st,
      plan |-> IF AllocHit(h) THEN pipe[1].plan ELSE IF st = "Free" THEN NoPlan ELSE r.plan,
      task |-> IF AllocHit(h) THEN pipe[1].plan.t1
               ELSE IF DecHit(h) THEN (IF r.state = "FstTask" THEN r.plan.t2 ELSE "none")
               ELSE IF st = "Free" THEN "none" ELSE r.task,
      db |-> IF AllocHit(h) THEN pipe[1].plan.alr # "no"
             ELSE st # "Free" /\ (r.db \/ ReqDB(in) = <<h>>),
      flag |-> IF set THEN NextFlag(h, in) ELSE r.flag,
      got |-> IF CleanPos(in) = <<h>> THEN {} ELSE r.got \cup Hits(h, in),
      inst |-> IF set THEN NextInst(h, in) ELSE r.inst]

NextDec(d, in) ==
  LET mes(h) == [hn |-> h, inst |-> entries[h].inst]
  IN [s1 |-> IF Decode(d, in) = <<>> THEN <<>> ELSE <<mes(Decode(d, in)[1])>>,
      s2 |-> IF dec[d].s1 = <<>> THEN <<>> ELSE <<dec[d].s1[1].hn>>]

CommitTick(in) ==
  LET task(h) == [hn |-> h, direct |-> Direct(entries[h].plan, entries[h].task),
                  half |-> entries[h].plan.vec # {0, 1}]
      given(k) == IF CmTaskOf(k, in) = <<>> THEN <<>> ELSE <<task(CmTaskOf(k, in)[1])>>
  IN /\ CmTick(in, [k \in Kind |-> given(k)])
     /\ entries' = [h \in Hn |-> NextEntry(h, in)]
     /\ dec' = [d \in Decoder |-> NextDec(d, in)]
     /\ pipe' = in.open

-----------------------------------------------------------------------------
(* The surroundings.  What an output makes the other side send.            *)

Flit(h, op, beat) == [hn |-> h, op |-> op, beat |-> beat]
WriteBeats(h, p) == {Flit(h, IF p.ack /\ ~p.copy THEN "wrack" ELSE "wr", b) : b \in p.vec}
Acks(h, p) == If(p.ack /\ ~WriteData(p), Flit(h, "ack", 0))

\* The answer of the snooped owner, or of memory to a write: in.reply says
\* whether data comes back, or the two responses come apart.
AfterTxSnp(in) ==
  IF TxSnp(in) = <<>> THEN {}
  ELSE LET h == HnOf(TxSnp(in)[1])
           p == entries[h].plan
       IN (IF in.reply THEN {Flit(h, "snp", b) : b \in {0, 1}} ELSE {Flit(h, "snp", 2)})
          \cup (IF Direct(p, "Snp") THEN Acks(h, p) ELSE {})
AfterTxReq(in) ==
  IF TxReq(in) = <<>> THEN {}
  ELSE LET c == TxReq(in)[1]
           h == HnOf(c)
           p == entries[h].plan
       IN IF c[1] = "Wr"
          THEN IF in.reply THEN {Flit(h, "comp", 0), Flit(h, "dbid", 0)} ELSE {Flit(h, "compdbid", 0)}
          ELSE IF cms[c[1]][c[2]].task[1].direct THEN Acks(h, p)
          ELSE {Flit(h, "mem", b) : b \in p.vec}
AfterTxRsp(in) ==
  IF TxRsp(in) = <<>> THEN {}
  ELSE LET h == TxRsp(in)[1]
           p == entries[h].plan
       IN IF Has(h, "sResp") THEN Acks(h, p) ELSE WriteBeats(h, p)
AfterData(in) ==
  IF DataTaskOf(in) = <<>> THEN {}
  ELSE LET h == DataTaskOf(in)[1]
           p == entries[h].plan
       IN IF p.rsp = "DAT" THEN Acks(h, p) ELSE {}
AfterOpen(in) ==
  IF in.open = <<>> THEN {}
  ELSE LET h == in.open[1].hn
           p == in.open[1].plan
       IN (IF p.alr = "data" THEN Acks(h, p) ELSE {}) \cup (IF p.alr = "dbid" THEN WriteBeats(h, p) ELSE {})

\* The outputs of an edge that answer the requester of h.
AnswersNow(h, in) ==
  LET p == entries[h].plan
      by(out) == out # <<>> /\ HnOf(out[1]) = h
  IN If(TxRsp(in) = <<h>> /\ (Has(h, "sResp") \/ p.copy), "rsp")
     \cup If(DataTaskOf(in) = <<h>> /\ p.rsp = "DAT", "dat")
     \cup If(by(TxSnp(in)) /\ Direct(p, "Snp"), "fwd")
     \cup If(by(TxReq(in)) /\ Direct(p, TxReq(in)[1][1]), "dmt")

CommitEnv(in) ==
  LET some(o) == {o[i] : i \in DOMAIN o}
      opened(h) == in.open # <<>> /\ in.open[1].hn = h
      early == {o.hn : o \in {x \in some(in.open) : x.plan.alr = "data"}}
  IN /\ left' = left - Len(in.open)
     /\ due' = (due \ (some(in.rsp) \cup some(in.dat)))
               \cup AfterTxSnp(in) \cup AfterTxReq(in) \cup AfterTxRsp(in) \cup AfterData(in) \cup AfterOpen(in)
     /\ data' = {t \in data : t.hn \notin some(in.data)}
                \cup {[hn |-> h, by |-> "commit"] : h \in some(DataTaskOf(in)) \cup early}
                \cup {[hn |-> HnOf(c), by |-> "write"] : c \in some(WrData(in))}
     /\ repls' = (repls \ some(in.repl)) \cup some(ReplTask(in))
     /\ answers' = [h \in Hn |-> IF opened(h) THEN Cardinality(early)
                                 ELSE answers[h] + Cardinality(AnswersNow(h, in))]

RspOps == {"ack", "comp", "dbid", "compdbid"}
RspDue == {m \in due : m.op \in RspOps \/ (m.op = "snp" /\ m.beat = 2)}
\* Slots are alike: the first transaction takes slot 0.
Openable == {h \in Hn : left > 0 /\ ~Busy(h) /\ ~AllocHit(h) /\ (left = Txns => h = 0)}
Opens == [hn : Openable, plan : IF \E h \in Hn : Busy(h) \/ AllocHit(h) THEN Beside ELSE Plans]
DataDone == {t.hn : t \in {x \in data : Busy(x.hn)}}

Port == [sReqDB |-> "db", sDataTask |-> "data", sWriDir |-> "repl", sDbid |-> "rsp", sResp |-> "rsp"]
\* The ports where somebody asks and which may stall.
Ports ==
  If(CmIn({"SendSnp"}) # {}, "snp") \cup If(CmIn({"SendReq"}) # {}, "req")
  \cup If(CmIn({"DataTask"}) # {}, "wrdata")
  \cup {Port[f] : f \in (UNION {entries[h].flag : h \in Hn}) \cap DOMAIN Port}
  \cup If(\E h \in Hn : entries[h].state = "Clean", "clean")

\* Choices that make no difference are made once.
First == Hn \ {h \in Hn : h > 0 /\ \E g \in Hn : ~Busy(g)}
Replies == IF CmIn({"SendSnp", "SendReq"}) = {} THEN {FALSE} ELSE BOOLEAN

CommitInputs ==
  [first : First, stall : Ports \cup {"none"}, reply : Replies, open : Opt(Opens),
   rsp : Opt(RspDue), dat : Opt(due \ RspDue), data : Opt(DataDone), repl : Opt(repls)]

CommitNext == \E in \in CommitInputs : CommitTick(in) /\ CommitEnv(in)

\* Nothing is under way, and the clock alone changes nothing.
IdleTick ==
  LET none == [first |-> 0, stall |-> "none", reply |-> FALSE, open |-> <<>>,
               rsp |-> <<>>, dat |-> <<>>, data |-> <<>>, repl |-> <<>>]
  IN CommitTick(none) /\ CommitEnv(none)
Settled == due = {} /\ data = {} /\ repls = {} /\ ~ENABLED <<IdleTick>>_commitVars

\* Nothing stays under way, and no port stalls, for ever.  The transactions
\* are bounded, so a behaviour comes to rest.
CommitSpec == CommitInit /\ [][CommitNext]_commitVars /\ []<>Settled

-----------------------------------------------------------------------------
(* The registers of the channel machines hold states, tasks and answers of *)
(* the code, and their queues no more than two tasks.                      *)
CommitTypeOK ==
  /\ \A k \in Kind : cmq[k] \in Seq(CmTask) /\ Len(cmq[k]) <= 2
  /\ cms \in [Kind -> [CmEntry -> [state : CmStates, task : Opt(CmTask), got : SUBSET ({"resp", "comp"} \cup Beats)]]]
  /\ \A h \in Hn : entries[h].state \in {"Free", "FstTask", "SecTask", "Commit", "Clean"}

\* Transactions somebody has still to do with, though the entry is done.
Outside ==
  CmBusy \cup {m.hn : m \in due} \cup {t.hn : t \in data} \cup repls
  \cup UNION {{dec[d].s1[i].hn : i \in DOMAIN dec[d].s1} \cup {dec[d].s2[i] : i \in DOMAIN dec[d].s2} :
                d \in Decoder}

(* An entry gives its slot back only when nothing of its transaction is    *)
(* under way any more: no flit, no task, no answer.  Whatever came later   *)
(* would be taken for the next transaction of the slot, for acks and data  *)
(* are latched even by a free entry.                                       *)
NothingComesLate ==
  \A h \in Hn :
    /\ entries[h].state = "Clean" => h \notin Outside /\ answers[h] = 1
    /\ ~Busy(h) /\ ~AllocHit(h) => h \notin Outside /\ entries[h].got = {}

(* A decoding looks up all that the tasks before it bring, so that it      *)
(* finds the row of the plan.                                              *)
Brought(h) ==
  LET p == entries[h].plan
  IN IF entries[h].state = "SecTask" THEN {"cm"}
     ELSE If(p.t1 # "none", "cm") \cup If(WriteData(p), "xcb")
DecodedWhole ==
  \A d \in Decoder : \A i \in DOMAIN dec[d].s1 : dec[d].s1[i].inst = Brought(dec[d].s1[i].hn)

(* One data task of a transaction at a time, for its end is announced by   *)
(* the id alone; and no directory write before the data has moved.         *)
OneDataTask ==
  /\ \A t, u \in data : t.hn = u.hn => t = u
  /\ \A t \in data : t.by = "commit" => t.hn \notin repls
  /\ \A t \in data : t.by = "write" => ~Has(t.hn, "wDataResp")

(* Together: what the commit stage promises about its exchanges.           *)
CommitInv == CommitTypeOK /\ NothingComesLate /\ DecodedWhole /\ OneDataTask

(* Every transaction that enters the stage leaves it.                      *)
TransactionsEnd == \A h \in Hn : Busy(h) ~> ~Busy(h)
=============================================================================
