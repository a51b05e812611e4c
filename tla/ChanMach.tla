------------------------------ MODULE ChanMach ------------------------------
(***************************************************************************)
(* The channel machines (model/dj/cm.cpp): pools of entries that carry one *)
(* CHI exchange each for the commit stage.                                 *)
(*   Snp   SnoopCM   snoop the owner, collect a response or two beats      *)
(*   Rd    ReadCM    read memory; the data comes to the home node, or goes *)
(*                   straight to the requester (direct, doDMT)             *)
(*   Wr    WriteCM   write memory: request, data buffer id, data           *)
(* A task waits in the queue of its pool (FastQueue, a plain queue) for    *)
(* the lowest free entry.  An entry finds its messages in the broadcast    *)
(* receive channels by the transaction id and the opcode.  The answers of  *)
(* the three pools share one arbiter and one pipe stage.                   *)
(***************************************************************************)
EXTENDS Integers, Sequences, FiniteSets, Fifo

CONSTANTS
  Hn,       \* transaction ids, numbers
  CmEntry   \* entries of a pool, numbers

ASSUME CmAssumption == Hn \subseteq Nat /\ CmEntry \subseteq Nat /\ CmEntry # {}

VARIABLES
  cmq,     \* task queues of the pools
  cms,     \* entries of the pools
  cmPipe   \* the answer in the pipe stage

cmVars == <<cmq, cms, cmPipe>>

Kind == {"Snp", "Rd", "Wr"}
CmStates ==
  {"Free", "SendSnp", "WaitResp", "SendReq", "WaitData0", "WaitData1", "WaitDbid",
   "DataTask", "WaitData", "RespCmt"}
CmTask == [hn : Hn, direct : BOOLEAN, half : BOOLEAN]
NoCm == [state |-> "Free", task |-> <<>>, got |-> {}]

CmInit ==
  /\ cmq = [k \in Kind |-> <<>>]
  /\ cms = [k \in Kind |-> [i \in CmEntry |-> NoCm]]
  /\ cmPipe = <<>>

-----------------------------------------------------------------------------
(* Who is served: of the entries that ask the one of the transaction       *)
(* in.first, else some other one; nobody while the receiver stalls.        *)

HnOf(c) == cms[c[1]][c[2]].task[1].hn
CmIn(states) == {c \in Kind \X CmEntry : cms[c[1]][c[2]].state \in states}
CmServed(asks, port, in) ==
  LET favoured == {c \in asks : HnOf(c) = in.first}
  IN IF asks = {} \/ in.stall = port THEN <<>>
     ELSE <<CHOOSE c \in IF favoured # {} THEN favoured ELSE asks : TRUE>>

\* WriteCM answers once the data is handed over and memory has completed.
Done(c) == cms[c[1]][c[2]].state = "RespCmt" /\ (c[1] = "Wr" => "comp" \in cms[c[1]][c[2]].got)

TxSnp(in) == CmServed(CmIn({"SendSnp"}), "snp", in)
TxReq(in) == CmServed(CmIn({"SendReq"}), "req", in)
WrData(in) == CmServed(CmIn({"DataTask"}), "wrdata", in)
CmAnswer(in) == CmServed({c \in CmIn({"RespCmt"}) : Done(c)}, "never", in)

\* Alloc: the head of a queue goes to the lowest free entry.
FreeCm(k) == {i \in CmEntry : cms[k][i].state = "Free"}
CmAlloc(k) ==
  IF cmq[k] = <<>> \/ FreeCm(k) = {} THEN <<>>
  ELSE <<CHOOSE i \in FreeCm(k) : \A j \in FreeCm(k) : i <= j>>

-----------------------------------------------------------------------------
(* Entries.                                                                *)

\* What the received flits tell an entry r of each machine.
BeatName == [b \in {0, 1} |-> IF b = 0 THEN "beat0" ELSE "beat1"]
Beats == {"beat0", "beat1"}
Mine(r, m, ops) == r.task # <<>> /\ m # <<>> /\ m[1].hn = r.task[1].hn /\ m[1].op \in ops
If(c, x) == IF c THEN {x} ELSE {}

SnpHeard(r, in) ==
  IF Mine(r, in.dat, {"snp"}) THEN {"resp", BeatName[in.dat[1].beat]}
  ELSE If(Mine(r, in.rsp, {"snp"}), "resp")
RdHeard(r, in) == If(Mine(r, in.dat, {"mem"}), "data")
WrHeard(r, in) ==
  If(Mine(r, in.rsp, {"dbid", "compdbid"}), "dbid") \cup If(Mine(r, in.rsp, {"comp", "compdbid"}), "comp")

\* A snooped owner answers with a response or with both beats.
SnpDoneAtFirst(got) == "resp" \in got  \* faulty variant
SnpDone(got) == "resp" \in got /\ Cardinality(got \cap Beats) # 1

\* The states: when an entry moves on (c), and where to.
To(r, c, st) == IF c THEN st ELSE r.state

NextSnpState(i, in) ==
  LET r == cms["Snp"][i]
  IN CASE r.state = "Free"      -> To(r, CmAlloc("Snp") = <<i>>, "SendSnp")
       [] r.state = "SendSnp"   -> To(r, TxSnp(in) = << <<"Snp", i>> >>, "WaitResp")
       [] r.state = "WaitResp"  -> To(r, SnpDone(r.got \cup SnpHeard(r, in)), "RespCmt")
       [] r.state = "RespCmt"   -> To(r, CmAnswer(in) = << <<"Snp", i>> >>, "Free")

NextRdState(i, in) ==
  LET r == cms["Rd"][i]
      beat == RdHeard(r, in) # {}
  IN CASE r.state = "Free"      -> To(r, CmAlloc("Rd") = <<i>>, "SendReq")
       [] r.state = "SendReq"   -> To(r, TxReq(in) = << <<"Rd", i>> >>,
                                      IF r.task[1].direct THEN "RespCmt" ELSE "WaitData0")
       [] r.state = "WaitData0" -> To(r, beat, IF r.task[1].half THEN "RespCmt" ELSE "WaitData1")
       [] r.state = "WaitData1" -> To(r, beat, "RespCmt")
       [] r.state = "RespCmt"   -> To(r, CmAnswer(in) = << <<"Rd", i>> >>, "Free")

NextWrState(i, in) ==
  LET r == cms["Wr"][i]
  IN CASE r.state = "Free"      -> To(r, CmAlloc("Wr") = <<i>>, "SendReq")
       [] r.state = "SendReq"   -> To(r, TxReq(in) = << <<"Wr", i>> >>, "WaitDbid")
       [] r.state = "WaitDbid"  -> To(r, "dbid" \in WrHeard(r, in), "DataTask")
       [] r.state = "DataTask"  -> To(r, WrData(in) = << <<"Wr", i>> >>, "WaitData")
       [] r.state = "WaitData"  -> To(r, in.data = <<r.task[1].hn>>, "RespCmt")
       [] r.state = "RespCmt"   -> To(r, CmAnswer(in) = << <<"Wr", i>> >>, "Free")

\* The rest of an entry: its task, and what it keeps of what it has heard.
NextCm(k, i, in, st, heard) ==
  IF st = "Free" THEN NoCm
  ELSE [state |-> st,
        task |-> IF CmAlloc(k) = <<i>> THEN <<Head(cmq[k])>> ELSE cms[k][i].task,
        got |-> cms[k][i].got \cup heard]
NextPool(k, in) ==
  [i \in CmEntry |->
     LET r == cms[k][i]
     IN CASE k = "Snp" -> NextCm(k, i, in, NextSnpState(i, in), SnpHeard(r, in))
          [] k = "Rd"  -> NextCm(k, i, in, NextRdState(i, in), {})
          [] k = "Wr"  -> NextCm(k, i, in, NextWrState(i, in), WrHeard(r, in) \cap {"comp"})]

CmRdy(k) == Len(cmq[k]) < 2

\* given: the tasks of this edge, one at most for every pool.
CmTick(in, given) ==
  /\ cmq' = [k \in Kind |-> (IF CmAlloc(k) = <<>> THEN cmq[k] ELSE Tail(cmq[k])) \o given[k]]
  /\ cms' = [k \in Kind |-> NextPool(k, in)]
  /\ cmPipe' = IF CmAnswer(in) = <<>> THEN <<>> ELSE <<HnOf(CmAnswer(in)[1])>>

\* Transactions some channel machine has to do with.
CmBusy ==
  {HnOf(c) : c \in CmIn(CmStates \ {"Free"})}
  \cup (UNION {{cmq[k][n].hn : n \in DOMAIN cmq[k]} : k \in Kind})
  \cup {cmPipe[n] : n \in DOMAIN cmPipe}
=============================================================================
