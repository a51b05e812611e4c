----------------------------- MODULE DataBlock -----------------------------
(***************************************************************************)
(* The data block of a home node (model/dj/datacm.cpp, data.h, data.cpp):  *)
(* the data control machines (DataCM), the data buffer with its two read   *)
(* queues and the beat storages behind it.                                 *)
(*                                                                         *)
(* A transaction takes a machine and a buffer slot per beat; the beats of  *)
(* the network arrive in the slots; then tasks move beats between slots,   *)
(* storage (DS) and the data output:                                       *)
(*   read  storage to slot (what arrived before stays),                    *)
(*   send  to the output (at once as it comes from storage, or from the    *)
(*         slot later), save  slot to storage,                             *)
(*   repl  exchange: the slot goes to storage, the old line to slot and    *)
(*         output.                                                         *)
(*                                                                         *)
(* Data is followed by one bit of one byte of one beat, named by `watch`:  *)
(* every move and every mask works bytewise, so a byte's fate does not     *)
(* depend on the others.  Requests of one class of quality of service.     *)
(***************************************************************************)
EXTENDS Integers, Sequences, FiniteSets, Fifo, VipArb

CONSTANTS
  NrCM,     \* machines (64 in the code)
  NrBuf,    \* buffer slots (128 in the code), at least two per machine
  Latency,  \* edges from a read of storage to its response (5 in the code)
  Txn,      \* ids of transactions; each works on a line of its own
  Plans     \* bounds on the tasks of a behaviour, see the surroundings

VARIABLES
  watch,   \* the beat whose data is followed; never changes
  plan,    \* the tasks of this behaviour; never changes
  dc,      \* DataCM.entries
  taskD,   \* task_d: the task, one edge later
  vip,     \* pointers of the arbiters
  buf,     \* DataBuffer.dat_buf
  mask,    \* mask_vec: the byte of a slot has arrived
  replVec, \* repl_vec: the slot is part of an exchange
  wr,      \* the registers before the write port of dat_buf
  chiD, dsD, \* chi_pipe and ds_pipe with the two shift registers, newest first
  chiQ, dsQ, \* to_chi_q and to_ds_q
  mem,     \* the beat storages
  busy,    \* the storages that took a request at the last edge
  rdPipe,  \* reads of storage on their way: resp_pipe, then ds_resp_pipes
  goal,    \* what a task must send and save, by machine; history only
  still    \* alternates while nothing else changes: the clock goes on

dataRegs == <<watch, plan, dc, taskD, vip, buf, mask, replVec, wr, chiD, dsD, chiQ, dsQ,
              mem, busy, rdPipe, goal>>
dataVars == <<dataRegs, still>>

\* What a task does: the combinations that the decode tables, the early
\* response of the frontend and ReplaceCM give.
Tasks == {{"repl"}, {"read", "send"}, {"read", "send", "merge"}, {"send"}, {"save"},
          {"read", "save"}, {"send", "save"}}

Beats  == {0, 1}
CMs    == 0 .. NrCM - 1
Slots  == 0 .. NrBuf - 1
Bit    == {0, 1}

\* The bounds give beats and tasks.
ASSUME DataAssumption ==
  /\ NrCM \in Nat \ {0} /\ NrBuf \in Nat \ {0} /\ Latency \in Nat
  /\ \A p \in Plans : /\ p.vecs \subseteq SUBSET Beats /\ p.rxFull \subseteq BOOLEAN
                      /\ p.parts \in BOOLEAN
                      /\ \A t \in Txn : p.ops[t] \subseteq Tasks

\* A task: the transaction, the operation, the beats.
Reads(op)  == "repl" \in op \/ "read" \in op   \* readToDB
Saves(op)  == "repl" \in op \/ "save" \in op   \* readToDS
Sends(op)  == "repl" \in op \/ "send" \in op   \* readToCHI
AtOnce(op) == Sends(op) /\ "merge" \notin op   \* toCHI of a read of storage

\* PriorityEncoder: the lowest beat, 0 for none.
Pe(s) == IF 1 \in s /\ 0 \notin s THEN 1 ELSE 0

FreeCM == [st |-> "Free", crit |-> FALSE, txn |-> <<>>, vec |-> {}, op |-> {}, tvec |-> {},
           id |-> [b \in Beats |-> 0],
           sR |-> {}, sS |-> {}, sV |-> {}, wR |-> {}, wS |-> {}, wV |-> {}]

Nothing == [i \in 1 .. Latency + 1 |-> <<>>]

DataInit ==
  /\ watch \in Beats /\ plan \in Plans
  /\ dc = [m \in CMs |-> FreeCM]
  /\ taskD = <<>>
  /\ vip = [resp |-> 0, rel |-> 0, db |-> 0, ds |-> 0, chi |-> 0]
  /\ buf = [i \in Slots |-> 0] /\ mask = [i \in Slots |-> FALSE]
  /\ replVec = [i \in Slots |-> FALSE]
  /\ wr = <<>> /\ chiD = << <<>>, <<>> >> /\ dsD = << <<>>, <<>> >>
  /\ chiQ = FqEmpty /\ dsQ = FqEmpty
  /\ mem = [t \in Txn |-> 0]
  /\ busy = {} /\ rdPipe = Nothing
  /\ goal = [m \in CMs |-> [out |-> 0, saved |-> 0]] /\ still = FALSE

-----------------------------------------------------------------------------
(* The machines' requests and the arbiters.                                *)
Valid(m)  == dc[m].st # "Free"
\* A transaction's machine.
Of(t) == {m \in CMs : Valid(m) /\ dc[m].txn = <<t>>}

IsRepl(m) == dc[m].st = "Repl" /\ dc[m].sR # {} /\ dc[m].sV # {}
Repls  == {m \in CMs : IsRepl(m)}
DbReqs == Repls \cup {m \in CMs : dc[m].st = "Read" /\ dc[m].sR # {}}
DsReqs == Repls \cup {m \in CMs : dc[m].st = "Save" /\ dc[m].sV # {}}
ChiReqs == {m \in CMs : dc[m].st = "Send" /\ dc[m].sS # {}}
Clients(st) == {m \in CMs : dc[m].st = st}

\* A machine with a beat of its task on the way goes before the arbiter.
Critical(S) == {m \in S : dc[m].crit}
Pick(S, v) ==
  IF Critical(S) # {} THEN {Min(Critical(S))}
  ELSE IF S # {} THEN {VipChosen(v, S)} ELSE {}

\* An exchange asks both readers at once and goes before everything else.
ReplSel == IF Critical(Repls) # {} THEN Min(Critical(Repls)) ELSE Min(Repls)
DbSel == IF Repls # {} THEN {ReplSel} ELSE Pick(DbReqs, vip.db)
DsSel == IF Repls # {} THEN {ReplSel} ELSE Pick(DsReqs, vip.ds)
ChiSel == Pick(ChiReqs, vip.chi)

DbBeat(m)  == Pe(dc[m].sR)
DsBeat(m)  == Pe(dc[m].sV)
ChiBeat(m) == Pe(dc[m].sS)

-----------------------------------------------------------------------------
(* The ports of buffer and storage.  A storage takes a request every other *)
(* edge, and a write before a read.                                        *)
InPipe(p) == Cardinality({i \in 1 .. 2 : p[i] # <<>>})
Room(q, p) == 2 - Len(q.items) > InPipe(p)

WriDs == IF dsQ.items # <<>> THEN {Head(dsQ.items)} ELSE {}
StorageRdy(b) == b \notin busy
WriDsFire == {w \in WriDs : StorageRdy(w.beat)}
ReadRdy(b) == StorageRdy(b) /\ \A w \in WriDs : w.beat # b

DbRdy == \A m \in DbSel : ReadRdy(DbBeat(m))
DsRdyUncounted == Len(dsQ.items) < 2  \* faulty variant
DsRdy == Room(dsQ, dsD)
DsValid == DsSel # {} /\ (Repls # {} => DbRdy)
ChiRdy == Room(chiQ, chiD) /\ ~DsValid

DbFire  == {m \in DbSel : DbRdy /\ (Repls # {} => DsRdy)}
DsFire  == {m \in DsSel : DsRdy /\ (Repls # {} => DbRdy)}
ChiFire == IF ChiRdy THEN ChiSel ELSE {}

\* w_ds_resp_arbed, and the output: the buffer's queue before the storage.
DsResp == rdPipe[Latency + 1]
ToChi  == IF chiQ.items # <<>> THEN <<Head(chiQ.items)>> ELSE <<>>
DsToChi == DsResp # <<>> /\ DsResp[1].atOnce
TxDat ==
  IF ToChi # <<>> THEN [m |-> ToChi[1].m, beat |-> ToChi[1].beat, data |-> ToChi[1].data]
  ELSE [m |-> DsResp[1].m, beat |-> DsResp[1].beat, data |-> DsResp[1].data]
TxValid == ToChi # <<>> \/ DsToChi
TxFireUnasked(in) == TxValid  \* faulty variant
TxFire(in) == TxValid /\ in.txRdy
RxRdy == DsResp = <<>>

\* Notices of completed moves: machine and beat.
DsWriDB(m, b) == DsResp # <<>> /\ DsResp[1].m = m /\ DsResp[1].beat = b
TxDone(in, m, b) == TxFire(in) /\ TxDat.m = m /\ TxDat.beat = b
DbWriDS(m, b) == \E w \in WriDsFire : w.m = m /\ w.beat = b

-----------------------------------------------------------------------------
(* The machines at a clock edge.                                           *)
FreeSel == IF Clients("Free") # {} THEN {Min(Clients("Free"))} ELSE {}
FreeIds == Slots \ UNION {{dc[m].id[b] : b \in dc[m].vec} : m \in CMs}
\* req_db_in_rdy; the grant of ids (Dbid) is an input of its own.
MachineRdy == FreeSel # {}

AllocHit(in, m) == in.req # {} /\ MachineRdy /\ m \in FreeSel
TaskHit(m) == Valid(m) /\ taskD # <<>> /\ dc[m].txn = <<taskD[1].txn>>
CleanHit(in, m) == Valid(m) /\ \E c \in in.clean : dc[m].txn = <<c.txn>>
RelFire(m)  == dc[m].st = "Clean" /\ m = VipChosen(vip.rel, Clients("Clean"))
RespFire(m) == dc[m].st = "Resp" /\ m = VipChosen(vip.resp, Clients("Resp"))

\* s_ and w_ of a channel: a task sets both, a request takes its beat from
\* the first, a completed move takes its beat from both.
ToAsk(hit, s, asked, done) ==
  IF hit THEN taskD[1].tvec ELSE s \ (asked \cup done)
ToDone(hit, w, done) == IF hit THEN taskD[1].tvec ELSE w \ done

More(s) == Cardinality(s) > 1
NextCrit(w, m) ==
  LET r == dc[m]
  IN  IF TaskHit(m) THEN FALSE
      ELSE IF m \in w.db THEN More(r.sR)
      ELSE IF m \in w.chi THEN More(r.sS)
      ELSE IF m \in w.ds THEN More(r.sV) ELSE r.crit

AfterAlloc(in, m) ==
  LET op == taskD[1].op
  IN  IF TaskHit(m)
      THEN IF "repl" \in op THEN "Repl" ELSE IF "read" \in op THEN "Read"
           ELSE IF "send" \in op THEN "Send" ELSE "Save"
      ELSE IF CleanHit(in, m) THEN "Clean" ELSE "Alloc"

\* An exchange is over when both storage ports have done their part; what
\* the output did not take at once is in the slots and is sent now.
AfterReplSent(wR, wS, wV) == IF wR \cup wS \cup wV # {} THEN "Repl" ELSE "Resp"  \* faulty variant
AfterRepl(wR, wS, wV) ==
  IF wR # {} \/ wV # {} THEN "Repl" ELSE IF wS # {} THEN "Send" ELSE "Resp"

\* The state after a stage, given what is still to be done.
NextState(in, m, wR, wS, wV, vec) ==
  LET r == dc[m]
      rest == IF "save" \in r.op /\ wV # {} THEN "Save" ELSE "Resp"
  IN  CASE r.st = "Alloc" -> AfterAlloc(in, m)
        [] r.st = "Repl"  -> AfterRepl(wR, wS, wV)
        [] r.st = "Read"  -> IF wR # {} THEN "Read"
                             ELSE IF "send" \in r.op /\ wS # {} THEN "Send" ELSE rest
        [] r.st = "Send"  -> IF wS # {} THEN "Send" ELSE rest
        [] r.st = "Save"  -> IF wV # {} THEN "Save" ELSE "Resp"
        [] r.st = "Resp"  -> IF RespFire(m) THEN "Alloc" ELSE "Resp"
        [] r.st = "Clean" -> IF ~RelFire(m) THEN "Clean" ELSE IF vec = {} THEN "Free" ELSE "Alloc"

Asked(fire, m, b) == IF m \in fire THEN {b} ELSE {}

NextTxn(in, m) ==
  IF \E u \in in.upd : dc[m].txn = <<u.before>> THEN <<(CHOOSE u \in in.upd : TRUE).next>> ELSE dc[m].txn

Busy(in, w, m) ==
  LET r    == dc[m]
      hit  == TaskHit(m)
      op   == IF hit THEN taskD[1].op ELSE {}
      dR   == {b \in Beats : DsWriDB(m, b)}
      dS   == {b \in Beats : TxDone(in, m, b)}
      dV   == {b \in Beats : DbWriDS(m, b)}
      wR   == ToDone(hit /\ Reads(op), r.wR, dR)
      wS   == ToDone(hit /\ Sends(op), r.wS, dS)
      wV   == ToDone(hit /\ Saves(op), r.wV, dV)
      vec  == IF ~CleanHit(in, m) /\ RelFire(m) THEN r.vec \ r.tvec ELSE r.vec
  IN  [st   |-> NextState(in, m, wR, wS, wV, vec),
       crit |-> NextCrit(w, m),
       txn  |-> NextTxn(in, m),
       vec  |-> vec,
       op   |-> IF hit THEN taskD[1].op ELSE r.op,
       tvec |-> IF CleanHit(in, m) THEN (CHOOSE c \in in.clean : TRUE).vec
                ELSE IF hit THEN taskD[1].tvec ELSE r.tvec,
       id   |-> r.id,
       sR   |-> ToAsk(hit /\ Reads(op), r.sR, Asked(w.db, m, DbBeat(m)), dR),
       sS   |-> ToAsk(hit /\ Sends(op), r.sS, Asked(w.chi, m, ChiBeat(m)), dS),
       sV   |-> ToAsk(hit /\ Saves(op), r.sV, Asked(w.ds, m, DsBeat(m)), dV),
       wR |-> wR, wS |-> wS, wV |-> wV]

NextCM(in, w, m) ==
  IF AllocHit(in, m)
  THEN LET r == CHOOSE r \in in.req : TRUE
       IN  [FreeCM EXCEPT !.st = "Alloc", !.txn = <<r.txn>>, !.vec = r.vec, !.id = r.id]
  ELSE IF ~Valid(m) THEN dc[m]
  ELSE LET n == Busy(in, w, m) IN IF n.st = "Free" THEN FreeCM ELSE n

\* w_any: the machines are not clocked while all are free and none is taken.
CmAny(in) == (in.req # {} /\ MachineRdy) \/ \E m \in CMs : Valid(m)

-----------------------------------------------------------------------------
(* Buffer, queues and storage at a clock edge.                             *)
\* getDBID: the machine of the transaction that a flit of data names.
RxId(x) == dc[Min(Of(x.txn))].id[x.beat]

\* dat_buf.clean: the slots being handed out.
Cleaned(in) == IF in.req # {} /\ MachineRdy THEN UNION {{r.id[b] : b \in r.vec} : r \in in.req} ELSE {}

\* The write port: what the masks let through, one edge later.
NextWr(in) ==
  IF DsResp # <<>>
  THEN LET i == DsResp[1].id
       IN  IF replVec[i] \/ ~mask[i] THEN <<[id |-> i, data |-> DsResp[1].data]>> ELSE <<>>
  ELSE IF in.rx # {}
       THEN LET x == CHOOSE x \in in.rx : TRUE
                i == RxId(x)
            IN  IF (IF x.full THEN ~mask[i] ELSE x.be)
                THEN <<[id |-> i, data |-> x.data]>> ELSE <<>>
  ELSE <<>>

NextMask(in, w, i) ==
  IF i \in Cleaned(in) THEN FALSE
  ELSE IF DsResp # <<>> /\ DsResp[1].id = i THEN TRUE
  ELSE mask[i] \/ \E x \in in.rx : RxRdy /\ RxId(x) = i /\ (x.full \/ x.be)

NextReplVec(in, w, i) ==
  \/ \E m \in w.ds : IsRepl(m) /\ dc[m].id[DsBeat(m)] = i
  \/ replVec[i] /\ i \notin Cleaned(in)

\* What a slot that nobody holds contains is of no interest: zero.
NextBuf(w, i) ==
  IF wr # <<>> /\ wr[1].id = i THEN wr[1].data ELSE IF i \in w.free THEN 0 ELSE buf[i]

\* A read request, and the data of the slot two edges later; the one read
\* port takes the address of a save before that of a send.
AskChi(w) == {[m |-> m, beat |-> ChiBeat(m), id |-> dc[m].id[ChiBeat(m)]] : m \in w.chi}
AskDs(w) == {[m |-> m, beat |-> DsBeat(m), id |-> dc[m].id[DsBeat(m)], line |-> dc[m].txn[1]]
             : m \in w.ds}
Shift(p, ask) == <<IF ask = {} THEN <<>> ELSE <<CHOOSE a \in ask : TRUE>>, p[1]>>
PortId == IF dsD[2] # <<>> THEN dsD[2][1].id ELSE chiD[2][1].id

EnqChi == IF chiD[2] = <<>> THEN <<>>
          ELSE <<[m |-> chiD[2][1].m, beat |-> chiD[2][1].beat, data |-> buf[PortId]]>>
EnqDs  == IF dsD[2] = <<>> THEN <<>>
          ELSE <<[m |-> dsD[2][1].m, beat |-> dsD[2][1].beat, line |-> dsD[2][1].line,
                  data |-> buf[PortId]]>>

\* Storage, one bit per line: the watched beat.  What a line contains while
\* no transaction works on it is of no interest: zero.
Held(line, b) == IF b = watch THEN mem[line] ELSE 0
NextMem(line) ==
  IF \E w \in WriDsFire : w.line = line /\ w.beat = watch
  THEN (CHOOSE w \in WriDsFire : TRUE).data
  ELSE IF Of(line) = {} THEN 0 ELSE mem[line]
ReadReq(w) == {[m |-> m, beat |-> DbBeat(m), id |-> dc[m].id[DbBeat(m)],
             atOnce |-> AtOnce(dc[m].op), data |-> Held(dc[m].txn[1], DbBeat(m))] : m \in w.db}
NextBusy(w) == {DbBeat(m) : m \in w.db} \cup {x.beat : x \in WriDsFire}
NextRdPipe(w) ==
  [i \in 1 .. Latency + 1 |->
     IF i > 1 THEN rdPipe[i - 1]
     ELSE IF w.db = {} THEN <<>> ELSE <<CHOOSE r \in ReadReq(w) : TRUE>>]

\* What the task just received must come to, for the watched beat.
BufNow(i) == IF wr # <<>> /\ wr[1].id = i THEN wr[1].data ELSE buf[i]
Goal(m) ==
  LET t   == taskD[1]
      i   == dc[m].id[watch]
      out == IF Reads(t.op) /\ ("repl" \in t.op \/ ~mask[i]) THEN mem[t.txn] ELSE BufNow(i)
  IN  [out |-> out, saved |-> IF "repl" \in t.op THEN BufNow(i) ELSE out]
NoGoal == [out |-> 0, saved |-> 0]
NextGoal(m) ==
  IF TaskHit(m) /\ watch \in taskD[1].tvec THEN Goal(m)
  ELSE IF RespFire(m) THEN NoGoal ELSE goal[m]

-----------------------------------------------------------------------------
\* The wires that no input of the edge changes.
Wires ==
  [db |-> DbFire, ds |-> DsFire, chi |-> ChiFire, free |-> FreeIds,
   vip |-> [resp |-> VipNext(vip.resp, Clients("Resp"), TRUE),
            rel  |-> VipNext(vip.rel, Clients("Clean"), TRUE),
            db   |-> VipNext(vip.db, DbReqs, DbRdy),
            ds   |-> VipNext(vip.ds, DsReqs, DsRdy),
            chi  |-> VipNext(vip.chi, ChiReqs, ChiRdy)]]

DataTick(w, in) ==
  /\ watch' = watch /\ plan' = plan
  /\ taskD' = in.task
  /\ dc' = IF CmAny(in) THEN [m \in CMs |-> NextCM(in, w, m)] ELSE dc
  /\ vip' = w.vip
  /\ buf' = [i \in Slots |-> NextBuf(w, i)]
  /\ mask' = [i \in Slots |-> NextMask(in, w, i)]
  /\ replVec' = [i \in Slots |-> NextReplVec(in, w, i)]
  /\ wr' = NextWr(in)
  /\ chiD' = Shift(chiD, AskChi(w)) /\ dsD' = Shift(dsD, AskDs(w))
  /\ chiQ' = FqNext(2, chiQ, EnqChi, in.txRdy)
  /\ dsQ' = FqNext(2, dsQ, EnqDs, WriDsFire # {})
  /\ mem' = [line \in Txn |-> NextMem(line)]
  /\ busy' = NextBusy(w) /\ rdPipe' = NextRdPipe(w)
  /\ goal' = [m \in CMs |-> NextGoal(m)]
  /\ still' = (dataRegs' = dataRegs /\ ~still)

-----------------------------------------------------------------------------
(* The surroundings.  The commit stage, the channel machines and ReplaceCM *)
(* have one thing in hand for a transaction at a time.                     *)
Idle(m) == dc[m].st = "Alloc" /\ ~TaskHit(m)
Idles == {m \in CMs : Idle(m)}
TxnOf(m) == dc[m].txn[1]
Unused == Txn \ {TxnOf(m) : m \in {n \in CMs : Valid(n)}}

\* DBIDCtrl (Dbid): any free ids will do; the lowest are reused the soonest.
NewIds(vec) ==
  LET lo == Min(FreeIds)
      hi == Min(FreeIds \ {lo})
  IN  [b \in Beats |-> IF b \notin vec THEN 0 ELSE IF b = 0 \/ 0 \notin vec THEN lo ELSE hi]
ReqChoice ==
  IF Cardinality(FreeIds) < 2 \/ (plan.alone /\ Unused # Txn) THEN {{}}
  ELSE {{}} \cup {{[txn |-> t, vec |-> v, id |-> NewIds(v)]} : t \in Unused, v \in plan.vecs}

\* The beats that a task or a cleaning may name.
Part(vec) == IF plan.parts THEN SUBSET vec \ {{}} ELSE {vec}

\* A beat of the network comes once, before the first task that uses it: a
\* whole line's beat, or the bytes that a write enables.  It differs from
\* what storage has, so that one is never taken for the other.
RxBeat(m, b, full) ==
  [txn |-> TxnOf(m), beat |-> b, full |-> full, be |-> ~full,
   data |-> IF b = watch THEN 1 - mem[TxnOf(m)] ELSE 0]
RxChoice ==
  {{}} \cup UNION {{{RxBeat(m, b, f)} : b \in {c \in dc[m].vec : ~mask[dc[m].id[c]]},
                                     f \in plan.rxFull} : m \in Idles}

\* An exchange is the last task; a read that does not merge finds an empty
\* slot; what is sent or saved from a slot is there.
TaskOk(m, op, vec) ==
  \A b \in vec : LET i == dc[m].id[b]
                 IN  /\ ~replVec[i]
                     /\ op = {"read", "send"} => ~mask[i]
                     /\ "read" \notin op => mask[i]
TaskChoice ==
  {<<>>} \cup UNION {{<<[txn |-> TxnOf(m), op |-> p[1], tvec |-> p[2]]>> :
      p \in {o \in plan.ops[TxnOf(m)] \X Part(dc[m].vec) : TaskOk(m, o[1], o[2])}} : m \in Idles}

CleanChoice ==
  {{}} \cup UNION {{{[txn |-> TxnOf(m), vec |-> v]} : v \in Part(dc[m].vec)} : m \in Idles}
UpdChoice == {{}} \cup {{[before |-> TxnOf(m), next |-> t]} : m \in Idles, t \in Unused}

TxnIn(S) == {x.txn : x \in S}
Apart(A, B) == A \cap B = {}

DataNext ==
  LET w == Wires IN
  \E rx \in RxChoice, task \in TaskChoice :
    /\ \A x \in rx : task # <<>> => task[1].txn # x.txn
    /\ LET had == TxnIn(rx) \cup (IF task = <<>> THEN {} ELSE {task[1].txn})
       IN  \E clean \in CleanChoice, upd \in UpdChoice, req \in ReqChoice, txRdy \in BOOLEAN :
             /\ Apart(TxnIn(clean), had)
             /\ Apart({u.before : u \in upd}, had \cup TxnIn(clean))
             /\ Apart({u.next : u \in upd}, TxnIn(req))
             /\ DataTick(w, [rx |-> rx, task |-> task, clean |-> clean, upd |-> upd,
                             req |-> req, txRdy |-> txRdy])

\* The clock goes on, and the network does not refuse one flit for ever.
Served ==
  \/ chiQ.items = <<>> \/ chiQ'.items = <<>>
  \/ chiQ'.items[1] # chiQ.items[1]

DataFair == []<><<Served>>_dataVars

DataSpec == DataInit /\ [][DataNext]_dataVars /\ DataFair

-----------------------------------------------------------------------------
Moving(p) == {p[i][1] : i \in {j \in DOMAIN p : p[j] # <<>>}}
Queued(q) == {q.items[i] : i \in 1 .. Len(q.items)}

CM == [st : {"Free", "Alloc", "Repl", "Read", "Send", "Save", "Resp", "Clean"},
       crit : BOOLEAN, txn : Opt(Txn), vec : SUBSET Beats,
       op : SUBSET {"repl", "read", "send", "save", "merge"}, tvec : SUBSET Beats,
       id : [Beats -> Slots], sR : SUBSET Beats, sS : SUBSET Beats, sV : SUBSET Beats,
       wR : SUBSET Beats, wS : SUBSET Beats, wV : SUBSET Beats]

(* Types of the registers; the queues of the buffer hold two beats.        *)
DataTypeOK ==
  /\ dc \in [CMs -> CM]
  /\ buf \in [Slots -> Bit] /\ mem \in [Txn -> Bit]
  /\ Len(chiQ.items) <= 2 /\ Len(dsQ.items) <= 2
  /\ busy \subseteq Beats

\* Nothing is written into a full queue: the buffer's readers count what is
\* on the way (the queues' enq_rdy is read by nobody).
QueuesHaveRoom ==
  /\ EnqChi # <<>> => chiQ.rdy /\ Len(chiQ.items) < 2
  /\ EnqDs # <<>> => dsQ.rdy /\ Len(dsQ.items) < 2
  /\ chiD[2] = <<>> \/ dsD[2] = <<>>

\* Every beat that is awaited is still to be asked for or on the move, and
\* nothing else is; a machine between tasks has nothing on the move.
BeatsIn(S, m) == {x.beat : x \in {y \in S : y.m = m}}
ToDs(m)  == BeatsIn(Moving(dsD) \cup Queued(dsQ), m)
ToNet(m) == BeatsIn(Moving(chiD) \cup Queued(chiQ), m)
FromDs(m) == BeatsIn(Moving(rdPipe), m)

Accounted ==
  \A m \in CMs :
    LET r == dc[m]
    IN  /\ r.wR = r.sR \cup FromDs(m) /\ r.sR \cap FromDs(m) = {}
        /\ r.wV = r.sV \cup ToDs(m) /\ r.sV \cap ToDs(m) = {}
        /\ r.wS = r.sS \cup ToNet(m) /\ r.sS \cap ToNet(m) = {}
        /\ r.st \in {"Free", "Alloc", "Resp", "Clean"} =>
             r.wR = {} /\ r.wS = {} /\ r.wV = {}

(* Together: no beat is dropped, and every beat awaited is on its way.     *)
DataInv == DataTypeOK /\ QueuesHaveRoom /\ Accounted

(* A flit at the output belongs to a send that is still awaited, and has   *)
(* the data its task is about; a task that saves leaves its data behind.   *)
RightData ==
  /\ TxValid => /\ TxDat.beat \in dc[TxDat.m].wS
                /\ TxDat.beat = watch => TxDat.data = goal[TxDat.m].out
  /\ \A m \in Clients("Resp") :
       watch \in dc[m].tvec =>
         /\ Saves(dc[m].op) => mem[dc[m].txn[1]] = goal[m].saved
         /\ Reads(dc[m].op) => BufNow(dc[m].id[watch]) = goal[m].out

(* Every task is answered.                                                 *)
TasksAnswered == \A m \in CMs : dc[m].st \in {"Repl", "Read", "Send", "Save"} ~> dc[m].st = "Alloc"
=============================================================================
