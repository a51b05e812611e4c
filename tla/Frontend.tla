------------------------------ MODULE Frontend ------------------------------
(***************************************************************************)
(* One frontend of the home node (model/dj/frontend.cpp): two task buffers *)
(* (ordinary requests, and HPR, the highest-QoS ones) share one s0 port,   *)
(* the s1 stage Block decides the fate of the task sent the cycle before,  *)
(* and the PoS table serialises the tasks of an address.  A task accepted  *)
(* in s1 leaves its buffer, holds a PoS slot, and has its directory read,  *)
(* data buffer and early response all taken in the same cycle; one that is *)
(* not accepted has none of them and is sent again, or sleeps.             *)
(*                                                                         *)
(* The inputs of a clock edge, a record in:                                *)
(*   in.req, in.hpr  Wire(Task)   chi_task_in of the two buffers            *)
(*   in.rdy          Rdy         read_dir / req_db / fast_resp ready       *)
(*   in.reqPos, in.upd, in.clean as in PosTable                            *)
(***************************************************************************)
EXTENDS PosTable

CONSTANTS Task,       \* requests
          AddrOf,     \* the line address of a request
          Kind,       \* what a request needs in s1: a member of Kinds
          IsHpr,      \* the requests of QoS 15, which ChiXbar sends to the HPR port
          NReq, NHpr, \* entries of the two buffers
          RetryMax,   \* the retry count that times a task out
          Rdys,       \* the ready lines the environment may show
          MaxDue      \* bound on the replacement grants owed at one time

\* memCacheable, and Block's decoded sReceipt and sDbid: a receipt is owed by
\* an ordered read, a DBID by a write that is no copy-back.
Kinds == [cacheable : BOOLEAN, sReceipt : BOOLEAN, sDbid : BOOLEAN]
Rdy   == [dir : BOOLEAN, db : BOOLEAN, resp : BOOLEAN]

ASSUME FrontAssumption ==
  /\ AddrOf \in [Task -> Addr]
  /\ Kind \in [Task -> {k \in Kinds : ~(k.sReceipt /\ k.sDbid)}]
  /\ IsHpr \subseteq Task
  /\ NReq \in Nat \ {0} /\ NHpr \in Nat \ {0} /\ RetryMax \in Nat \ {0}
  /\ Rdys \subseteq Rdy /\ Rdys # {}
  /\ MaxDue \in Nat

VARIABLES
  reqEntries, reqLock, reqVip,   \* req_task_buf
  hprEntries, hprLock, hprVip,   \* hpr_task_buf
  st,                            \* Block.st: the task in s1, or {}
  due                            \* external, ReplaceCM: due[s] = PoS slots it will still ask for

frontVars == <<posVars, reqEntries, reqLock, reqVip, hprEntries, hprLock, hprVip, st, due>>

Req == INSTANCE TaskBuffer WITH Line <- Addr, N <- NReq, entries <- reqEntries, hasLock <- reqLock, vip <- reqVip
Hpr == INSTANCE TaskBuffer WITH Line <- Addr, N <- NHpr, entries <- hprEntries, hasLock <- hprLock, vip <- hprVip

-----------------------------------------------------------------------------
(* s0: the HPR buffer goes first; while it is locked nothing else is sent *)

HprS0 == UNION {hprEntries[i].task : i \in Hpr!S0Out}
ReqS0 == UNION {reqEntries[i].task : i \in Req!S0Out}

SelectReq == HprS0 = {} /\ ~hprLock
TaskS0    == IF SelectReq THEN ReqS0 ELSE HprS0

-----------------------------------------------------------------------------
(* s1: Block *)

S1Is(field) == \E t \in st : Kind[t][field]

ShouldResp(in) == S1Is("sReceipt") \/ (S1Is("sDbid") /\ in.rdy.db)
BlkByDb(in)    == S1Is("sDbid") /\ ~in.rdy.db
BlkPos(in)     == BlockS1(in)
BlkDir(in)     == S1Is("cacheable") /\ ~in.rdy.dir
BlkResp(in)    == BlkByDb(in) \/ (ShouldResp(in) /\ ~in.rdy.resp)
BlkAny(in)     == BlkPos(in) \/ BlkDir(in) \/ BlkResp(in)

Retry(in)    == st # {} /\ BlkAny(in)
Accept(in)   == st # {} /\ ~BlkAny(in)
\* The three side requests of s1, each valid without looking at its own ready.
ReadDir(in)  == st # {} /\ S1Is("cacheable") /\ ~(BlkPos(in) \/ BlkResp(in))
\* (Broken variant: the data buffer is asked for although the response cannot go.)
ReqDBNoResp(in) == st # {} /\ S1Is("sDbid") /\ ~(BlkPos(in) \/ BlkDir(in))
ReqDB(in)    == st # {} /\ S1Is("sDbid") /\ in.rdy.resp /\ ~(BlkPos(in) \/ BlkDir(in))
FastResp(in) == st # {} /\ ShouldResp(in) /\ ~(BlkPos(in) \/ BlkDir(in))

-----------------------------------------------------------------------------
(* The clock edge: the wires of the assembly *)

PosIn(in) == [alloc  |-> {AddrOf[t] : t \in TaskS0},
              retry  |-> Retry(in),
              reqPos |-> in.reqPos, upd |-> in.upd, clean |-> in.clean]

\* (The broken variant grants the request buffer also when the HPR task goes.)
ReqInAlwaysRdy(in) == [task |-> in.req, s0Rdy |-> TRUE, retry |-> Retry(in),
                       sleep |-> SleepS1, wakeup |-> wakeup]
ReqIn(in) == [task |-> in.req, s0Rdy |-> SelectReq, retry |-> Retry(in),
              sleep |-> SleepS1, wakeup |-> wakeup]
HprIn(in) == [task |-> in.hpr, s0Rdy |-> TRUE, retry |-> Retry(in),
              sleep |-> SleepS1, wakeup |-> wakeup]

\* A directory read of an accepted task may lead to a replacement in the
\* snoop filter and one in the LLC; each grant pays for one of them.
DueTick(in) ==
  \E more \in 0 .. (IF Accept(in) /\ S1Is("cacheable") THEN 2 ELSE 0) :
    \E s \in PosSets :
      /\ \A t \in st : s = SetOf[AddrOf[t]]
      /\ due' = [r \in PosSets |-> due[r] + (IF r = s THEN more ELSE 0)
                                          - (IF ReqPosFire(in, r) THEN 1 ELSE 0)]
      /\ \A r \in PosSets : due'[r] \in 0 .. MaxDue

Tick(in) ==
  /\ PosTick(PosIn(in)) /\ HoldTick(in)
  /\ Req!BufTick(ReqIn(in)) /\ Hpr!BufTick(HprIn(in))
  /\ st' = TaskS0
  /\ DueTick(in)

\* ReplaceCM asks for a slot of a set only while a replacement is due there.
ReqPosChoices == {v \in [PosSets -> Wire(Channel)] : \A s \in PosSets : v[s] # {} => due[s] > 0}

Inputs == [req : Wire(Task \ IsHpr), hpr : Wire(IsHpr), rdy : Rdys, reqPos : ReqPosChoices,
           upd : Wire(UpdChoices), clean : Wire(CleanChoices)]

FrontInit ==
  /\ PosInit /\ Req!BufInit /\ Hpr!BufInit
  /\ st = {}
  /\ due = [s \in PosSets |-> 0]

FrontNext == \E in \in Inputs : Tick(in)

FrontSpec == FrontInit /\ [][FrontNext]_frontVars
-----------------------------------------------------------------------------
(* Fairness: the clock runs, and the rest of the node does its work.  Every *)
(* transaction ends and frees its slot, every replacement that is due asks  *)
(* until it is granted, and every victim is named.  Nothing is assumed      *)
(* about the frontend itself.  The conditions under which the rest of the   *)
(* node can act are spelled out, which is what ENABLED says, only cheaper.  *)
CanClean(s, w) == \E ch \in Channel : Cleanable([set |-> s, way |-> w, chan |-> ch])
Freed(s, w)  == Valid(slot[s][w]) /\ ~Valid(slot'[s][w])
CanGrant(s)    == /\ due[s] > 0 /\ ~s1[s].lock
                  /\ \E ch \in Channel : ReqPosFire([reqPos |-> [r \in PosSets |-> {ch}]], s)
Granted(s)     == s1'[s].posResp # {}
Named(s)       == hold[s] # {} /\ hold'[s] = {}

CleansFair(s, w) == []<>(~CanClean(s, w)) \/ []<><<Freed(s, w)>>_frontVars
NamesFair(s)     == []<>(hold[s] = {}) \/ []<><<Named(s)>>_frontVars
GrantsFair(s)    == <>[](~CanGrant(s)) \/ []<><<Granted(s)>>_frontVars

\* CanTick implies that a step can change a register: a request can arrive, or
\* a clock edge without any input changes a task buffer or ends a wakeup pulse.
\* (It is weaker than ENABLED FrontNext, and so assumes less.)
Quiet   == [req |-> {}, hpr |-> {}, rdy |-> CHOOSE r \in Rdys : TRUE,
            reqPos |-> [s \in PosSets |-> {}], upd |-> {}, clean |-> {}]
CanTick == \/ Req!FreeIdx # {} \/ wakeup # {}
           \/ Req!NextEntries(ReqIn(Quiet)) # reqEntries \/ reqLock # (Req!LockAll # {})
           \/ Hpr!NextEntries(HprIn(Quiet)) # hprEntries \/ hprLock # (Hpr!LockAll # {})
ClockRuns == []<>(~CanTick) \/ []<><<TRUE>>_frontVars

FrontFairSpec ==
  /\ FrontSpec
  /\ ClockRuns
  /\ \A s \in PosSets : NamesFair(s) /\ GrantsFair(s) /\ \A w \in Ways : CleansFair(s, w)

-----------------------------------------------------------------------------
(* Properties *)

\* The entries that wait for the verdict of s1, with their tasks.
Waiting == {<<"req", i>> : i \in {j \in Req!Idx : reqEntries[j].state = "Wait"}}
             \cup {<<"hpr", i>> : i \in {j \in Hpr!Idx : hprEntries[j].state = "Wait"}}
EntryOf(w) == IF w[1] = "req" THEN reqEntries[w[2]] ELSE hprEntries[w[2]]

FrontTypeOK ==
  /\ PosTypeOK /\ Req!BufTypeOK /\ Hpr!BufTypeOK
  /\ st \in Wire(Task)
  /\ due \in [PosSets -> 0 .. MaxDue]

\* The verdict reaches exactly the entry it is about: the task in s1 is that
\* of the one waiting entry of the two buffers, and the s1 registers of the
\* table are those of its set.
InStep ==
  /\ Cardinality(Waiting) = Cardinality(st)
  /\ \A w \in Waiting : EntryOf(w).task = st
  /\ \A s \in PosSets : s1[s].hnIdxValid <=> \E t \in st : SetOf[AddrOf[t]] = s
  /\ \A s \in PosSets : s1[s].alloc \subseteq {AddrOf[t] : t \in st}
  /\ \A s \in PosSets : s1[s].alloc = {} /\ s1[s].hnIdxValid => s1[s].block

\* No lost wakeup: a sleeping task can still be woken, because its address
\* has a live slot, or the pulse of its release is just being sent.
Sleeping(a) ==
  \/ \E i \in Req!Idx : reqEntries[i].state = "Sleep" /\ \E t \in reqEntries[i].task : AddrOf[t] = a
  \/ \E i \in Hpr!Idx : hprEntries[i].state = "Sleep" /\ \E t \in hprEntries[i].task : AddrOf[t] = a
NoLostWakeup == \A a \in Addr : Sleeping(a) => Owners(a) # {} \/ wakeup = {a}

\* The inputs the verdict of s1 depends on.
Verdicts == [req : {{}}, hpr : {{}}, rdy : Rdy, reqPos : ReqPosChoices, upd : {{}}, clean : {{}}]

SlotTaken(in) == \E s \in PosSets, w \in Ways :
                   in.reqPos[s] = {} /\ TakesSlot(PosIn(in), s, w)

NextStateOf(in, w) == IF w[1] = "req" THEN Req!NextState(ReqIn(in), w[2])
                                      ELSE Hpr!NextState(HprIn(in), w[2])

\* Four parts of the frontend decide in the same cycle, each with its own
\* formula, whether the task in s1 passes: the buffer frees it, the table
\* takes a slot for it, and Block's directory read, data buffer request and
\* early response fire.  They never disagree, whichever side is not ready: a
\* task is not sent twice, no slot or data buffer is taken for a task that
\* comes back, and none is missing from a task that passes.
Agreement ==
  \A in \in Verdicts :
    /\ \A w \in Waiting : (NextStateOf(in, w) = "Free") = Accept(in)
    /\ SlotTaken(in) = Accept(in)
    /\ (ReadDir(in) /\ in.rdy.dir)   = (Accept(in) /\ S1Is("cacheable"))
    /\ (ReqDB(in) /\ in.rdy.db)      = (Accept(in) /\ S1Is("sDbid"))
    /\ (FastResp(in) /\ in.rdy.resp) = (Accept(in) /\ (S1Is("sReceipt") \/ S1Is("sDbid")))

\* A task passes alone: at the edge at which its entry is freed, nobody has
\* its line, the slot whose number went with the task to directory, data buffer
\* and response (hn_idx_s1) is free, and from the edge on that slot and no other
\* has the line.  Table, Block and buffer each do their part of this at that
\* edge, a cycle after the look-up it rests on.
EnteredAlone ==
  [][\A w \in Waiting : EntryOf(w)'.state = "Free" =>
       \A t \in EntryOf(w).task :
         /\ Owners(AddrOf[t]) = {} /\ Owners(AddrOf[t])' = HnIdx(Quiet)
         /\ \A o \in HnIdx(Quiet) : ~Valid(slot[o[1]][o[2]])]_frontVars

\* Nobody starves: whatever the order in which the other tasks, the
\* replacements and the releases go on, a request in its buffer is accepted in
\* the end.  (An ordinary request only when HPR requests do not come for ever.)
ReqAccepted == \A i \in Req!Idx : reqEntries[i].state # "Free" ~> reqEntries[i].state = "Free"
=============================================================================
