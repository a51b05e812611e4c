------------------------------ MODULE PosTable ------------------------------
(***************************************************************************)
(* The PoS (point of serialisation) table of one directory bank of the     *)
(* DongJiang home node: model/dj/frontend.cpp, class PosTable.  A line     *)
(* address is served by at most one transaction at a time because a        *)
(* request must own a slot tagged with that address.  Requests allocate a  *)
(* slot in two cycles (s0: look up and choose, s1: commit unless retried); *)
(* the replacement engine reserves a slot without an address (reqPoS),     *)
(* locks the set, and fills the victim's address in later (updTag) -       *)
(* without a look whether another slot serves that address already.        *)
(*                                                                         *)
(* One step is one clock edge: every register takes its next value from    *)
(* the old values and from the input wires, gathered in a record in:       *)
(*   in.alloc   Wire(Addr)             alloc_s0: address looked up in s0    *)
(*   in.retry   BOOLEAN               retry_s1                             *)
(*   in.reqPos  [PosSets -> Wire(Channel)]  req_pos_vec                     *)
(*   in.upd     Wire([set, way, tag])  upd_tag (tag = {} when !addrVal)     *)
(*   in.clean   Wire([set, way, chan]) clean                                *)
(* A Valid<T> wire or register is a set with at most one element.          *)
(***************************************************************************)
EXTENDS Integers, FiniteSetsExt

CONSTANTS Addr,     \* line addresses of this directory bank
          PosSets,  \* sets of the table
          SetOf,    \* posSetOf: the set an address maps to
          Cached,   \* addresses the directory may hold, and so name as victims
          NWays     \* ways per set, the last two reserved for replacement

ASSUME PosAssumption ==
  /\ SetOf \in [Addr -> PosSets]
  /\ Cached \subseteq Addr
  /\ NWays \in Nat /\ NWays >= 3

Wire(S)  == {{}} \cup {{x} : x \in S}
Channel == {"REQ", "SNP"}

Ways       == 0 .. NWays - 1
ReqWay     == NWays - 1
SnpWay     == NWays - 2
NormalWays == 0 .. NWays - 3

VARIABLES
  slot,    \* slot[s][w]: who holds the slot (req, snp) and the tag it serves
  wakeup,  \* the one-cycle wakeup pulse: the address released, or {}
  s1,      \* s1[s]: the pipeline and control registers of a set
  hold,    \* external, ReplaceCM: hold[s] is the reserved way whose updTag is due
  repl     \* external, ReplaceCM: repl[s] are the ways of the slots granted by reqPoS

posVars == <<slot, wakeup, s1, hold, repl>>

\* PosState; a free slot forgets its tag, which every reader guards by valid().
Slot     == [req : BOOLEAN, snp : BOOLEAN, tag : Wire(Addr)]
FreeSlot == [req |-> FALSE, snp |-> FALSE, tag |-> {}]
Valid(e) == e.req \/ e.snp
One(e)   == e.req # e.snp

\* PosSetS1; allocAddr, allocWay and posRespWay are read only under their valid bits.
SetS1  == [alloc : Wire(Addr), way : Ways, sleep : BOOLEAN, block : BOOLEAN,
           hnIdxValid : BOOLEAN, posResp : Wire(Ways), lock : BOOLEAN]
IdleS1 == [alloc |-> {}, way |-> 0, sleep |-> FALSE, block |-> FALSE,
           hnIdxValid |-> FALSE, posResp |-> {}, lock |-> FALSE]

Upd   == [set : PosSets, way : Ways, tag : Wire(Addr)]
Clean == [set : PosSets, way : Ways, chan : Channel]

-----------------------------------------------------------------------------
(* Combinational logic of s0 and of reqPoS *)

MatTag(s, a) == {w \in Ways : Valid(slot[s][w]) /\ a \in slot[s][w].tag}
FreeVec2(s)  == {w \in Ways : ~Valid(slot[s][w])}
\* (The broken variant forgets the way that the request in s1 is about to take.)
FreeVecNoS1(s) == FreeVec2(s)
FreeVec(s)   == IF s1[s].alloc # {} THEN FreeVec2(s) \ {s1[s].way} ELSE FreeVec2(s)

\* Broken variants of BlockS0, each forgetting one reason to block.
BlockS0NoS1Hit(in, s, a) ==
  \/ MatTag(s, a) # {}
  \/ FreeVec(s) \cap NormalWays = {}
  \/ s1[s].lock
  \/ in.reqPos[s] # {}

BlockS0NoLock(in, s, a) ==
  \/ MatTag(s, a) # {}
  \/ FreeVec(s) \cap NormalWays = {}
  \/ a \in s1[s].alloc
  \/ in.reqPos[s] # {}

BlockS0(in, s, a) ==
  \/ MatTag(s, a) # {}
  \/ FreeVec(s) \cap NormalWays = {}
  \/ a \in s1[s].alloc
  \/ s1[s].lock
  \/ in.reqPos[s] # {}

ReplSelWay(in, s) ==
  IF "REQ" \in in.reqPos[s] /\ ReqWay \in FreeVec2(s) THEN ReqWay
  ELSE IF "SNP" \in in.reqPos[s] /\ SnpWay \in FreeVec2(s) THEN SnpWay
  ELSE IF FreeVec2(s) \cap NormalWays # {} THEN Min(FreeVec2(s) \cap NormalWays)
  ELSE 0

ReqPosFire(in, s) ==
  /\ in.reqPos[s] # {}
  /\ ReplSelWay(in, s) \in FreeVec2(s)
  /\ ~s1[s].lock

AllocS0(in, s) == {a \in in.alloc : SetOf[a] = s}

-----------------------------------------------------------------------------
(* Next values of the registers *)

NextS1(in, s) ==
  LET a0   == AllocS0(in, s)
      blk  == \E a \in a0 : BlockS0(in, s, a)
      fire == ReqPosFire(in, s)
  IN  [alloc      |-> IF blk THEN {} ELSE a0,
       way        |-> IF a0 # {} /\ FreeVec(s) # {} THEN Min(FreeVec(s)) ELSE 0,
       sleep      |-> \E a \in a0 : MatTag(s, a) # {},
       block      |-> blk,
       hnIdxValid |-> a0 # {},
       posResp    |-> IF fire THEN {ReplSelWay(in, s)} ELSE {},
       lock       |-> fire \/ (s1[s].lock /\ ~\E u \in in.upd : u.set = s)]

\* The slot is taken in this cycle: by a reqPoS grant, which owns the port
\* whenever reqPoS is valid, or by the request in s1.
TakesSlot(in, s, w) ==
  IF in.reqPos[s] # {} THEN ReqPosFire(in, s) /\ ReplSelWay(in, s) = w
  ELSE s1[s].alloc # {} /\ ~in.retry /\ s1[s].way = w

UpdTagHit(in, s, w)  == {u.tag : u \in {v \in in.upd : v.set = s /\ v.way = w}}
CleanHit(in, s, w)   == {c.chan : c \in {d \in in.clean : d.set = s /\ d.way = w}}
AllocChannel(in, s) == IF in.reqPos[s] # {} THEN in.reqPos[s] ELSE {"REQ"}

NextTag(in, s, w) ==
  IF TakesSlot(in, s, w) THEN (IF in.reqPos[s] # {} THEN {} ELSE s1[s].alloc)
  ELSE IF UpdTagHit(in, s, w) # {} THEN UNION UpdTagHit(in, s, w)
  ELSE slot[s][w].tag

NextHeld(in, s, w, ch, old) ==
  ch \notin CleanHit(in, s, w) /\ (old \/ (TakesSlot(in, s, w) /\ ch \in AllocChannel(in, s)))

NextSlot(in, s, w) ==
  LET req == NextHeld(in, s, w, "REQ", slot[s][w].req)
      snp == NextHeld(in, s, w, "SNP", slot[s][w].snp)
  IN  [req |-> req, snp |-> snp, tag |-> IF req \/ snp THEN NextTag(in, s, w) ELSE {}]

\* Broken variant: only a clean through the REQ channel wakes anybody.
NextWakeupReqOnly(in) ==
  UNION {slot[c.set][c.way].tag :
           c \in {d \in in.clean : d.chan = "REQ" /\ One(slot[d.set][d.way])}}

NextWakeup(in) ==
  UNION {slot[c.set][c.way].tag : c \in {d \in in.clean : One(slot[d.set][d.way])}}

\* The static gates of the two update blocks (w_s1_any, w_ent_any): no edge
\* is taken when the gate is closed.  (The first one is a broken variant, which
\* does not keep the gate open to take the posResp pulse down.)
S1AnyNoPosResp(in) ==
  \/ in.alloc # {} \/ in.upd # {}
  \/ \E s \in PosSets : ReqPosFire(in, s) \/ s1[s].hnIdxValid

S1Any(in) ==
  \/ in.alloc # {} \/ in.upd # {}
  \/ \E s \in PosSets : ReqPosFire(in, s) \/ s1[s].hnIdxValid \/ s1[s].posResp # {}

EntAny(in) ==
  \/ in.upd # {} \/ in.clean # {} \/ wakeup # {}
  \/ \E s \in PosSets : s1[s].alloc # {} \/ ReqPosFire(in, s)

NextS1s(in)   == [s \in PosSets |-> NextS1(in, s)]
NextSlots(in) == [s \in PosSets |-> [w \in Ways |-> NextSlot(in, s, w)]]

PosTick(in) ==
  /\ s1'     = IF S1Any(in) THEN NextS1s(in) ELSE s1
  /\ slot'   = IF EntAny(in) THEN NextSlots(in) ELSE slot
  /\ wakeup' = IF EntAny(in) THEN NextWakeup(in) ELSE wakeup

\* Outputs
SleepS1     == \E s \in PosSets : s1[s].sleep
BlockS1(in) == \E s \in PosSets : s1[s].block \/ in.reqPos[s] # {}
\* hn_idx_s1: the slot that the task in s1 goes on under, if it is accepted.
HnIdx(in) == {<<s, s1[s].way>> : s \in {r \in PosSets : s1[r].hnIdxValid /\ in.reqPos[r] = {}}}

-----------------------------------------------------------------------------
(* The environment: the replacement engine and the commit stage *)

\* The entry in kWaitPos latches posResp as its replHnTxnID; it issues one
\* updTag for it when the directory names the victim, and cleans it in the end.
HoldTick(in) ==
  /\ hold' = [s \in PosSets |->
                IF \E u \in in.upd : u.set = s THEN {}
                ELSE IF s1[s].posResp # {} THEN s1[s].posResp ELSE hold[s]]
  /\ repl' = [s \in PosSets |->
                {w \in repl[s] : CleanHit(in, s, w) = {}}
                  \cup (IF ReqPosFire(in, s) THEN {ReplSelWay(in, s)} ELSE {})]

\* The victim of a replacement is any line of the set that the directory may hold.
\* The directory passes over ways that are locked, reserved or just promised, but
\* one that was allocated directly is none of these after its write: its line can
\* be named while the slot of its transaction is live.
Victims(s) == {a \in Cached : SetOf[a] = s}

UpdChoices == UNION {{[set |-> s, way |-> w, tag |-> t] :
                        w \in hold[s], t \in Wire(Victims(s))} : s \in PosSets}

\* A slot is cleaned by its owner, through the channel that owns it, after
\* its tag (if one is due) has arrived.
Cleanable(c) ==
  /\ c.way \notin s1[c.set].posResp \cup hold[c.set]
  /\ (c.chan = "REQ") = slot[c.set][c.way].req
  /\ (c.chan = "SNP") = slot[c.set][c.way].snp

CleanChoices == {c \in Clean : Cleanable(c)}

PosInputs == [alloc : Wire(Addr), retry : BOOLEAN, reqPos : [PosSets -> Wire(Channel)],
              upd : Wire(UpdChoices), clean : Wire(CleanChoices)]

\* A request in s1 that the table blocks is retried (Block.w_blk.any).
RetriesBlocked(in) ==
  BlockS1(in) /\ (\E s \in PosSets : s1[s].hnIdxValid) => in.retry

-----------------------------------------------------------------------------
PosInit ==
  /\ slot   = [s \in PosSets |-> [w \in Ways |-> FreeSlot]]
  /\ wakeup = {}
  /\ s1     = [s \in PosSets |-> IdleS1]
  /\ hold   = [s \in PosSets |-> {}]
  /\ repl   = [s \in PosSets |-> {}]

PosNext == \E in \in PosInputs : RetriesBlocked(in) /\ PosTick(in) /\ HoldTick(in)

PosSpec == PosInit /\ [][PosNext]_posVars

-----------------------------------------------------------------------------
(* Properties *)

PosTypeOK ==
  /\ slot   \in [PosSets -> [Ways -> Slot]]
  /\ wakeup \in Wire(Addr)
  /\ s1     \in [PosSets -> SetS1]
  /\ hold   \in [PosSets -> Wire(Ways)]
  /\ repl   \in [PosSets -> SUBSET Ways]

\* At most one request is served per address: of two live slots with one
\* address, one at least belongs to the replacement engine.  (A replacement may
\* be told to evict a line that a request is still served on, or another
\* replacement; a request never comes to a line that has any slot.)
Serialised ==
  \A s \in PosSets : \A v, w \in Ways \ repl[s] :
    v # w /\ Valid(slot[s][v]) /\ Valid(slot[s][w]) => slot[s][v].tag \cap slot[s][w].tag = {}

\* The way a request takes with it from s0 to s1 is still free, unreserved
\* and wanted by no other slot when s1 writes it, although a whole cycle with
\* cleans, grants and tag updates lies between choosing and writing it.
ChoiceStaysGood ==
  \A s \in PosSets : \A a \in s1[s].alloc :
    /\ SetOf[a] = s
    /\ s1[s].way \in NormalWays
    /\ ~Valid(slot[s][s1[s].way])
    /\ MatTag(s, a) = {}

\* The set lock is exactly the window in which a reserved slot waits for its
\* victim's address; in that window no request is about to enter the set.
LockWindow ==
  \A s \in PosSets :
    /\ s1[s].lock <=> s1[s].posResp \cup hold[s] # {}
    /\ s1[s].posResp = {} \/ hold[s] = {}
    /\ s1[s].lock => s1[s].alloc = {}
    /\ \A w \in s1[s].posResp \cup hold[s] :
         Valid(slot[s][w]) /\ slot[s][w].tag = {}

\* The slots of the replacement engine are live, and those whose address is due
\* are among them.
ReplKnown ==
  \A s \in PosSets : /\ s1[s].posResp \cup hold[s] \subseteq repl[s]
                     /\ \A w \in repl[s] : Valid(slot[s][w])

\* No slot is held through both channels: without nesting a slot has one
\* owner, which is what lets clean decide with one() whether to wake anybody.
OneOwner == \A s \in PosSets : \A w \in Ways : Valid(slot[s][w]) => One(slot[s][w])

\* The one-cycle pulses of a set rise together: without hnIdxValid, which is
\* the only one the static gate looks at, none of the others is up.  And a free
\* slot has no tag.
PulsesTogether ==
  /\ \A s \in PosSets : ~s1[s].hnIdxValid =>
       s1[s].alloc = {} /\ s1[s].way = 0 /\ ~s1[s].sleep /\ ~s1[s].block
  /\ \A s \in PosSets : \A w \in Ways : ~Valid(slot[s][w]) => slot[s][w].tag = {}

\* A slot serves addresses of its own set only.
TagInSet == \A s \in PosSets : \A w \in Ways : \A a \in slot[s][w].tag : SetOf[a] = s

\* The strengthening that is inductive.
PosInv == /\ PosTypeOK /\ PulsesTogether /\ TagInSet /\ OneOwner
          /\ Serialised /\ ChoiceStaysGood /\ LockWindow /\ ReplKnown

\* A closed gate loses nothing: with any input, an update that the gate
\* suppresses would have changed no register (the self-clearing pulses
\* posResp, hnIdxValid and wakeup are the ones a gate could leave stuck).
GatesLoseNothing ==
  \A in \in PosInputs : RetriesBlocked(in) =>
    /\ ~S1Any(in) => NextS1s(in) = s1
    /\ ~EntAny(in) => NextSlots(in) = slot /\ NextWakeup(in) = wakeup

\* The invariant with the gates, as the runs check them.
PosSafe == PosInv /\ GatesLoseNothing

\* The slots that own the lock of an address.
Owners(a) == {o \in PosSets \X Ways : Valid(slot[o[1]][o[2]]) /\ a \in slot[o[1]][o[2]].tag}

\* No release is silent: when the last slot of an address is freed, the wakeup
\* pulse of the next cycle carries that address.  Requests asleep on it have
\* nothing else to wait for.
ReleaseWakes ==
  [][\A a \in Addr : Owners(a) # {} /\ Owners(a)' = {} => wakeup' = {a}]_posVars

\* The slots the replacement engine has, and those of them without an address yet.
ReplSlots == {o \in PosSets \X Ways : o[2] \in repl[o[1]]}
DueSlots  == {o \in PosSets \X Ways : o[2] \in s1[o[1]].posResp \cup hold[o[1]]}

\* The table implements the lock per address, with the replacement engine's
\* slots as guests: a request gets an address only when no slot has it and none
\* may still turn out to, and never directly from another request.
Lock == INSTANCE AddrLock WITH
          Owner <- PosSets \X Ways,
          Reach <- [o \in PosSets \X Ways |-> {a \in Addr : SetOf[a] = o[1]}],
          owner <- [a \in Addr |-> Owners(a)], guest <- ReplSlots, due <- DueSlots
LockSpec == Lock!Spec
=============================================================================
