-------------------------- MODULE Frontend_proofs --------------------------
(***************************************************************************)
(* Proofs about the frontend: first the PoS table alone, for every number  *)
(* of sets, ways and addresses, then the assembly, for every number of     *)
(* tasks and entries too.                                                  *)
(*                                                                         *)
(* The table.  The static gates suppress no change (GatesHarmless), so     *)
(* each edge may be treated as if both update blocks ran; then every field *)
(* of a slot and of a set's s1 registers has one closed form (SlotStep,    *)
(* EdgeS1), from which each part of PosInv follows separately.             *)
(*                                                                         *)
(* The assembly.  The frontend drives its parts only as their environments *)
(* may: each of its steps is a legal edge of the PoS table (PosEdge) and   *)
(* of the two task buffers (ReqEdge, HprEdge).  So what is proved of each  *)
(* part alone holds here, and the parts are related by what s0 hands to    *)
(* the three registers of s1 at the same edge: the one entry that is sent  *)
(* waits, its task is in Block, and its address went through the look-up   *)
(* of its set (OneJudged, TableFollows).  The wakeup pulse is the third    *)
(* side: one that comes with the verdict was a live slot at the look-up,   *)
(* so the table blocked the task (WakeBlocks); one that comes later still  *)
(* finds the task asleep (SleepHasCause, NoLostWakeup).                    *)
(***************************************************************************)
EXTENDS Frontend, Basics_proofs

-----------------------------------------------------------------------------
(* What the inputs of a step may be *)

\* One legal clock edge: the inputs PosNext chooses and the moves it makes.
Edge(in) == in \in PosInputs /\ RetriesBlocked(in) /\ PosTick(in) /\ HoldTick(in)

\* A tag update addresses the reserved slot of its set, whose tag is due; a
\* clean names a live slot by the one channel that owns it.
LEMMA InputFacts ==
  ASSUME PosInv, NEW in \in PosInputs
  PROVE  /\ in.alloc \in Wire(Addr) /\ in.retry \in BOOLEAN
         /\ in.reqPos \in [PosSets -> Wire(Channel)]
         /\ \A u \in in.upd : /\ u.set \in PosSets /\ u.way \in Ways
                              /\ u.way \in hold[u.set]
                              /\ u.tag \in Wire(Victims(u.set))
                              /\ in.upd = {u}
         /\ \A c \in in.clean : /\ c.set \in PosSets /\ c.way \in Ways
                                /\ c.chan \in Channel
                                /\ Cleanable(c)
                                /\ in.clean = {c}
<1>1. /\ in.alloc \in Wire(Addr) /\ in.retry \in BOOLEAN
      /\ in.reqPos \in [PosSets -> Wire(Channel)]
      /\ in.upd \in Wire(UpdChoices) /\ in.clean \in Wire(CleanChoices)
  BY DEF PosInputs
<1>2. ASSUME NEW u \in in.upd
      PROVE  /\ u.set \in PosSets /\ u.way \in Ways /\ u.way \in hold[u.set]
             /\ u.tag \in Wire(Victims(u.set)) /\ in.upd = {u}
  <2>1. u \in UpdChoices /\ in.upd = {u}
    BY <1>1 DEF Wire
  <2>2. PICK s \in PosSets : \E w \in hold[s] : \E t \in Wire(Victims(s)) :
                                u = [set |-> s, way |-> w, tag |-> t]
    BY <2>1 DEF UpdChoices
  <2>3. hold[s] \subseteq Ways
    BY DEF PosInv, PosTypeOK, Wire
  <2> QED BY <2>1, <2>2, <2>3
<1>3. ASSUME NEW c \in in.clean
      PROVE  /\ c.set \in PosSets /\ c.way \in Ways /\ c.chan \in Channel
             /\ Cleanable(c) /\ in.clean = {c}
  BY <1>1 DEF Wire, CleanChoices, Clean
<1> QED BY <1>1, <1>2, <1>3
-----------------------------------------------------------------------------
(* One slot on one edge *)

\* The five things that can happen to a slot.
Grabbed(in, s, w) ==
  /\ TakesSlot(in, s, w) /\ in.reqPos[s] = {} /\ ~Valid(slot[s][w])
  /\ s1[s].alloc # {} /\ s1[s].way = w
  /\ NextSlot(in, s, w) = [req |-> TRUE, snp |-> FALSE, tag |-> s1[s].alloc]
Reserved(in, s, w) ==
  /\ TakesSlot(in, s, w) /\ ReqPosFire(in, s) /\ ReplSelWay(in, s) = w /\ ~Valid(slot[s][w])
  /\ NextSlot(in, s, w) =
       [req |-> "REQ" \in in.reqPos[s], snp |-> "SNP" \in in.reqPos[s], tag |-> {}]
  /\ One(NextSlot(in, s, w))
Tagged(in, s, w) ==
  /\ ~TakesSlot(in, s, w) /\ Valid(slot[s][w]) /\ w \in hold[s]
  /\ \E u \in in.upd : /\ u.set = s /\ u.way = w
                       /\ NextSlot(in, s, w) = [slot[s][w] EXCEPT !.tag = u.tag]
Cleaned(in, s, w) ==
  /\ ~TakesSlot(in, s, w) /\ One(slot[s][w]) /\ w \notin hold[s] \cup s1[s].posResp
  /\ \E c \in in.clean : c.set = s /\ c.way = w
  /\ NextSlot(in, s, w) = FreeSlot
Kept(in, s, w) ==
  /\ ~TakesSlot(in, s, w) /\ NextSlot(in, s, w) = slot[s][w]
  /\ ~ \E u \in in.upd : u.set = s /\ u.way = w
  /\ ~ \E c \in in.clean : c.set = s /\ c.way = w

\* A way that is taken was free: the request chose it in s0 and nobody else
\* may have it since; a reservation looks at the table in this very cycle.
LEMMA TakenWasFree ==
  ASSUME PosInv, NEW in \in PosInputs, NEW s \in PosSets, NEW w \in Ways, TakesSlot(in, s, w)
  PROVE  ~Valid(slot[s][w])
<1>1. CASE in.reqPos[s] # {}
  BY <1>1 DEF TakesSlot, ReqPosFire, FreeVec2
<1>2. CASE in.reqPos[s] = {}
  BY <1>2 DEF TakesSlot, PosInv, ChoiceStaysGood
<1> QED BY <1>1, <1>2

LEMMA SlotStep ==
  ASSUME PosInv, NEW in \in PosInputs, NEW s \in PosSets, NEW w \in Ways
  PROVE  \/ Grabbed(in, s, w) \/ Reserved(in, s, w) \/ Tagged(in, s, w)
         \/ Cleaned(in, s, w) \/ Kept(in, s, w)
<1> DEFINE e == slot[s][w]
           done == CleanHit(in, s, w)
           upd == {u \in in.upd : u.set = s /\ u.way = w}
<1>0. e \in Slot
  BY DEF PosInv, PosTypeOK
<1>1. done = {} \/ /\ w \notin hold[s] \cup s1[s].posResp
                   /\ \E c \in in.clean : c.set = s /\ c.way = w
                   /\ \E ch \in Channel : done = {ch} /\ e.req = (ch = "REQ") /\ e.snp = (ch = "SNP")
  <2>1. SUFFICES ASSUME NEW c \in in.clean, c.set = s, c.way = w
                 PROVE  /\ w \notin hold[s] \cup s1[s].posResp
                        /\ \E ch \in Channel : done = {ch} /\ e.req = (ch = "REQ") /\ e.snp = (ch = "SNP")
    BY DEF CleanHit
  <2>2. c.chan \in Channel /\ Cleanable(c) /\ in.clean = {c}
    BY <2>1, InputFacts
  <2>3. done = {c.chan}
    BY <2>1, <2>2 DEF CleanHit
  <2> QED BY <2>1, <2>2, <2>3, <1>0 DEF Cleanable, Slot
<1>2. upd = {} \/ \E u \in upd : /\ w \in hold[s] /\ u.tag \in Wire(Victims(s))
                                  /\ UpdTagHit(in, s, w) = {u.tag}
  <2>1. SUFFICES ASSUME NEW u \in upd
                 PROVE  /\ w \in hold[s] /\ u.tag \in Wire(Victims(s))
                        /\ UpdTagHit(in, s, w) = {u.tag}
    OBVIOUS
  <2> QED BY <2>1, InputFacts DEF UpdTagHit
<1>20. upd = {} <=> UpdTagHit(in, s, w) = {}
  BY DEF UpdTagHit
<1>3. \A v \in hold[s] : Valid(slot[s][v]) /\ slot[s][v].tag = {}
  BY DEF PosInv, LockWindow, PosTypeOK
<1>4. in.reqPos[s] = {} \/ in.reqPos[s] = {"REQ"} \/ in.reqPos[s] = {"SNP"}
  BY InputFacts DEF Wire, Channel
<1>5. ~Valid(e) => e.req = FALSE /\ e.snp = FALSE /\ e.tag = {}
  BY <1>0 DEF Valid, Slot, PosInv, PulsesTogether
<1>6. CASE TakesSlot(in, s, w)
  <2>1. ~Valid(e)
    BY <1>6, TakenWasFree
  <2>2. done = {} /\ upd = {}
    BY <2>1, <1>1, <1>2, <1>3, <1>5 DEF Channel
  <2>3. NextTag(in, s, w) = IF in.reqPos[s] # {} THEN {} ELSE s1[s].alloc
    BY <1>6 DEF NextTag
  <2>4. \A ch \in Channel : NextHeld(in, s, w, ch, FALSE) = (ch \in AllocChannel(in, s))
    BY <2>2, <1>6 DEF NextHeld
  <2>5. /\ AllocChannel(in, s) = IF in.reqPos[s] = {} THEN {"REQ"} ELSE in.reqPos[s]
        /\ "REQ" \in AllocChannel(in, s) \/ "SNP" \in AllocChannel(in, s)
    BY <1>4 DEF AllocChannel
  <2>6. NextSlot(in, s, w) = [req |-> "REQ" \in AllocChannel(in, s),
                              snp |-> "SNP" \in AllocChannel(in, s), tag |-> NextTag(in, s, w)]
    BY <2>1, <2>4, <2>5, <1>5 DEF NextSlot, Channel
  <2>7. CASE in.reqPos[s] = {}
    <3>1. ("REQ" \in {"REQ"}) = TRUE /\ ("SNP" \in {"REQ"}) = FALSE
      OBVIOUS
    <3>2. NextSlot(in, s, w) = [req |-> TRUE, snp |-> FALSE, tag |-> s1[s].alloc]
      BY <3>1, <2>3, <2>5, <2>6, <2>7
    <3> QED BY <3>2, <2>1, <2>7, <1>6 DEF TakesSlot, Grabbed
  <2>8. CASE in.reqPos[s] # {}
    <3>1. NextSlot(in, s, w) = [req |-> "REQ" \in in.reqPos[s], snp |-> "SNP" \in in.reqPos[s], tag |-> {}]
      BY <2>3, <2>5, <2>6, <2>8
    <3>2. One(NextSlot(in, s, w))
      BY <3>1, <2>8, <1>4 DEF One
    <3> QED BY <3>1, <3>2, <2>1, <2>8, <1>6 DEF TakesSlot, Reserved
  <2> QED BY <2>7, <2>8
<1>7. CASE ~TakesSlot(in, s, w) /\ done # {}
  <2>1. PICK ch \in Channel : done = {ch} /\ e.req = (ch = "REQ") /\ e.snp = (ch = "SNP")
    BY <1>1, <1>7
  <2>2. ~NextHeld(in, s, w, "REQ", e.req) /\ ~NextHeld(in, s, w, "SNP", e.snp)
    BY <2>1, <1>7 DEF NextHeld, Channel
  <2>3. NextSlot(in, s, w) = FreeSlot
    BY <2>2 DEF NextSlot, FreeSlot, NextHeld
  <2>4. One(e)
    BY <2>1, <1>0 DEF One, Channel
  <2> QED BY <2>3, <2>4, <1>1, <1>7 DEF Cleaned
<1>8. CASE ~TakesSlot(in, s, w) /\ done = {}
  <2>1. NextHeld(in, s, w, "REQ", e.req) = e.req /\ NextHeld(in, s, w, "SNP", e.snp) = e.snp
    BY <1>0, <1>8 DEF NextHeld, Slot
  <2>2. NextSlot(in, s, w) = [req |-> e.req, snp |-> e.snp,
                              tag |-> IF Valid(e) THEN NextTag(in, s, w) ELSE {}]
    BY <2>1 DEF NextSlot, Valid
  <2>3. e = [req |-> e.req, snp |-> e.snp, tag |-> e.tag]
    BY <1>0 DEF Slot
  <2>4. ~ \E c \in in.clean : c.set = s /\ c.way = w
    BY <1>8 DEF CleanHit
  <2>5. CASE upd # {}
    <3>1. PICK u \in upd : w \in hold[s] /\ UpdTagHit(in, s, w) = {u.tag}
      BY <2>5, <1>2
    <3>2. NextTag(in, s, w) = u.tag /\ Valid(e)
      BY <3>1, <1>3, <1>8 DEF NextTag
    <3>3. [e EXCEPT !.tag = u.tag] = [req |-> e.req, snp |-> e.snp, tag |-> u.tag]
      BY <2>3
    <3> QED BY <3>1, <3>2, <3>3, <2>2, <1>8 DEF Tagged
  <2>6. CASE upd = {}
    <3>1. NextTag(in, s, w) = e.tag
      BY <2>6, <1>8, <1>20 DEF NextTag
    <3> QED BY <3>1, <2>2, <2>3, <2>4, <2>6, <1>5, <1>8 DEF Kept
  <2> QED BY <2>5, <2>6
<1> QED BY <1>6, <1>7, <1>8
-----------------------------------------------------------------------------
(* The static gates *)

\* With the gates closed no update would have changed a register, so both
\* update blocks may be read as if they always ran.
THEOREM GatesHarmless ==
  ASSUME PosInv
  PROVE  GatesLoseNothing
<1> SUFFICES ASSUME NEW in \in PosInputs
             PROVE  /\ ~S1Any(in) => NextS1s(in) = s1
                    /\ ~EntAny(in) => NextSlots(in) = slot /\ NextWakeup(in) = wakeup
  BY DEF GatesLoseNothing
<1>0. s1 \in [PosSets -> SetS1] /\ slot \in [PosSets -> [Ways -> Slot]] /\ wakeup \in Wire(Addr)
  BY DEF PosInv, PosTypeOK
<1>1. ASSUME ~S1Any(in) PROVE NextS1s(in) = s1
  <2>1. ASSUME NEW s \in PosSets PROVE NextS1(in, s) = s1[s]
    <3>1. /\ AllocS0(in, s) = {} /\ ~ReqPosFire(in, s) /\ ~s1[s].hnIdxValid
          /\ s1[s].posResp = {} /\ in.upd = {}
      BY <1>1 DEF S1Any, AllocS0
    <3>2. s1[s].alloc = {} /\ s1[s].way = 0 /\ ~s1[s].sleep /\ ~s1[s].block
      BY <3>1 DEF PosInv, PulsesTogether
    <3>3. s1[s] = [alloc |-> s1[s].alloc, way |-> s1[s].way, sleep |-> s1[s].sleep,
                   block |-> s1[s].block, hnIdxValid |-> s1[s].hnIdxValid,
                   posResp |-> s1[s].posResp, lock |-> s1[s].lock]
      BY <1>0 DEF SetS1
    <3>4. s1[s] \in SetS1
      BY <1>0
    <3>5. NextS1(in, s) = [alloc |-> {}, way |-> 0, sleep |-> FALSE, block |-> FALSE,
                           hnIdxValid |-> FALSE, posResp |-> {}, lock |-> s1[s].lock]
      BY <3>1, <3>4 DEF NextS1, SetS1
    <3> QED BY <3>1, <3>2, <3>3, <3>4, <3>5 DEF SetS1
  <2> QED BY <2>1, <1>0 DEF NextS1s
<1>2. ASSUME ~EntAny(in) PROVE NextSlots(in) = slot /\ NextWakeup(in) = wakeup
  <2>1. ASSUME NEW s \in PosSets, NEW w \in Ways PROVE NextSlot(in, s, w) = slot[s][w]
    <3>1. in.upd = {} /\ in.clean = {} /\ s1[s].alloc = {} /\ ~ReqPosFire(in, s)
      BY <1>2 DEF EntAny
    <3>2. Kept(in, s, w)
      BY <3>1, SlotStep DEF Grabbed, Reserved, Tagged, Cleaned
    <3> QED BY <3>2 DEF Kept
  <2>2. NextSlots(in) = slot
    BY <2>1, <1>0 DEF NextSlots
  <2>3. NextWakeup(in) = wakeup
    BY <1>2 DEF EntAny, NextWakeup
  <2> QED BY <2>2, <2>3
<1> QED BY <1>1, <1>2

LEMMA EdgeStep ==
  ASSUME PosInv, NEW in, Edge(in)
  PROVE  /\ s1' = NextS1s(in) /\ slot' = NextSlots(in) /\ wakeup' = NextWakeup(in)
         /\ in \in PosInputs
BY GatesHarmless DEF Edge, PosTick, GatesLoseNothing

\* The slots and the registers of one set after an edge, field by field.
LEMMA EdgeSlot ==
  ASSUME PosInv, NEW in, Edge(in), NEW s \in PosSets, NEW w \in Ways
  PROVE  slot'[s][w] = NextSlot(in, s, w)
BY EdgeStep DEF NextSlots

LEMMA EdgeS1 ==
  ASSUME PosInv, NEW in, Edge(in), NEW s \in PosSets
  PROVE  /\ s1'[s].alloc = IF \E a \in AllocS0(in, s) : BlockS0(in, s, a) THEN {} ELSE AllocS0(in, s)
         /\ s1'[s].way = IF AllocS0(in, s) # {} /\ FreeVec(s) # {} THEN Min(FreeVec(s)) ELSE 0
         /\ s1'[s].sleep <=> \E a \in AllocS0(in, s) : MatTag(s, a) # {}
         /\ s1'[s].block <=> \E a \in AllocS0(in, s) : BlockS0(in, s, a)
         /\ s1'[s].hnIdxValid <=> AllocS0(in, s) # {}
         /\ s1'[s].posResp = IF ReqPosFire(in, s) THEN {ReplSelWay(in, s)} ELSE {}
         /\ s1'[s].lock <=> ReqPosFire(in, s) \/ (s1[s].lock /\ ~\E u \in in.upd : u.set = s)
         /\ s1'[s] = NextS1(in, s)
<1>1. s1'[s] = NextS1(in, s)
  BY EdgeStep DEF NextS1s
<1>2. NextS1(in, s).alloc = IF \E a \in AllocS0(in, s) : BlockS0(in, s, a) THEN {} ELSE AllocS0(in, s)
  BY DEF NextS1
<1>3. NextS1(in, s).way = IF AllocS0(in, s) # {} /\ FreeVec(s) # {} THEN Min(FreeVec(s)) ELSE 0
  BY DEF NextS1
<1>4. NextS1(in, s).sleep <=> \E a \in AllocS0(in, s) : MatTag(s, a) # {}
  BY DEF NextS1
<1>5. NextS1(in, s).block <=> \E a \in AllocS0(in, s) : BlockS0(in, s, a)
  BY DEF NextS1
<1>6. NextS1(in, s).hnIdxValid <=> AllocS0(in, s) # {}
  BY DEF NextS1
<1>7. NextS1(in, s).posResp = IF ReqPosFire(in, s) THEN {ReplSelWay(in, s)} ELSE {}
  BY DEF NextS1
<1>8. NextS1(in, s).lock <=> ReqPosFire(in, s) \/ (s1[s].lock /\ ~\E u \in in.upd : u.set = s)
  BY DEF NextS1
<1> QED BY <1>1, <1>2, <1>3, <1>4, <1>5, <1>6, <1>7, <1>8

LEMMA EdgeSleep ==
  ASSUME PosInv, NEW in, Edge(in), NEW s \in PosSets
  PROVE  s1'[s].sleep <=> \E a \in AllocS0(in, s) : MatTag(s, a) # {}
<1>1. s1'[s] = NextS1(in, s)
  BY EdgeStep DEF NextS1s
<1> QED BY <1>1 DEF NextS1

\* The part of EdgeS1 that concerns a grant.
LEMMA EdgeResp ==
  ASSUME PosInv, NEW in, Edge(in), NEW s \in PosSets
  PROVE  s1'[s].posResp = IF ReqPosFire(in, s) THEN {ReplSelWay(in, s)} ELSE {}
BY EdgeS1

LEMMA EdgeHold ==
  ASSUME PosInv, NEW in, Edge(in), NEW s \in PosSets
  PROVE  hold'[s] = IF \E u \in in.upd : u.set = s THEN {}
                    ELSE IF s1[s].posResp # {} THEN s1[s].posResp ELSE hold[s]
BY DEF Edge, HoldTick

LEMMA EdgeRepl ==
  ASSUME PosInv, NEW in, Edge(in), NEW s \in PosSets
  PROVE  repl'[s] = {w \in repl[s] : CleanHit(in, s, w) = {}}
                      \cup (IF ReqPosFire(in, s) THEN {ReplSelWay(in, s)} ELSE {})
BY DEF Edge, HoldTick

\* A way becomes the replacement engine's by a grant, which finds it free, and
\* ceases to be by a clean; in between it is live.
LEMMA ReplStep ==
  ASSUME PosInv, NEW in, Edge(in), NEW s \in PosSets, NEW w \in Ways
  PROVE  /\ w \in repl[s] /\ w \notin repl'[s] => Cleaned(in, s, w)
         /\ w \in repl'[s] /\ w \notin repl[s] => Reserved(in, s, w)
         /\ w \in repl'[s] => Valid(slot'[s][w])
<1>0. in \in PosInputs /\ slot'[s][w] = NextSlot(in, s, w) /\ slot[s][w] \in Slot
  BY EdgeStep, EdgeSlot DEF PosInv, PosTypeOK
<1>1. w \in repl[s] => Valid(slot[s][w])
  BY DEF PosInv, ReplKnown
<1>2. CleanHit(in, s, w) # {} => \E c \in in.clean : c.set = s /\ c.way = w /\ w \notin hold[s]
  BY <1>0, InputFacts DEF CleanHit, Cleanable
<1>3. ReqPosFire(in, s) /\ ReplSelWay(in, s) = w => Reserved(in, s, w)
  <2>1. ReqPosFire(in, s) /\ ReplSelWay(in, s) = w => TakesSlot(in, s, w) /\ in.reqPos[s] # {}
    BY DEF TakesSlot, ReqPosFire
  <2> QED BY <2>1, <1>0, SlotStep DEF Grabbed, Tagged, Cleaned, Kept
<1>4. ASSUME w \in repl[s], w \notin repl'[s] PROVE Cleaned(in, s, w)
  <2>1. CleanHit(in, s, w) # {}
    BY <1>4, EdgeRepl
  <2> QED BY <2>1, <1>0, <1>1, <1>2, <1>4, SlotStep DEF Grabbed, Reserved, Tagged, Kept
<1>5. ASSUME w \in repl'[s], w \notin repl[s] PROVE Reserved(in, s, w)
  BY <1>3, <1>5, EdgeRepl
<1>6. Reserved(in, s, w) => Valid(slot'[s][w])
  <2> DEFINE n == NextSlot(in, s, w)
  <2>1. Reserved(in, s, w) => One(n) /\ n.req \in BOOLEAN /\ n.snp \in BOOLEAN
    BY DEF Reserved
  <2>2. One(n) /\ n.req \in BOOLEAN /\ n.snp \in BOOLEAN => Valid(n)
    BY DEF One, Valid
  <2> QED BY <2>1, <2>2, <1>0
<1>7. ASSUME w \in repl'[s] PROVE Valid(slot'[s][w])
  <2>1. CASE Reserved(in, s, w)
    BY <2>1, <1>6
  <2>2. CASE ~Reserved(in, s, w)
    <3>1. Valid(slot[s][w]) /\ ~ \E c \in in.clean : c.set = s /\ c.way = w
      BY <2>2, <1>1, <1>3, <1>7, EdgeRepl DEF CleanHit
    <3>2. Tagged(in, s, w) \/ Kept(in, s, w)
      BY <3>1, <2>2, <1>0, SlotStep DEF Grabbed, Cleaned
    <3> QED BY <3>1, <3>2, <1>0 DEF Tagged, Kept, Valid, Slot
  <2> QED BY <2>1, <2>2
<1> QED BY <1>4, <1>5, <1>7
-----------------------------------------------------------------------------
(* Each part of the invariant survives an edge *)

LEMMA TypeStep ==
  ASSUME PosInv, NEW in, Edge(in)
  PROVE  PosTypeOK'
<1>0. /\ PosTypeOK /\ in \in PosInputs
      /\ in.alloc \in Wire(Addr) /\ NWays \in Nat /\ NWays >= 3
  BY InputFacts, EdgeStep, PosAssumption DEF PosInv
<1>1. ASSUME NEW s \in PosSets, NEW w \in Ways PROVE NextSlot(in, s, w) \in Slot
  <2>1. CASE Grabbed(in, s, w)
    BY <2>1, <1>0 DEF Grabbed, Slot, PosTypeOK, SetS1
  <2>2. CASE Reserved(in, s, w)
    BY <2>2 DEF Reserved, Slot, Wire
  <2>3. CASE Tagged(in, s, w)
    <3>1. PICK u \in in.upd : u.set = s /\ NextSlot(in, s, w) = [slot[s][w] EXCEPT !.tag = u.tag]
      BY <2>3 DEF Tagged
    <3>2. u.tag \in Wire(Addr)
      BY <3>1, <1>0, InputFacts, PosAssumption DEF Wire, Victims
    <3>3. slot[s][w] \in Slot
      BY <1>0 DEF PosTypeOK
    <3> QED BY <3>1, <3>2, <3>3 DEF Slot
  <2>4. CASE Cleaned(in, s, w)
    BY <2>4 DEF Cleaned, FreeSlot, Slot, Wire
  <2>5. CASE Kept(in, s, w)
    BY <2>5, <1>0 DEF Kept, PosTypeOK
  <2> QED BY <2>1, <2>2, <2>3, <2>4, <2>5, <1>0, SlotStep
<1>2. slot' \in [PosSets -> [Ways -> Slot]]
  BY <1>1, EdgeStep DEF NextSlots
<1>3. ASSUME NEW s \in PosSets PROVE /\ ReqPosFire(in, s) => ReplSelWay(in, s) \in Ways
                                     /\ FreeVec(s) \in SUBSET Nat /\ FreeVec(s) \subseteq Ways
  BY <1>0 DEF ReqPosFire, FreeVec, FreeVec2, Ways
<1>4. ASSUME NEW s \in PosSets PROVE NextS1(in, s) \in SetS1
  <2>1. AllocS0(in, s) \in Wire(Addr)
    BY <1>0 DEF AllocS0, Wire
  <2>2. FreeVec(s) # {} => Min(FreeVec(s)) \in Ways
    BY <1>3, MinIsLeast
  <2>3. 0 \in Ways
    BY <1>0 DEF Ways
  <2>4. (IF \E a \in AllocS0(in, s) : BlockS0(in, s, a) THEN {} ELSE AllocS0(in, s)) \in Wire(Addr)
    BY <2>1 DEF Wire
  <2>5. (IF AllocS0(in, s) # {} /\ FreeVec(s) # {} THEN Min(FreeVec(s)) ELSE 0) \in Ways
    BY <2>2, <2>3
  <2>6. (IF ReqPosFire(in, s) THEN {ReplSelWay(in, s)} ELSE {}) \in Wire(Ways)
    BY <1>3 DEF Wire
  <2> QED BY <2>4, <2>5, <2>6 DEF NextS1, SetS1
<1>5. s1' \in [PosSets -> SetS1]
  BY <1>4, EdgeStep DEF NextS1s
<1>6. wakeup' \in Wire(Addr)
  <2>1. CASE \E c \in in.clean : One(slot[c.set][c.way])
    <3>1. PICK c \in in.clean : One(slot[c.set][c.way]) /\ in.clean = {c}
                                 /\ c.set \in PosSets /\ c.way \in Ways
      BY <2>1, <1>0, InputFacts
    <3>2. NextWakeup(in) = slot[c.set][c.way].tag
      BY <3>1 DEF NextWakeup
    <3> QED BY <3>1, <3>2, <1>0, EdgeStep DEF PosTypeOK, Slot
  <2>2. CASE ~ \E c \in in.clean : One(slot[c.set][c.way])
    BY <2>2, EdgeStep DEF NextWakeup, Wire
  <2> QED BY <2>1, <2>2
<1>7. hold' \in [PosSets -> Wire(Ways)]
  <2>1. ASSUME NEW s \in PosSets PROVE hold'[s] \in Wire(Ways)
    <3>1. {} \in Wire(Ways) /\ s1[s].posResp \in Wire(Ways) /\ hold[s] \in Wire(Ways)
      BY <1>0 DEF PosTypeOK, Wire, SetS1
    <3> QED BY <3>1, EdgeHold
  <2> QED BY <2>1 DEF Edge, HoldTick
<1>8. repl' \in [PosSets -> SUBSET Ways]
  <2>1. ASSUME NEW s \in PosSets PROVE repl'[s] \subseteq Ways
    BY <1>0, <1>3, EdgeRepl DEF PosTypeOK
  <2> QED BY <2>1 DEF Edge, HoldTick
<1> QED BY <1>2, <1>5, <1>6, <1>7, <1>8 DEF PosTypeOK

LEMMA PulsesStep ==
  ASSUME PosInv, NEW in, Edge(in)
  PROVE  PulsesTogether'
<1>1. ASSUME NEW s \in PosSets, ~s1'[s].hnIdxValid
      PROVE  s1'[s].alloc = {} /\ s1'[s].way = 0 /\ ~s1'[s].sleep /\ ~s1'[s].block
  BY <1>1, EdgeS1
<1>2. ASSUME NEW s \in PosSets, NEW w \in Ways, ~Valid(slot'[s][w])
      PROVE  slot'[s][w].tag = {}
  <2>1. /\ NextSlot(in, s, w).req = NextHeld(in, s, w, "REQ", slot[s][w].req)
        /\ NextSlot(in, s, w).snp = NextHeld(in, s, w, "SNP", slot[s][w].snp)
        /\ NextSlot(in, s, w).tag = IF \/ NextHeld(in, s, w, "REQ", slot[s][w].req)
                                       \/ NextHeld(in, s, w, "SNP", slot[s][w].snp)
                                    THEN NextTag(in, s, w) ELSE {}
    BY DEF NextSlot
  <2> QED BY <1>2, <2>1, EdgeSlot DEF Valid
<1> QED BY <1>1, <1>2 DEF PulsesTogether

LEMMA OneOwnerStep ==
  ASSUME PosInv, NEW in, Edge(in)
  PROVE  OneOwner'
<1> SUFFICES ASSUME NEW s \in PosSets, NEW w \in Ways, Valid(NextSlot(in, s, w))
             PROVE  One(NextSlot(in, s, w))
  BY EdgeSlot DEF OneOwner
<1>0. slot[s][w] \in Slot /\ (Valid(slot[s][w]) => One(slot[s][w])) /\ in \in PosInputs
  BY EdgeStep DEF PosInv, PosTypeOK, OneOwner
<1>1. CASE Grabbed(in, s, w)
  BY <1>1 DEF Grabbed, One
<1>2. CASE Reserved(in, s, w)
  BY <1>2 DEF Reserved
<1>3. CASE Tagged(in, s, w)
  BY <1>3, <1>0 DEF Tagged, One, Valid, Slot
<1>4. CASE Cleaned(in, s, w)
  BY <1>4 DEF Cleaned, Valid, FreeSlot
<1>5. CASE Kept(in, s, w)
  BY <1>5, <1>0 DEF Kept
<1> QED BY <1>0, <1>1, <1>2, <1>3, <1>4, <1>5, SlotStep

\* Where the tag of a slot comes from.
LEMMA TagOrigin ==
  ASSUME PosInv, NEW in, Edge(in), NEW s \in PosSets, NEW w \in Ways, NEW a \in slot'[s][w].tag
  PROVE  \/ a \in slot[s][w].tag /\ Valid(slot[s][w])
         \/ a \in s1[s].alloc /\ w = s1[s].way /\ ~Valid(slot[s][w])
         \/ /\ a \in Victims(s) /\ w \in hold[s] /\ slot[s][w].tag = {}
            /\ \E u \in in.upd : u.set = s /\ u.way = w
<1>0. a \in NextSlot(in, s, w).tag /\ in \in PosInputs /\ slot[s][w] \in Slot
  BY EdgeSlot, EdgeStep DEF PosInv, PosTypeOK
<1>1. CASE Grabbed(in, s, w)
  BY <1>0, <1>1 DEF Grabbed
<1>2. CASE Reserved(in, s, w)
  BY <1>0, <1>2 DEF Reserved
<1>3. CASE Tagged(in, s, w)
  <2>1. PICK u \in in.upd : u.set = s /\ u.way = w /\ NextSlot(in, s, w) = [slot[s][w] EXCEPT !.tag = u.tag]
    BY <1>3 DEF Tagged
  <2>2. a \in u.tag
    BY <2>1, <1>0 DEF Slot
  <2>3. w \in hold[s] /\ a \in Victims(s)
    BY <2>1, <2>2, <1>0, InputFacts DEF Wire
  <2> QED BY <2>1, <2>3 DEF PosInv, LockWindow
<1>4. CASE Cleaned(in, s, w)
  BY <1>0, <1>4 DEF Cleaned, FreeSlot
<1>5. CASE Kept(in, s, w)
  BY <1>0, <1>5 DEF Kept, PosInv, PulsesTogether
<1> QED BY <1>0, <1>1, <1>2, <1>3, <1>4, <1>5, SlotStep
LEMMA TagInSetStep ==
  ASSUME PosInv, NEW in, Edge(in)
  PROVE  TagInSet'
<1> SUFFICES ASSUME NEW s \in PosSets, NEW w \in Ways, NEW a \in slot'[s][w].tag
             PROVE  SetOf[a] = s
  BY DEF TagInSet
<1> QED BY TagOrigin DEF PosInv, TagInSet, ChoiceStaysGood, Victims

\* A tag comes to a request's slot only when no slot has it, and a slot that
\* learns its tag later is the replacement engine's.
LEMMA SerialisedStep ==
  ASSUME PosInv, NEW in, Edge(in)
  PROVE  Serialised'
<1> SUFFICES ASSUME NEW s \in PosSets, NEW v \in Ways \ repl'[s], NEW w \in Ways \ repl'[s], v # w,
                    NEW a \in slot'[s][v].tag, a \in slot'[s][w].tag
             PROVE  FALSE
  BY DEF Serialised, Ways
<1> DEFINE Kpt(x) == a \in slot[s][x].tag /\ Valid(slot[s][x])
           Asks(x) == a \in s1[s].alloc /\ x = s1[s].way
<1>1. ASSUME NEW x \in Ways \ repl'[s], a \in slot'[s][x].tag
      PROVE  x \notin repl[s] /\ (Kpt(x) \/ Asks(x))
  <2>1. x \notin repl[s]
    <3>1. Cleaned(in, s, x) => slot'[s][x].tag = {}
      BY EdgeSlot DEF Cleaned, FreeSlot
    <3> QED BY <3>1, <1>1, ReplStep
  <2>2. x \notin hold[s]
    BY <2>1 DEF PosInv, ReplKnown
  <2> QED BY <2>1, <2>2, <1>1, TagOrigin
<1>2. \A x \in Ways : Kpt(x) => MatTag(s, a) # {}
  BY DEF MatTag
<1>3. a \in s1[s].alloc => MatTag(s, a) = {}
  BY DEF PosInv, ChoiceStaysGood
<1>4. v \notin repl[s] /\ w \notin repl[s] => ~(Kpt(v) /\ Kpt(w))
  BY DEF PosInv, Serialised
<1>5. v \notin repl[s] /\ (Kpt(v) \/ Asks(v)) /\ w \notin repl[s] /\ (Kpt(w) \/ Asks(w))
  BY <1>1
<1> HIDE DEF Kpt
<1> QED BY <1>2, <1>3, <1>4, <1>5

LEMMA ChoiceStep ==
  ASSUME PosInv, NEW in, Edge(in)
  PROVE  ChoiceStaysGood'
<1> SUFFICES ASSUME NEW s \in PosSets, NEW a \in s1'[s].alloc
             PROVE  /\ SetOf[a] = s /\ s1'[s].way \in NormalWays
                    /\ ~Valid(slot'[s][s1'[s].way]) /\ MatTag(s, a)' = {}
  BY DEF ChoiceStaysGood
<1>0. s1'[s].alloc = IF \E b \in AllocS0(in, s) : BlockS0(in, s, b) THEN {} ELSE AllocS0(in, s)
  BY EdgeS1
<1>1. a \in AllocS0(in, s) /\ ~BlockS0(in, s, a)
  BY <1>0
<1>2. /\ MatTag(s, a) = {} /\ FreeVec(s) \cap NormalWays # {}
      /\ a \notin s1[s].alloc /\ ~s1[s].lock /\ in.reqPos[s] = {}
  BY <1>1 DEF BlockS0
<1>3. FreeVec(s) \in SUBSET Nat /\ FreeVec(s) \subseteq FreeVec2(s) /\ FreeVec(s) \subseteq Ways
  BY PosAssumption DEF FreeVec, FreeVec2, Ways
<1>4. s1'[s].way = Min(FreeVec(s))
  BY <1>1, <1>2, EdgeS1
<1>5. s1'[s].way \in FreeVec(s) /\ \A y \in FreeVec(s) : s1'[s].way <= y
  BY <1>2, <1>3, <1>4, MinIsLeast
<1>6. s1'[s].way \in NormalWays
  BY <1>2, <1>3, <1>5, PosAssumption DEF NormalWays
<1>7. hold[s] = {}
  BY <1>2 DEF PosInv, LockWindow
<1>8. ~Valid(slot'[s][s1'[s].way])
  <2> DEFINE w == s1'[s].way
  <2>1. w \in Ways /\ ~Valid(slot[s][w]) /\ in \in PosInputs
    BY <1>3, <1>5, EdgeStep DEF FreeVec2
  <2>2. ~TakesSlot(in, s, w)
    BY <1>2, <1>5 DEF TakesSlot, FreeVec
  <2>3. Valid(FreeSlot) = FALSE
    BY DEF FreeSlot, Valid
  <2>4. Cleaned(in, s, w) \/ Kept(in, s, w)
    BY <2>1, <2>2, SlotStep DEF Grabbed, Reserved, Tagged
  <2> QED BY <2>1, <2>3, <2>4, EdgeSlot DEF Cleaned, Kept
<1>9. MatTag(s, a)' = {}
  <2> SUFFICES ASSUME NEW w \in Ways, a \in slot'[s][w].tag PROVE FALSE
    BY DEF MatTag
  <2> QED BY <1>2, <1>7, TagOrigin DEF MatTag
<1> QED BY <1>1, <1>6, <1>8, <1>9 DEF AllocS0

LEMMA LockStep ==
  ASSUME PosInv, NEW in, Edge(in)
  PROVE  LockWindow'
<1> SUFFICES ASSUME NEW s \in PosSets
             PROVE  /\ s1'[s].lock <=> s1'[s].posResp \cup hold'[s] # {}
                    /\ s1'[s].posResp = {} \/ hold'[s] = {}
                    /\ s1'[s].lock => s1'[s].alloc = {}
                    /\ \A w \in s1'[s].posResp \cup hold'[s] :
                         Valid(slot'[s][w]) /\ slot'[s][w].tag = {}
  BY DEF LockWindow
<1> DEFINE fire == ReqPosFire(in, s)
           upd == \E u \in in.upd : u.set = s
<1>0. /\ s1[s].lock <=> s1[s].posResp \cup hold[s] # {}
      /\ s1[s].posResp = {} \/ hold[s] = {}
      /\ \A w \in s1[s].posResp \cup hold[s] : Valid(slot[s][w]) /\ slot[s][w].tag = {}
      /\ s1[s].posResp \subseteq Ways /\ hold[s] \subseteq Ways /\ in \in PosInputs
  <2>1. s1[s] \in SetS1 /\ hold[s] \in Wire(Ways)
    BY DEF PosInv, PosTypeOK
  <2>2. s1[s].posResp \subseteq Ways /\ hold[s] \subseteq Ways
    BY <2>1 DEF SetS1, Wire
  <2>3. LockWindow
    BY DEF PosInv
  <2> QED BY <2>2, <2>3, EdgeStep DEF LockWindow
<1>1. s1'[s].posResp = (IF fire THEN {ReplSelWay(in, s)} ELSE {})
  BY EdgeS1
<1>2. hold'[s] = IF upd THEN {} ELSE IF s1[s].posResp # {} THEN s1[s].posResp ELSE hold[s]
  BY EdgeHold
<1>3. s1'[s].lock <=> fire \/ (s1[s].lock /\ ~upd)
  BY EdgeS1
<1>4. fire => ~s1[s].lock /\ ReplSelWay(in, s) \in Ways
  BY DEF ReqPosFire, FreeVec2
<1>5. s1'[s].lock => s1'[s].alloc = {}
  <2>1. \A a : s1[s].lock \/ fire => BlockS0(in, s, a)
    BY DEF BlockS0, ReqPosFire
  <2>2. s1'[s].alloc = IF \E b \in AllocS0(in, s) : BlockS0(in, s, b) THEN {} ELSE AllocS0(in, s)
    BY EdgeS1
  <2> QED BY <2>1, <2>2, <1>3
<1>6. ASSUME NEW w \in s1'[s].posResp PROVE Valid(slot'[s][w]) /\ slot'[s][w].tag = {}
  <2>1. fire /\ w = ReplSelWay(in, s) /\ w \in Ways
    BY <1>1, <1>4, <1>6
  <2>2. TakesSlot(in, s, w)
    BY <2>1 DEF TakesSlot, ReqPosFire
  <2>3. Reserved(in, s, w)
    BY <2>1, <2>2, <1>0, SlotStep DEF Grabbed, Tagged, Cleaned, Kept, ReqPosFire
  <2> DEFINE n == NextSlot(in, s, w)
  <2>4. n.tag = {} /\ One(n) /\ n.req \in BOOLEAN /\ n.snp \in BOOLEAN
    BY <2>3 DEF Reserved
  <2>5. n.tag = {} /\ Valid(n)
    <3> HIDE DEF n
    <3> QED BY <2>4 DEF One, Valid
  <2> QED BY <2>1, <2>5, EdgeSlot
<1>7. ASSUME NEW w \in hold'[s] PROVE Valid(slot'[s][w]) /\ slot'[s][w].tag = {}
  <2>1. ~upd /\ w \in s1[s].posResp \cup hold[s] /\ w \in Ways
    BY <1>0, <1>2, <1>7
  <2>2. Valid(slot[s][w]) /\ slot[s][w].tag = {}
    BY <2>1, <1>0
  <2>3. Kept(in, s, w)
    BY <2>1, <2>2, <1>0, SlotStep DEF Grabbed, Reserved, Tagged, Cleaned
  <2> QED BY <2>1, <2>2, <2>3, EdgeSlot DEF Kept
<1> QED BY <1>0, <1>1, <1>2, <1>3, <1>4, <1>5, <1>6, <1>7

LEMMA ReplKnownStep ==
  ASSUME PosInv, NEW in, Edge(in)
  PROVE  ReplKnown'
<1> SUFFICES ASSUME NEW s \in PosSets
             PROVE  /\ s1'[s].posResp \cup hold'[s] \subseteq repl'[s]
                    /\ \A w \in repl'[s] : Valid(slot'[s][w])
  BY DEF ReplKnown
<1>0. in \in PosInputs /\ repl'[s] \subseteq Ways
  BY EdgeStep, TypeStep DEF PosTypeOK
<1>1. s1'[s].posResp \subseteq repl'[s]
  BY EdgeResp, EdgeRepl
<1>2. ASSUME NEW w \in hold'[s] PROVE w \in repl'[s]
  <2>1. w \in s1[s].posResp \cup hold[s]
    BY <1>2, EdgeHold
  <2>2. CleanHit(in, s, w) = {}
    BY <1>0, <2>1, InputFacts DEF CleanHit, Cleanable
  <2>3. w \in repl[s]
    BY <2>1 DEF PosInv, ReplKnown
  <2> QED BY <2>2, <2>3, EdgeRepl
<1> QED BY <1>0, <1>1, <1>2, ReplStep

-----------------------------------------------------------------------------
(* The theorems *)

LEMMA PosInvInit == PosInit => PosInv
<1> SUFFICES ASSUME PosInit PROVE PosInv
  OBVIOUS
<1>0. /\ {} \in Wire(Addr) /\ {} \in Wire(Ways) /\ 0 \in Ways
  BY PosAssumption DEF Wire, Ways
<1>1. FreeSlot \in Slot /\ ~Valid(FreeSlot) /\ FreeSlot.tag = {}
  BY <1>0 DEF FreeSlot, Slot, Valid
<1>2. IdleS1 \in SetS1 /\ IdleS1.alloc = {} /\ IdleS1.way = 0 /\ ~IdleS1.sleep
      /\ ~IdleS1.block /\ ~IdleS1.lock /\ IdleS1.posResp = {}
  BY <1>0 DEF IdleS1, SetS1
<1>3. PosTypeOK
  BY <1>0, <1>1, <1>2 DEF PosInit, PosTypeOK
<1>4. \A s \in PosSets : /\ s1[s] = IdleS1 /\ hold[s] = {} /\ repl[s] = {}
                        /\ \A w \in Ways : slot[s][w] = FreeSlot
  BY DEF PosInit
<1> QED BY <1>1, <1>2, <1>3, <1>4
        DEF PosInv, PulsesTogether, TagInSet, OneOwner, Serialised, ChoiceStaysGood, LockWindow,
            ReplKnown

LEMMA PosInvStep == PosInv /\ [PosNext]_posVars => PosInv'
<1> SUFFICES ASSUME PosInv, [PosNext]_posVars PROVE PosInv'
  OBVIOUS
<1>1. CASE PosNext
  <2>1. PICK in : Edge(in)
    BY <1>1 DEF PosNext, Edge
  <2> QED BY <2>1, TypeStep, PulsesStep, TagInSetStep, OneOwnerStep, SerialisedStep,
             ChoiceStep, LockStep, ReplKnownStep DEF PosInv
<1>2. CASE UNCHANGED posVars
  BY <1>2 DEF posVars, PosInv, PosTypeOK, PulsesTogether, TagInSet, OneOwner, Serialised,
              ChoiceStaysGood, LockWindow, ReplKnown, MatTag
<1> QED BY <1>1, <1>2

\* The inductive invariant: types, and that the pulses, the owners, the chosen
\* ways and the set locks always agree.
THEOREM PosInvariant == PosSpec => []PosInv
<1> QED BY PosInvInit, PosInvStep, PTL DEF PosSpec

\* No two requests are ever served on one address, whatever lines the
\* directory names as victims.
THEOREM PosSerialises == PosSpec => []Serialised
<1>1. PosInv => Serialised
  BY DEF PosInv
<1> QED BY <1>1, PosInvariant, PTL
\* In every reachable state, a closed static gate suppresses no change.
THEOREM PosGatesSound == PosSpec => []GatesLoseNothing
<1> QED BY GatesHarmless, PosInvariant, PTL

\* Invariant and gates together, as the runs check them.
THEOREM PosIsSafe == PosSpec => []PosSafe
<1>1. PosInv /\ GatesLoseNothing => PosSafe
  BY DEF PosSafe
<1> QED BY <1>1, PosInvariant, PosGatesSound, PTL

-----------------------------------------------------------------------------
(* The table implements the lock per address *)

\* What the look-up of a request in s1 promises for the edge at which it enters.
LEMMA Enters ==
  ASSUME PosInv, NEW in, Edge(in), NEW s \in PosSets, NEW a \in s1[s].alloc
  PROVE  /\ a \in Addr /\ SetOf[a] = s /\ s1[s].posResp \cup hold[s] = {}
         /\ s1[s].way \in Ways /\ ~Valid(slot[s][s1[s].way])
         /\ Owners(a) = {} /\ Owners(a)' \subseteq {<<s, s1[s].way>>}
<1>1. /\ SetOf[a] = s /\ ~Valid(slot[s][s1[s].way]) /\ MatTag(s, a) = {}
      /\ s1[s].posResp \cup hold[s] = {}
  BY DEF PosInv, ChoiceStaysGood, LockWindow
<1>2. a \in Addr /\ s1[s].way \in Ways
  <2>1. s1[s] \in SetS1
    BY DEF PosInv, PosTypeOK
  <2> QED BY <2>1 DEF SetS1, Wire
<1>3. Owners(a) = {}
  <2> SUFFICES ASSUME NEW r \in PosSets, NEW w \in Ways, Valid(slot[r][w]), a \in slot[r][w].tag
               PROVE  FALSE
    BY DEF Owners
  <2>1. r = s
    BY <1>1 DEF PosInv, TagInSet
  <2> QED BY <1>1, <2>1 DEF MatTag
<1>4. ASSUME NEW r \in PosSets, NEW w \in Ways, a \in slot'[r][w].tag
      PROVE  <<r, w>> = <<s, s1[s].way>>
  <2>1. TagInSet'
    BY TagInSetStep
  <2>2. r = s
    BY <1>1, <1>4, <2>1 DEF TagInSet
  <2> QED BY <1>1, <1>4, <2>2, TagOrigin DEF MatTag
<1>5. Owners(a)' \subseteq {<<s, s1[s].way>>}
  BY <1>4 DEF Owners
<1> QED BY <1>1, <1>2, <1>3, <1>5

\* Who comes to an address: one request, to a free address that no guest may be
\* given, or guests that wait for an address of this set.
LEMMA AddressStep ==
  ASSUME PosInv, NEW in, Edge(in), NEW a \in Addr
  PROVE  Lock!Admit(a) \/ Lock!Join(a)
<1> DEFINE s == SetOf[a]
           new == Owners(a)' \ Owners(a)
<1>0. s \in PosSets
  BY PosAssumption
<1>1. ASSUME NEW o \in new
      PROVE  /\ o \in PosSets \X Ways /\ o[1] = s
             /\ a \in s1[s].alloc \/ o[2] \in hold[s]
  <2>1. /\ o[1] \in PosSets /\ o[2] \in Ways /\ o = <<o[1], o[2]>>
        /\ a \in slot'[o[1]][o[2]].tag
        /\ ~(Valid(slot[o[1]][o[2]]) /\ a \in slot[o[1]][o[2]].tag)
    BY <1>1 DEF Owners
  <2>2. o[1] = s
    <3>1. TagInSet'
      BY TagInSetStep
    <3> QED BY <2>1, <3>1 DEF TagInSet
  <2>3. a \in s1[s].alloc \/ o[2] \in hold[s]
    BY <2>1, <2>2, TagOrigin
  <2> QED BY <2>1, <2>2, <2>3
<1>2. CASE a \notin s1[s].alloc
  <2>1. ASSUME NEW o \in new PROVE o \in DueSlots /\ a \in {b \in Addr : SetOf[b] = o[1]}
    BY <1>0, <1>1, <1>2, <2>1 DEF DueSlots
  <2>2. DueSlots \subseteq PosSets \X Ways
    BY DEF DueSlots
  <2> QED BY <2>1, <2>2 DEF Lock!Join, Lock!Newcomers, Lock!Awaited
<1>3. CASE a \in s1[s].alloc /\ Owners(a)' = {}
  BY <1>3 DEF Lock!Join, Lock!Newcomers
<1>4. CASE a \in s1[s].alloc /\ Owners(a)' # {}
  <2> DEFINE w == s1[s].way
             o == <<s, w>>
  <2>1. /\ s1[s].posResp \cup hold[s] = {} /\ w \in Ways /\ ~Valid(slot[s][w])
        /\ Owners(a) = {} /\ Owners(a)' = {o}
    BY <1>0, <1>4, Enters
  <2>2. \A g \in DueSlots : a \notin {b \in Addr : SetOf[b] = g[1]}
    BY <2>1 DEF DueSlots
  <2>3. DueSlots \subseteq PosSets \X Ways
    BY DEF DueSlots
  <2>4. w \notin repl[s]
    BY <2>1, <1>0 DEF PosInv, ReplKnown
  <2>5. w \notin repl'[s]
    <3>1. a \in slot'[s][w].tag
      <4>1. \A g \in Owners(a)' : a \in slot'[g[1]][g[2]].tag
        BY DEF Owners
      <4>2. a \in slot'[o[1]][o[2]].tag
        <5> HIDE DEF o
        <5> QED BY <4>1, <2>1
      <4> QED BY <4>2
    <3>2. slot'[s][w] = NextSlot(in, s, w)
      BY <1>0, <2>1, EdgeSlot
    <3> QED BY <3>1, <3>2, <2>1, <2>4, <1>0, ReplStep DEF Reserved
  <2>6. o \in PosSets \X Ways /\ o \notin ReplSlots /\ o \notin ReplSlots'
    BY <1>0, <2>1, <2>4, <2>5 DEF ReplSlots
  <2> HIDE DEF o, w
  <2>7. Lock!Awaited(a) = {}
    BY <2>2, <2>3 DEF Lock!Awaited
  <2> QED BY <2>1, <2>6, <2>7 DEF Lock!Admit
<1> QED BY <1>2, <1>3, <1>4

\* The replacement engine's slots come and go without an address.
LEMMA GuestStep ==
  ASSUME PosInv, NEW in, Edge(in)
  PROVE  /\ ReplSlots' \subseteq PosSets \X Ways /\ ReplSlots' \ ReplSlots \subseteq DueSlots'
         /\ DueSlots' \subseteq ReplSlots'
         /\ DueSlots' \subseteq DueSlots \cup (ReplSlots' \ ReplSlots)
         /\ \A g \in ReplSlots' \ ReplSlots : \A a \in Addr : g \notin Owners(a)
         /\ \A g \in DueSlots' \cup (ReplSlots \ ReplSlots') : \A a \in Addr : g \notin Owners(a)'
<1>0. in \in PosInputs /\ ReplKnown' /\ LockWindow' /\ PosTypeOK'
  BY EdgeStep, ReplKnownStep, LockStep, TypeStep
<1>1. DueSlots' \subseteq ReplSlots' /\ ReplSlots' \subseteq PosSets \X Ways
  BY <1>0 DEF DueSlots, ReplSlots, ReplKnown
<1>2. ASSUME NEW g \in ReplSlots' \ ReplSlots
      PROVE  g \in DueSlots' /\ \A a \in Addr : g \notin Owners(a)
  <2>1. /\ g[1] \in PosSets /\ g[2] \in Ways /\ g \in PosSets \X Ways
        /\ g[2] \in repl'[g[1]] /\ g[2] \notin repl[g[1]]
    BY <1>2 DEF ReplSlots
  <2>2. Reserved(in, g[1], g[2])
    BY <2>1, ReplStep
  <2>3. g[2] \in s1'[g[1]].posResp
    <3>1. s1'[g[1]].posResp = IF ReqPosFire(in, g[1]) THEN {ReplSelWay(in, g[1])} ELSE {}
      BY <2>1, EdgeResp
    <3> QED BY <2>2, <3>1 DEF Reserved
  <2> QED BY <2>1, <2>2, <2>3 DEF DueSlots, Owners, Reserved
<1>3. ASSUME NEW g \in DueSlots', g \notin DueSlots
      PROVE  g \in ReplSlots' \ ReplSlots
  <2>1. /\ g[1] \in PosSets /\ g[2] \in Ways /\ g \in PosSets \X Ways
        /\ g[2] \in s1'[g[1]].posResp \cup hold'[g[1]]
        /\ g[2] \notin s1[g[1]].posResp \cup hold[g[1]]
    BY <1>3 DEF DueSlots
  <2>2. g[2] \notin hold'[g[1]]
    BY <2>1, EdgeHold
  <2>3. ReqPosFire(in, g[1]) /\ g[2] = ReplSelWay(in, g[1])
    <3>1. s1'[g[1]].posResp = IF ReqPosFire(in, g[1]) THEN {ReplSelWay(in, g[1])} ELSE {}
      BY <2>1, EdgeResp
    <3> QED BY <2>1, <2>2, <3>1
  <2>4. ~Valid(slot[g[1]][g[2]])
    BY <2>3 DEF ReqPosFire, FreeVec2
  <2> QED BY <1>1, <1>3, <2>1, <2>4 DEF ReplSlots, PosInv, ReplKnown
<1>4. ASSUME NEW g \in DueSlots', NEW a \in Addr PROVE g \notin Owners(a)'
  <2>1. /\ g[1] \in PosSets /\ g[2] \in s1'[g[1]].posResp \cup hold'[g[1]]
    BY <1>4 DEF DueSlots
  <2>2. slot'[g[1]][g[2]].tag = {}
    BY <1>0, <2>1 DEF LockWindow
  <2> QED BY <2>2 DEF Owners
<1>5. ASSUME NEW g \in ReplSlots \ ReplSlots', NEW a \in Addr PROVE g \notin Owners(a)'
  <2>1. /\ g[1] \in PosSets /\ g[2] \in Ways
        /\ g[2] \in repl[g[1]] /\ g[2] \notin repl'[g[1]]
    BY <1>5 DEF ReplSlots
  <2>2. slot'[g[1]][g[2]].tag = {}
    BY <2>1, ReplStep, EdgeSlot DEF Cleaned, FreeSlot
  <2> QED BY <2>2 DEF Owners
<1> QED BY <1>1, <1>2, <1>3, <1>4, <1>5

LEMMA LockStepRefines ==
  ASSUME PosInv, [PosNext]_posVars
  PROVE  [Lock!Next]_(Lock!lockVars)
<1>1. CASE PosNext
  <2>1. PICK in : Edge(in)
    BY <1>1 DEF PosNext, Edge
  <2>2. \A a \in Addr : Owners(a)' \subseteq PosSets \X Ways
    BY DEF Owners
  <2>3. Lock!Guests
    <3>1. \A g : /\ Lock!Owns(g) = {a \in Addr : g \in Owners(a)}
                /\ Lock!Owns(g)' = {a \in Addr : g \in Owners(a)'}
      BY DEF Lock!Owns
    <3> QED BY <2>1, <3>1, GuestStep DEF Lock!Guests, Lock!NewGuests
  <2>4. \A a \in Addr : Lock!Admit(a) \/ Lock!Join(a)
    BY <2>1, AddressStep
  <2> QED BY <2>2, <2>3, <2>4 DEF Lock!Next
<1>2. CASE UNCHANGED posVars
  <2>1. \A a \in Addr : Owners(a)' = Owners(a)
    BY <1>2 DEF posVars, Owners
  <2>2. ReplSlots' = ReplSlots /\ DueSlots' = DueSlots
    BY <1>2 DEF posVars, ReplSlots, DueSlots
  <2> QED BY <2>1, <2>2 DEF Lock!lockVars
<1> QED BY <1>1, <1>2

\* The table refines AddrLock: a request becomes owner of a free address that
\* no replacement may be about to name, and replacements are its guests.
THEOREM PosImplementsLock == PosSpec => LockSpec
<1>1. PosInit => Lock!Init
  <2> SUFFICES ASSUME PosInit
               PROVE  /\ \A a \in Addr : Owners(a) = {}
                      /\ ReplSlots = {} /\ DueSlots = {}
    BY DEF Lock!Init
  <2> QED BY DEF PosInit, Owners, Valid, FreeSlot, IdleS1, ReplSlots, DueSlots
<1>2. PosInv /\ [PosNext]_posVars => [Lock!Next]_(Lock!lockVars)
  BY LockStepRefines
<1> QED BY <1>1, <1>2, PosInvariant, PTL DEF PosSpec, LockSpec, Lock!Spec

\* The edge that frees the last slot of an address raises its wakeup pulse.
LEMMA ReleaseStep ==
  ASSUME PosInv, NEW in, Edge(in), NEW a \in Addr, Owners(a) # {}, Owners(a)' = {}
  PROVE  wakeup' = {a}
<1>1. PICK s \in PosSets, w \in Ways : Valid(slot[s][w]) /\ a \in slot[s][w].tag
  BY DEF Owners
<1>2. a \notin slot'[s][w].tag \/ ~Valid(slot'[s][w])
  <2>1. <<s, w>> \notin Owners(a)'
    OBVIOUS
  <2> QED BY <2>1 DEF Owners
<1>3. in \in PosInputs /\ slot' = NextSlots(in) /\ wakeup' = NextWakeup(in)
  BY EdgeStep
<1>4. slot[s][w] \in Slot /\ slot[s][w].tag = {a} /\ w \notin hold[s]
  <2>1. slot[s][w] \in Slot
    BY DEF PosInv, PosTypeOK
  <2>2. slot[s][w].tag = {a}
    BY <2>1, <1>1 DEF Slot, Wire
  <2>3. w \notin hold[s]
    BY <2>2 DEF PosInv, LockWindow
  <2> QED BY <2>1, <2>2, <2>3
<1>5. slot'[s][w] = NextSlot(in, s, w)
  BY EdgeSlot
<1>6. Cleaned(in, s, w)
  BY <1>1, <1>2, <1>3, <1>4, <1>5, SlotStep DEF Grabbed, Reserved, Tagged, Kept
<1>7. PICK c \in in.clean : c.set = s /\ c.way = w /\ in.clean = {c}
  BY <1>3, <1>6, InputFacts DEF Cleaned
<1>8. NextWakeup(in) = slot[s][w].tag
  BY <1>6, <1>7 DEF NextWakeup, Cleaned
<1> QED BY <1>3, <1>4, <1>8

\* The wakeup pulse that an edge raises is that of a slot live before it.
LEMMA WakeOrigin ==
  ASSUME PosInv, NEW in, Edge(in), NEW a \in wakeup'
  PROVE  a \in Addr /\ MatTag(SetOf[a], a) # {}
<1>1. a \in NextWakeup(in) /\ in \in PosInputs
  BY EdgeStep
<1>2. PICK c \in in.clean : One(slot[c.set][c.way]) /\ a \in slot[c.set][c.way].tag
  BY <1>1 DEF NextWakeup
<1>3. c.set \in PosSets /\ c.way \in Ways
  BY <1>1, InputFacts
<1>4. slot[c.set][c.way] \in Slot /\ Valid(slot[c.set][c.way])
  BY <1>2, <1>3 DEF PosInv, PosTypeOK, Slot, One, Valid
<1>5. c.way \in MatTag(c.set, a) /\ c.set = SetOf[a] /\ a \in Addr
  BY <1>2, <1>3, <1>4 DEF MatTag, PosInv, TagInSet, Slot, Wire
<1> QED BY <1>5

\* Every release of an address sends the wakeup pulse with that address.
THEOREM PosReleaseWakes == PosSpec => ReleaseWakes
<1>1. ASSUME PosInv, PosNext, NEW a \in Addr, Owners(a) # {}, Owners(a)' = {}
      PROVE  wakeup' = {a}
  BY <1>1, ReleaseStep DEF PosNext, Edge
<1>2. PosInv /\ [PosNext]_posVars
        => [\A a \in Addr : Owners(a) # {} /\ Owners(a)' = {} => wakeup' = {a}]_posVars
  BY <1>1
<1> QED BY <1>2, PosInvariant, PTL DEF PosSpec, ReleaseWakes

-----------------------------------------------------------------------------
(* The assembled frontend *)

ReqP == INSTANCE TaskBuffer_proofs WITH
          Line <- Addr, N <- NReq, entries <- reqEntries, hasLock <- reqLock, vip <- reqVip
HprP == INSTANCE TaskBuffer_proofs WITH
          Line <- Addr, N <- NHpr, entries <- hprEntries, hasLock <- hprLock, vip <- hprVip

\* The task in s1 is that of the one waiting entry of the two buffers.
OneJudged ==
  \/ st = {} /\ Waiting = {}
  \/ \E t \in Task : \E w \in Waiting : st = {t} /\ Waiting = {w} /\ EntryOf(w).task = st

\* Its address is the one the s1 registers of the table are about, and the
\* table blocks what it found no way for, a task it puts to sleep included.
TableFollows ==
  \A s \in PosSets :
    /\ s1[s].hnIdxValid <=> \E t \in st : SetOf[AddrOf[t]] = s
    /\ s1[s].alloc \subseteq {AddrOf[t] : t \in st}
    /\ s1[s].alloc = {} /\ s1[s].hnIdxValid => s1[s].block
    /\ s1[s].sleep => s1[s].block

\* A wakeup pulse for the task in s1 comes with a verdict against it.
WakeBlocks == \A t \in st : AddrOf[t] \in wakeup => s1[SetOf[AddrOf[t]]].block

\* A task that is about to sleep has something to wait for.
SleepHasCause ==
  \A t \in st : s1[SetOf[AddrOf[t]]].sleep =>
    Owners(AddrOf[t]) # {} \/ wakeup = {AddrOf[t]}

FrontInv == /\ PosInv /\ ReqP!BufInv /\ HprP!BufInv
            /\ OneJudged /\ TableFollows /\ WakeBlocks /\ SleepHasCause /\ NoLostWakeup

-----------------------------------------------------------------------------
(* The proofs about a buffer are about the frontend's two buffers *)

\* Two instances of one definition unfold to the same formula.
LEMMA ReqSame ==
  /\ ReqP!BufAssumption /\ ReqP!Idx = Req!Idx /\ ReqP!S0Out = Req!S0Out /\ ReqP!LockIdx = Req!LockIdx
  /\ \A in, i : ReqP!NextState(in, i) = Req!NextState(in, i)
<1>1. ReqP!BufAssumption
  BY FrontAssumption DEF ReqP!BufAssumption
<1>2. ReqP!Idx = Req!Idx /\ ReqP!S0Out = Req!S0Out /\ ReqP!LockIdx = Req!LockIdx
  BY Zenon DEF
       ReqP!Idx, Req!Idx, ReqP!S0In, Req!S0In, ReqP!LockAll, Req!LockAll, ReqP!LockIdx,
       Req!LockIdx, ReqP!S0Out, Req!S0Out, ReqP!Min, Req!Min, ReqP!VipChosen,
       Req!VipChosen
<1>3. \A in, i : ReqP!NextState(in, i) = Req!NextState(in, i)
  BY Zenon DEF
       ReqP!NextState, Req!NextState, ReqP!InFire, Req!InFire, ReqP!FreeIdx, Req!FreeIdx,
       ReqP!WakeHit, Req!WakeHit, ReqP!UseAddr, Req!UseAddr, ReqP!Live, Req!Live,
       ReqP!Idx, Req!Idx, ReqP!S0In, Req!S0In, ReqP!LockAll, Req!LockAll, ReqP!LockIdx,
       Req!LockIdx, ReqP!S0Out, Req!S0Out, ReqP!Min, Req!Min, ReqP!VipChosen,
       Req!VipChosen
<1> QED BY <1>1, <1>2, <1>3

LEMMA ReqTickSame ==
  ASSUME NEW in, Req!BufTick(in)
  PROVE  ReqP!BufTick(in)
BY Zenon DEF
       ReqP!BufTick, Req!BufTick, ReqP!BufAny, Req!BufAny, ReqP!NextEntries,
       Req!NextEntries, ReqP!NextEntry, Req!NextEntry, ReqP!NextState, Req!NextState,
       ReqP!NextTask, Req!NextTask, ReqP!NextNid, Req!NextNid, ReqP!NextRetryNum,
       Req!NextRetryNum, ReqP!NextTimeout, Req!NextTimeout, ReqP!VipNext, Req!VipNext,
       ReqP!Idx, Req!Idx, ReqP!UseAddr, Req!UseAddr, ReqP!Live, Req!Live, ReqP!Rel,
       Req!Rel, ReqP!S0In, Req!S0In, ReqP!LockAll, Req!LockAll, ReqP!LockIdx, Req!LockIdx,
       ReqP!S0Out, Req!S0Out, ReqP!FreeIdx, Req!FreeIdx, ReqP!InFire, Req!InFire,
       ReqP!WakeHit, Req!WakeHit, ReqP!InitNid, Req!InitNid, ReqP!OthRel, Req!OthRel,
       ReqP!Min, Req!Min, ReqP!Cardinality, Req!Cardinality, ReqP!VipChosen, Req!VipChosen

LEMMA HprSame ==
  /\ HprP!BufAssumption /\ HprP!Idx = Hpr!Idx /\ HprP!S0Out = Hpr!S0Out /\ HprP!LockIdx = Hpr!LockIdx
  /\ \A in, i : HprP!NextState(in, i) = Hpr!NextState(in, i)
<1>1. HprP!BufAssumption
  BY FrontAssumption DEF HprP!BufAssumption
<1>2. HprP!Idx = Hpr!Idx /\ HprP!S0Out = Hpr!S0Out /\ HprP!LockIdx = Hpr!LockIdx
  BY Zenon DEF
       HprP!Idx, Hpr!Idx, HprP!S0In, Hpr!S0In, HprP!LockAll, Hpr!LockAll, HprP!LockIdx,
       Hpr!LockIdx, HprP!S0Out, Hpr!S0Out, HprP!Min, Hpr!Min, HprP!VipChosen,
       Hpr!VipChosen
<1>3. \A in, i : HprP!NextState(in, i) = Hpr!NextState(in, i)
  BY Zenon DEF
       HprP!NextState, Hpr!NextState, HprP!InFire, Hpr!InFire, HprP!FreeIdx, Hpr!FreeIdx,
       HprP!WakeHit, Hpr!WakeHit, HprP!UseAddr, Hpr!UseAddr, HprP!Live, Hpr!Live,
       HprP!Idx, Hpr!Idx, HprP!S0In, Hpr!S0In, HprP!LockAll, Hpr!LockAll, HprP!LockIdx,
       Hpr!LockIdx, HprP!S0Out, Hpr!S0Out, HprP!Min, Hpr!Min, HprP!VipChosen,
       Hpr!VipChosen
<1> QED BY <1>1, <1>2, <1>3

LEMMA HprTickSame ==
  ASSUME NEW in, Hpr!BufTick(in)
  PROVE  HprP!BufTick(in)
BY Zenon DEF
       HprP!BufTick, Hpr!BufTick, HprP!BufAny, Hpr!BufAny, HprP!NextEntries,
       Hpr!NextEntries, HprP!NextEntry, Hpr!NextEntry, HprP!NextState, Hpr!NextState,
       HprP!NextTask, Hpr!NextTask, HprP!NextNid, Hpr!NextNid, HprP!NextRetryNum,
       Hpr!NextRetryNum, HprP!NextTimeout, Hpr!NextTimeout, HprP!VipNext, Hpr!VipNext,
       HprP!Idx, Hpr!Idx, HprP!UseAddr, Hpr!UseAddr, HprP!Live, Hpr!Live, HprP!Rel,
       Hpr!Rel, HprP!S0In, Hpr!S0In, HprP!LockAll, Hpr!LockAll, HprP!LockIdx, Hpr!LockIdx,
       HprP!S0Out, Hpr!S0Out, HprP!FreeIdx, Hpr!FreeIdx, HprP!InFire, Hpr!InFire,
       HprP!WakeHit, Hpr!WakeHit, HprP!InitNid, Hpr!InitNid, HprP!OthRel, Hpr!OthRel,
       HprP!Min, Hpr!Min, HprP!Cardinality, Hpr!Cardinality, HprP!VipChosen, Hpr!VipChosen

-----------------------------------------------------------------------------
(* What s0 sends *)

\* The request buffer sends one task or none; and so does the HPR buffer.
LEMMA ReqSends ==
  ASSUME ReqP!BufInv
  PROVE  \/ Req!S0Out = {} /\ ReqS0 = {}
         \/ \E i \in Req!Idx : \E t \in Task :
              Req!S0Out = {i} /\ ReqS0 = {t} /\ reqEntries[i].task = {t}
<1>1. CASE Req!S0Out = {}
  BY <1>1 DEF ReqS0
<1>2. CASE Req!S0Out # {}
  <2>1. PICK i \in Req!Idx, t \in Task : Req!S0Out = {i} /\ reqEntries[i].task = {t}
    BY <1>2, ReqP!S0OutOne, ReqSame
  <2> QED BY <2>1 DEF ReqS0
<1> QED BY <1>1, <1>2

LEMMA HprSends ==
  ASSUME HprP!BufInv
  PROVE  \/ Hpr!S0Out = {} /\ HprS0 = {}
         \/ \E i \in Hpr!Idx : \E t \in Task :
              Hpr!S0Out = {i} /\ HprS0 = {t} /\ hprEntries[i].task = {t}
<1>1. CASE Hpr!S0Out = {}
  BY <1>1 DEF HprS0
<1>2. CASE Hpr!S0Out # {}
  <2>1. PICK i \in Hpr!Idx, t \in Task : Hpr!S0Out = {i} /\ hprEntries[i].task = {t}
    BY <1>2, HprP!S0OutOne, HprSame
  <2> QED BY <2>1 DEF HprS0
<1> QED BY <1>1, <1>2

LEMMA OneTask ==
  ASSUME ReqP!BufInv, HprP!BufInv
  PROVE  TaskS0 \in Wire(Task)
BY ReqSends, HprSends DEF TaskS0, Wire

-----------------------------------------------------------------------------
(* A step of the frontend is a legal edge of each of its parts *)

LEMMA OneInS1 ==
  ASSUME OneJudged
  PROVE  st \in Wire(Task)
BY DEF OneJudged, Wire

LEMMA RetryBool ==
  ASSUME NEW in
  PROVE  Retry(in) \in BOOLEAN
BY DEF Retry, BlkAny, BlkPos, BlkDir, BlkResp, BlkByDb, ShouldResp, BlockS1, S1Is

\* One address at most is looked up per cycle, and a task that the table blocks
\* in s1 is retried, because it really is in Block's register.
LEMMA PosEdge ==
  ASSUME FrontInv, NEW in \in Inputs, Tick(in)
  PROVE  Edge(PosIn(in))
<1>1. PosIn(in).alloc \in Wire(Addr)
  <2>1. TaskS0 \in Wire(Task)
    BY OneTask DEF FrontInv
  <2>2. CASE TaskS0 = {}
    BY <2>2 DEF PosIn, Wire
  <2>3. CASE TaskS0 # {}
    <3>1. PICK t \in Task : TaskS0 = {t}
      BY <2>1, <2>3 DEF Wire
    <3>2. PosIn(in).alloc = {AddrOf[t]} /\ AddrOf[t] \in Addr
      BY <3>1, FrontAssumption DEF PosIn
    <3> QED BY <3>2 DEF Wire
  <2> QED BY <2>2, <2>3
<1>2. PosIn(in).retry \in BOOLEAN
  BY RetryBool DEF PosIn
<1>3. /\ in.reqPos \in [PosSets -> Wire(Channel)]
      /\ in.upd \in Wire(UpdChoices) /\ in.clean \in Wire(CleanChoices)
  BY DEF Inputs, ReqPosChoices
<1>4. PosIn(in) \in PosInputs
  BY <1>1, <1>2, <1>3 DEF PosIn, PosInputs
<1>5. RetriesBlocked(PosIn(in))
  <2> SUFFICES ASSUME BlockS1(PosIn(in)), NEW s \in PosSets, s1[s].hnIdxValid
               PROVE  Retry(in)
    BY DEF RetriesBlocked, PosIn
  <2>1. st # {}
    BY DEF FrontInv, TableFollows
  <2>2. BlkPos(in)
    BY DEF BlkPos, BlockS1, PosIn
  <2> QED BY <2>1, <2>2 DEF Retry, BlkAny
<1>6. PosTick(PosIn(in))
  BY DEF Tick
<1>7. HoldTick(PosIn(in))
  <2> DEFINE R(i, s) == {w \in repl[s] : CleanHit(i, s, w) = {}}
                          \cup (IF ReqPosFire(i, s) THEN {ReplSelWay(i, s)} ELSE {})
  <2>1. /\ PosIn(in).reqPos = in.reqPos /\ PosIn(in).upd = in.upd
        /\ PosIn(in).clean = in.clean
    BY DEF PosIn
  <2>2. \A s, w : CleanHit(PosIn(in), s, w) = CleanHit(in, s, w)
    BY <2>1 DEF CleanHit
  <2>3. ASSUME NEW s
        PROVE  /\ ReplSelWay(PosIn(in), s) = ReplSelWay(in, s)
               /\ ReqPosFire(PosIn(in), s) = ReqPosFire(in, s)
    BY <2>1, Zenon DEF ReplSelWay, ReqPosFire
  <2>4. ASSUME NEW s PROVE R(PosIn(in), s) = R(in, s)
    <3>1. {w \in repl[s] : CleanHit(PosIn(in), s, w) = {}}
            = {w \in repl[s] : CleanHit(in, s, w) = {}}
      BY <2>2
    <3>2. (IF ReqPosFire(PosIn(in), s) THEN {ReplSelWay(PosIn(in), s)} ELSE {})
            = (IF ReqPosFire(in, s) THEN {ReplSelWay(in, s)} ELSE {})
      BY <2>3, Zenon
    <3> QED BY <3>1, <3>2, Zenon
  <2>5. /\ hold' = [s \in PosSets |->
                      IF \E u \in in.upd : u.set = s THEN {}
                      ELSE IF s1[s].posResp # {} THEN s1[s].posResp ELSE hold[s]]
        /\ repl' = [s \in PosSets |-> R(in, s)]
    BY DEF Tick, HoldTick
  <2>6. repl' = [s \in PosSets |-> R(PosIn(in), s)]
    <3> HIDE DEF R
    <3> QED BY <2>4, <2>5
  <2> QED BY <2>1, <2>5, <2>6 DEF HoldTick
<1> QED BY <1>4, <1>5, <1>6, <1>7 DEF Edge

\* The two buffers get inputs of the kind they are proved for.
LEMMA ReqEdge ==
  ASSUME FrontInv, NEW in \in Inputs, Tick(in)
  PROVE  ReqIn(in) \in ReqP!BufInputs /\ ReqP!BufTick(ReqIn(in))
<1>1. in.req \in Wire(Task) /\ wakeup \in Wire(Addr)
  BY DEF Inputs, FrontInv, PosInv, PosTypeOK, Wire
<1>2. SelectReq \in BOOLEAN /\ SleepS1 \in BOOLEAN /\ Retry(in) \in BOOLEAN
  <2>1. reqLock \in BOOLEAN /\ hprLock \in BOOLEAN
    BY DEF FrontInv, ReqP!BufInv, ReqP!BufTypeOK, HprP!BufInv, HprP!BufTypeOK
  <2> QED BY <2>1, RetryBool DEF SelectReq, SleepS1
<1>3. ReqIn(in) \in ReqP!BufInputs
  BY <1>1, <1>2 DEF ReqIn, ReqP!BufInputs, ReqP!OptOf, Wire
<1> QED BY <1>3, ReqTickSame DEF Tick

LEMMA HprEdge ==
  ASSUME FrontInv, NEW in \in Inputs, Tick(in)
  PROVE  HprIn(in) \in HprP!BufInputs /\ HprP!BufTick(HprIn(in))
<1>1. in.hpr \in Wire(Task) /\ wakeup \in Wire(Addr)
  BY FrontAssumption DEF Inputs, FrontInv, PosInv, PosTypeOK, Wire
<1>2. SleepS1 \in BOOLEAN /\ Retry(in) \in BOOLEAN
  BY RetryBool DEF SleepS1
<1>3. HprIn(in) \in HprP!BufInputs
  BY <1>1, <1>2 DEF HprIn, HprP!BufInputs, HprP!OptOf, Wire
<1> QED BY <1>3, HprTickSame DEF Tick

-----------------------------------------------------------------------------
(* The three registers of s1 follow what s0 sent *)

LEMMA ReqWaits ==
  ASSUME FrontInv, NEW in \in Inputs, Tick(in), NEW i \in Req!Idx
  PROVE  /\ reqEntries'[i].state = "Wait" <=> SelectReq /\ i \in Req!S0Out
         /\ reqEntries'[i].state = "Wait" => reqEntries'[i].task = reqEntries[i].task
<1>1. ReqP!BufInv /\ ReqP!BufTick(ReqIn(in)) /\ i \in ReqP!Idx /\ ReqIn(in).s0Rdy = SelectReq
  BY ReqEdge, ReqSame DEF FrontInv, ReqIn
<1> QED BY <1>1, ReqP!WaitsNext, ReqSame

LEMMA HprWaits ==
  ASSUME FrontInv, NEW in \in Inputs, Tick(in), NEW i \in Hpr!Idx
  PROVE  /\ hprEntries'[i].state = "Wait" <=> i \in Hpr!S0Out
         /\ hprEntries'[i].state = "Wait" => hprEntries'[i].task = hprEntries[i].task
<1>1. HprP!BufInv /\ HprP!BufTick(HprIn(in)) /\ i \in HprP!Idx /\ HprIn(in).s0Rdy = TRUE
  BY HprEdge, HprSame DEF FrontInv, HprIn
<1> QED BY <1>1, HprP!WaitsNext, HprSame

\* The entry that is sent waits, and nobody else does.
LEMMA OneJudgedStep ==
  ASSUME FrontInv, NEW in \in Inputs, Tick(in)
  PROVE  OneJudged'
<1>0. st' = TaskS0 /\ Req!Idx' = Req!Idx /\ Hpr!Idx' = Hpr!Idx
  BY DEF Tick, Req!Idx, Hpr!Idx
<1>1. Waiting' = {<<"req", i>> : i \in {j \in Req!Idx : SelectReq /\ j \in Req!S0Out}}
                   \cup {<<"hpr", i>> : i \in {j \in Hpr!Idx : j \in Hpr!S0Out}}
  <2>1. Waiting' = {<<"req", i>> : i \in {j \in Req!Idx : reqEntries'[j].state = "Wait"}}
                     \cup {<<"hpr", i>> : i \in {j \in Hpr!Idx : hprEntries'[j].state = "Wait"}}
    BY <1>0 DEF Waiting
  <2>2. {j \in Req!Idx : reqEntries'[j].state = "Wait"} = {j \in Req!Idx : SelectReq /\ j \in Req!S0Out}
    BY ReqWaits
  <2>3. {j \in Hpr!Idx : hprEntries'[j].state = "Wait"} = {j \in Hpr!Idx : j \in Hpr!S0Out}
    BY HprWaits
  <2> QED BY <2>1, <2>2, <2>3
<1>2. CASE SelectReq
  <2>1. Hpr!S0Out = {}
    BY <1>2, HprSends DEF SelectReq, FrontInv
  <2>2. st' = ReqS0
    BY <1>0, <1>2 DEF TaskS0
  <2>3. CASE Req!S0Out = {} /\ ReqS0 = {}
    BY <1>1, <2>1, <2>2, <2>3 DEF OneJudged
  <2>4. ASSUME NEW i \in Req!Idx, NEW t \in Task,
               Req!S0Out = {i}, ReqS0 = {t}, reqEntries[i].task = {t}
        PROVE  OneJudged'
    <3>1. Waiting' = {<<"req", i>>}
      BY <1>1, <1>2, <2>1, <2>4
    <3>2. EntryOf(<<"req", i>>)' = reqEntries'[i]
      BY DEF EntryOf
    <3>3. reqEntries'[i].task = {t}
      BY <1>2, <2>4, ReqWaits
    <3> QED BY <2>2, <2>4, <3>1, <3>2, <3>3 DEF OneJudged
  <2> QED BY <2>3, <2>4, ReqSends DEF FrontInv
<1>3. CASE ~SelectReq
  <2>1. st' = HprS0
    BY <1>0, <1>3 DEF TaskS0
  <2>2. CASE Hpr!S0Out = {} /\ HprS0 = {}
    BY <1>1, <1>3, <2>1, <2>2 DEF OneJudged
  <2>3. ASSUME NEW i \in Hpr!Idx, NEW t \in Task,
               Hpr!S0Out = {i}, HprS0 = {t}, hprEntries[i].task = {t}
        PROVE  OneJudged'
    <3>1. Waiting' = {<<"hpr", i>>}
      BY <1>1, <1>3, <2>3
    <3>2. EntryOf(<<"hpr", i>>)' = hprEntries'[i]
      BY DEF EntryOf
    <3>3. hprEntries'[i].task = {t}
      BY <2>3, HprWaits
    <3> QED BY <2>1, <2>3, <3>1, <3>2, <3>3 DEF OneJudged
  <2> QED BY <2>2, <2>3, HprSends DEF FrontInv
<1> QED BY <1>2, <1>3

\* What the table looked up for a set is the task that Block's register takes.
LEMMA LookedUp ==
  ASSUME FrontInv, NEW in \in Inputs, Tick(in), NEW s \in PosSets
  PROVE  AllocS0(PosIn(in), s) = {a \in {AddrOf[t] : t \in st'} : SetOf[a] = s}
BY DEF Tick, AllocS0, PosIn

LEMMA TableFollowsStep ==
  ASSUME FrontInv, NEW in \in Inputs, Tick(in)
  PROVE  TableFollows'
<1> SUFFICES ASSUME NEW s \in PosSets
             PROVE  /\ s1'[s].hnIdxValid <=> \E t \in st' : SetOf[AddrOf[t]] = s
                    /\ s1'[s].alloc \subseteq {AddrOf[t] : t \in st'}
                    /\ s1'[s].alloc = {} /\ s1'[s].hnIdxValid => s1'[s].block
                    /\ s1'[s].sleep => s1'[s].block
  BY DEF TableFollows
<1> DEFINE a0 == AllocS0(PosIn(in), s)
<1>1. /\ s1'[s].alloc = IF \E a \in a0 : BlockS0(PosIn(in), s, a) THEN {} ELSE a0
      /\ s1'[s].sleep <=> \E a \in a0 : MatTag(s, a) # {}
      /\ s1'[s].block <=> \E a \in a0 : BlockS0(PosIn(in), s, a)
      /\ s1'[s].hnIdxValid <=> a0 # {}
  <2>0. Edge(PosIn(in)) /\ PosInv
    BY PosEdge DEF FrontInv
  <2>1. s1'[s].alloc = IF \E a \in a0 : BlockS0(PosIn(in), s, a) THEN {} ELSE a0
    BY <2>0, EdgeS1
  <2>2. s1'[s].sleep <=> \E a \in a0 : MatTag(s, a) # {}
    BY <2>0, EdgeSleep
  <2>3. s1'[s].block <=> \E a \in a0 : BlockS0(PosIn(in), s, a)
    BY <2>0, EdgeS1
  <2>4. s1'[s].hnIdxValid <=> a0 # {}
    BY <2>0, EdgeS1
  <2> QED BY <2>1, <2>2, <2>3, <2>4
<1>2. a0 = {a \in {AddrOf[t] : t \in st'} : SetOf[a] = s}
  BY LookedUp
<1> HIDE DEF a0
<1> QED BY <1>1, <1>2 DEF BlockS0

\* The pulse that rises with the verdict is that of a slot the look-up met.
LEMMA WakeBlocksStep ==
  ASSUME FrontInv, NEW in \in Inputs, Tick(in)
  PROVE  WakeBlocks'
<1> SUFFICES ASSUME NEW t \in st', AddrOf[t] \in wakeup'
             PROVE  s1'[SetOf[AddrOf[t]]].block
  BY DEF WakeBlocks
<1> DEFINE a == AddrOf[t]
           s == SetOf[a]
<1>1. Edge(PosIn(in)) /\ PosInv
  BY PosEdge DEF FrontInv
<1>2. a \in Addr /\ MatTag(s, a) # {}
  BY <1>1, WakeOrigin
<1>3. s \in PosSets
  BY <1>2, PosAssumption
<1>4. a \in AllocS0(PosIn(in), s)
  BY <1>3, LookedUp
<1>5. BlockS0(PosIn(in), s, a)
  BY <1>2 DEF BlockS0
<1> QED BY <1>1, <1>3, <1>4, <1>5, EdgeS1

\* An address that had an owner has one after the edge, or the pulse.
LEMMA CauseStays ==
  ASSUME FrontInv, NEW in \in Inputs, Tick(in), NEW a \in Addr, Owners(a) # {}
  PROVE  Owners(a)' # {} \/ wakeup' = {a}
BY PosEdge, ReleaseStep DEF FrontInv

LEMMA SleepHasCauseStep ==
  ASSUME FrontInv, NEW in \in Inputs, Tick(in)
  PROVE  SleepHasCause'
<1> SUFFICES ASSUME NEW t \in st', s1'[SetOf[AddrOf[t]]].sleep
             PROVE  Owners(AddrOf[t])' # {} \/ wakeup' = {AddrOf[t]}
  BY DEF SleepHasCause
<1> DEFINE a == AddrOf[t]
           s == SetOf[a]
<1>1. Edge(PosIn(in)) /\ PosInv
  BY PosEdge DEF FrontInv
<1>2. t \in Task
  BY OneTask DEF Tick, FrontInv, Wire
<1>3. a \in Addr /\ s \in PosSets
  BY <1>2, FrontAssumption, PosAssumption
<1>4. PICK b \in AllocS0(PosIn(in), s) : MatTag(s, b) # {}
  BY <1>1, <1>3, EdgeSleep
<1>5. b = a
  <2>1. TaskS0 = {t}
    BY OneTask DEF Tick, FrontInv, Wire
  <2> QED BY <1>4, <2>1 DEF AllocS0, PosIn
<1>6. Owners(a) # {}
  <2>1. PICK w \in Ways : Valid(slot[s][w]) /\ a \in slot[s][w].tag
    BY <1>4, <1>5 DEF MatTag
  <2>2. <<s, w>> \in Owners(a)
    BY <1>3, <2>1 DEF Owners
  <2> QED BY <2>2
<1> QED BY <1>3, <1>6, CauseStays

-----------------------------------------------------------------------------
(* No wakeup is lost *)

\* The sleep that the buffers see is about the task in s1.
LEMMA JudgedCause ==
  ASSUME FrontInv, SleepS1, NEW t \in st
  PROVE  Owners(AddrOf[t]) # {} \/ wakeup = {AddrOf[t]}
<1>1. PICK s \in PosSets : s1[s].sleep
  BY DEF SleepS1
<1>2. s1[s].hnIdxValid
  BY <1>1 DEF FrontInv, PosInv, PulsesTogether
<1>3. SetOf[AddrOf[t]] = s
  <2>1. st = {t}
    BY OneInS1 DEF FrontInv, Wire
  <2> QED BY <1>2, <2>1 DEF FrontInv, TableFollows
<1> QED BY <1>1, <1>3 DEF FrontInv, SleepHasCause

\* A waiting entry holds the task in s1.
LEMMA ReqJudged ==
  ASSUME FrontInv, NEW i \in Req!Idx, reqEntries[i].state = "Wait"
  PROVE  reqEntries[i].task = st /\ st # {}
<1>1. <<"req", i>> \in Waiting /\ EntryOf(<<"req", i>>) = reqEntries[i]
  BY DEF Waiting, EntryOf
<1> QED BY <1>1 DEF FrontInv, OneJudged

LEMMA HprJudged ==
  ASSUME FrontInv, NEW i \in Hpr!Idx, hprEntries[i].state = "Wait"
  PROVE  hprEntries[i].task = st /\ st # {}
<1>1. <<"hpr", i>> \in Waiting /\ EntryOf(<<"hpr", i>>) = hprEntries[i]
  BY DEF Waiting, EntryOf
<1> QED BY <1>1 DEF FrontInv, OneJudged

LEMMA ReqSleeps ==
  ASSUME FrontInv, NEW in \in Inputs, Tick(in), NEW i \in Req!Idx, reqEntries'[i].state = "Sleep",
         NEW t \in reqEntries'[i].task
  PROVE  Owners(AddrOf[t]) # {}
<1>1. ReqP!BufInv /\ ReqP!BufTick(ReqIn(in)) /\ i \in ReqP!Idx
  BY ReqEdge, ReqSame DEF FrontInv
<1>2. /\ reqEntries[i].state = "Sleep" \/ (reqEntries[i].state = "Wait" /\ ReqIn(in).sleep)
      /\ ~ReqP!WakeHit(ReqIn(in), i)
      /\ reqEntries'[i].task = reqEntries[i].task
  BY <1>1, ReqP!SleepsNext, ReqSame
<1>3. wakeup # {AddrOf[t]} /\ (ReqIn(in).sleep <=> SleepS1)
  BY <1>2 DEF ReqP!WakeHit, ReqP!UseAddr, ReqIn
<1>4. AddrOf[t] \in Addr
  BY <1>1, <1>2, FrontAssumption DEF ReqP!BufInv, ReqP!BufTypeOK, ReqP!Entry, ReqP!OptOf
<1>5. CASE reqEntries[i].state = "Sleep"
  <2>1. Sleeping(AddrOf[t])
    BY <1>2, <1>5 DEF Sleeping
  <2> QED BY <1>3, <1>4, <2>1 DEF FrontInv, NoLostWakeup
<1>6. CASE reqEntries[i].state = "Wait" /\ ReqIn(in).sleep
  BY <1>2, <1>3, <1>6, ReqJudged, JudgedCause
<1> QED BY <1>2, <1>5, <1>6

LEMMA HprSleeps ==
  ASSUME FrontInv, NEW in \in Inputs, Tick(in), NEW i \in Hpr!Idx, hprEntries'[i].state = "Sleep",
         NEW t \in hprEntries'[i].task
  PROVE  Owners(AddrOf[t]) # {}
<1>1. HprP!BufInv /\ HprP!BufTick(HprIn(in)) /\ i \in HprP!Idx
  BY HprEdge, HprSame DEF FrontInv
<1>2. /\ hprEntries[i].state = "Sleep" \/ (hprEntries[i].state = "Wait" /\ HprIn(in).sleep)
      /\ ~HprP!WakeHit(HprIn(in), i)
      /\ hprEntries'[i].task = hprEntries[i].task
  BY <1>1, HprP!SleepsNext, HprSame
<1>3. wakeup # {AddrOf[t]} /\ (HprIn(in).sleep <=> SleepS1)
  BY <1>2 DEF HprP!WakeHit, HprP!UseAddr, HprIn
<1>4. AddrOf[t] \in Addr
  BY <1>1, <1>2, FrontAssumption DEF HprP!BufInv, HprP!BufTypeOK, HprP!Entry, HprP!OptOf
<1>5. CASE hprEntries[i].state = "Sleep"
  <2>1. Sleeping(AddrOf[t])
    BY <1>2, <1>5 DEF Sleeping
  <2> QED BY <1>3, <1>4, <2>1 DEF FrontInv, NoLostWakeup
<1>6. CASE hprEntries[i].state = "Wait" /\ HprIn(in).sleep
  BY <1>2, <1>3, <1>6, HprJudged, JudgedCause
<1> QED BY <1>2, <1>5, <1>6

LEMMA NoLostWakeupStep ==
  ASSUME FrontInv, NEW in \in Inputs, Tick(in)
  PROVE  NoLostWakeup'
<1> SUFFICES ASSUME NEW a \in Addr, Sleeping(a)'
             PROVE  Owners(a)' # {} \/ wakeup' = {a}
  BY DEF NoLostWakeup
<1>1. CASE \E i \in Req!Idx : reqEntries'[i].state = "Sleep"
                            /\ \E t \in reqEntries'[i].task : AddrOf[t] = a
  BY <1>1, ReqSleeps, CauseStays
<1>2. CASE \E i \in Hpr!Idx : hprEntries'[i].state = "Sleep"
                            /\ \E t \in hprEntries'[i].task : AddrOf[t] = a
  BY <1>2, HprSleeps, CauseStays
<1>3. Req!Idx' = Req!Idx /\ Hpr!Idx' = Hpr!Idx
  BY DEF Req!Idx, Hpr!Idx
<1> QED BY <1>1, <1>2, <1>3 DEF Sleeping

-----------------------------------------------------------------------------
(* The invariant *)

LEMMA FrontInvInit == FrontInit => FrontInv
<1> SUFFICES ASSUME FrontInit PROVE FrontInv
  OBVIOUS
<1>1. PosInv
  BY PosInvInit DEF FrontInit
<1>2. ReqP!BufInv
  <2>1. ReqP!BufInit
    BY Zenon DEF FrontInit, Req!BufInit, ReqP!BufInit, Req!Idx, ReqP!Idx, Req!EmptyEntry, ReqP!EmptyEntry
  <2> QED BY <2>1, ReqSame, ReqP!BufInvInit
<1>3. HprP!BufInv
  <2>1. HprP!BufInit
    BY Zenon DEF FrontInit, Hpr!BufInit, HprP!BufInit, Hpr!Idx, HprP!Idx, Hpr!EmptyEntry, HprP!EmptyEntry
  <2> QED BY <2>1, HprSame, HprP!BufInvInit
<1>4. /\ \A i \in Req!Idx : reqEntries[i].state = "Free"
      /\ \A i \in Hpr!Idx : hprEntries[i].state = "Free"
  BY DEF FrontInit, Req!BufInit, Req!EmptyEntry, Hpr!BufInit, Hpr!EmptyEntry
<1>5. OneJudged
  BY <1>4 DEF FrontInit, OneJudged, Waiting
<1>6. NoLostWakeup
  BY <1>4 DEF NoLostWakeup, Sleeping
<1>7. TableFollows /\ WakeBlocks /\ SleepHasCause
  BY DEF FrontInit, PosInit, IdleS1, TableFollows, WakeBlocks, SleepHasCause
<1> QED BY <1>1, <1>2, <1>3, <1>5, <1>6, <1>7 DEF FrontInv

LEMMA FrontInvStep == FrontInv /\ [FrontNext]_frontVars => FrontInv'
<1> SUFFICES ASSUME FrontInv, [FrontNext]_frontVars PROVE FrontInv'
  OBVIOUS
<1>1. CASE FrontNext
  <2>1. PICK in \in Inputs : Tick(in)
    BY <1>1 DEF FrontNext
  <2>2. PosInv'
    <3>1. PosNext
      BY <2>1, PosEdge DEF Edge, PosNext
    <3> QED BY <3>1, PosInvStep DEF FrontInv
  <2>3. ReqP!BufInv'
    <3>1. ReqP!BufNext
      BY <2>1, ReqEdge DEF ReqP!BufNext
    <3> QED BY <3>1, ReqSame, ReqP!BufInvStep DEF FrontInv
  <2>4. HprP!BufInv'
    <3>1. HprP!BufNext
      BY <2>1, HprEdge DEF HprP!BufNext
    <3> QED BY <3>1, HprSame, HprP!BufInvStep DEF FrontInv
  <2> QED BY <2>1, <2>2, <2>3, <2>4, OneJudgedStep, TableFollowsStep, WakeBlocksStep,
             SleepHasCauseStep, NoLostWakeupStep DEF FrontInv
<1>2. CASE UNCHANGED frontVars
  <2>1. PosInv'
    BY <1>2, PosInvStep DEF frontVars, FrontInv
  <2>2. ReqP!BufInv'
    BY <1>2, ReqSame, ReqP!BufInvStep DEF frontVars, FrontInv, ReqP!bufVars
  <2>3. HprP!BufInv'
    BY <1>2, HprSame, HprP!BufInvStep DEF frontVars, FrontInv, HprP!bufVars
  <2>4. OneJudged' /\ NoLostWakeup'
    BY <1>2 DEF frontVars, posVars, FrontInv, OneJudged, NoLostWakeup, Waiting, EntryOf, Sleeping,
                Owners, Req!Idx, Hpr!Idx
  <2>5. TableFollows' /\ WakeBlocks' /\ SleepHasCause'
    BY <1>2 DEF frontVars, posVars, FrontInv, TableFollows, WakeBlocks, SleepHasCause, Owners
  <2> QED BY <2>1, <2>2, <2>3, <2>4, <2>5 DEF FrontInv
<1> QED BY <1>1, <1>2

\* The inductive invariant of the frontend.
THEOREM FrontInvariant == FrontSpec => []FrontInv
BY FrontInvInit, FrontInvStep, PTL DEF FrontSpec

-----------------------------------------------------------------------------
(* What follows of the table *)

\* The frontend implements the PoS table's specification.
THEOREM FrontImplementsPos == FrontSpec => PosSpec
<1>1. FrontInit => PosInit
  BY DEF FrontInit
<1>2. FrontInv /\ [FrontNext]_frontVars => [PosNext]_posVars
  BY PosEdge DEF frontVars, FrontNext, Edge, PosNext
<1> QED BY <1>1, <1>2, FrontInvariant, PTL DEF FrontSpec, PosSpec

\* With any number of tasks, entries, sets and ways, and whatever the victims:
\* at most one request is served per line, and a line is never handed over from
\* one request to another without a release.
THEOREM FrontSerialises == FrontSpec => []Serialised
BY FrontImplementsPos, PosSerialises, PTL

\* The assembled frontend implements the lock per address: a request becomes the
\* owner of a free address that no replacement may be about to name.
THEOREM FrontImplementsLock == FrontSpec => LockSpec
BY FrontImplementsPos, PosImplementsLock, PTL

-----------------------------------------------------------------------------
(* What follows of the buffers *)

\* Inside the frontend, the tasks of an address leave each buffer in the order
\* in which they came to it.
THEOREM FrontKeepsOrder == FrontSpec => ReqP!FifoSpec /\ HprP!FifoSpec
<1>1. FrontInit => ReqP!BufInit
  BY Zenon DEF FrontInit, Req!BufInit, ReqP!BufInit, Req!Idx, ReqP!Idx, Req!EmptyEntry, ReqP!EmptyEntry
<1>2. FrontInit => HprP!BufInit
  BY Zenon DEF FrontInit, Hpr!BufInit, HprP!BufInit, Hpr!Idx, HprP!Idx, Hpr!EmptyEntry, HprP!EmptyEntry
<1>3. FrontInv /\ [FrontNext]_frontVars => [ReqP!BufNext]_ReqP!bufVars
  BY ReqEdge DEF frontVars, FrontNext, ReqP!BufNext, ReqP!bufVars
<1>4. FrontInv /\ [FrontNext]_frontVars => [HprP!BufNext]_HprP!bufVars
  BY HprEdge DEF frontVars, FrontNext, HprP!BufNext, HprP!bufVars
<1>5. ReqP!BufSpec => ReqP!FifoSpec
  BY ReqSame, ReqP!BufIsFifo
<1>6. HprP!BufSpec => HprP!FifoSpec
  BY HprSame, HprP!BufIsFifo
<1> QED BY <1>1, <1>2, <1>3, <1>4, <1>5, <1>6, FrontInvariant, PTL
        DEF FrontSpec, ReqP!BufSpec, HprP!BufSpec

-----------------------------------------------------------------------------
(* What follows of the frontend itself *)

\* The verdict of s1 reaches exactly the entry it is about.
THEOREM FrontInStep == FrontSpec => []InStep
<1>1. FrontInv => InStep
  <2> SUFFICES ASSUME FrontInv PROVE InStep
    OBVIOUS
  <2>1. Cardinality(Waiting) = Cardinality(st) /\ \A w \in Waiting : EntryOf(w).task = st
    <3>1. CASE st = {} /\ Waiting = {}
      BY <3>1
    <3>2. ASSUME NEW t \in Task, NEW w \in Waiting, st = {t}, Waiting = {w}, EntryOf(w).task = st
          PROVE  Cardinality(Waiting) = Cardinality(st) /\ EntryOf(w).task = st
      <4>1. Cardinality({t}) = 1 /\ Cardinality({w}) = 1
        BY FS_Singleton
      <4> QED BY <3>2, <4>1
    <3> QED BY <3>1, <3>2 DEF FrontInv, OneJudged
  <2> QED BY <2>1 DEF InStep, FrontInv, TableFollows
<1> QED BY <1>1, FrontInvariant, PTL

\* A sleeping task has a live slot of its address to wait for, or its wakeup
\* is on the wire.
THEOREM FrontNoLostWakeup == FrontSpec => []NoLostWakeup
<1>1. FrontInv => NoLostWakeup
  BY DEF FrontInv
<1> QED BY <1>1, FrontInvariant, PTL

\* The entry that a waiting task leaves, or not.
LEMMA FreedIfAccepted ==
  ASSUME FrontInv, NEW in, NEW w \in Waiting
  PROVE  NextStateOf(in, w) = "Free" <=> Accept(in)
<1>1. EntryOf(w).state = "Wait" /\ EntryOf(w).task = st /\ st # {}
  <2>1. EntryOf(w).state = "Wait"
    BY DEF Waiting, EntryOf
  <2> QED BY <2>1 DEF FrontInv, OneJudged
<1>2. PICK t \in Task : st = {t}
  BY <1>1, OneInS1 DEF FrontInv, Wire
<1> DEFINE a == AddrOf[t]
           hit == a \in wakeup
<1>3. a \in Addr /\ SetOf[a] \in PosSets
  BY <1>2, FrontAssumption, PosAssumption
<1>4. NextStateOf(in, w) = "Free" <=> ~hit /\ ~SleepS1 /\ ~Retry(in)
  <2>1. CASE w[1] = "req"
    <3>1. reqEntries[w[2]].state = "Wait" /\ Req!UseAddr(w[2]) = {a}
      BY <1>1, <1>2, <2>1 DEF EntryOf, Req!UseAddr
    <3>2. Req!WakeHit(ReqIn(in), w[2]) <=> hit
      BY <3>1 DEF Req!WakeHit, ReqIn
    <3>3. NextStateOf(in, w) = Req!NextState(ReqIn(in), w[2])
      BY <2>1 DEF NextStateOf
    <3> QED BY <3>1, <3>2, <3>3 DEF Req!NextState, ReqIn
  <2>2. CASE w[1] # "req"
    <3>1. hprEntries[w[2]].state = "Wait" /\ Hpr!UseAddr(w[2]) = {a}
      BY <1>1, <1>2, <2>2 DEF EntryOf, Hpr!UseAddr
    <3>2. Hpr!WakeHit(HprIn(in), w[2]) <=> hit
      BY <3>1 DEF Hpr!WakeHit, HprIn
    <3>3. NextStateOf(in, w) = Hpr!NextState(HprIn(in), w[2])
      BY <2>2 DEF NextStateOf
    <3> QED BY <3>1, <3>2, <3>3 DEF Hpr!NextState, HprIn
  <2> QED BY <2>1, <2>2
<1>5. hit => BlkPos(in)
  BY <1>2, <1>3 DEF FrontInv, WakeBlocks, BlkPos, BlockS1
<1>6. SleepS1 => BlkPos(in)
  BY DEF FrontInv, TableFollows, SleepS1, BlkPos, BlockS1
<1> HIDE DEF hit
<1> QED BY <1>1, <1>4, <1>5, <1>6 DEF Retry, Accept, BlkAny

\* The slot that the table takes for it, or not.
LEMMA TakenIfAccepted ==
  ASSUME FrontInv, NEW in
  PROVE  SlotTaken(in) <=> Accept(in)
<1>1. ASSUME NEW s \in PosSets, NEW w \in Ways, in.reqPos[s] = {}, TakesSlot(PosIn(in), s, w)
      PROVE  Accept(in)
  <2>1. s1[s].alloc # {} /\ ~Retry(in)
    BY <1>1 DEF TakesSlot, PosIn
  <2>2. st # {}
    BY <2>1 DEF FrontInv, TableFollows
  <2> QED BY <2>1, <2>2 DEF Retry, Accept
<1>2. ASSUME Accept(in) PROVE SlotTaken(in)
  <2>1. PICK t \in Task : st = {t}
    BY <1>2, OneInS1 DEF FrontInv, Wire, Accept
  <2> DEFINE s == SetOf[AddrOf[t]]
  <2>2. s \in PosSets
    BY FrontAssumption, PosAssumption
  <2>3. ~s1[s].block /\ in.reqPos[s] = {}
    BY <1>2, <2>2 DEF Accept, BlkAny, BlkPos, BlockS1
  <2>4. s1[s].alloc # {}
    BY <2>1, <2>2, <2>3 DEF FrontInv, TableFollows
  <2>5. s1[s].way \in Ways
    BY <2>2 DEF FrontInv, PosInv, PosTypeOK, SetS1
  <2>6. ~Retry(in)
    BY <1>2 DEF Accept, Retry
  <2>7. TakesSlot(PosIn(in), s, s1[s].way)
    BY <2>3, <2>4, <2>6 DEF TakesSlot, PosIn
  <2> QED BY <2>2, <2>3, <2>5, <2>7 DEF SlotTaken
<1> QED BY <1>1, <1>2 DEF SlotTaken

\* Block's side requests, each with its own formula.
LEMMA SidesIfAccepted ==
  ASSUME FrontInv, NEW in \in Verdicts
  PROVE  /\ (ReadDir(in) /\ in.rdy.dir)   <=> (Accept(in) /\ S1Is("cacheable"))
         /\ (ReqDB(in) /\ in.rdy.db)      <=> (Accept(in) /\ S1Is("sDbid"))
         /\ (FastResp(in) /\ in.rdy.resp) <=> (Accept(in) /\ (S1Is("sReceipt") \/ S1Is("sDbid")))
<1>1. ~(S1Is("sReceipt") /\ S1Is("sDbid"))
  <2> SUFFICES ASSUME NEW t \in st, NEW u \in st, Kind[t]["sReceipt"], Kind[u]["sDbid"] PROVE FALSE
    BY DEF S1Is
  <2>1. t = u /\ t \in Task
    BY OneInS1 DEF FrontInv, Wire
  <2>2. ~(Kind[t].sReceipt /\ Kind[t].sDbid)
    BY <2>1, FrontAssumption
  <2> QED BY <2>1, <2>2
<1> DEFINE c == S1Is("cacheable")
           r == S1Is("sReceipt")
           d == S1Is("sDbid")
           pos == BlkPos(in)
           rdyDir == in.rdy.dir
           rdyDb == in.rdy.db
           rdyResp == in.rdy.resp
<1>2. rdyDir \in BOOLEAN /\ rdyDb \in BOOLEAN /\ rdyResp \in BOOLEAN
  BY DEF Verdicts, Rdy
<1>3. /\ ReadDir(in)  <=> st # {} /\ c /\ ~(pos \/ BlkResp(in))
      /\ ReqDB(in)    <=> st # {} /\ d /\ rdyResp /\ ~(pos \/ BlkDir(in))
      /\ FastResp(in) <=> st # {} /\ (r \/ (d /\ rdyDb)) /\ ~(pos \/ BlkDir(in))
      /\ Accept(in)   <=> st # {} /\ ~(pos \/ BlkDir(in) \/ BlkResp(in))
      /\ BlkDir(in)   <=> c /\ ~rdyDir
      /\ BlkResp(in)  <=> (d /\ ~rdyDb) \/ ((r \/ (d /\ rdyDb)) /\ ~rdyResp)
  BY DEF ReadDir, ReqDB, FastResp, Accept, BlkAny, BlkDir, BlkResp, BlkByDb, ShouldResp
<1>4. ~(r /\ d)
  BY <1>1
<1> HIDE DEF c, r, d, pos, rdyDir, rdyDb, rdyResp
<1>5. (ReadDir(in) /\ rdyDir) <=> (Accept(in) /\ c)
  BY <1>3
<1>6. (ReqDB(in) /\ rdyDb) <=> (Accept(in) /\ d)
  BY <1>3, <1>4
<1>7. (FastResp(in) /\ rdyResp) <=> (Accept(in) /\ (r \/ d))
  BY <1>3, <1>4
<1> QED BY <1>5, <1>6, <1>7 DEF c, r, d, rdyDir, rdyDb, rdyResp

\* Whichever of the four sides is not ready, all of them reach one verdict.
THEOREM FrontAgreement == FrontSpec => []Agreement
<1>1. FrontInv => Agreement
  <2> SUFFICES ASSUME FrontInv, NEW in \in Verdicts
               PROVE  /\ \A w \in Waiting : (NextStateOf(in, w) = "Free") = Accept(in)
                      /\ SlotTaken(in) = Accept(in)
                      /\ (ReadDir(in) /\ in.rdy.dir)   = (Accept(in) /\ S1Is("cacheable"))
                      /\ (ReqDB(in) /\ in.rdy.db)      = (Accept(in) /\ S1Is("sDbid"))
                      /\ (FastResp(in) /\ in.rdy.resp) = (Accept(in) /\ (S1Is("sReceipt") \/ S1Is("sDbid")))
    BY DEF Agreement
  <2>1. Accept(in) \in BOOLEAN /\ SlotTaken(in) \in BOOLEAN
    BY DEF Accept, SlotTaken
  <2>2. \A w \in Waiting : (NextStateOf(in, w) = "Free") = Accept(in)
    BY <2>1, FreedIfAccepted
  <2>3. SlotTaken(in) = Accept(in)
    BY <2>1, TakenIfAccepted
  <2>4. /\ (ReadDir(in) /\ in.rdy.dir)   = (Accept(in) /\ S1Is("cacheable"))
        /\ (ReqDB(in) /\ in.rdy.db)      = (Accept(in) /\ S1Is("sDbid"))
        /\ (FastResp(in) /\ in.rdy.resp) = (Accept(in) /\ (S1Is("sReceipt") \/ S1Is("sDbid")))
    BY SidesIfAccepted
  <2> QED BY <2>2, <2>3, <2>4
<1> QED BY <1>1, FrontInvariant, PTL

\* What becomes of a waiting entry is the verdict it is given.
LEMMA WaitingMoves ==
  ASSUME FrontInv, NEW in \in Inputs, Tick(in), NEW w \in Waiting
  PROVE  EntryOf(w)'.state = NextStateOf(in, w)
<1>1. CASE w[1] = "req"
  <2>1. ReqP!BufInv /\ ReqP!BufTick(ReqIn(in)) /\ w[2] \in ReqP!Idx
    BY <1>1, ReqEdge, ReqSame DEF FrontInv, Waiting
  <2>2. reqEntries'[w[2]].state = ReqP!NextState(ReqIn(in), w[2])
    BY <2>1, ReqP!BufEdge, ReqP!EntryFields, ReqSame
  <2> QED BY <1>1, <2>2, ReqSame DEF EntryOf, NextStateOf
<1>2. CASE w[1] # "req"
  <2>1. HprP!BufInv /\ HprP!BufTick(HprIn(in)) /\ w[2] \in HprP!Idx
    BY <1>2, HprEdge, HprSame DEF FrontInv, Waiting
  <2>2. hprEntries'[w[2]].state = HprP!NextState(HprIn(in), w[2])
    BY <2>1, HprP!BufEdge, HprP!EntryFields, HprSame
  <2> QED BY <1>2, <2>2, HprSame DEF EntryOf, NextStateOf
<1> QED BY <1>1, <1>2

\* A task that is accepted finds its line unowned and its slot free, and owns
\* the line through that slot alone.
LEMMA EntersAlone ==
  ASSUME FrontInv, NEW in \in Inputs, Tick(in), NEW w \in Waiting, EntryOf(w)'.state = "Free",
         NEW t \in EntryOf(w).task
  PROVE  /\ Owners(AddrOf[t]) = {} /\ Owners(AddrOf[t])' = HnIdx(Quiet)
         /\ \A o \in HnIdx(Quiet) : ~Valid(slot[o[1]][o[2]])
<1> DEFINE a == AddrOf[t]
           s == SetOf[a]
           v == s1[s].way
<1>1. Edge(PosIn(in)) /\ PosInv /\ Accept(in)
  BY PosEdge, WaitingMoves, FreedIfAccepted DEF FrontInv
<1>2. st = {t} /\ t \in Task
  <2>1. EntryOf(w).task = st
    BY DEF FrontInv, OneJudged
  <2> QED BY <2>1, OneInS1 DEF FrontInv, Wire
<1>3. a \in Addr /\ s \in PosSets
  BY <1>2, FrontAssumption, PosAssumption
<1>4. /\ ~s1[s].block /\ in.reqPos[s] = {} /\ ~Retry(in)
  BY <1>1, <1>3 DEF Accept, Retry, BlkAny, BlkPos, BlockS1
<1>5. s1[s].alloc = {a} /\ \A r \in PosSets : s1[r].hnIdxValid <=> r = s
  BY <1>2, <1>3, <1>4 DEF FrontInv, TableFollows
<1>6. HnIdx(Quiet) = {<<s, v>>}
  <2>1. \A r \in PosSets : Quiet.reqPos[r] = {}
    BY DEF Quiet
  <2> QED BY <1>3, <1>5, <2>1 DEF HnIdx
<1>7. /\ v \in Ways /\ ~Valid(slot[s][v]) /\ Owners(a) = {} /\ Owners(a)' \subseteq {<<s, v>>}
  BY <1>1, <1>3, <1>5, Enters
<1>8. <<s, v>> \in Owners(a)'
  <2>1. TakesSlot(PosIn(in), s, v)
    BY <1>4, <1>5 DEF TakesSlot, PosIn
  <2>2. PosIn(in).reqPos[s] = {} /\ PosIn(in) \in PosInputs
    BY <1>1, <1>4, EdgeStep DEF PosIn
  <2>3. Grabbed(PosIn(in), s, v)
    BY <1>1, <1>3, <1>7, <2>1, <2>2, SlotStep DEF Reserved, Tagged, Cleaned, Kept, ReqPosFire
  <2>4. slot'[s][v] = [req |-> TRUE, snp |-> FALSE, tag |-> s1[s].alloc]
    BY <1>1, <1>3, <1>7, <2>3, EdgeSlot DEF Grabbed
  <2>5. Valid(slot'[s][v]) /\ a \in slot'[s][v].tag
    BY <1>5, <2>4 DEF Valid
  <2> HIDE DEF s, v, a
  <2> QED BY <1>3, <1>7, <2>5 DEF Owners
<1> HIDE DEF s, v, a
<1> QED BY <1>6, <1>7, <1>8 DEF a

\* In every behaviour of the frontend a task passes to a line nobody has, under
\* the number of the one slot that has the line from then on.
THEOREM FrontEntersAlone == FrontSpec => EnteredAlone
<1> DEFINE Alone == \A w \in Waiting : EntryOf(w)'.state = "Free" =>
             \A t \in EntryOf(w).task :
               /\ Owners(AddrOf[t]) = {} /\ Owners(AddrOf[t])' = HnIdx(Quiet)
               /\ \A o \in HnIdx(Quiet) : ~Valid(slot[o[1]][o[2]])
<1>1. ASSUME FrontInv, FrontNext PROVE Alone
  <2>1. PICK in \in Inputs : Tick(in)
    BY <1>1 DEF FrontNext
  <2> QED BY <1>1, <2>1, EntersAlone
<1>2. FrontInv /\ [FrontNext]_frontVars => [Alone]_frontVars
  BY <1>1
<1> HIDE DEF Alone
<1>3. FrontSpec => [][Alone]_frontVars
  BY <1>2, FrontInvariant, PTL DEF FrontSpec
<1> QED BY <1>3 DEF EnteredAlone, Alone
=============================================================================
