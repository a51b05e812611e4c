------------------------- MODULE TaskBuffer_proofs -------------------------
(***************************************************************************)
(* Proofs about a task buffer, for every number of entries, tasks and      *)
(* addresses and every retry bound: its types, that s1 never judges two    *)
(* tasks at once, and that its static gate suppresses no change.  The last *)
(* needs the form an idle entry has (IdleForm): whatever a free entry      *)
(* keeps in its registers must be what the suppressed update would write.  *)
(***************************************************************************)
EXTENDS TaskBuffer, Basics_proofs

\* A free entry is in normal form once its release has been seen; its retry
\* counter is zero or saturated.
IdleForm ==
  \A i \in Idx : ~Live(i) =>
    /\ entries[i].nid = 0 /\ ~entries[i].timeout
    /\ entries[i].retryNum \in {0, RetryMax}
    /\ ~entries[i].validD1 => entries[i].task = {}

\* A live entry has a task.
HasTask == \A i \in Idx : Live(i) => entries[i].task # {}

BufInv == BufTypeOK /\ OneWait /\ IdleForm /\ HasTask

\* At most one entry is sent per cycle.
LEMMA SendsOne ==
  ASSUME BufTypeOK, NEW i \in S0Out, NEW j \in S0Out
  PROVE  i = j
BY DEF S0Out

LEMMA S0InIdx == S0In \subseteq Idx
BY DEF S0In

\* A task goes into a free entry, and into one only.
LEMMA FireIsFree ==
  ASSUME NEW in, NEW i, InFire(in, i)
  PROVE  i \in Idx /\ ~Live(i)
<1>1. FreeIdx \in SUBSET Nat
  BY BufAssumption DEF FreeIdx, Idx
<1>2. i \in FreeIdx
  BY <1>1, MinIsLeast DEF InFire
<1> QED BY <1>2 DEF FreeIdx

\* A new task's nid counts entries.
LEMMA InitNidBound ==
  ASSUME NEW in
  PROVE  InitNid(in) \in 0 .. N
<1> DEFINE L == {j \in Idx : Live(j) /\ \E t \in in.task : AddrOf[t] \in UseAddr(j)}
<1>1. IsFiniteSet(Idx) /\ Cardinality(Idx) = N
  BY BufAssumption, FS_Interval DEF Idx
<1>2. IsFiniteSet(L) /\ Cardinality(L) <= N /\ Cardinality(L) \in Nat
  BY <1>1, FS_Subset, FS_CardinalityType
<1> QED BY <1>2, BufAssumption DEF InitNid

\* The next entry, field by field.
LEMMA EntryFields ==
  ASSUME NEW in, NEW i
  PROVE  LET n == NextEntry(in, i) IN
         /\ n.state = NextState(in, i) /\ n.task = NextTask(in, i)
         /\ n.nid = IF NextState(in, i) = "Free" THEN 0 ELSE NextNid(in, i)
         /\ n.retryNum = IF NextState(in, i) = "Free" /\ NextRetryNum(in, i) < RetryMax
                         THEN 0 ELSE NextRetryNum(in, i)
         /\ n.timeout = (NextState(in, i) # "Free" /\ NextTimeout(in, i))
         /\ n.validD1 = Live(i)
         /\ n = [state |-> n.state, task |-> n.task, nid |-> n.nid, retryNum |-> n.retryNum,
                 timeout |-> n.timeout, validD1 |-> n.validD1]
BY DEF NextEntry

\* The initial state is idle.
LEMMA BufInvInit == BufInit => BufInv
<1> SUFFICES ASSUME BufInit PROVE BufInv
  OBVIOUS
<1>1. EmptyEntry \in Entry
  BY BufAssumption DEF EmptyEntry, Entry, OptOf
<1>2. BufTypeOK
  <2>1. entries \in [Idx -> Entry]
    BY <1>1 DEF BufInit
  <2>2. 0 \in Idx
    BY BufAssumption DEF Idx
  <2> QED BY <2>1, <2>2 DEF BufInit, BufTypeOK
<1>3. OneWait /\ IdleForm /\ HasTask
  BY DEF BufInit, OneWait, IdleForm, HasTask, EmptyEntry, Live
<1> QED BY <1>2, <1>3 DEF BufInv

\* The registers keep their types.
LEMMA BufTypeStep ==
  ASSUME BufInv, NEW in \in BufInputs, BufTick(in)
  PROVE  BufTypeOK'
<1>1. ASSUME NEW i \in Idx PROVE NextEntry(in, i) \in Entry
  <2>0. entries[i] \in Entry /\ in.task \in OptOf(Task)
    BY DEF BufInv, BufTypeOK, BufInputs
  <2>1. NextState(in, i) \in {"Free", "Send", "Wait", "Sleep"}
    BY <2>0 DEF NextState, Entry
  <2>2. NextTask(in, i) \in OptOf(Task)
    BY <2>0 DEF NextTask, Entry, OptOf
  <2>3. NextNid(in, i) \in 0 .. N
    BY <2>0, InitNidBound, BufAssumption DEF NextNid, Entry
  <2>4. NextRetryNum(in, i) \in 0 .. RetryMax
    BY <2>0, BufAssumption DEF NextRetryNum, Entry
  <2>5. NextTimeout(in, i) \in BOOLEAN /\ Live(i) \in BOOLEAN
    BY DEF NextTimeout, Live
  <2> HIDE DEF NextState, NextTask, NextNid, NextRetryNum, NextTimeout, Live
  <2> QED BY <2>1, <2>2, <2>3, <2>4, <2>5, BufAssumption DEF NextEntry, Entry
<1>2. entries' \in [Idx -> Entry]
  BY <1>1 DEF BufTick, NextEntries, BufInv, BufTypeOK
<1>3. hasLock' \in BOOLEAN
  BY DEF BufTick
<1>4. vip' \in Idx
  <2>1. vip \in Nat /\ S0In \in SUBSET Nat
    BY S0InIdx, BufAssumption DEF BufInv, BufTypeOK, Idx
  <2>2. vip' \in S0In \cup {vip}
    BY <2>1, VipInRange DEF BufTick
  <2> QED BY <2>2, S0InIdx DEF BufInv, BufTypeOK
<1> QED BY <1>2, <1>3, <1>4 DEF BufTypeOK, Idx

\* An entry after an edge, whether or not the gate was open.
LEMMA GateHarmless ==
  ASSUME BufInv, NEW in, ~BufAny(in)
  PROVE  NextEntries(in) = entries
<1>1. ASSUME NEW i \in Idx PROVE NextEntry(in, i) = entries[i]
  <2>1. ~Live(i) /\ ~entries[i].validD1 /\ ~InFire(in, i)
    BY DEF BufAny
  <2>2. entries[i] \in Entry
    BY DEF BufInv, BufTypeOK
  <2>3. /\ entries[i].state = "Free" /\ entries[i].task = {} /\ entries[i].nid = 0
        /\ entries[i].timeout = FALSE /\ entries[i].validD1 = FALSE
        /\ entries[i].retryNum \in {0, RetryMax}
    BY <2>1, <2>2 DEF Live, BufInv, IdleForm, Entry
  <2>4. NextState(in, i) = "Free"
    BY <2>1, <2>3 DEF NextState
  <2>5. NextTask(in, i) = {}
    BY <2>1 DEF NextTask
  <2>6. NextRetryNum(in, i) = entries[i].retryNum
    BY <2>1, <2>3 DEF NextRetryNum
  <2>7. (IF NextRetryNum(in, i) < RetryMax THEN 0 ELSE NextRetryNum(in, i)) = entries[i].retryNum
    BY <2>3, <2>6, BufAssumption
  <2>8. /\ NextEntry(in, i).state = "Free" /\ NextEntry(in, i).task = {}
        /\ NextEntry(in, i).nid = 0 /\ NextEntry(in, i).timeout = FALSE
        /\ NextEntry(in, i).retryNum = entries[i].retryNum
    BY <2>4, <2>5, <2>7, EntryFields
  <2>9. NextEntry(in, i).validD1 = FALSE
    BY <2>1, EntryFields DEF Live
  <2>10. NextEntry(in, i) = [state |-> "Free", task |-> {}, nid |-> 0,
                            retryNum |-> entries[i].retryNum, timeout |-> FALSE, validD1 |-> FALSE]
    BY <2>8, <2>9, EntryFields
  <2> QED BY <2>2, <2>3, <2>10 DEF Entry
<1> QED BY <1>1 DEF NextEntries, BufInv, BufTypeOK

\* So every edge may be treated as if the update ran.
LEMMA BufEdge ==
  ASSUME BufInv, NEW in, BufTick(in), NEW i \in Idx
  PROVE  entries'[i] = NextEntry(in, i)
<1>1. entries' = NextEntries(in)
  BY GateHarmless DEF BufTick
<1> QED BY <1>1 DEF NextEntries

\* The arbiter and the lock show entries that are ready to be sent only.
LEMMA S0OutIn ==
  ASSUME BufInv
  PROVE  S0Out \subseteq S0In
<1>1. vip \in Nat /\ S0In \in SUBSET Nat
  BY S0InIdx, BufAssumption DEF BufInv, BufTypeOK, Idx
<1>2. S0In # {} => VipChosen(vip, S0In) \in S0In
  BY <1>1, VipInRange
<1> QED BY <1>2 DEF S0Out

\* So s0 sees no entry, or one entry and its task.
LEMMA S0OutOne ==
  ASSUME BufInv
  PROVE  \/ S0Out = {}
         \/ \E i \in Idx : \E t \in Task : S0Out = {i} /\ entries[i].task = {t}
<1>1. ASSUME NEW i \in S0Out PROVE S0Out = {i} /\ i \in Idx /\ \E t \in Task : entries[i].task = {t}
  <2>1. S0Out = {i}
    BY SendsOne DEF BufInv
  <2>2. i \in Idx /\ entries[i].state = "Send"
    BY S0OutIn DEF S0In
  <2>3. entries[i].task # {} /\ entries[i].task \in OptOf(Task)
    BY <2>2 DEF BufInv, BufTypeOK, Entry, HasTask, Live
  <2> QED BY <2>1, <2>2, <2>3 DEF OptOf
<1> QED BY <1>1

\* The entries that wait after an edge are those sent at it, task and all.
LEMMA WaitsNext ==
  ASSUME BufInv, NEW in, BufTick(in), NEW i \in Idx
  PROVE  /\ entries'[i].state = "Wait" <=> in.s0Rdy /\ i \in S0Out
         /\ entries'[i].state = "Wait" => entries'[i].task = entries[i].task
<1>1. entries[i].state \in {"Free", "Send", "Wait", "Sleep"}
  BY DEF BufInv, BufTypeOK, Entry
<1>2. i \in S0Out => entries[i].state = "Send"
  BY S0OutIn DEF S0In
<1>3. entries'[i].state = NextState(in, i) /\ entries'[i].task = NextTask(in, i)
  BY BufEdge, EntryFields
<1>4. NextState(in, i) = "Wait" <=> in.s0Rdy /\ i \in S0Out
  BY <1>1, <1>2 DEF NextState
<1>5. entries[i].state = "Send" => ~InFire(in, i)
  BY FireIsFree DEF Live
<1> QED BY <1>2, <1>3, <1>4, <1>5 DEF NextTask, Live

\* The entries that sleep after an edge were asleep or had just been judged to,
\* and no wakeup for their address was on the wire.
LEMMA SleepsNext ==
  ASSUME BufInv, NEW in, BufTick(in), NEW i \in Idx, entries'[i].state = "Sleep"
  PROVE  /\ entries[i].state = "Sleep" \/ (entries[i].state = "Wait" /\ in.sleep)
         /\ ~WakeHit(in, i)
         /\ entries'[i].task = entries[i].task
<1>1. entries[i].state \in {"Free", "Send", "Wait", "Sleep"}
  BY DEF BufInv, BufTypeOK, Entry
<1>2. entries'[i].state = NextState(in, i) /\ entries'[i].task = NextTask(in, i)
  BY BufEdge, EntryFields
<1>3. /\ entries[i].state = "Sleep" \/ (entries[i].state = "Wait" /\ in.sleep)
      /\ ~WakeHit(in, i)
  BY <1>1, <1>2 DEF NextState
<1>4. ~InFire(in, i)
  BY <1>3, FireIsFree DEF Live
<1> QED BY <1>2, <1>3, <1>4 DEF NextTask, Live

\* A task waits for its verdict for one cycle, and only one is sent per cycle.
LEMMA OneWaitStep ==
  ASSUME BufInv, NEW in, BufTick(in)
  PROVE  OneWait'
<1> SUFFICES ASSUME NEW i \in Idx, NEW j \in Idx,
                    entries'[i].state = "Wait", entries'[j].state = "Wait"
             PROVE  i = j
  BY DEF OneWait, Idx
<1>1. ASSUME NEW k \in Idx, entries'[k].state = "Wait" PROVE k \in S0Out
  <2>1. NextState(in, k) = "Wait"
    BY <1>1, BufEdge, EntryFields
  <2>2. entries[k].state \in {"Free", "Send", "Wait", "Sleep"}
    BY DEF BufInv, BufTypeOK, Entry
  <2>3. entries[k].state = "Send"
    BY <2>1, <2>2 DEF NextState
  <2> QED BY <2>1, <2>3 DEF NextState
<1> QED BY <1>1, SendsOne DEF BufInv

LEMMA IdleFormStep ==
  ASSUME BufInv, NEW in \in BufInputs, BufTick(in)
  PROVE  IdleForm'
<1> SUFFICES ASSUME NEW i \in Idx, entries'[i].state = "Free"
             PROVE  /\ entries'[i].nid = 0 /\ ~entries'[i].timeout
                    /\ entries'[i].retryNum \in {0, RetryMax}
                    /\ ~entries'[i].validD1 => entries'[i].task = {}
  BY DEF IdleForm, Live, Idx
<1>1. entries'[i] = NextEntry(in, i)
  BY BufEdge
<1>2. NextState(in, i) = "Free"
  BY <1>1, EntryFields
<1>3. entries'[i].nid = 0 /\ ~entries'[i].timeout
  BY <1>1, <1>2, EntryFields
<1>4. entries'[i].retryNum \in {0, RetryMax}
  <2>1. entries[i].retryNum \in 0 .. RetryMax
    BY DEF BufInv, BufTypeOK, Entry
  <2>2. NextRetryNum(in, i) \in 0 .. RetryMax
    BY <2>1, BufAssumption DEF NextRetryNum
  <2>3. entries'[i].retryNum = IF NextRetryNum(in, i) < RetryMax THEN 0 ELSE NextRetryNum(in, i)
    BY <1>1, <1>2, EntryFields
  <2> QED BY <2>2, <2>3, BufAssumption
<1>5. ASSUME ~entries'[i].validD1 PROVE entries'[i].task = {}
  <2>1. ~Live(i)
    BY <1>1, <1>5, EntryFields
  <2>2. ~InFire(in, i)
    BY <1>2, <2>1 DEF NextState, Live
  <2> QED BY <1>1, <2>1, <2>2, EntryFields DEF NextTask
<1> QED BY <1>3, <1>4, <1>5

LEMMA HasTaskStep ==
  ASSUME BufInv, NEW in \in BufInputs, BufTick(in)
  PROVE  HasTask'
<1> SUFFICES ASSUME NEW i \in Idx, entries'[i].state # "Free" PROVE entries'[i].task # {}
  BY DEF HasTask, Live, Idx
<1>1. NextState(in, i) # "Free" /\ entries'[i].task = NextTask(in, i)
  BY BufEdge, EntryFields
<1>2. CASE InFire(in, i)
  BY <1>1, <1>2 DEF NextTask, InFire
<1>3. CASE ~InFire(in, i)
  <2>1. Live(i)
    BY <1>1, <1>3 DEF NextState, Live
  <2> QED BY <1>1, <1>3, <2>1 DEF NextTask, BufInv, HasTask
<1> QED BY <1>2, <1>3

LEMMA BufInvStep == BufInv /\ [BufNext]_bufVars => BufInv'
<1> SUFFICES ASSUME BufInv, [BufNext]_bufVars PROVE BufInv'
  OBVIOUS
<1>1. CASE BufNext
  <2>1. PICK in \in BufInputs : BufTick(in)
    BY <1>1 DEF BufNext
  <2> QED BY <2>1, BufTypeStep, OneWaitStep, IdleFormStep, HasTaskStep DEF BufInv
<1>2. CASE UNCHANGED bufVars
  BY <1>2 DEF bufVars, BufInv, BufTypeOK, OneWait, IdleForm, HasTask, Live
<1> QED BY <1>1, <1>2

\* The inductive invariant of the buffer.
THEOREM BufInvariant == BufSpec => []BufInv
BY BufInvInit, BufInvStep, PTL DEF BufSpec

\* The registers of a buffer of any size keep their types: the retry counter
\* saturates, the nid never exceeds the number of entries.
THEOREM BufTypeCorrect == BufSpec => []BufTypeOK
<1>1. BufInv => BufTypeOK
  BY DEF BufInv
<1> QED BY <1>1, BufInvariant, PTL

\* s1 judges at most one task at a time, so its verdict, which is applied to
\* every waiting entry, hits only the one it is about.
THEOREM BufOneWait == BufSpec => []OneWait
<1>1. BufInv => OneWait
  BY DEF BufInv
<1> QED BY <1>1, BufInvariant, PTL

\* The static gate of the entries' update loses nothing.
THEOREM BufGateSound == BufSpec => []BufGateLosesNothing
<1>1. BufInv => BufGateLosesNothing
  BY GateHarmless DEF BufGateLosesNothing
<1> QED BY <1>1, BufInvariant, PTL

\* One task judged at a time and a harmless gate, as the runs check them.
THEOREM BufIsSafe == BufSpec => []BufSafe
<1>1. OneWait /\ BufGateLosesNothing => BufSafe
  BY DEF BufSafe
<1> QED BY <1>1, BufOneWait, BufGateSound, PTL

-----------------------------------------------------------------------------
(* The order of an address *)

\* A task in s1 is the first of its address, and no two tasks of an address
\* have one nid: with NidsDense, which counts them, inductive.
NidInv ==
  /\ \A i \in Idx : entries[i].state = "Wait" => entries[i].nid = 0
  /\ \A a \in Line : \A i, j \in LiveOf(a) : entries[i].nid = entries[j].nid => i = j
  /\ NidsDense

OrderInv == BufInv /\ NidInv

\* The nid of the first live task of an address.
First(a) == IF Released(a) THEN 1 ELSE 0

LEMMA EntryAddr ==
  ASSUME BufInv, NEW i \in Idx
  PROVE  /\ UseAddr(i) \in OptOf(Line)
         /\ Live(i) => \E a \in Line : UseAddr(i) = {a}
<1>1. entries[i].task \in OptOf(Task) /\ (Live(i) => entries[i].task # {})
  BY DEF BufInv, BufTypeOK, Entry, HasTask
<1> QED BY <1>1, BufAssumption DEF UseAddr, OptOf

LEMMA LiveFinite ==
  ASSUME NEW a
  PROVE  IsFiniteSet(LiveOf(a)) /\ Cardinality(LiveOf(a)) \in Nat
<1>1. IsFiniteSet(Idx)
  BY BufAssumption, FS_Interval DEF Idx
<1>2. LiveOf(a) \subseteq Idx
  BY DEF LiveOf
<1> QED BY <1>1, <1>2, FS_Subset, FS_CardinalityType

\* What the invariant says of a live task of address a.
LEMMA NidRange ==
  ASSUME OrderInv, NEW a \in Line, NEW i \in LiveOf(a)
  PROVE  /\ entries[i].nid \in Nat /\ entries[i].nid >= First(a)
         /\ entries[i].nid < First(a) + Cardinality(LiveOf(a))
<1>1. {entries[j].nid : j \in LiveOf(a)} = First(a) .. First(a) + Cardinality(LiveOf(a)) - 1
  BY DEF OrderInv, NidInv, NidsDense, First
<1>2. entries[i].nid \in First(a) .. First(a) + Cardinality(LiveOf(a)) - 1
  BY <1>1
<1>3. Cardinality(LiveOf(a)) \in Nat /\ First(a) \in {0, 1}
  BY LiveFinite DEF First
<1> QED BY <1>2, <1>3

\* A live task over an edge: it keeps its place in the order, closing up when
\* the task ahead of it has left; the one that leaves is the first.
LEMMA LiveEdge ==
  ASSUME OrderInv, NEW in, BufTick(in), NEW a \in Line, NEW i \in LiveOf(a)
  PROVE  /\ UseAddr(i)' = {a} /\ UseAddr(i) = {a}
         /\ Live(i)' => entries'[i].nid = entries[i].nid - First(a)
         /\ ~Live(i)' => entries[i].state = "Wait" /\ entries[i].nid = 0 /\ ~Released(a)
         /\ entries'[i].validD1 = TRUE
<1>0. BufInv /\ i \in Idx /\ Live(i) /\ a \in UseAddr(i)
  BY DEF OrderInv, LiveOf
<1>1. ~InFire(in, i)
  BY <1>0, FireIsFree
<1>2. UseAddr(i) = {a}
  BY <1>0, EntryAddr
<1>3. UseAddr(i)' = {a}
  <2>1. entries'[i].task = entries[i].task
    BY <1>0, <1>1, BufEdge, EntryFields DEF NextTask
  <2> QED BY <1>2, <2>1 DEF UseAddr
<1>4. OthRel(i) <=> Released(a)
  <2>1. \A j \in Idx : UseAddr(j) \cap {a} # {} <=> a \in UseAddr(j)
    OBVIOUS
  <2> QED BY <1>2, <2>1 DEF OthRel, Released
<1>5. entries[i].nid \in Nat /\ entries[i].nid >= First(a)
  BY NidRange
<1>6. Live(i)' => entries'[i].nid = entries[i].nid - First(a)
  <2>1. SUFFICES ASSUME Live(i)' PROVE entries'[i].nid = entries[i].nid - First(a)
    OBVIOUS
  <2>2. NextState(in, i) # "Free"
    BY <1>0, <2>1, BufEdge, EntryFields DEF Live
  <2>3. entries'[i].nid = NextNid(in, i)
    BY <1>0, <2>2, BufEdge, EntryFields
  <2>4. CASE Released(a)
    BY <1>0, <1>1, <1>4, <1>5, <2>3, <2>4 DEF NextNid, First
  <2>5. CASE ~Released(a)
    BY <1>0, <1>1, <1>4, <1>5, <2>3, <2>5 DEF NextNid, First
  <2> QED BY <2>4, <2>5
<1>7. ~Live(i)' => entries[i].state = "Wait" /\ entries[i].nid = 0 /\ ~Released(a)
  <2>1. SUFFICES ASSUME ~Live(i)' PROVE entries[i].state = "Wait" /\ entries[i].nid = 0 /\ ~Released(a)
    OBVIOUS
  <2>2. NextState(in, i) = "Free" /\ entries[i].state # "Free"
    BY <1>0, <2>1, BufEdge, EntryFields DEF Live
  <2>3. entries[i].state \in {"Free", "Send", "Wait", "Sleep"}
    BY <1>0 DEF BufInv, BufTypeOK, Entry
  <2>4. entries[i].state = "Wait"
    BY <2>2, <2>3 DEF NextState
  <2>5. entries[i].nid = 0
    BY <1>0, <2>4 DEF OrderInv, NidInv
  <2> QED BY <1>5, <2>4, <2>5 DEF First
<1>8. entries'[i].validD1 = TRUE
  BY <1>0, BufEdge, EntryFields DEF Live
<1> QED BY <1>2, <1>3, <1>6, <1>7, <1>8

\* A task that arrives goes behind all live tasks of its address.
LEMMA FireEdge ==
  ASSUME BufInv, NEW in \in BufInputs, BufTick(in), NEW i, InFire(in, i)
  PROVE  /\ i \in Idx /\ ~Live(i) /\ Live(i)' /\ entries'[i].state = "Send"
         /\ \E a \in Line : UseAddr(i)' = {a} /\ entries'[i].nid = Cardinality(LiveOf(a))
<1>1. i \in Idx /\ ~Live(i)
  BY FireIsFree
<1>2. entries'[i].state = "Send" /\ entries'[i].task = in.task /\ entries'[i].nid = InitNid(in)
  <2>1. NextState(in, i) = "Send"
    BY <1>1 DEF NextState, Live
  <2>2. NextTask(in, i) = in.task /\ NextNid(in, i) = InitNid(in)
    BY DEF NextTask, NextNid
  <2> QED BY <1>1, <2>1, <2>2, BufEdge, EntryFields
<1>3. PICK t \in Task : in.task = {t}
  BY DEF InFire, BufInputs, OptOf
<1>4. AddrOf[t] \in Line /\ UseAddr(i)' = {AddrOf[t]}
  BY <1>2, <1>3, BufAssumption DEF UseAddr
<1>5. InitNid(in) = Cardinality(LiveOf(AddrOf[t]))
  <2>1. {j \in Idx : Live(j) /\ \E u \in in.task : AddrOf[u] \in UseAddr(j)} = LiveOf(AddrOf[t])
    BY <1>3 DEF LiveOf
  <2> QED BY <2>1 DEF InitNid
<1> QED BY <1>1, <1>2, <1>4, <1>5 DEF Live

\* A free entry stays free unless a task arrives in it; no release is its own.
LEMMA FreeEdge ==
  ASSUME BufInv, NEW in, BufTick(in), NEW i \in Idx, ~Live(i), ~InFire(in, i)
  PROVE  ~Live(i)' /\ ~entries'[i].validD1
<1>1. NextState(in, i) = "Free"
  BY DEF NextState, Live
<1> QED BY <1>1, BufEdge, EntryFields DEF Live

\* Who is live after the edge, and whether a release is seen.
LEMMA LiveAfter ==
  ASSUME OrderInv, NEW in \in BufInputs, BufTick(in), NEW a \in Line
  PROVE  /\ LiveOf(a)' = {i \in LiveOf(a) : Live(i)'}
                           \cup {i \in Idx : InFire(in, i) /\ a \in UseAddr(i)'}
         /\ Released(a)' <=> \E i \in LiveOf(a) : ~Live(i)'
<1>0. BufInv /\ Idx' = Idx
  BY DEF OrderInv, Idx
<1>1. ASSUME NEW i \in Idx
      PROVE  i \in LiveOf(a)' <=> \/ i \in LiveOf(a) /\ Live(i)'
                                  \/ InFire(in, i) /\ a \in UseAddr(i)'
  <2>1. i \in LiveOf(a)' <=> Live(i)' /\ a \in UseAddr(i)'
    BY <1>0 DEF LiveOf
  <2>2. CASE Live(i)
    <3>1. PICK b \in Line : UseAddr(i) = {b}
      BY <1>0, <2>2, EntryAddr
    <3>2. UseAddr(i)' = {b}
      BY <2>2, <3>1, LiveEdge DEF LiveOf
    <3>3. ~InFire(in, i)
      BY <1>0, <2>2, FireIsFree
    <3> QED BY <2>1, <2>2, <3>1, <3>2, <3>3 DEF LiveOf
  <2>3. CASE ~Live(i) /\ InFire(in, i)
    BY <1>0, <2>1, <2>3, FireEdge DEF LiveOf
  <2>4. CASE ~Live(i) /\ ~InFire(in, i)
    BY <1>0, <2>1, <2>4, FreeEdge DEF LiveOf
  <2> QED BY <2>2, <2>3, <2>4
<1>2. LiveOf(a)' \subseteq Idx /\ LiveOf(a) \subseteq Idx
  BY <1>0 DEF LiveOf
<1>3. ASSUME NEW i \in Idx
      PROVE  Rel(i)' /\ a \in UseAddr(i)' <=> i \in LiveOf(a) /\ ~Live(i)'
  <2>1. CASE Live(i)
    <3>1. PICK b \in Line : UseAddr(i) = {b}
      BY <1>0, <2>1, EntryAddr
    <3>2. UseAddr(i)' = {b} /\ entries'[i].validD1 = TRUE
      BY <2>1, <3>1, LiveEdge DEF LiveOf
    <3> QED BY <2>1, <3>1, <3>2 DEF Rel, LiveOf
  <2>2. CASE ~Live(i) /\ InFire(in, i)
    BY <1>0, <2>2, FireEdge DEF Rel, LiveOf
  <2>3. CASE ~Live(i) /\ ~InFire(in, i)
    BY <1>0, <2>3, FreeEdge DEF Rel, LiveOf
  <2> QED BY <2>1, <2>2, <2>3
<1>4. Released(a)' <=> \E i \in Idx : Rel(i)' /\ a \in UseAddr(i)'
  BY <1>0 DEF Released
<1> QED BY <1>1, <1>2, <1>3, <1>4

\* The tasks of an address that stay close up behind the one that has left.
LEMMA StayersDense ==
  ASSUME OrderInv, NEW in \in BufInputs, BufTick(in), NEW a \in Line
  PROVE  LET D == {i \in LiveOf(a) : Live(i)'}
             n == Cardinality(LiveOf(a))
         IN  /\ {entries'[i].nid : i \in D} = First(a)' .. n - 1
             /\ IsFiniteSet(D) /\ Cardinality(D) + First(a)' = n
             /\ \A i, j \in D : entries'[i].nid = entries'[j].nid => i = j
<1> DEFINE L == LiveOf(a)
           D == {i \in L : Live(i)'}
           n == Cardinality(L)
           r == First(a)
           q == First(a)'
<1>0. /\ IsFiniteSet(L) /\ n \in Nat /\ r \in {0, 1} /\ q \in {0, 1}
      /\ {entries[i].nid : i \in L} = r .. r + n - 1
      /\ \A i, j \in L : entries[i].nid = entries[j].nid => i = j
  BY LiveFinite DEF First, OrderInv, NidInv, NidsDense
<1>1. \A i \in L : /\ Live(i)' => entries'[i].nid = entries[i].nid - r
                   /\ ~Live(i)' => entries[i].nid = 0 /\ r = 0
                   /\ entries[i].nid \in Nat
  BY LiveEdge, NidRange DEF First
<1>2. q = 1 <=> \E i \in L : ~Live(i)'
  BY LiveAfter DEF First
<1>3. IsFiniteSet(D)
  BY <1>0, FS_Subset
<1>4. \A i, j \in D : entries'[i].nid = entries'[j].nid => i = j
  <2> SUFFICES ASSUME NEW i \in D, NEW j \in D, entries'[i].nid = entries'[j].nid PROVE i = j
    OBVIOUS
  <2>1. entries[i].nid - r = entries[j].nid - r /\ entries[i].nid \in Nat /\ entries[j].nid \in Nat
    BY <1>1
  <2>2. entries[i].nid = entries[j].nid
    BY <2>1, <1>0
  <2> QED BY <2>2, <1>0
<1>5. CASE \E i \in L : ~Live(i)'
  <2>1. PICK x \in L : ~Live(x)'
    BY <1>5
  <2>2. q = 1 /\ r = 0 /\ entries[x].nid = 0
    BY <1>1, <1>2, <2>1
  <2>3. \A i \in L : ~Live(i)' => i = x
    BY <1>0, <1>1, <2>2
  <2>4. D = L \ {x}
    BY <2>1, <2>3
  <2>5. Cardinality(D) = n - 1
    BY <1>0, <2>1, <2>4, FS_RemoveElement
  <2>6. {entries'[i].nid : i \in D} = 1 .. n - 1
    <3>1. ASSUME NEW i \in D PROVE entries'[i].nid \in 1 .. n - 1
      <4>1. i \in L /\ i # x /\ entries'[i].nid = entries[i].nid
        BY <1>1, <2>2, <2>4
      <4>2. entries[i].nid \in 0 .. n - 1 /\ entries[i].nid # 0
        BY <1>0, <2>1, <2>2, <4>1
      <4> QED BY <4>1, <4>2, <1>0
    <3>2. ASSUME NEW k \in 1 .. n - 1 PROVE \E i \in D : entries'[i].nid = k
      <4>1. k \in 0 .. n - 1 /\ k # 0
        BY <1>0
      <4>2. PICK i \in L : entries[i].nid = k
        BY <1>0, <2>2, <4>1
      <4>3. i \in D
        BY <2>2, <2>4, <4>1, <4>2
      <4> QED BY <1>1, <2>2, <4>2, <4>3
    <3> HIDE DEF D, n
    <3> QED BY <3>1, <3>2
  <2> QED BY <1>0, <1>3, <1>4, <2>2, <2>5, <2>6
<1>6. CASE \A i \in L : Live(i)'
  <2>1. D = L /\ q = 0
    BY <1>0, <1>2, <1>6
  <2>2. {entries'[i].nid : i \in D} = 0 .. n - 1
    <3>1. ASSUME NEW i \in D PROVE entries'[i].nid \in 0 .. n - 1
      <4>1. entries'[i].nid = entries[i].nid - r /\ entries[i].nid \in r .. r + n - 1
        BY <1>0, <1>1, <2>1
      <4> HIDE DEF n, r
      <4> QED BY <4>1, <1>0
    <3>2. ASSUME NEW k \in 0 .. n - 1 PROVE \E i \in D : entries'[i].nid = k
      <4>1. k + r \in r .. r + n - 1
        <5> HIDE DEF n, r
        <5> QED BY <1>0
      <4>2. PICK i \in L : entries[i].nid = k + r
        BY <1>0, <4>1
      <4>3. i \in D /\ entries'[i].nid = (k + r) - r
        BY <1>1, <1>6, <4>2
      <4>4. (k + r) - r = k
        <5> HIDE DEF n, r
        <5> QED BY <1>0
      <4> QED BY <4>3, <4>4
    <3> HIDE DEF D, n
    <3> QED BY <3>1, <3>2
  <2>3. Cardinality(D) + q = n
    <3> HIDE DEF D, n, q
    <3> QED BY <1>0, <2>1 DEF n
  <2> QED BY <1>3, <1>4, <2>1, <2>2, <2>3
<1> QED BY <1>5, <1>6

LEMMA NidInvStep ==
  ASSUME OrderInv, NEW in \in BufInputs, BufTick(in)
  PROVE  NidInv'
<1>0. BufInv /\ Idx' = Idx
  BY DEF OrderInv, Idx
<1>1. ASSUME NEW i \in Idx, entries'[i].state = "Wait" PROVE entries'[i].nid = 0
  <2>1. i \in S0In
    BY <1>0, <1>1, WaitsNext, S0OutIn
  <2>2. Live(i) /\ entries[i].nid = 0
    BY <2>1 DEF S0In, Live
  <2>3. ~InFire(in, i)
    BY <2>2, FireIsFree
  <2>4. NextNid(in, i) = 0
    BY <2>2, <2>3 DEF NextNid
  <2> QED BY <1>0, <2>4, BufEdge, EntryFields
<1>2. ASSUME NEW a \in Line
      PROVE  /\ \A i, j \in LiveOf(a)' : entries'[i].nid = entries'[j].nid => i = j
             /\ {entries'[i].nid : i \in LiveOf(a)'}
                  = First(a)' .. First(a)' + Cardinality(LiveOf(a)') - 1
  <2> DEFINE D == {i \in LiveOf(a) : Live(i)'}
             n == Cardinality(LiveOf(a))
             q == First(a)'
             Y == {i \in Idx : InFire(in, i) /\ a \in UseAddr(i)'}
  <2>1. /\ {entries'[i].nid : i \in D} = q .. n - 1
        /\ IsFiniteSet(D) /\ Cardinality(D) + q = n
        /\ \A i, j \in D : entries'[i].nid = entries'[j].nid => i = j
    BY StayersDense
  <2>2. n \in Nat /\ q \in {0, 1} /\ Cardinality(D) \in Nat
    BY <2>1, LiveFinite, FS_CardinalityType DEF First
  <2>3. LiveOf(a)' = D \cup Y
    BY LiveAfter
  <2>4. CASE Y = {}
    <3>1. LiveOf(a)' = D
      BY <2>3, <2>4
    <3>2. q .. q + Cardinality(D) - 1 = q .. n - 1
      <4> HIDE DEF D, n, q
      <4> QED BY <2>1, <2>2
    <3> QED BY <2>1, <3>1, <3>2
  <2>5. CASE Y # {}
    <3>1. PICK y \in Y : TRUE
      BY <2>5
    <3>2. Y = {y} /\ y \notin D
      BY <1>0, <3>1, FireEdge DEF InFire, LiveOf
    <3>3. entries'[y].nid = n
      <4>1. PICK b \in Line : UseAddr(y)' = {b} /\ entries'[y].nid = Cardinality(LiveOf(b))
        BY <1>0, <3>1, FireEdge
      <4>2. b = a
        BY <3>1, <4>1
      <4> QED BY <4>1, <4>2
    <3>4. Cardinality(D \cup {y}) = Cardinality(D) + 1
      BY <2>1, <3>2, FS_AddElement
    <3>5. q + Cardinality(D \cup {y}) - 1 = n
      <4> HIDE DEF D, n, q
      <4> QED BY <2>1, <2>2, <3>4
    <3>6. {entries'[i].nid : i \in D \cup {y}} = {entries'[i].nid : i \in D} \cup {n}
      BY <3>3
    <3>7. (q .. n - 1) \cup {n} = q .. n
      <4>1. Cardinality(D) >= 0 /\ q <= n
        <5> HIDE DEF D, n, q
        <5> QED BY <2>1, <2>2
      <4> HIDE DEF D, n, q
      <4> QED BY <2>2, <4>1
    <3>8. \A i \in D : entries'[i].nid # n
      <4>1. \A i \in D : entries'[i].nid \in q .. n - 1
        BY <2>1
      <4> HIDE DEF D, n, q
      <4> QED BY <2>2, <4>1
    <3>9. \A i, j \in D \cup {y} : entries'[i].nid = entries'[j].nid => i = j
      BY <2>1, <3>3, <3>8
    <3>10. LiveOf(a)' = D \cup {y}
      BY <2>3, <3>2
    <3> HIDE DEF D, n, q
    <3> QED BY <2>1, <3>5, <3>6, <3>7, <3>9, <3>10 DEF q
  <2> QED BY <2>4, <2>5
<1>3. NidsDense'
  BY <1>2 DEF NidsDense, First
<1> QED BY <1>0, <1>1, <1>2, <1>3 DEF NidInv

LEMMA OrderInvInit == BufInit => OrderInv
<1> SUFFICES ASSUME BufInit PROVE OrderInv
  OBVIOUS
<1>1. \A i \in Idx : entries[i].state = "Free" /\ ~entries[i].validD1
  BY DEF BufInit, EmptyEntry
<1>2. ASSUME NEW a \in Line PROVE LiveOf(a) = {} /\ ~Released(a)
  BY <1>1 DEF LiveOf, Live, Released, Rel
<1>3. Cardinality({}) = 0 /\ 0 .. 0 + 0 - 1 = {}
  BY FS_EmptySet
<1>4. NidsDense
  BY <1>2, <1>3 DEF NidsDense
<1>5. NidInv
  BY <1>1, <1>2, <1>4 DEF NidInv
<1> QED BY <1>5, BufInvInit DEF OrderInv

LEMMA OrderInvStep == OrderInv /\ [BufNext]_bufVars => OrderInv'
<1> SUFFICES ASSUME OrderInv, [BufNext]_bufVars PROVE OrderInv'
  OBVIOUS
<1>1. BufInv'
  BY BufInvStep DEF OrderInv
<1>2. CASE BufNext
  BY <1>1, <1>2, NidInvStep DEF BufNext, OrderInv
<1>3. CASE UNCHANGED bufVars
  <2>1. entries' = entries /\ Idx' = Idx
    BY <1>3 DEF bufVars, Idx
  <2>2. \A a : LiveOf(a)' = LiveOf(a) /\ (Released(a)' <=> Released(a))
    BY <2>1 DEF LiveOf, Live, Released, Rel, UseAddr
  <2>3. NidsDense'
    BY <2>1, <2>2 DEF OrderInv, NidInv, NidsDense
  <2> QED BY <1>1, <2>1, <2>2, <2>3 DEF OrderInv, NidInv
<1> QED BY <1>2, <1>3

THEOREM OrderInvariant == BufSpec => []OrderInv
BY OrderInvInit, OrderInvStep, PTL DEF BufSpec

\* The nids of an address count the live tasks ahead: no gap, behind which
\* tasks would wait for ever, and no tie.
THEOREM BufNidsDense == BufSpec => []NidsDense
<1>1. OrderInv => NidsDense
  BY DEF OrderInv, NidInv
<1> QED BY <1>1, OrderInvariant, PTL

-----------------------------------------------------------------------------
(* The buffer implements the queue per address *)

\* The mapping of FifoSpec, and what it makes of an edge.
AtOf(i) == IF Live(i) THEN UseAddr(i) ELSE {}
AheadOf(i) == IF Live(i) THEN {j \in Idx : /\ Live(j) /\ UseAddr(j) = UseAddr(i)
                                          /\ entries[j].nid < entries[i].nid}
              ELSE {}
Gone == {i \in Idx : Live(i) /\ ~Live(i)'}
New  == {i \in Idx : ~Live(i) /\ Live(i)'}

LEMMA AtLive ==
  ASSUME BufInv, NEW i \in Idx
  PROVE  /\ AtOf(i) = {} <=> ~Live(i)
         /\ \A a \in Line : AtOf(i) = {a} <=> i \in LiveOf(a)
BY EntryAddr DEF AtOf, LiveOf

\* The mapping, as the members of the order of an address; stated as a state
\* predicate, for the state before an edge and the one after it.
Mapped ==
  /\ \A i \in Idx : AtOf(i) = {} <=> ~Live(i)
  /\ \A a \in Line : \A i \in LiveOf(a) :
       AheadOf(i) = {j \in LiveOf(a) : entries[j].nid < entries[i].nid}

LEMMA MappedAlways == BufInv => Mapped
<1> SUFFICES ASSUME BufInv, NEW a \in Line, NEW i \in LiveOf(a)
             PROVE  AheadOf(i) = {j \in LiveOf(a) : entries[j].nid < entries[i].nid}
  BY AtLive DEF Mapped
<1>1. i \in Idx /\ Live(i) /\ UseAddr(i) = {a}
  BY EntryAddr DEF LiveOf
<1>2. \A j \in Idx : Live(j) /\ UseAddr(j) = {a} <=> j \in LiveOf(a)
  BY EntryAddr DEF LiveOf
<1>3. LiveOf(a) \subseteq Idx
  BY DEF LiveOf
<1> QED BY <1>1, <1>2, <1>3 DEF AheadOf

LEMMA NewFires ==
  ASSUME BufInv, NEW in \in BufInputs, BufTick(in), NEW i \in Idx
  PROVE  i \in New <=> InFire(in, i)
BY FreeEdge, FireEdge, FireIsFree DEF New

\* After the edge: the tasks of the address that stayed, renumbered alike, and
\* the arrival behind them all.
LEMMA AheadStep ==
  ASSUME OrderInv, BufInv', NEW in \in BufInputs, BufTick(in), NEW i \in Idx
  PROVE  AheadOf(i)' = (IF i \in New THEN {j \in Idx : AtOf(j) = AtOf(i)'} ELSE AheadOf(i)) \ Gone
<1>0. BufInv /\ Idx' = Idx
  BY DEF OrderInv, Idx
<1>1. ASSUME NEW a \in Line, i \in LiveOf(a)'
      PROVE  AheadOf(i)' = {j \in LiveOf(a)' : entries'[j].nid < entries'[i].nid}
  <2>1. Mapped'
    BY MappedAlways, PTL
  <2> QED BY <1>1, <2>1 DEF Mapped
<1>2. CASE i \in New
  <2>1. InFire(in, i)
    BY <1>0, <1>2, NewFires
  <2>2. PICK a \in Line : UseAddr(i)' = {a} /\ entries'[i].nid = Cardinality(LiveOf(a))
    BY <1>0, <2>1, FireEdge
  <2> DEFINE D == {j \in LiveOf(a) : Live(j)'}
             n == Cardinality(LiveOf(a))
  <2>3. LiveOf(a)' = D \cup {i}
    <3>1. {j \in Idx : InFire(in, j) /\ a \in UseAddr(j)'} = {i}
      <4>1. \A j : InFire(in, j) => j = i
        BY <2>1 DEF InFire
      <4> QED BY <1>0, <2>1, <2>2, <4>1
    <3> QED BY <3>1, LiveAfter
  <2>4. \A j \in D : entries'[j].nid < n
    <3>1. \A j \in D : entries'[j].nid \in First(a)' .. n - 1
      <4>1. {entries'[j].nid : j \in D} = First(a)' .. n - 1
        BY StayersDense
      <4> HIDE DEF D, n
      <4> QED BY <4>1
    <3>2. n \in Nat /\ First(a)' \in {0, 1}
      BY LiveFinite DEF First
    <3> HIDE DEF D, n
    <3> QED BY <3>1, <3>2
  <2>5. ~(n < n)
    <3>1. n \in Nat
      BY LiveFinite
    <3> HIDE DEF n
    <3> QED BY <3>1
  <2>6. AheadOf(i)' = D
    <3>1. i \in LiveOf(a)'
      BY <2>3
    <3>2. AheadOf(i)' = {j \in D \cup {i} : entries'[j].nid < n}
      BY <1>1, <2>2, <2>3, <3>1
    <3>3. i \notin D
      BY <1>2 DEF New, LiveOf
    <3> HIDE DEF D, n
    <3> QED BY <2>4, <2>5, <3>2, <3>3, <2>2 DEF n
  <2>7. AtOf(i)' = {a}
    BY <1>2, <2>2 DEF AtOf, New
  <2>8. {j \in Idx : AtOf(j) = {a}} = LiveOf(a)
    BY <1>0, AtLive DEF LiveOf
  <2>9. D = LiveOf(a) \ Gone
    BY DEF Gone, LiveOf
  <2> QED BY <1>2, <2>6, <2>7, <2>8, <2>9
<1>3. CASE Live(i) /\ Live(i)'
  <2>1. PICK a \in Line : i \in LiveOf(a) /\ UseAddr(i) = {a}
    BY <1>0, <1>3, EntryAddr DEF LiveOf
  <2> DEFINE D == {j \in LiveOf(a) : Live(j)'}
             n == Cardinality(LiveOf(a))
             Y == {j \in Idx : InFire(in, j) /\ a \in UseAddr(j)'}
             r == First(a)
  <2>2. LiveOf(a)' = D \cup Y
    BY LiveAfter
  <2>3. /\ n \in Nat /\ r \in {0, 1}
        /\ \A j \in LiveOf(a) : /\ entries[j].nid \in Nat
                               /\ entries[j].nid < r + n
    BY NidRange, LiveFinite DEF First
  <2>4. \A j \in D : entries'[j].nid = entries[j].nid - r
    BY LiveEdge
  <2>5. \A j \in Y : entries'[j].nid = n
    <3> SUFFICES ASSUME NEW j \in Y PROVE entries'[j].nid = n
      OBVIOUS
    <3>1. PICK b \in Line : UseAddr(j)' = {b} /\ entries'[j].nid = Cardinality(LiveOf(b))
      BY <1>0, FireEdge
    <3> QED BY <3>1
  <2>6. i \in D
    BY <1>3, <2>1
  <2>7. AheadOf(i)' = {j \in D \cup Y : entries'[j].nid < entries'[i].nid}
    BY <1>1, <2>2, <2>6
  <2>8. \A j \in Y : ~(entries'[j].nid < entries'[i].nid)
    <3>1. entries'[i].nid = entries[i].nid - r /\ entries[i].nid \in Nat /\ entries[i].nid < r + n
      BY <2>1, <2>3, <2>4, <2>6
    <3> HIDE DEF D, n, Y, r
    <3> QED BY <2>3, <2>5, <3>1
  <2>9. \A j \in D : entries'[j].nid < entries'[i].nid <=> entries[j].nid < entries[i].nid
    <3> SUFFICES ASSUME NEW j \in D
                 PROVE  entries'[j].nid < entries'[i].nid <=> entries[j].nid < entries[i].nid
      OBVIOUS
    <3>1. /\ entries'[i].nid = entries[i].nid - r /\ entries[i].nid \in Nat
          /\ entries'[j].nid = entries[j].nid - r /\ entries[j].nid \in Nat
      BY <2>1, <2>3, <2>4, <2>6
    <3> HIDE DEF D, n, Y, r
    <3> QED BY <2>3, <3>1
  <2>10. AheadOf(i) = {j \in LiveOf(a) : entries[j].nid < entries[i].nid}
    BY <1>0, <2>1, MappedAlways DEF Mapped
  <2>11. D = LiveOf(a) \ Gone
    BY DEF Gone, LiveOf
  <2>12. AheadOf(i)' = AheadOf(i) \ Gone
    <3> HIDE DEF D, n, Y, r
    <3> QED BY <2>7, <2>8, <2>9, <2>10, <2>11
  <2> QED BY <1>3, <2>12 DEF New
<1>4. CASE Live(i) /\ ~Live(i)'
  <2>1. PICK a \in Line : i \in LiveOf(a)
    BY <1>0, <1>4, EntryAddr DEF LiveOf
  <2>2. entries[i].nid = 0
    BY <1>4, <2>1, LiveEdge
  <2>3. AheadOf(i) = {}
    <3>1. AheadOf(i) = {j \in LiveOf(a) : entries[j].nid < entries[i].nid}
      BY <1>0, <2>1, MappedAlways DEF Mapped
    <3>2. \A j \in LiveOf(a) : entries[j].nid \in Nat
      BY NidRange
    <3> QED BY <2>2, <3>1, <3>2
  <2>4. AheadOf(i)' = {}
    BY <1>4 DEF AheadOf
  <2> QED BY <1>4, <2>3, <2>4 DEF New
<1>5. CASE ~Live(i) /\ ~Live(i)'
  BY <1>5 DEF AheadOf, New
<1> QED BY <1>2, <1>3, <1>4, <1>5 DEF New

LEMMA FifoStep ==
  ASSUME OrderInv, BufInv', NEW in \in BufInputs, BufTick(in)
  PROVE  Fifo!Next
<1>0. BufInv /\ Idx' = Idx
  BY DEF OrderInv, Idx
<1> DEFINE at == [i \in Idx |-> AtOf(i)]
           ahead == [i \in Idx |-> AheadOf(i)]
           at2 == [i \in Idx |-> AtOf(i)']
           ahead2 == [i \in Idx |-> AheadOf(i)']
<1>1. \A i \in Idx : (at[i] = {} <=> ~Live(i)) /\ (at2[i] = {} <=> ~Live(i)')
  <2>1. \A i \in Idx : AtOf(i) = {} <=> ~Live(i)
    BY <1>0, AtLive
  <2>2. \A i \in Idx : AtOf(i)' = {} <=> ~Live(i)'
    <3>1. Mapped'
      BY MappedAlways, PTL
    <3> QED BY <1>0, <3>1 DEF Mapped
  <2> QED BY <2>1, <2>2
<1>2. \A p \in Gone : ahead[p] = {}
  <2> SUFFICES ASSUME NEW p \in Gone PROVE AheadOf(p) = {}
    BY DEF Gone
  <2>1. PICK a \in Line : p \in LiveOf(a)
    BY <1>0, EntryAddr DEF Gone, LiveOf
  <2>2. AheadOf(p) = {j \in LiveOf(a) : entries[j].nid < entries[p].nid}
    BY <1>0, <2>1, MappedAlways DEF Mapped
  <2>3. entries[p].nid = 0 /\ \A j \in LiveOf(a) : entries[j].nid \in Nat
    BY <2>1, LiveEdge, NidRange DEF Gone
  <2> QED BY <2>2, <2>3
<1>3. \A p, q \in New : p = q
  BY <1>0, NewFires DEF InFire, New
<1>4. \A p \in New : \E a \in Line : at2[p] = {a}
  <2> SUFFICES ASSUME NEW p \in New PROVE \E a \in Line : AtOf(p)' = {a}
    BY DEF New
  <2>1. InFire(in, p)
    BY <1>0, NewFires DEF New
  <2> QED BY <1>0, <2>1, FireEdge DEF AtOf
<1>5. \A p \in Idx \ (Gone \cup New) : at2[p] = at[p]
  <2> SUFFICES ASSUME NEW p \in Idx, p \notin Gone, p \notin New PROVE AtOf(p)' = AtOf(p)
    OBVIOUS
  <2>1. CASE Live(p)
    <3>1. PICK a \in Line : p \in LiveOf(a)
      BY <1>0, <2>1, EntryAddr DEF LiveOf
    <3> QED BY <2>1, <3>1, LiveEdge DEF AtOf, Gone
  <2>2. CASE ~Live(p)
    BY <2>2 DEF AtOf, New
  <2> QED BY <2>1, <2>2
<1>6. ahead2 = [p \in Idx |-> (IF p \in New THEN {q \in Idx : at[q] = at2[p]} ELSE ahead[p]) \ Gone]
  BY AheadStep
<1>7. Gone = {p \in Idx : at[p] # {} /\ at2[p] = {}} /\ New = {p \in Idx : at[p] = {} /\ at2[p] # {}}
  BY <1>1 DEF Gone, New
<1> QED BY <1>0, <1>2, <1>3, <1>4, <1>5, <1>6, <1>7
        DEF Fifo!Next, Fifo!Left, Fifo!Came, AtOf, AheadOf

\* A task buffer of any size is a first-in first-out queue per address.
THEOREM BufIsFifo == BufSpec => FifoSpec
<1>1. BufInit => Fifo!Init
  <2> SUFFICES ASSUME BufInit PROVE Fifo!Init
    OBVIOUS
  <2>1. \A i \in Idx : ~Live(i)
    BY DEF BufInit, EmptyEntry, Live
  <2> QED BY <2>1 DEF Fifo!Init
<1>2. OrderInv /\ OrderInv' /\ [BufNext]_bufVars => [Fifo!Next]_Fifo!vars
  <2> SUFFICES ASSUME OrderInv, OrderInv', [BufNext]_bufVars PROVE [Fifo!Next]_Fifo!vars
    OBVIOUS
  <2>1. CASE BufNext
    BY <2>1, FifoStep DEF BufNext, OrderInv
  <2>2. CASE UNCHANGED bufVars
    BY <2>2 DEF bufVars, Fifo!vars, Live, UseAddr, Idx
  <2> QED BY <2>1, <2>2
<1> QED BY <1>1, <1>2, OrderInvariant, PTL DEF BufSpec, FifoSpec, Fifo!Spec
=============================================================================
