----------------------------- MODULE TaskBuffer -----------------------------
(***************************************************************************)
(* The task buffer of a frontend (model/dj/frontend.h, class TaskBuffer):  *)
(* a request waits in an entry until the point of serialisation accepts    *)
(* it.  An entry sends its task to s0, waits one cycle for the verdict of  *)
(* s1, and is freed (accepted), sent again (retry), or put to sleep until  *)
(* the address it collided with is released.  Tasks of one address are     *)
(* kept in order by nid, the number of older live tasks of that address;   *)
(* a task retried RetryMax times locks the buffer for itself.              *)
(*                                                                         *)
(* One step is one clock edge with the inputs of a record in:              *)
(*   in.task   Wire(Task)  chi_task_in       in.s0Rdy BOOLEAN               *)
(*   in.retry  BOOLEAN    retry_s1          in.sleep BOOLEAN  sleep_s1     *)
(*   in.wakeup Wire(Line)  wakeup                                           *)
(* Registers nobody reads before they are written again (task, nid and     *)
(* timeout of a free entry) are kept in a normal form.  The retry counter  *)
(* of a free entry is read: see NextTimeout.                               *)
(***************************************************************************)
EXTENDS Integers, FiniteSetsExt, VipArb

CONSTANTS Line,      \* line addresses
          Task,      \* requests; several may stand for one address
          AddrOf,    \* the line address of a request
          N,         \* entries
          RetryMax   \* retryNum saturates here (7 in the code)

ASSUME BufAssumption ==
  /\ AddrOf \in [Task -> Line]
  /\ N \in Nat \ {0}
  /\ RetryMax \in Nat \ {0}

VARIABLES
  entries,   \* the N task entries
  hasLock,   \* has_lock_reg: some entry was timed out in the last cycle
  vip        \* pointer of the s0 arbiter

bufVars == <<entries, hasLock, vip>>

Idx   == 0 .. N - 1
OptOf(S) == {{}} \cup {{x} : x \in S}
Entry == [state : {"Free", "Send", "Wait", "Sleep"}, task : OptOf(Task), nid : 0 .. N,
          retryNum : 0 .. RetryMax, timeout : BOOLEAN, validD1 : BOOLEAN]
EmptyEntry == [state |-> "Free", task |-> {}, nid |-> 0, retryNum |-> 0,
               timeout |-> FALSE, validD1 |-> FALSE]

BufInputs == [task : OptOf(Task), s0Rdy : BOOLEAN, retry : BOOLEAN, sleep : BOOLEAN,
              wakeup : OptOf(Line)]

-----------------------------------------------------------------------------
(* Combinational logic *)

UseAddr(i) == {AddrOf[t] : t \in entries[i].task}
Live(i)    == entries[i].state # "Free"
Rel(i)     == entries[i].validD1 /\ ~Live(i)

S0In       == {i \in Idx : entries[i].state = "Send" /\ entries[i].nid = 0}
LockAll    == {i \in Idx : entries[i].state \in {"Send", "Wait"} /\ entries[i].timeout}
LockIdx    == IF LockAll # {} THEN Min(LockAll) ELSE N - 1

\* Broken variant: every locked entry is sent at once.
S0OutAllLocked == IF hasLock THEN LockAll \cap S0In
                  ELSE IF S0In # {} THEN {VipChosen(vip, S0In)} ELSE {}

\* The entry whose task is on chi_task_s0, if any.  A locked buffer shows its
\* locked entry only; the arbiter below it keeps running.
S0Out == IF hasLock THEN {LockIdx} \cap S0In
         ELSE IF S0In # {} THEN {VipChosen(vip, S0In)} ELSE {}

FreeIdx       == {i \in Idx : ~Live(i)}
InFire(in, i) == in.task # {} /\ FreeIdx # {} /\ i = Min(FreeIdx)
WakeHit(in, i) == UseAddr(i) \cap in.wakeup # {}
\* InitNid counts the live tasks of the address that arrives; the broken variant
\* counts a task that has just left as well, whose release nobody will see.
InitNidWithGone(in) ==
  Cardinality({j \in Idx : (Live(j) \/ Rel(j)) /\ \E t \in in.task : AddrOf[t] \in UseAddr(j)})
InitNid(in)   == Cardinality({j \in Idx : Live(j) /\ \E t \in in.task : AddrOf[t] \in UseAddr(j)})
\* A task of the same address left last cycle (broken variant: any task).
OthRelAny(i)  == \E j \in Idx : Rel(j)
OthRel(i)     == \E j \in Idx : Rel(j) /\ UseAddr(j) \cap UseAddr(i) # {}

-----------------------------------------------------------------------------
(* Next values of an entry *)

\* Broken variant: the verdict of s1 goes before the wakeup of the same cycle.
NextStateSleepFirst(in, i) ==
  CASE entries[i].state = "Free"  -> IF InFire(in, i) THEN "Send" ELSE "Free"
    [] entries[i].state = "Send"  -> IF in.s0Rdy /\ i \in S0Out THEN "Wait" ELSE "Send"
    [] entries[i].state = "Wait"  -> IF in.sleep THEN "Sleep"
                                     ELSE IF in.retry THEN "Send" ELSE "Free"
    [] entries[i].state = "Sleep" -> IF WakeHit(in, i) THEN "Send" ELSE "Sleep"

NextState(in, i) ==
  CASE entries[i].state = "Free"  -> IF InFire(in, i) THEN "Send" ELSE "Free"
    [] entries[i].state = "Send"  -> IF in.s0Rdy /\ i \in S0Out THEN "Wait" ELSE "Send"
    [] entries[i].state = "Wait"  -> IF WakeHit(in, i) THEN "Send"
                                     ELSE IF in.sleep THEN "Sleep"
                                     ELSE IF in.retry THEN "Send" ELSE "Free"
    [] entries[i].state = "Sleep" -> IF WakeHit(in, i) THEN "Send" ELSE "Sleep"

\* The task stays readable for the one cycle in which the release is seen.
NextTask(in, i) ==
  IF InFire(in, i) THEN in.task ELSE IF Live(i) THEN entries[i].task ELSE {}

NextNid(in, i) ==
  IF InFire(in, i) THEN InitNid(in)
  ELSE IF Live(i) /\ OthRel(i) /\ entries[i].nid > 0 THEN entries[i].nid - 1
  ELSE entries[i].nid

NextRetryNum(in, i) ==
  IF InFire(in, i) THEN 0
  ELSE IF entries[i].state = "Wait" /\ in.retry /\ entries[i].retryNum < RetryMax
       THEN entries[i].retryNum + 1
  ELSE entries[i].retryNum

\* Broken variant: no task ever times out.
NextTimeoutNever(in, i) == FALSE

\* timeout follows the old counter, also in the cycle a new task resets it:
\* the successor of a timed-out task is itself timed out for one cycle.
NextTimeout(in, i) == entries[i].retryNum = RetryMax

NextEntry(in, i) ==
  LET st == NextState(in, i)
      rn == NextRetryNum(in, i)
  IN  [state    |-> st,
       task     |-> NextTask(in, i),
       nid      |-> IF st = "Free" THEN 0 ELSE NextNid(in, i),
       retryNum |-> IF st = "Free" /\ rn < RetryMax THEN 0 ELSE rn,
       timeout  |-> st # "Free" /\ NextTimeout(in, i),
       validD1  |-> Live(i)]

NextEntries(in) == [i \in Idx |-> NextEntry(in, i)]

\* The static gate of the entries' update.  (The broken variant closes it while
\* the release of the last task still has to be taken back.)
BufAnyNoD1(in) == \E i \in Idx : Live(i) \/ InFire(in, i)
BufAny(in) == \E i \in Idx : Live(i) \/ entries[i].validD1 \/ InFire(in, i)

-----------------------------------------------------------------------------
BufInit == /\ entries = [i \in Idx |-> EmptyEntry]
           /\ hasLock = FALSE
           /\ vip = 0

BufTick(in) ==
  /\ entries' = IF BufAny(in) THEN NextEntries(in) ELSE entries
  /\ hasLock' = (LockAll # {})
  /\ vip'     = VipNext(vip, S0In, in.s0Rdy)

\* On its own the buffer meets any inputs at all.
BufNext == \E in \in BufInputs : BufTick(in)
BufSpec == BufInit /\ [][BufNext]_bufVars

-----------------------------------------------------------------------------
(* Properties *)

BufTypeOK == /\ entries \in [Idx -> Entry]
             /\ hasLock \in BOOLEAN
             /\ vip \in Idx

\* s1 judges one task per cycle, and its verdict is applied to every entry
\* that waits: so never may two wait.
OneWait == \A i, j \in Idx : entries[i].state = "Wait" /\ entries[j].state = "Wait" => i = j

LiveOf(a) == {i \in Idx : Live(i) /\ a \in UseAddr(i)}
Released(a) == \E j \in Idx : Rel(j) /\ a \in UseAddr(j)

\* The nids of an address are dense: they count the live tasks ahead, plus
\* the one release not seen yet.  A gap would leave the tasks behind it
\* waiting for ever, a tie would send two tasks of one address at once.
NidsDense ==
  \A a \in Line :
    LET n == Cardinality(LiveOf(a))
        r == IF Released(a) THEN 1 ELSE 0
    IN  {entries[i].nid : i \in LiveOf(a)} = r .. r + n - 1

\* A closed gate loses nothing, whatever the inputs.
BufGateLosesNothing == \A in \in BufInputs : ~BufAny(in) => NextEntries(in) = entries

\* One task judged at a time, and a gate that may be closed.
BufSafe == OneWait /\ BufGateLosesNothing

\* The buffer is a first-in first-out queue per address: the tasks ahead of a
\* live task are those of its address with a smaller nid.
Fifo == INSTANCE PerAddrFifo WITH
          Addr  <- Line,
          Place <- Idx,
          at    <- [i \in Idx |-> IF Live(i) THEN UseAddr(i) ELSE {}],
          ahead <- [i \in Idx |-> IF Live(i) THEN {j \in Idx : /\ Live(j) /\ UseAddr(j) = UseAddr(i)
                                                              /\ entries[j].nid < entries[i].nid}
                                  ELSE {}]
FifoSpec == Fifo!Spec
=============================================================================
