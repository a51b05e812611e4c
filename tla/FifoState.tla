----------------------------- MODULE FifoState -----------------------------
(***************************************************************************)
(* The value-type queue of prefab/fifo_state.h: a ring buffer with two     *)
(* pointers and a bit that tells full from empty, in the four combinations *)
(* of its Flow and Pipe options and with any depth.  The kind of the queue *)
(* is chosen in the initial state and never changes.                       *)
(*                                                                         *)
(* One step is one clock edge with inputs enq (at most one item) and       *)
(* deqRdy; acc and out record what passed the two ports at that edge.      *)
(***************************************************************************)
EXTENDS Fifo

CONSTANTS Item,    \* what the queue carries
          Deepest, \* the depths N are 1 .. Deepest
          Blank    \* an item, the contents of unwritten memory

ASSUME FifoAssumption ==
  /\ Deepest \in Nat \ {0}
  /\ Blank \in Item

VARIABLES c, s, acc, out
fifoVars == <<c, s, acc, out>>

Kinds == [n : 1 .. Deepest, flow : BOOLEAN, pipe : BOOLEAN]

\* The registers of a queue of kind k.
Regs(k) == [ram : [0 .. k.n - 1 -> Item], enq_ptr : 0 .. k.n - 1,
            deq_ptr : 0 .. k.n - 1, maybe_full : BOOLEAN]

fifoEmpty(st) == st.enq_ptr = st.deq_ptr /\ ~st.maybe_full
fifoFull(st)  == st.enq_ptr = st.deq_ptr /\ st.maybe_full

fifoEnqRdyPipeAlways(k, st, deqRdy) == ~fifoFull(st) \/ k.pipe  \* faulty variant
fifoEnqRdy(k, st, deqRdy) == ~fifoFull(st) \/ (k.pipe /\ deqRdy)

fifoDeq(k, st, enq) ==
  IF ~fifoEmpty(st) THEN <<st.ram[st.deq_ptr]>>
  ELSE IF k.flow THEN enq ELSE <<>>

fifoCount(k, st) ==
  IF st.enq_ptr = st.deq_ptr THEN (IF st.maybe_full THEN k.n ELSE 0)
  ELSE IF st.enq_ptr > st.deq_ptr THEN st.enq_ptr - st.deq_ptr
  ELSE st.enq_ptr + k.n - st.deq_ptr

\* An item that passes an empty flow queue in the cycle it arrives moves
\* neither pointer.
BypassNever(k, st, deqRdy) == FALSE  \* faulty variant
Bypass(k, st, deqRdy) == k.flow /\ fifoEmpty(st) /\ deqRdy

DoEnq(k, st, enq, deqRdy) ==
  enq # <<>> /\ fifoEnqRdy(k, st, deqRdy) /\ ~Bypass(k, st, deqRdy)
DoDeq(st, deqRdy) == deqRdy /\ ~fifoEmpty(st)

Inc(k, p) == IF p + 1 = k.n THEN 0 ELSE p + 1

fifoNext(k, st, enq, deqRdy) ==
  LET e == DoEnq(k, st, enq, deqRdy)
      d == DoDeq(st, deqRdy)
  IN  [ram |-> IF e THEN [st.ram EXCEPT ![st.enq_ptr] = enq[1]] ELSE st.ram,
       enq_ptr |-> IF e THEN Inc(k, st.enq_ptr) ELSE st.enq_ptr,
       deq_ptr |-> IF d THEN Inc(k, st.deq_ptr) ELSE st.deq_ptr,
       maybe_full |-> IF e # d THEN e ELSE st.maybe_full]

FifoInit ==
  /\ c \in Kinds
  /\ s = [ram |-> [i \in 0 .. c.n - 1 |-> Blank],
          enq_ptr |-> 0, deq_ptr |-> 0, maybe_full |-> FALSE]
  /\ acc = <<>> /\ out = <<>>

FifoTick(enq, deqRdy) ==
  /\ s' = fifoNext(c, s, enq, deqRdy)
  /\ acc' = IF fifoEnqRdy(c, s, deqRdy) THEN enq ELSE <<>>
  /\ out' = IF deqRdy THEN fifoDeq(c, s, enq) ELSE <<>>
  /\ c' = c

FifoNext == \E enq \in Opt(Item), deqRdy \in BOOLEAN : FifoTick(enq, deqRdy)

FifoSpec == FifoInit /\ [][FifoNext]_fifoVars

-----------------------------------------------------------------------------
\* The contents the pointers stand for: from deq_ptr on, round the end.
At(k, st, i) ==
  IF st.deq_ptr + i < k.n THEN st.deq_ptr + i ELSE st.deq_ptr + i - k.n
Items(k, st) == [i \in 1 .. fifoCount(k, st) |-> st.ram[At(k, st, i - 1)]]

(* The registers keep their types; the pointers stay inside the memory.    *)
FifoTypeOK ==
  /\ c \in Kinds
  /\ s \in Regs(c)
  /\ acc \in Opt(Item) /\ out \in Opt(Item)

(* Both ports show what a queue with these contents must show: readiness   *)
(* and the oldest or the arriving item (fifoEnqRdy, fifoDeq).              *)
PortsAgree ==
  \A enq \in Opt(Item), deqRdy \in BOOLEAN :
    /\ fifoEnqRdy(c, s, deqRdy) = EnqRdy(c, Items(c, s), deqRdy)
    /\ fifoDeq(c, s, enq) = Deq(c, Items(c, s), enq)

(* Every edge changes the contents exactly as the queue over sequences     *)
(* does, bypass and simultaneous read and write included (fifoNext).       *)
NextAgrees ==
  \A enq \in Opt(Item), deqRdy \in BOOLEAN :
    Items(c, fifoNext(c, s, enq, deqRdy)) = QNext(c, Items(c, s), enq, deqRdy)

(* A queue of any kind is a channel: nothing lost, duplicated, reordered.  *)
Chan == INSTANCE Channel WITH items <- Items(c, s), Cap <- Deepest
IsChannel == Chan!ChanSpec
=============================================================================
