-------------------------------- MODULE Fifo --------------------------------
(***************************************************************************)
(* The queue of chisel3.util.Queue as the model uses it, with its contents *)
(* as a sequence, oldest first.  A queue kind c has a depth c.n and the    *)
(* two options: c.flow, an item that arrives at an empty queue is visible  *)
(* at once, and c.pipe, a full queue accepts while it is being read.       *)
(* A Valid<T> wire is a sequence of at most one item.  FifoState shows     *)
(* that the pointers of prefab/fifo_state.h compute these operators.       *)
(***************************************************************************)
EXTENDS Naturals, Sequences

\* A wire that carries an item of S or nothing.
Opt(S) == {<<>>} \cup {<<x>> : x \in S}

EnqRdy(c, q, deqRdy) == Len(q) < c.n \/ (c.pipe /\ deqRdy)

\* What the reader sees: the oldest item, or the arriving one in a flow queue.
Deq(c, q, enq) ==
  IF q # <<>> THEN <<Head(q)>> ELSE IF c.flow THEN enq ELSE <<>>

Taken(c, q, enq, deqRdy) == IF EnqRdy(c, q, deqRdy) THEN enq ELSE <<>>
Given(c, q, enq, deqRdy) == IF deqRdy THEN Deq(c, q, enq) ELSE <<>>

QNext(c, q, enq, deqRdy) ==
  LET all == q \o Taken(c, q, enq, deqRdy)
  IN  IF Given(c, q, enq, deqRdy) # <<>> THEN Tail(all) ELSE all

\* FastQueue (prefab/fastq.h): a shift queue of depth n whose enq_rdy is a
\* register, updated only when exactly one of its two sides moves.
FqState(S) == [items : Seq(S), rdy : BOOLEAN]
FqEmpty == [items |-> <<>>, rdy |-> TRUE]

FqNextRdyLate(n, st, e, d) == IF e = d THEN st.rdy ELSE d \/ Len(st.items) < n  \* faulty variant
FqNextRdy(n, st, e, d) == IF e = d THEN st.rdy ELSE d \/ Len(st.items) < n - 1

FqNext(n, st, enq, deqRdy) ==
  LET e == enq # <<>> /\ st.rdy
      d == st.items # <<>> /\ deqRdy
  IN  [items |-> (IF d THEN Tail(st.items) ELSE st.items)
                 \o (IF e THEN enq ELSE <<>>),
       rdy |-> FqNextRdy(n, st, e, d)]
=============================================================================
