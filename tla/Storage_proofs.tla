--------------------------- MODULE Storage_proofs ----------------------------
(***************************************************************************)
(* The two queues of prefab/ for any depth and any items, its memories for *)
(* any number of rows and any timing, and what is built of them: the pool  *)
(* of buffer ids and the AXI bridges, whose requests lie in them.          *)
(*                                                                         *)
(* The ring buffer of fifo_state.h computes the queue of Fifo, in all four *)
(* kinds.  The argument is about positions: place i of the contents lies   *)
(* at At(k, st, i), different places lie at different addresses, and the   *)
(* write pointer is the address of the first place after the contents.     *)
(*                                                                         *)
(* The shift queue of fastq.h computes the plain kind: its registered      *)
(* enq_rdy is exact before an edge, so it is exact after it, and an update *)
(* that the static gate skips would have changed nothing.                  *)
(*                                                                         *)
(* A memory of sram.h puts writes off, samples reads late and answers      *)
(* later still.  The port that took a write stays shut until it is in the  *)
(* array, so at most one write is on its way, and what a read must bring   *)
(* is told by the array and that write (Holds), the younger ones left out. *)
(*                                                                         *)
(* The id pool, two FastQueues of half the ids.  That ids are conserved is *)
(* not inductive.  It needs that a queue never refuses one (its enq_rdy is *)
(* looked at by nobody), hence that there is room for what comes back, and *)
(* with two ids coming back at once there is room in both queues only if   *)
(* their lengths differ by one at most: this is what the steering of       *)
(* single ids is for (Balanced).  During the filling the queues hold what  *)
(* the counter has counted.                                                *)
(*                                                                         *)
(* The write data buffer of the memory bridge and the control of the       *)
(* bridges are at the end, each with an argument of its own.               *)
(***************************************************************************)
EXTENDS FifoState, FastQueue, Sram, Dbid, AxiDataBuffer, BridgeCm, Basics_proofs

LEMMA KindFields ==
  ASSUME NEW k \in Kinds
  PROVE  k.n \in Nat /\ k.n >= 1 /\ k.n <= Deepest
         /\ k.flow \in BOOLEAN /\ k.pipe \in BOOLEAN
BY FifoAssumption DEF Kinds

\* The count lies between empty and full, and where the next write goes.
LEMMA CountFacts ==
  ASSUME NEW k \in Kinds, NEW st \in Regs(k)
  PROVE  /\ fifoCount(k, st) \in Nat /\ fifoCount(k, st) <= k.n
         /\ fifoEmpty(st) <=> fifoCount(k, st) = 0
         /\ fifoFull(st) <=> fifoCount(k, st) = k.n
         /\ At(k, st, fifoCount(k, st)) = st.enq_ptr \/ fifoFull(st)
         /\ fifoFull(st) => st.enq_ptr = st.deq_ptr
<1>1. /\ st.enq_ptr \in Nat /\ st.deq_ptr \in Nat /\ st.maybe_full \in BOOLEAN
      /\ st.enq_ptr < k.n /\ st.deq_ptr < k.n /\ k.n \in Nat /\ k.n >= 1
  BY KindFields DEF Regs
<1> QED BY <1>1 DEF fifoCount, fifoEmpty, fifoFull, At

\* Places have addresses in the memory, and different ones.
LEMMA AtFacts ==
  ASSUME NEW k \in Kinds, NEW st \in Regs(k),
         NEW i \in Nat, i < k.n
  PROVE  /\ At(k, st, i) \in 0 .. k.n - 1
         /\ \A j \in Nat : j < k.n /\ At(k, st, i) = At(k, st, j) => i = j
<1>1. /\ st.deq_ptr \in Nat /\ st.deq_ptr < k.n /\ k.n \in Nat /\ k.n >= 1
  BY KindFields DEF Regs
<1> QED BY <1>1 DEF At

LEMMA ItemsFacts ==
  ASSUME NEW k \in Kinds, NEW st \in Regs(k)
  PROVE  /\ Items(k, st) \in Seq(Item)
         /\ Len(Items(k, st)) = fifoCount(k, st)
         /\ \A i \in 1 .. fifoCount(k, st) : Items(k, st)[i] = st.ram[At(k, st, i - 1)]
<1> DEFINE cnt == fifoCount(k, st)
<1>1. cnt \in Nat /\ cnt <= k.n /\ k.n \in Nat
  BY CountFacts, KindFields
<1>2. ASSUME NEW i \in 1 .. cnt PROVE st.ram[At(k, st, i - 1)] \in Item
  <2>1. i - 1 \in Nat /\ i - 1 < k.n
    BY <1>1
  <2>2. At(k, st, i - 1) \in 0 .. k.n - 1
    BY <2>1, AtFacts
  <2> QED BY <2>2 DEF Regs
<1> HIDE DEF cnt
<1>3. Items(k, st) = [i \in 1 .. cnt |-> st.ram[At(k, st, i - 1)]]
  BY DEF Items, cnt
<1>4. Items(k, st) \in [1 .. cnt -> Item]
  BY <1>2, <1>3
<1>5. Items(k, st) \in Seq(Item) /\ Len(Items(k, st)) = cnt
  BY <1>1, <1>4
<1> QED BY <1>3, <1>5 DEF cnt

\* The ports show what a queue with these contents shows.
LEMMA PortsFacts ==
  ASSUME NEW k \in Kinds, NEW st \in Regs(k), NEW enq \in Opt(Item), NEW deqRdy \in BOOLEAN
  PROVE  /\ fifoEnqRdy(k, st, deqRdy) = EnqRdy(k, Items(k, st), deqRdy)
         /\ fifoDeq(k, st, enq) = Deq(k, Items(k, st), enq)
         /\ fifoEmpty(st) <=> Items(k, st) = <<>>
<1> DEFINE it == Items(k, st)
           cnt == fifoCount(k, st)
<1>1. /\ it \in Seq(Item) /\ Len(it) = cnt
      /\ \A i \in 1 .. cnt : it[i] = st.ram[At(k, st, i - 1)]
  BY ItemsFacts
<1>2. /\ cnt \in Nat /\ cnt <= k.n
      /\ fifoEmpty(st) <=> cnt = 0
      /\ fifoFull(st) <=> cnt = k.n
  BY CountFacts
<1> HIDE DEF it, cnt
<1>3. fifoEmpty(st) <=> it = <<>>
  BY <1>1, <1>2, EmptySeq
<1>4. fifoEnqRdy(k, st, deqRdy) = EnqRdy(k, it, deqRdy)
  <2>1. k.n \in Nat /\ k.pipe \in BOOLEAN
    BY KindFields
  <2>2. ~fifoFull(st) <=> Len(it) < k.n
    BY <1>1, <1>2, <2>1
  <2> QED BY <2>1, <2>2 DEF fifoEnqRdy, EnqRdy
<1>5. it # <<>> => <<st.ram[st.deq_ptr]>> = <<Head(it)>>
  <2> SUFFICES ASSUME it # <<>> PROVE st.ram[st.deq_ptr] = Head(it)
    OBVIOUS
  <2>1. 1 \in 1 .. cnt
    BY <1>2, <1>3
  <2>2. it[1] = st.ram[At(k, st, 0)]
    BY <1>1, <2>1
  <2>3. At(k, st, 0) = st.deq_ptr
    BY KindFields DEF At, Regs
  <2> QED BY <2>2, <2>3, <1>1
<1>6. fifoDeq(k, st, enq) = Deq(k, it, enq)
  BY <1>3, <1>5 DEF fifoDeq, Deq
<1> QED BY <1>3, <1>4, <1>6 DEF it

\* How far the write pointer a is ahead of the read pointer b in a ring of n.
Dist(n, a, b, m) ==
  IF a = b THEN (IF m THEN n ELSE 0) ELSE IF a > b THEN a - b ELSE a + n - b
IncMod(n, p) == IF p + 1 = n THEN 0 ELSE p + 1

LEMMA DistMoves ==
  ASSUME NEW n \in Nat, NEW a \in Nat, NEW b \in Nat, a < n, b < n, NEW m \in BOOLEAN
  PROVE  /\ ~(a = b /\ ~m) => Dist(n, IncMod(n, a), IncMod(n, b), m) = Dist(n, a, b, m)
         /\ ~(a = b /\ m) => Dist(n, IncMod(n, a), b, TRUE) = Dist(n, a, b, m) + 1
         /\ ~(a = b /\ ~m) => Dist(n, a, IncMod(n, b), FALSE) = Dist(n, a, b, m) - 1
<1>1. CASE a = b
  BY <1>1 DEF Dist, IncMod
<1>2. CASE a < b
  BY <1>2 DEF Dist, IncMod
<1>3. CASE a > b
  BY <1>3 DEF Dist, IncMod
<1>4. a = b \/ a < b \/ a > b
  OBVIOUS
<1> QED BY <1>1, <1>2, <1>3, <1>4, Zenon

\* One edge keeps the types and moves the count by what is written and read.
LEMMA NextRegs ==
  ASSUME NEW k \in Kinds, NEW st \in Regs(k), NEW enq \in Opt(Item), NEW deqRdy \in BOOLEAN,
         NEW e, e = DoEnq(k, st, enq, deqRdy), NEW d, d = DoDeq(st, deqRdy),
         NEW nx, nx = fifoNext(k, st, enq, deqRdy)
  PROVE  /\ nx \in Regs(k)
         /\ fifoCount(k, nx) =
              fifoCount(k, st) + (IF e THEN 1 ELSE 0) - (IF d THEN 1 ELSE 0)
         /\ nx.deq_ptr = IF d THEN Inc(k, st.deq_ptr) ELSE st.deq_ptr
         /\ nx.ram = IF e THEN [st.ram EXCEPT ![st.enq_ptr] = enq[1]] ELSE st.ram
<1>1. /\ st.enq_ptr \in Nat /\ st.deq_ptr \in Nat /\ st.maybe_full \in BOOLEAN
      /\ st.enq_ptr < k.n /\ st.deq_ptr < k.n /\ k.n \in Nat /\ k.n >= 1
      /\ st.ram \in [0 .. k.n - 1 -> Item]
  BY KindFields DEF Regs
<1>2. /\ nx.ram = IF e THEN [st.ram EXCEPT ![st.enq_ptr] = enq[1]] ELSE st.ram
      /\ nx.enq_ptr = IF e THEN Inc(k, st.enq_ptr) ELSE st.enq_ptr
      /\ nx.deq_ptr = IF d THEN Inc(k, st.deq_ptr) ELSE st.deq_ptr
      /\ nx.maybe_full = IF e # d THEN e ELSE st.maybe_full
      /\ nx = [ram |-> nx.ram, enq_ptr |-> nx.enq_ptr, deq_ptr |-> nx.deq_ptr,
               maybe_full |-> nx.maybe_full]
  BY DEF fifoNext
<1>3. e \in BOOLEAN /\ d \in BOOLEAN /\ (e => enq # <<>>)
  BY DEF DoEnq, DoDeq
<1>4. /\ d => ~(st.enq_ptr = st.deq_ptr /\ ~st.maybe_full)
      /\ e /\ ~d => ~(st.enq_ptr = st.deq_ptr /\ st.maybe_full)
  BY <1>1 DEF DoEnq, DoDeq, fifoEnqRdy, fifoFull, fifoEmpty
<1>5. nx.ram \in [0 .. k.n - 1 -> Item]
  <2>1. enq # <<>> => enq[1] \in Item
    BY DEF Opt
  <2> QED BY <1>1, <1>2, <1>3, <2>1
<1>6. nx.enq_ptr \in 0 .. k.n - 1 /\ nx.deq_ptr \in 0 .. k.n - 1 /\ nx.maybe_full \in BOOLEAN
  BY <1>1, <1>2, <1>3 DEF Inc
<1>7. nx \in Regs(k)
  BY <1>2, <1>5, <1>6 DEF Regs
<1>8. fifoCount(k, nx) = fifoCount(k, st) + (IF e THEN 1 ELSE 0) - (IF d THEN 1 ELSE 0)
  <2> DEFINE a == st.enq_ptr
             b == st.deq_ptr
             m == st.maybe_full
  <2>1. /\ d => ~(a = b /\ ~m)
        /\ e /\ ~d => ~(a = b /\ m)
    BY <1>4
  <2>2. /\ fifoCount(k, st) = Dist(k.n, a, b, m)
        /\ fifoCount(k, nx) = Dist(k.n, nx.enq_ptr, nx.deq_ptr, nx.maybe_full)
    BY DEF fifoCount, Dist
  <2>3. /\ nx.enq_ptr = IF e THEN IncMod(k.n, a) ELSE a
        /\ nx.deq_ptr = IF d THEN IncMod(k.n, b) ELSE b
    BY <1>2 DEF Inc, IncMod
  <2>0. k.n \in Nat /\ a \in Nat /\ b \in Nat /\ a < k.n /\ b < k.n /\ m \in BOOLEAN
    BY <1>1
  <2> HIDE DEF a, b, m
  <2>4. /\ ~(a = b /\ ~m) =>
             Dist(k.n, IncMod(k.n, a), IncMod(k.n, b), m) = Dist(k.n, a, b, m)
        /\ ~(a = b /\ m) =>
             Dist(k.n, IncMod(k.n, a), b, TRUE) = Dist(k.n, a, b, m) + 1
        /\ ~(a = b /\ ~m) =>
             Dist(k.n, a, IncMod(k.n, b), FALSE) = Dist(k.n, a, b, m) - 1
    BY <2>0, DistMoves, ZenonT(30)
  <2>5. Dist(k.n, a, b, m) \in Nat
    BY <2>0 DEF Dist
  <2> DEFINE x == fifoCount(k, nx)
             y == fifoCount(k, st)
  <2>10. y \in Nat
    BY <2>2, <2>5
  <2> SUFFICES x = y + (IF e THEN 1 ELSE 0) - (IF d THEN 1 ELSE 0)
    OBVIOUS
  <2>6. CASE e /\ d
    <3>1. nx.maybe_full = m
      BY <2>6, <1>2 DEF m
    <3>2. x = y
      BY <2>6, <3>1, <2>1, <2>2, <2>3, <2>4
    <3> QED BY <2>10, <2>6, <3>2
  <2>7. CASE e /\ ~d
    <3>1. nx.maybe_full = TRUE
      BY <2>7, <1>2, <1>3
    <3>2. x = y + 1
      BY <2>7, <3>1, <2>1, <2>2, <2>3, <2>4
    <3> QED BY <2>10, <2>7, <3>2
  <2>8. CASE ~e /\ d
    <3>1. nx.maybe_full = FALSE
      BY <2>8, <1>2, <1>3
    <3>2. x = y - 1
      BY <2>8, <3>1, <2>1, <2>2, <2>3, <2>4
    <3> QED BY <2>10, <2>8, <3>2
  <2>9. CASE ~e /\ ~d
    <3>1. nx.maybe_full = m
      BY <2>9, <1>2, <1>3 DEF m
    <3>2. x = y
      BY <2>9, <3>1, <2>2, <2>3
    <3> QED BY <2>10, <2>9, <3>2
  <2> QED BY <1>3, <2>6, <2>7, <2>8, <2>9
<1> QED BY <1>2, <1>7, <1>8

\* One edge changes the contents as the queue over sequences does.
LEMMA NextItems ==
  ASSUME NEW k \in Kinds, NEW st \in Regs(k), NEW enq \in Opt(Item), NEW deqRdy \in BOOLEAN
  PROVE  Items(k, fifoNext(k, st, enq, deqRdy)) = QNext(k, Items(k, st), enq, deqRdy)
<1> DEFINE it  == Items(k, st)
           cnt == fifoCount(k, st)
           nx  == fifoNext(k, st, enq, deqRdy)
           e   == DoEnq(k, st, enq, deqRdy)
           d   == DoDeq(st, deqRdy)
           t   == Taken(k, it, enq, deqRdy)
           g   == Given(k, it, enq, deqRdy)
           all == it \o t
<1>1. /\ it \in Seq(Item) /\ Len(it) = cnt
      /\ \A i \in 1 .. cnt : it[i] = st.ram[At(k, st, i - 1)]
  BY ItemsFacts
<1>2. /\ cnt \in Nat /\ cnt <= k.n /\ k.n \in Nat /\ k.n >= 1
      /\ At(k, st, cnt) = st.enq_ptr \/ fifoFull(st)
      /\ fifoFull(st) => st.enq_ptr = st.deq_ptr
      /\ fifoFull(st) <=> cnt = k.n
      /\ fifoEmpty(st) <=> cnt = 0
  BY CountFacts, KindFields
<1>3. /\ nx \in Regs(k)
      /\ fifoCount(k, nx) = cnt + (IF e THEN 1 ELSE 0) - (IF d THEN 1 ELSE 0)
      /\ nx.deq_ptr = IF d THEN Inc(k, st.deq_ptr) ELSE st.deq_ptr
      /\ nx.ram = IF e THEN [st.ram EXCEPT ![st.enq_ptr] = enq[1]] ELSE st.ram
  BY NextRegs
<1>4. /\ Items(k, nx) \in Seq(Item) /\ Len(Items(k, nx)) = fifoCount(k, nx)
      /\ \A i \in 1 .. fifoCount(k, nx) : Items(k, nx)[i] = nx.ram[At(k, nx, i - 1)]
  BY <1>3, ItemsFacts
<1>5. /\ t = IF fifoEnqRdy(k, st, deqRdy) THEN enq ELSE <<>>
      /\ g = IF deqRdy THEN fifoDeq(k, st, enq) ELSE <<>>
      /\ fifoEmpty(st) <=> it = <<>>
  BY PortsFacts DEF Taken, Given
<1>6. CASE Bypass(k, st, deqRdy) /\ enq # <<>>
  <2>1. ~e /\ ~d /\ it = <<>> /\ cnt = 0
    BY <1>2, <1>5, <1>6 DEF DoEnq, DoDeq, Bypass
  <2>2. t = enq /\ g = enq
    BY <1>2, <1>5, <1>6 DEF Bypass, fifoEnqRdy, fifoDeq
  <2>3. all = enq
    BY <2>1, <2>2 DEF Opt
  <2>4. QNext(k, it, enq, deqRdy) = Tail(enq) /\ Tail(enq) = <<>>
    BY <2>2, <2>3, <1>6 DEF QNext, Opt
  <2>5. Len(Items(k, nx)) = 0
    BY <1>3, <1>4, <2>1
  <2> QED BY <1>4, <2>4, <2>5, EmptySeq
<1>7. CASE ~(Bypass(k, st, deqRdy) /\ enq # <<>>)
  <2>1. e <=> t # <<>>
    BY <1>5, <1>7 DEF DoEnq
  <2>2. d <=> g # <<>>
    BY <1>5, <1>7 DEF DoDeq, fifoDeq, Bypass
  <2>3. t \in Seq(Item) /\ Len(t) = (IF e THEN 1 ELSE 0) /\ (e => t[1] = enq[1])
    <3>1. t \in Opt(Item) /\ (t # <<>> => t = enq)
      BY <1>5 DEF Opt
    <3> QED BY <2>1, <3>1, OptIsSeq
  <2>4. /\ all \in Seq(Item) /\ Len(all) = cnt + (IF e THEN 1 ELSE 0)
        /\ \A i \in 1 .. cnt : all[i] = it[i]
        /\ e => all[cnt + 1] = enq[1]
    <3>1. /\ all \in Seq(Item) /\ Len(all) = Len(it) + Len(t)
          /\ \A i \in 1 .. Len(it) + Len(t) :
               all[i] = IF i <= Len(it) THEN it[i] ELSE t[i - Len(it)]
      BY <1>1, <2>3, ConcatProperties
    <3> HIDE DEF it, t, cnt, all, e
    <3>2. Len(it) + Len(t) = cnt + (IF e THEN 1 ELSE 0)
      BY <1>1, <2>3
    <3>3. \A i \in 1 .. cnt : all[i] = it[i]
      BY <1>1, <1>2, <3>1, <3>2
    <3>4. e => all[cnt + 1] = t[1]
      <4>1. e => cnt + 1 \in 1 .. Len(it) + Len(t) /\ ~(cnt + 1 <= Len(it)) /\ cnt + 1 - Len(it) = 1
        BY <1>1, <1>2, <3>2
      <4>2. ASSUME e PROVE all[cnt + 1] = t[cnt + 1 - Len(it)]
        <5>1. cnt + 1 \in 1 .. Len(it) + Len(t) /\ ~(cnt + 1 <= Len(it))
          BY <4>1, <4>2
        <5>2. cnt \in Nat /\ Len(it) \in Nat /\ Len(t) \in Nat
          BY <1>1, <1>2, <2>3
        <5> QED BY <3>1, <5>1, <5>2
      <4> QED BY <4>1, <4>2
    <3> QED BY <2>3, <3>1, <3>2, <3>3, <3>4
  <2>5. QNext(k, it, enq, deqRdy) = IF d THEN Tail(all) ELSE all
    BY <2>2 DEF QNext
  <2>6. d => cnt >= 1
    BY <1>2 DEF DoDeq
  <2> DEFINE off == IF d THEN 1 ELSE 0
             res == QNext(k, it, enq, deqRdy)
  <2>7. /\ res \in Seq(Item) /\ Len(res) = Len(all) - off
        /\ \A i \in 1 .. Len(res) : res[i] = all[i + off]
    <3>1. d => all # <<>>
      BY <1>2, <2>4, <2>6, EmptySeq
    <3> QED BY <2>4, <2>5, <3>1, HeadTailProperties
  <2>8. ASSUME NEW i \in 1 .. fifoCount(k, nx)
        PROVE  nx.ram[At(k, nx, i - 1)] = all[i + off]
    <3>1. i \in Nat /\ i >= 1 /\ i + off \in Nat /\ i + off <= cnt + (IF e THEN 1 ELSE 0)
          /\ i - 1 + off \in Nat
      BY <1>2, <1>3, <2>6
    <3>2. At(k, nx, i - 1) = At(k, st, i - 1 + off)
      <4>1. st.deq_ptr \in Nat /\ st.deq_ptr < k.n /\ i <= k.n
        BY <1>2, <1>3, CountFacts DEF Regs
      <4> QED BY <1>2, <1>3, <3>1, <4>1 DEF At, Inc
    <3>3. CASE i + off <= cnt
      <4>1. all[i + off] = st.ram[At(k, st, i - 1 + off)]
        BY <1>1, <2>4, <3>1, <3>3
      <4>2. i - 1 + off < k.n
        BY <1>2, <3>1, <3>3
      <4>3. At(k, st, i - 1 + off) \in 0 .. k.n - 1
        BY <3>1, <4>2, AtFacts
      <4>4. e => At(k, st, i - 1 + off) # st.enq_ptr
        <5> SUFFICES ASSUME e PROVE At(k, st, i - 1 + off) # st.enq_ptr
          OBVIOUS
        <5>1. CASE cnt < k.n
          <6>1. At(k, st, cnt) = st.enq_ptr
            BY <1>2, <5>1
          <6> QED BY <6>1, <5>1, <3>1, <3>3, <4>2, <1>2, AtFacts
        <5>2. CASE cnt = k.n
          <6>1. d
            BY <1>2, <5>2 DEF DoEnq, DoDeq, fifoEnqRdy
          <6>2. At(k, st, 0) = st.enq_ptr
            BY <1>2, <5>2 DEF At, Regs
          <6>3. i - 1 + off # 0 /\ 0 < k.n
            BY <1>2, <3>1, <6>1
          <6> QED BY <6>2, <6>3, <3>1, <4>2, AtFacts
        <5> QED BY <1>2, <5>1, <5>2
      <4> QED BY <1>3, <3>2, <4>1, <4>3, <4>4 DEF Regs
    <3>4. CASE i + off > cnt
      <4>1. e /\ i + off = cnt + 1
        BY <1>2, <3>1, <3>4
      <4>2. i - 1 + off = cnt
        BY <1>2, <3>1, <4>1
      <4>3. At(k, st, cnt) = st.enq_ptr
        <5>1. fifoFull(st) => At(k, st, cnt) = st.deq_ptr
          BY <1>2 DEF At, Regs
        <5> QED BY <1>2, <5>1
      <4>4. st.ram \in [0 .. k.n - 1 -> Item] /\ st.enq_ptr \in 0 .. k.n - 1
        BY DEF Regs
      <4>5. nx.ram[st.enq_ptr] = enq[1]
        BY <1>3, <4>1, <4>4
      <4>6. At(k, nx, i - 1) = st.enq_ptr
        BY <3>2, <4>2, <4>3
      <4>7. all[i + off] = enq[1]
        BY <2>4, <4>1
      <4> QED BY <4>5, <4>6, <4>7
    <3>5. i + off <= cnt \/ i + off > cnt
      BY <1>2, <3>1
    <3> QED BY <3>3, <3>4, <3>5
  <2>9. Len(Items(k, nx)) = Len(res)
    BY <1>2, <1>3, <1>4, <2>4, <2>6, <2>7
  <2>10. ASSUME NEW i \in 1 .. Len(res) PROVE Items(k, nx)[i] = res[i]
    <3>1. i \in 1 .. fifoCount(k, nx)
      BY <1>4, <2>9
    <3> QED BY <1>4, <2>7, <2>8, <3>1
  <2> HIDE DEF res, nx
  <2> QED BY <1>4, <2>7, <2>9, <2>10, SeqEqual DEF res, nx
<1> QED BY <1>6, <1>7

-----------------------------------------------------------------------------
\* What passes the ports at an edge, in terms of the contents.
LEMMA TickFacts ==
  ASSUME FifoTypeOK, NEW enq \in Opt(Item), NEW deqRdy \in BOOLEAN, FifoTick(enq, deqRdy)
  PROVE  /\ c' = c /\ s' \in Regs(c)
         /\ Items(c, s') = QNext(c, Items(c, s), enq, deqRdy)
         /\ acc' = Taken(c, Items(c, s), enq, deqRdy)
         /\ out' = Given(c, Items(c, s), enq, deqRdy)
<1>1. c \in Kinds /\ s \in Regs(c) /\ s' = fifoNext(c, s, enq, deqRdy) /\ c' = c
  BY DEF FifoTypeOK, FifoTick
<1>2. s' \in Regs(c)
  BY <1>1, NextRegs
<1>3. Items(c, s') = QNext(c, Items(c, s), enq, deqRdy)
  BY <1>1, NextItems
<1>4. /\ fifoEnqRdy(c, s, deqRdy) = EnqRdy(c, Items(c, s), deqRdy)
      /\ fifoDeq(c, s, enq) = Deq(c, Items(c, s), enq)
  BY <1>1, PortsFacts
<1>5. /\ acc' = IF fifoEnqRdy(c, s, deqRdy) THEN enq ELSE <<>>
      /\ out' = IF deqRdy THEN fifoDeq(c, s, enq) ELSE <<>>
  BY DEF FifoTick
<1> QED BY <1>1, <1>2, <1>3, <1>4, <1>5 DEF Taken, Given

\* The contents are a sequence that fits the depth.
LEMMA ContentsFit ==
  ASSUME FifoTypeOK
  PROVE  /\ Items(c, s) \in Seq(Item) /\ Len(Items(c, s)) <= c.n
         /\ c.n \in Nat \ {0} /\ Len(Items(c, s)) <= Deepest
<1>1. c \in Kinds /\ s \in Regs(c)
  BY DEF FifoTypeOK
<1>2. c.n \in Nat /\ c.n >= 1 /\ c.n <= Deepest
  BY <1>1, KindFields
<1>3. Items(c, s) \in Seq(Item) /\ Len(Items(c, s)) = fifoCount(c, s)
  BY <1>1, ItemsFacts
<1>4. fifoCount(c, s) \in Nat /\ fifoCount(c, s) <= c.n
  BY <1>1, CountFacts
<1> QED BY <1>2, <1>3, <1>4, FifoAssumption

\* The type invariant: the pointers never leave the memory, for any depth.
THEOREM FifoTypeCorrect == FifoSpec => []FifoTypeOK
<1>1. FifoInit => FifoTypeOK
  <2> SUFFICES ASSUME FifoInit PROVE FifoTypeOK
    OBVIOUS
  <2>1. c.n \in Nat /\ c.n >= 1
    BY KindFields DEF FifoInit
  <2> QED BY <2>1, FifoAssumption DEF FifoInit, FifoTypeOK, Regs, Opt
<1>2. FifoTypeOK /\ [FifoNext]_fifoVars => FifoTypeOK'
  <2> SUFFICES ASSUME FifoTypeOK, [FifoNext]_fifoVars PROVE FifoTypeOK'
    OBVIOUS
  <2>1. CASE UNCHANGED fifoVars
    BY <2>1 DEF FifoTypeOK, fifoVars
  <2>2. CASE FifoNext
    <3>1. PICK enq \in Opt(Item), deqRdy \in BOOLEAN : FifoTick(enq, deqRdy)
      BY <2>2 DEF FifoNext
    <3>2. /\ c' = c /\ s' \in Regs(c)
          /\ acc' = Taken(c, Items(c, s), enq, deqRdy)
          /\ out' = Given(c, Items(c, s), enq, deqRdy)
      BY <3>1, TickFacts
    <3>3. /\ Taken(c, Items(c, s), enq, deqRdy) \in Opt(Item)
          /\ Given(c, Items(c, s), enq, deqRdy) \in Opt(Item)
      BY ContentsFit, QTypes
    <3>4. c \in Kinds
      BY DEF FifoTypeOK
    <3> QED BY <3>2, <3>3, <3>4 DEF FifoTypeOK
  <2> QED BY <2>1, <2>2
<1> QED BY <1>1, <1>2, PTL DEF FifoSpec

\* The ports of the ring buffer are those of a queue with its contents.
THEOREM FifoPortsAgree == FifoSpec => []PortsAgree
<1>1. FifoTypeOK => PortsAgree
  BY PortsFacts DEF FifoTypeOK, PortsAgree
<1> QED BY <1>1, FifoTypeCorrect, PTL

\* Every edge of the ring buffer is an edge of the queue over sequences, so
\* that modules may use the latter.
THEOREM FifoNextAgrees == FifoSpec => []NextAgrees
<1>1. FifoTypeOK => NextAgrees
  BY NextItems DEF FifoTypeOK, NextAgrees
<1> QED BY <1>1, FifoTypeCorrect, PTL

\* The ring buffer is a channel: nothing lost, repeated or reordered.
THEOREM FifoIsChannel == FifoSpec => IsChannel
<1> DEFINE Fits == Len(Items(c, s)) <= Deepest
<1>1. FifoInit => Chan!ChanInit
  <2> SUFFICES ASSUME FifoInit PROVE Items(c, s) = <<>> /\ acc = <<>> /\ out = <<>>
    BY DEF Chan!ChanInit
  <2>1. c \in Kinds /\ s \in Regs(c) /\ fifoCount(c, s) = 0
    <3>1. c.n \in Nat /\ c.n >= 1
      BY KindFields DEF FifoInit
    <3> QED BY <3>1, FifoAssumption DEF FifoInit, Regs, fifoCount
  <2>2. Items(c, s) \in Seq(Item) /\ Len(Items(c, s)) = 0
    BY <2>1, ItemsFacts
  <2> QED BY <2>2, EmptySeq DEF FifoInit
<1>2. ASSUME FifoTypeOK, Fits', [FifoNext]_fifoVars
      PROVE  [Chan!ChanNext]_<<Items(c, s), acc, out>>
  <2>1. CASE UNCHANGED fifoVars
    BY <2>1 DEF fifoVars
  <2>2. CASE FifoNext
    <3>1. PICK enq \in Opt(Item), deqRdy \in BOOLEAN : FifoTick(enq, deqRdy)
      BY <2>2 DEF FifoNext
    <3>2. /\ c' = c
          /\ Items(c, s') = QNext(c, Items(c, s), enq, deqRdy)
          /\ acc' = Taken(c, Items(c, s), enq, deqRdy)
          /\ out' = Given(c, Items(c, s), enq, deqRdy)
      BY <1>2, <3>1, TickFacts
    <3>6. Items(c, s) \in Seq(Item) /\ Len(Items(c, s)) <= c.n /\ c.n \in Nat \ {0}
      BY <1>2, ContentsFit
    <3>3. /\ Taken(c, Items(c, s), enq, deqRdy) \in Opt(Item)
          /\ Given(c, Items(c, s), enq, deqRdy) \in Opt(Item)
          /\ Given(c, Items(c, s), enq, deqRdy) \o QNext(c, Items(c, s), enq, deqRdy)
               = Items(c, s) \o Taken(c, Items(c, s), enq, deqRdy)
      BY <3>6, QTypes, QConserves
    <3>4. /\ acc' \in Seq(Item) /\ Len(acc') <= 1 /\ Len(out') <= 1
          /\ out' \o Items(c, s') = Items(c, s) \o acc'
      <4>1. acc' \in Opt(Item) /\ out' \in Opt(Item)
        BY <3>2, <3>3
      <4>2. acc' \in Seq(Item) /\ Len(acc') <= 1 /\ Len(out') <= 1
        BY <4>1, OptIsSeq
      <4> QED BY <4>2, <3>2, <3>3
    <3>5. Items(c, s)' = Items(c, s')
      BY <3>2
    <3> QED BY <1>2, <3>4, <3>5 DEF Chan!ChanNext
  <2> QED BY <1>2, <2>1, <2>2
<1>3. FifoTypeOK /\ Fits' /\ [FifoNext]_fifoVars
        => [Chan!ChanNext]_<<Items(c, s), acc, out>>
  BY <1>2
<1>4. FifoTypeOK => Fits
  BY ContentsFit
<1> QED BY <1>1, <1>3, <1>4, FifoTypeCorrect, PTL DEF FifoSpec, IsChannel, Chan!ChanSpec

-----------------------------------------------------------------------------
(* FastQueue.                                                              *)

FqSound ==
  /\ depth \in 2 .. FqDeepest
  /\ fq \in FqState(FqItem) /\ Len(fq.items) <= depth
  /\ fq.rdy = (Len(fq.items) < depth)

\* The registered enq_rdy is that of the plain queue, and so is an edge.
LEMMA FqIsPlain ==
  ASSUME FqSound, NEW enq \in Opt(FqItem), NEW deqRdy \in BOOLEAN
  PROVE  /\ Plain.n \in Nat \ {0} /\ fq.items \in Seq(FqItem) /\ Len(fq.items) <= Plain.n
         /\ Plain.n = depth /\ Plain.flow = FALSE /\ Plain.pipe = FALSE
         /\ fq.rdy = EnqRdy(Plain, fq.items, deqRdy)
         /\ FqNext(depth, fq, enq, deqRdy).items = QNext(Plain, fq.items, enq, deqRdy)
         /\ Taken(Plain, fq.items, enq, deqRdy) = IF fq.rdy THEN enq ELSE <<>>
         /\ Given(Plain, fq.items, enq, deqRdy)
              = IF deqRdy /\ fq.items # <<>> THEN <<Head(fq.items)>> ELSE <<>>
<1> DEFINE q == fq.items
           e == enq # <<>> /\ fq.rdy
           d == q # <<>> /\ deqRdy
           taken == Taken(Plain, q, enq, deqRdy)
           given == Given(Plain, q, enq, deqRdy)
<1>1. /\ depth \in Nat /\ depth >= 2 /\ q \in Seq(FqItem) /\ Len(q) \in Nat /\ Len(q) <= depth
      /\ fq.rdy = (Len(q) < depth)
  BY FqAssumption, LenProperties DEF FqSound, FqState
<1>2. Plain.n = depth /\ Plain.flow = FALSE /\ Plain.pipe = FALSE
  BY DEF Plain
<1>3. fq.rdy = EnqRdy(Plain, q, deqRdy)
  BY <1>1, <1>2 DEF EnqRdy
<1>4. taken = IF fq.rdy THEN enq ELSE <<>>
  BY <1>3 DEF Taken
<1>5. given = IF d THEN <<Head(q)>> ELSE <<>>
  BY <1>2 DEF Given, Deq
<1>6. taken \in Seq(FqItem) /\ taken = (IF e THEN enq ELSE <<>>)
  <2>1. enq \in Seq(FqItem) /\ <<>> \in Seq(FqItem)
    BY OptIsSeq, EmptySeq
  <2> QED BY <2>1, <1>4
<1>7. QNext(Plain, q, enq, deqRdy) = IF d THEN Tail(q \o taken) ELSE q \o taken
  <2>1. given # <<>> <=> d
    BY <1>5
  <2> QED BY <2>1 DEF QNext
<1>8. FqNext(depth, fq, enq, deqRdy).items = (IF d THEN Tail(q) ELSE q) \o taken
  BY <1>6 DEF FqNext
<1>9. d => Tail(q \o taken) = Tail(q) \o taken
  BY <1>1, <1>6, TailConcat
<1>10. FqNext(depth, fq, enq, deqRdy).items = QNext(Plain, q, enq, deqRdy)
  <2> HIDE DEF q, taken, given
  <2> QED BY <1>7, <1>8, <1>9
<1>11. Plain.n \in Nat \ {0} /\ Len(q) <= Plain.n
  <2> DEFINE l == Len(q)
  <2>1. l <= depth /\ depth \in Nat /\ depth >= 2
    BY <1>1
  <2> HIDE DEF l
  <2> QED BY <1>2, <2>1 DEF l
<1> QED BY <1>1, <1>2, <1>3, <1>4, <1>5, <1>10, <1>11

\* The same for the update behind the static gate: a closed gate skips nothing.
LEMMA FqEdge ==
  ASSUME FqSound, NEW enq \in Opt(FqItem), NEW deqRdy \in BOOLEAN, FqTick(enq, deqRdy)
  PROVE  /\ depth' = depth /\ fq' = FqNext(depth, fq, enq, deqRdy)
         /\ fqAcc' = Taken(Plain, fq.items, enq, deqRdy)
         /\ fqOut' = Given(Plain, fq.items, enq, deqRdy)
         /\ fq'.items = QNext(Plain, fq.items, enq, deqRdy)
<1>1. fq' = FqNext(depth, fq, enq, deqRdy)
  <2>1. CASE WChg(enq, deqRdy)
    BY <2>1 DEF FqTick
  <2>2. CASE ~WChg(enq, deqRdy)
    <3>1. ~(enq # <<>> /\ fq.rdy) /\ ~(fq.items # <<>> /\ deqRdy) /\ fq' = fq
      BY <2>2 DEF WChg, FqTick
    <3>2. fq = [items |-> fq.items, rdy |-> fq.rdy] /\ fq.items \in Seq(FqItem)
      BY DEF FqSound, FqState
    <3>3. fq.items \o <<>> = fq.items
      BY <3>2, ConcatEmptySeq
    <3>4. FqNext(depth, fq, enq, deqRdy) = [items |-> fq.items \o <<>>, rdy |-> fq.rdy]
      BY <3>1 DEF FqNext, FqNextRdy
    <3> QED BY <3>1, <3>2, <3>3, <3>4
  <2> QED BY <2>1, <2>2
<1>2. fqAcc' = (IF fq.rdy THEN enq ELSE <<>>) /\ depth' = depth
      /\ fqOut' = IF deqRdy /\ fq.items # <<>> THEN <<Head(fq.items)>> ELSE <<>>
  BY DEF FqTick
<1> QED BY <1>1, <1>2, FqIsPlain

LEMMA FqRdyStep ==
  ASSUME FqSound, NEW enq \in Opt(FqItem), NEW deqRdy \in BOOLEAN,
         NEW x, x = FqNext(depth, fq, enq, deqRdy)
  PROVE  x \in FqState(FqItem) /\ Len(x.items) <= depth /\ x.rdy = (Len(x.items) < depth)
<1> DEFINE q == fq.items
           e == enq # <<>> /\ fq.rdy
           d == q # <<>> /\ deqRdy
           l == Len(q)
           a == IF e THEN 1 ELSE 0
           k == IF d THEN 1 ELSE 0
<1>1. /\ depth \in Nat /\ depth >= 2 /\ q \in Seq(FqItem) /\ l \in Nat /\ l <= depth /\ fq.rdy = (l < depth)
  BY FqAssumption, LenProperties DEF FqSound, FqState
<1>2. /\ x.items = QNext(Plain, q, enq, deqRdy)
      /\ Taken(Plain, q, enq, deqRdy) = IF fq.rdy THEN enq ELSE <<>>
      /\ Given(Plain, q, enq, deqRdy) = IF deqRdy /\ q # <<>> THEN <<Head(q)>> ELSE <<>>
      /\ Plain.n \in Nat \ {0} /\ l <= Plain.n
  BY FqIsPlain
<1>3. Len(Taken(Plain, q, enq, deqRdy)) = a /\ Len(Given(Plain, q, enq, deqRdy)) = k
  <2>1. Taken(Plain, q, enq, deqRdy) \in Opt(FqItem) /\ Given(Plain, q, enq, deqRdy) \in Opt(FqItem)
    BY <1>1, <1>2, QTypes
  <2>2. Taken(Plain, q, enq, deqRdy) # <<>> <=> e
    BY <1>2
  <2>3. Given(Plain, q, enq, deqRdy) # <<>> <=> d
    BY <1>2
  <2> QED BY <2>1, <2>2, <2>3, OptIsSeq
<1>4. x.items \in Seq(FqItem) /\ Len(x.items) = l + a - k
  <2>1. QNext(Plain, q, enq, deqRdy) \in Seq(FqItem)
    BY <1>1, <1>2, QTypes
  <2>2. Len(QNext(Plain, q, enq, deqRdy))
          = l + Len(Taken(Plain, q, enq, deqRdy)) - Len(Given(Plain, q, enq, deqRdy))
    BY <1>1, <1>2, QLen
  <2> HIDE DEF a, k, q
  <2> QED BY <2>1, <2>2, <1>2, <1>3
<1>5. x = [items |-> x.items, rdy |-> FqNextRdy(depth, fq, e, d)]
  BY DEF FqNext
<1>6. k = 1 => l > 0
  BY <1>1, EmptySeq
<1>7. (e <=> a = 1) /\ (d <=> k = 1) /\ a \in {0, 1} /\ k \in {0, 1} /\ (a = 1 => l < depth)
  <2>1. e => l < depth
    BY <1>1
  <2>2. /\ a \in {0, 1} /\ k \in {0, 1} /\ (e => a = 1) /\ (~e => a = 0)
        /\ (d => k = 1) /\ (~d => k = 0)
    OBVIOUS
  <2> HIDE DEF e, d, a, k, l
  <2> QED BY <2>1, <2>2
<1>8. FqNextRdy(depth, fq, e, d) = IF (a = 1) = (k = 1) THEN l < depth ELSE k = 1 \/ l < depth - 1
  <2>1. e = (a = 1) /\ d = (k = 1) /\ e \in BOOLEAN /\ d \in BOOLEAN
    BY <1>1, <1>7
  <2>2. FqNextRdy(depth, fq, e, d) = IF e = d THEN l < depth ELSE d \/ l < depth - 1
    BY <1>1 DEF FqNextRdy
  <2> HIDE DEF e, d, a, k, l
  <2> QED BY <2>1, <2>2
<1>9. Len(x.items) <= depth /\ x.rdy = (Len(x.items) < depth)
  <2>1. x.rdy = IF (a = 1) = (k = 1) THEN l < depth ELSE k = 1 \/ l < depth - 1
    BY <1>5, <1>8
  <2> HIDE DEF a, k, l, e, d
  <2> QED BY <1>1, <1>4, <1>6, <1>7, <2>1
<1>10. x \in FqState(FqItem)
  <2>1. x.rdy \in BOOLEAN
    BY <1>9
  <2>2. x = [items |-> x.items, rdy |-> x.rdy]
    BY <1>5
  <2> QED BY <1>4, <2>1, <2>2 DEF FqState
<1> QED BY <1>9, <1>10

\* The registered enq_rdy is exact, whatever came and went.
THEOREM FqRdyExact == FqSpec => []FqSound
<1>1. FqInit => FqSound
  <2> SUFFICES ASSUME FqInit PROVE FqSound
    OBVIOUS
  <2>1. depth \in 2 .. FqDeepest /\ fq.items = <<>> /\ fq.rdy = TRUE /\ fq \in FqState(FqItem)
    BY EmptySeq DEF FqInit, FqEmpty, FqState
  <2>2. Len(fq.items) = 0
    BY <2>1, EmptySeq
  <2>3. depth \in Nat /\ depth >= 2
    BY <2>1, FqAssumption
  <2>4. Len(fq.items) <= depth /\ Len(fq.items) < depth
    BY <2>2, <2>3
  <2> QED BY <2>1, <2>4 DEF FqSound
<1>2. FqSound /\ [FqSpecNext]_fqVars => FqSound'
  <2> SUFFICES ASSUME FqSound, [FqSpecNext]_fqVars PROVE FqSound'
    OBVIOUS
  <2>1. CASE UNCHANGED fqVars
    BY <2>1 DEF FqSound, fqVars
  <2>2. CASE FqSpecNext
    <3>1. PICK enq \in Opt(FqItem), deqRdy \in BOOLEAN : FqTick(enq, deqRdy)
      BY <2>2 DEF FqSpecNext
    <3>2. depth' = depth /\ fq' = FqNext(depth, fq, enq, deqRdy)
      BY <3>1, FqEdge
    <3>3. fq' \in FqState(FqItem) /\ Len(fq'.items) <= depth /\ fq'.rdy = (Len(fq'.items) < depth)
      BY <3>2, FqRdyStep
    <3> QED BY <3>2, <3>3 DEF FqSound
  <2> QED BY <2>1, <2>2
<1> QED BY <1>1, <1>2, PTL DEF FqSpec

\* The registered enq_rdy of FastQueue never differs from that of a plain
\* queue of its depth, and its shift register holds what that queue holds.
THEOREM FqIsPlainQueue == FqSpec => []FastIsPlainQueue
<1>1. FqSound => FastIsPlainQueue
  BY FqIsPlain DEF FastIsPlainQueue
<1> QED BY <1>1, FqRdyExact, PTL

\* FastQueue, with its static gate, is a channel: nothing lost, repeated or
\* reordered.
THEOREM FqIsChannel == FqSpec => FastIsChannel
<1>1. FqInit => FqChan!ChanInit
  BY DEF FqInit, FqEmpty, FqChan!ChanInit
<1>2. ASSUME FqSound, FqSound', [FqSpecNext]_fqVars
      PROVE  [FqChan!ChanNext]_<<fq.items, fqAcc, fqOut>>
  <2>1. CASE UNCHANGED fqVars
    BY <2>1 DEF fqVars
  <2>2. CASE FqSpecNext
    <3>1. PICK enq \in Opt(FqItem), deqRdy \in BOOLEAN : FqTick(enq, deqRdy)
      BY <2>2 DEF FqSpecNext
    <3>2. /\ fqAcc' = Taken(Plain, fq.items, enq, deqRdy)
          /\ fqOut' = Given(Plain, fq.items, enq, deqRdy)
          /\ fq'.items = QNext(Plain, fq.items, enq, deqRdy)
      BY <1>2, <3>1, FqEdge
    <3>3. Plain.n \in Nat \ {0} /\ fq.items \in Seq(FqItem) /\ Len(fq.items) <= Plain.n
      BY <1>2, FqIsPlain
    <3>4. fqAcc' \in Opt(FqItem) /\ fqOut' \in Opt(FqItem)
          /\ fqOut' \o fq'.items = fq.items \o fqAcc'
      BY <3>2, <3>3, QTypes, QConserves
    <3>5. fqAcc' \in Seq(FqItem) /\ Len(fqAcc') <= 1 /\ Len(fqOut') <= 1
      BY <3>4, OptIsSeq
    <3>6. Len(fq'.items) <= FqDeepest
      <4>1. /\ fq'.items \in Seq(FqItem) /\ Len(fq'.items) <= depth' /\ depth' \in Nat /\ depth' <= FqDeepest
        BY <1>2, FqAssumption DEF FqSound, FqState
      <4>2. Len(fq'.items) \in Nat
        BY <4>1, LenProperties
      <4> QED BY <4>1, <4>2, FqAssumption
    <3> QED BY <3>4, <3>5, <3>6 DEF FqChan!ChanNext
  <2> QED BY <1>2, <2>1, <2>2
<1>3. FqSound /\ FqSound' /\ [FqSpecNext]_fqVars => [FqChan!ChanNext]_<<fq.items, fqAcc, fqOut>>
  BY <1>2
<1> QED BY <1>1, <1>3, FqRdyExact, PTL DEF FqSpec, FastIsChannel, FqChan!ChanSpec

-----------------------------------------------------------------------------
(* The memories.                                                           *)

SramWr == [row : Row, word : Word]
SramRd == [row : Row, fwd : Opt(Word)]
SramTypes ==
  /\ cfg \in SramKinds
  /\ mem \in [Row -> Word] /\ now \in [Row -> Word]
  /\ intv \in [SramPorts(cfg) -> Int]
  /\ capPipe \in [1 .. CapDelay(cfg) -> Opt(SramRd)]
  /\ holdPipe \in [1 .. HoldDelay(cfg) -> Opt(Word)]
  /\ wrPipe \in [1 .. WrDelay(cfg) -> Opt(SramWr)]
  /\ brings \in [1 .. ReadDelay(cfg) -> Opt(Word)]

\* A port that took a write is shut until the write is in the array.
OneWrite ==
  \A j \in 1 .. WrDelay(cfg) : wrPipe[j] # <<>> =>
    /\ intv[Port("write")] >= cfg.isc - j
    /\ \A k \in 1 .. WrDelay(cfg) : wrPipe[k] # <<>> => k = j

\* w is what row r holds once the writes taken i edges ago or earlier are in.
Holds(r, i, w) ==
  \/ \E j \in 1 .. WrDelay(cfg) : /\ j >= i /\ wrPipe[j] # <<>>
                                  /\ wrPipe[j][1].row = r /\ wrPipe[j][1].word = w
  \/ /\ w = mem[r]
     /\ \A j \in 1 .. WrDelay(cfg) : j >= i /\ wrPipe[j] # <<>> => wrPipe[j][1].row # r

NowIs == \A r \in Row : Holds(r, 1, now[r])
CapIs ==
  \A i \in 1 .. CapDelay(cfg) :
    /\ capPipe[i] = <<>> => brings[i] = <<>>
    /\ capPipe[i] # <<>> /\ capPipe[i][1].fwd # <<>> => brings[i] = capPipe[i][1].fwd
    /\ capPipe[i] # <<>> /\ capPipe[i][1].fwd = <<>> =>
         \E w \in Word : brings[i] = <<w>> /\ Holds(capPipe[i][1].row, i, w)
HoldIs == \A i \in 1 .. HoldDelay(cfg) : holdPipe[i] = brings[CapDelay(cfg) + i]

SramInv == SramTypes /\ OneWrite /\ NowIs /\ CapIs /\ HoldIs

LEMMA SramDelays ==
  ASSUME NEW k \in SramKinds
  PROVE  /\ k.isc \in Nat \ {0} /\ k.lat \in Nat \ {0}
         /\ k.dual \in BOOLEAN /\ k.out \in BOOLEAN /\ k.bypass \in BOOLEAN /\ k.sweep \in BOOLEAN
         /\ WrDelay(k) \in Nat /\ CapDelay(k) \in Nat /\ HoldDelay(k) \in Nat /\ ReadDelay(k) \in Nat \ {0}
         /\ ReadDelay(k) = CapDelay(k) + HoldDelay(k) /\ Interval(k) \in Nat /\ Interval(k) >= k.isc
         /\ WrDelay(k) = k.isc - 1
         /\ k.isc > 1 => CapDelay(k) = k.isc
         /\ k.isc = 1 => CapDelay(k) = IF k.dual THEN 1 ELSE 0
<1>1. k.isc \in Nat \ {0} /\ k.lat \in Nat \ {0} /\ {k.dual, k.out, k.bypass, k.sweep} \subseteq BOOLEAN
  BY SramAssumption
<1>2. WrDelay(k) \in Nat /\ CapDelay(k) \in Nat /\ WrDelay(k) = k.isc - 1
  BY <1>1 DEF WrDelay, CapDelay
<1>3. RamDelay(k) \in Nat /\ RamDelay(k) >= 1 /\ RamDelay(k) >= CapDelay(k)
  BY <1>1 DEF RamDelay, CapDelay
<1>4. ReadDelay(k) \in Nat \ {0} /\ ReadDelay(k) >= RamDelay(k)
  BY <1>1, <1>3 DEF ReadDelay
<1>5. HoldDelay(k) \in Nat /\ ReadDelay(k) = CapDelay(k) + HoldDelay(k)
  BY <1>2, <1>3, <1>4 DEF HoldDelay
<1>6. Interval(k) \in Nat /\ Interval(k) >= k.isc
  BY <1>1 DEF Interval
<1>7. (k.isc > 1 => CapDelay(k) = k.isc) /\ (k.isc = 1 => CapDelay(k) = IF k.dual THEN 1 ELSE 0)
  BY <1>1 DEF CapDelay
<1> QED BY <1>1, <1>2, <1>4, <1>5, <1>6, <1>7

\* A shift register f of depth d: what it is after an edge that takes in x, and
\* what comes out of it.
TakesIn(g, f, x, d, S) ==
  g \in [1 .. d -> S] /\ \A j \in 1 .. d : g[j] = IF j = 1 THEN x ELSE f[j - 1]
GivesOut(y, f, x, d) == y = IF d = 0 THEN x ELSE f[d]

LEMMA PipeIs ==
  ASSUME NEW d \in Nat, NEW S, NEW f \in [1 .. d -> S], NEW x \in S
  PROVE  /\ TakesIn(Shifted(f, x), f, x, d, S) /\ GivesOut(Oldest(f, x), f, x, d)
         /\ Oldest(f, x) \in S /\ (f = <<>> <=> d = 0)
<1>1. DOMAIN f = 1 .. d
  OBVIOUS
<1>2. \A i \in 1 .. d : i # 1 => i - 1 \in 1 .. d
  OBVIOUS
<1>3. Shifted(f, x) = [i \in 1 .. d |-> IF i = 1 THEN x ELSE f[i - 1]]
  BY <1>1 DEF Shifted
<1>4. f \in Seq(S) /\ Len(f) = d
  <2>1. f \in Seq(S)
    BY SeqDef
  <2>2. Len(f) \in Nat /\ DOMAIN f = 1 .. Len(f)
    BY <2>1, LenProperties
  <2>3. 1 .. Len(f) = 1 .. d
    BY <1>1, <2>2
  <2>4. Len(f) = d
    <3>1. Len(f) # 0 => Len(f) \in 1 .. Len(f)
      BY <2>2
    <3>2. d # 0 => d \in 1 .. d
      OBVIOUS
    <3> QED BY <2>2, <2>3, <3>1, <3>2
  <2> QED BY <2>1, <2>4
<1>5. f = <<>> <=> d = 0
  BY <1>4, EmptySeq
<1>6. d # 0 => d \in 1 .. d
  OBVIOUS
<1>7. TakesIn(Shifted(f, x), f, x, d, S)
  <2>1. Shifted(f, x) \in [1 .. d -> S]
    BY <1>2, <1>3
  <2> QED BY <1>3, <2>1 DEF TakesIn
<1>8. Oldest(f, x) = IF d = 0 THEN x ELSE f[d]
  BY <1>4, <1>5 DEF Oldest
<1>9. Oldest(f, x) \in S
  BY <1>6, <1>8
<1> QED BY <1>5, <1>7, <1>8, <1>9 DEF GivesOut

-----------------------------------------------------------------------------
(* An edge.                                                                *)

SramEdge(in) == in \in SramInputs /\ SramTick(in)

LEMMA SramFires ==
  ASSUME SramInv, NEW in, SramEdge(in)
  PROVE  /\ cfg \in SramKinds /\ cfg' = cfg /\ Port("write") \in SramPorts(cfg) /\ Port("write")' = Port("write")
         /\ RdFire(in) \in Opt(Row) /\ WrFire(in) \in Opt(SramWr)
         /\ WrFire(in) # <<>> => intv[Port("write")] = 0
         /\ WrFire(in) # <<>> => WrFire(in)[1] \in SramWr
         /\ RdFire(in) # <<>> => RdFire(in)[1] \in Row /\ RdFire(in) = <<RdFire(in)[1]>>
         /\ cfg.dual \/ RdFire(in) = <<>> \/ WrFire(in) = <<>>
<1>1. cfg \in SramKinds /\ cfg' = cfg /\ cfg.dual \in BOOLEAN
  BY SramDelays DEF SramInv, SramTypes, SramEdge, SramTick
<1>2. /\ in.rd \in Opt(Row) /\ in.wr \in Opt(SramWr)
      /\ cfg.dual \/ in.rd = <<>> \/ in.wr = <<>>
  BY DEF SramEdge, SramInputs, SramWr
<1>3. RdFire(in) \in Opt(Row) /\ WrFire(in) \in Opt(SramWr)
  BY <1>2 DEF RdFire, WrFire, Opt
<1>4. WrFire(in) # <<>> => intv[Port("write")] = 0
  BY DEF WrFire, Ready
<1>5. (WrFire(in) # <<>> => WrFire(in)[1] \in SramWr) /\ (RdFire(in) # <<>> => RdFire(in)[1] \in Row /\ RdFire(in) = <<RdFire(in)[1]>>)
  BY <1>3 DEF Opt
<1>6. cfg.dual \/ RdFire(in) = <<>> \/ WrFire(in) = <<>>
  BY <1>2 DEF RdFire, WrFire
<1>7. Port("write") \in SramPorts(cfg) /\ Port("write")' = Port("write")
  BY <1>1 DEF Port, SramPorts
<1> QED BY <1>1, <1>3, <1>4, <1>5, <1>6, <1>7

\* What an edge does to the pipes.
LEMMA SramMoves ==
  ASSUME SramInv, NEW in, SramEdge(in)
  PROVE  /\ SramTypes'
         /\ \A j \in 1 .. WrDelay(cfg) :
              wrPipe'[j] = IF j = 1 THEN WrFire(in) ELSE wrPipe[j - 1]
         /\ mem' = Written(mem, IF WrDelay(cfg) = 0 THEN WrFire(in) ELSE wrPipe[WrDelay(cfg)])
         /\ now' = Written(now, WrFire(in))
         /\ \A j \in 1 .. CapDelay(cfg) :
              capPipe'[j] = IF j = 1 THEN Captured(in) ELSE capPipe[j - 1]
         /\ \A j \in 1 .. HoldDelay(cfg) :
              holdPipe'[j] = IF j = 1
                             THEN Sampled(IF CapDelay(cfg) = 0 THEN Captured(in) ELSE capPipe[CapDelay(cfg)])
                             ELSE holdPipe[j - 1]
         /\ \A j \in 1 .. ReadDelay(cfg) :
              brings'[j] = IF j = 1 THEN IF RdFire(in) = <<>> THEN <<>> ELSE <<now'[RdFire(in)[1]]>>
                           ELSE brings[j - 1]
<1> DEFINE wr == WrFire(in)
           rd == RdFire(in)
           b == IF rd = <<>> THEN <<>> ELSE <<now'[rd[1]]>>
<1>1. /\ cfg \in SramKinds /\ cfg' = cfg /\ wr \in Opt(SramWr) /\ rd \in Opt(Row)
      /\ (wr # <<>> => wr[1] \in SramWr) /\ (rd # <<>> => rd[1] \in Row)
  BY SramFires
<1>2. /\ WrDelay(cfg) \in Nat /\ CapDelay(cfg) \in Nat /\ HoldDelay(cfg) \in Nat /\ ReadDelay(cfg) \in Nat
  BY <1>1, SramDelays
<1>3. /\ mem \in [Row -> Word] /\ now \in [Row -> Word] /\ intv \in [SramPorts(cfg) -> Int]
      /\ capPipe \in [1 .. CapDelay(cfg) -> Opt(SramRd)] /\ holdPipe \in [1 .. HoldDelay(cfg) -> Opt(Word)]
      /\ wrPipe \in [1 .. WrDelay(cfg) -> Opt(SramWr)] /\ brings \in [1 .. ReadDelay(cfg) -> Opt(Word)]
  BY DEF SramInv, SramTypes
<1>4. /\ intv' = [p \in SramPorts(cfg) |-> NextIntv(in, p)]
      /\ capPipe' = Shifted(capPipe, Captured(in))
      /\ holdPipe' = Shifted(holdPipe, Sampled(Oldest(capPipe, Captured(in))))
      /\ wrPipe' = Shifted(wrPipe, wr)
      /\ mem' = Written(mem, Oldest(wrPipe, wr))
      /\ now' = Written(now, wr)
      /\ brings' = Shifted(brings, b)
  BY DEF SramEdge, SramTick
<1> HIDE DEF wr, rd
<1>5. ASSUME NEW m \in [Row -> Word], NEW o \in Opt(SramWr) PROVE Written(m, o) \in [Row -> Word]
  <2>1. CASE o = <<>>
    BY <2>1 DEF Written
  <2>2. CASE o # <<>>
    <3>1. o[1] \in SramWr
      BY <2>2 DEF Opt
    <3>2. o[1].row \in Row /\ o[1].word \in Word
      BY <3>1 DEF SramWr
    <3> QED BY <2>2, <3>2 DEF Written
  <2> QED BY <2>1, <2>2
<1>6. /\ TakesIn(wrPipe', wrPipe, wr, WrDelay(cfg), Opt(SramWr))
      /\ GivesOut(Oldest(wrPipe, wr), wrPipe, wr, WrDelay(cfg))
      /\ Oldest(wrPipe, wr) \in Opt(SramWr)
  BY <1>1, <1>2, <1>3, <1>4, PipeIs
<1>7. Captured(in) \in Opt(SramRd)
  <2>1. CASE rd = <<>>
    BY <2>1 DEF Captured, Opt, rd
  <2>2. CASE rd # <<>>
    <3> DEFINE fw == IF cfg.bypass /\ wr # <<>> /\ wr[1].row = rd[1] THEN <<wr[1].word>> ELSE <<>>
    <3>1. Captured(in) = <<[row |-> rd[1], fwd |-> fw]>>
      BY <2>2 DEF Captured, rd, wr
    <3>2. fw \in Opt(Word)
      BY <1>1 DEF Opt, SramWr
    <3> HIDE DEF fw
    <3>3. [row |-> rd[1], fwd |-> fw] \in SramRd
      BY <1>1, <2>2, <3>2 DEF SramRd
    <3> QED BY <3>1, <3>3 DEF Opt
  <2> QED BY <2>1, <2>2
<1>8. /\ TakesIn(capPipe', capPipe, Captured(in), CapDelay(cfg), Opt(SramRd))
      /\ GivesOut(Oldest(capPipe, Captured(in)), capPipe, Captured(in), CapDelay(cfg))
      /\ Oldest(capPipe, Captured(in)) \in Opt(SramRd)
  BY <1>2, <1>3, <1>4, <1>7, PipeIs
<1>9. ASSUME NEW cd \in Opt(SramRd) PROVE Sampled(cd) \in Opt(Word)
  <2>1. CASE cd = <<>>
    BY <2>1 DEF Sampled, Opt
  <2>2. CASE cd # <<>>
    <3>1. cd[1] \in SramRd
      BY <2>2 DEF Opt
    <3>2. cd[1].row \in Row /\ cd[1].fwd \in Opt(Word) /\ mem[cd[1].row] \in Word
      BY <3>1, <1>3 DEF SramRd
    <3>3. <<mem[cd[1].row]>> \in Opt(Word)
      BY <3>2 DEF Opt
    <3> QED BY <2>2, <3>2, <3>3 DEF Sampled
  <2> QED BY <2>1, <2>2
<1>10. TakesIn(holdPipe', holdPipe, Sampled(Oldest(capPipe, Captured(in))), HoldDelay(cfg), Opt(Word))
  <2>1. Sampled(Oldest(capPipe, Captured(in))) \in Opt(Word)
    BY <1>8, <1>9
  <2> QED BY <1>2, <1>3, <1>4, <2>1, PipeIs
<1>11. now' \in [Row -> Word] /\ mem' \in [Row -> Word]
  BY <1>1, <1>3, <1>4, <1>5, <1>6
<1>12. TakesIn(brings', brings, b, ReadDelay(cfg), Opt(Word))
  <2>1. b \in Opt(Word)
    BY <1>1, <1>11 DEF Opt
  <2> HIDE DEF b
  <2> QED BY <1>2, <1>3, <1>4, <2>1, PipeIs
<1>13. intv' \in [SramPorts(cfg) -> Int]
  <2>1. Interval(cfg) - 1 \in Int
    BY <1>1, SramDelays
  <2>2. \A p \in SramPorts(cfg) : NextIntv(in, p) \in Int
    BY <1>3, <2>1 DEF NextIntv
  <2> QED BY <1>4, <2>2
<1>14. SramTypes'
  BY <1>1, <1>6, <1>8, <1>10, <1>11, <1>12, <1>13 DEF SramTypes, TakesIn
<1>15. \A j \in 1 .. WrDelay(cfg) : wrPipe'[j] = IF j = 1 THEN WrFire(in) ELSE wrPipe[j - 1]
  BY <1>6 DEF TakesIn, wr
<1>16. mem' = Written(mem, IF WrDelay(cfg) = 0 THEN WrFire(in) ELSE wrPipe[WrDelay(cfg)])
  BY <1>4, <1>6 DEF GivesOut, wr
<1>17. \A j \in 1 .. CapDelay(cfg) : capPipe'[j] = IF j = 1 THEN Captured(in) ELSE capPipe[j - 1]
  BY <1>8 DEF TakesIn
<1>18. \A j \in 1 .. HoldDelay(cfg) :
         holdPipe'[j] = IF j = 1
                        THEN Sampled(IF CapDelay(cfg) = 0 THEN Captured(in) ELSE capPipe[CapDelay(cfg)])
                        ELSE holdPipe[j - 1]
  BY <1>8, <1>10 DEF TakesIn, GivesOut
<1>19. \A j \in 1 .. ReadDelay(cfg) : brings'[j] = IF j = 1 THEN b ELSE brings[j - 1]
  BY <1>12 DEF TakesIn
<1> QED BY <1>4, <1>14, <1>15, <1>16, <1>17, <1>18, <1>19 DEF wr, rd

LEMMA OneWriteStep ==
  ASSUME SramInv, NEW in, SramEdge(in)
  PROVE  OneWrite'
<1> DEFINE p == Port("write")
           d == WrDelay(cfg)
<1>1. /\ cfg \in SramKinds /\ cfg' = cfg /\ p' = p /\ p \in SramPorts(cfg)
      /\ (WrFire(in) # <<>> => intv[p] = 0) /\ intv[p] \in Int
      /\ \A j \in 1 .. d : wrPipe'[j] = IF j = 1 THEN WrFire(in) ELSE wrPipe[j - 1]
  <2>1. intv \in [SramPorts(cfg) -> Int]
    BY DEF SramInv, SramTypes
  <2> QED BY <2>1, SramFires, SramMoves
<1>2. /\ cfg.isc \in Nat \ {0} /\ d = cfg.isc - 1 /\ d \in Nat /\ Interval(cfg) \in Nat /\ Interval(cfg) >= cfg.isc
  BY <1>1, SramDelays
<1>3. \A j \in 1 .. d : wrPipe[j] # <<>> => intv[p] >= cfg.isc - j /\ \A k \in 1 .. d : wrPipe[k] # <<>> => k = j
  BY DEF SramInv, OneWrite
<1>4. /\ WrFire(in) # <<>> => intv'[p] = Interval(cfg) - 1
      /\ intv[p] > 0 => intv'[p] >= intv[p] - 1 \/ intv'[p] = Interval(cfg) - 1
  <2>1. intv'[p] = NextIntv(in, p)
    BY <1>1 DEF SramEdge, SramTick
  <2> QED BY <1>1, <2>1 DEF NextIntv
<1>5. \A j \in 1 .. d : j # 1 => j - 1 \in 1 .. d /\ (j - 1) + 1 = j
  BY <1>2
<1>6. WrFire(in) # <<>> => \A j \in 1 .. d : wrPipe[j] = <<>>
  <2>1. \A j \in 1 .. d : cfg.isc - j > 0
    BY <1>2
  <2> QED BY <1>1, <1>2, <1>3, <2>1
<1> HIDE DEF p, d
<1>7. ASSUME NEW j \in 1 .. d, wrPipe'[j] # <<>> PROVE intv'[p] >= cfg.isc - j
  <2>1. CASE j = 1
    BY <1>1, <1>2, <1>4, <1>7, <2>1
  <2>2. CASE j # 1
    <3>1. wrPipe[j - 1] # <<>> /\ j - 1 \in 1 .. d
      BY <1>1, <1>5, <1>7, <2>2
    <3>2. intv[p] >= cfg.isc - (j - 1)
      BY <1>3, <3>1
    <3>3. intv[p] > 0
      BY <3>2, <3>1, <1>1, <1>2
    <3>4. intv'[p] >= intv[p] - 1 \/ intv'[p] = Interval(cfg) - 1
      BY <1>4, <3>3
    <3>5. CASE intv'[p] = Interval(cfg) - 1
      BY <1>2, <3>5
    <3>6. CASE intv'[p] >= intv[p] - 1
      <4>1. NextIntv(in, p) \in Int /\ intv'[p] = NextIntv(in, p)
        BY <1>1, <1>2 DEF NextIntv, SramEdge, SramTick
      <4> QED BY <1>1, <1>2, <3>2, <3>6, <4>1
    <3> QED BY <3>4, <3>5, <3>6
  <2> QED BY <2>1, <2>2
<1>8. ASSUME NEW j \in 1 .. d, NEW k \in 1 .. d, wrPipe'[j] # <<>>, wrPipe'[k] # <<>> PROVE k = j
  <2>1. CASE j = 1 \/ k = 1
    <3>1. WrFire(in) # <<>>
      BY <1>1, <1>8, <2>1
    <3>2. j = 1 /\ k = 1
      BY <1>1, <1>5, <1>6, <1>8, <3>1
    <3> QED BY <3>2
  <2>2. CASE j # 1 /\ k # 1
    <3>1. wrPipe[j - 1] # <<>> /\ wrPipe[k - 1] # <<>> /\ j - 1 \in 1 .. d /\ k - 1 \in 1 .. d
      BY <1>1, <1>5, <1>8, <2>2
    <3>2. j - 1 = k - 1
      BY <1>3, <3>1
    <3> QED BY <3>2
  <2> QED BY <2>1, <2>2
<1> USE DEF p, d
<1>9. WrDelay(cfg') = d /\ cfg'.isc = cfg.isc
  BY <1>1
<1> QED BY <1>1, <1>7, <1>8, <1>9 DEF OneWrite

\* The edges, and the pipes, as they are used below.
LEMMA SramNow ==
  ASSUME SramInv
  PROVE  /\ cfg \in SramKinds /\ cfg.isc \in Nat \ {0} /\ cfg.dual \in BOOLEAN
         /\ WrDelay(cfg) \in Nat /\ CapDelay(cfg) \in Nat /\ HoldDelay(cfg) \in Nat
         /\ ReadDelay(cfg) = CapDelay(cfg) + HoldDelay(cfg) /\ ReadDelay(cfg) # 0
         /\ \A i \in 1 .. CapDelay(cfg) : i # 1 => i - 1 \in 1 .. WrDelay(cfg)
         /\ CapDelay(cfg) # 0 => CapDelay(cfg) > WrDelay(cfg)
         /\ CapDelay(cfg) = 0 => WrDelay(cfg) = 0 /\ ~cfg.dual
         /\ mem \in [Row -> Word] /\ now \in [Row -> Word]
         /\ \A j \in 1 .. WrDelay(cfg) : wrPipe[j] # <<>> => wrPipe[j][1] \in SramWr
         /\ \A j \in 1 .. CapDelay(cfg) : capPipe[j] # <<>> => capPipe[j][1].row \in Row
<1>1. cfg \in SramKinds
  BY DEF SramInv, SramTypes
<1>2. /\ cfg.isc \in Nat \ {0} /\ cfg.dual \in BOOLEAN
      /\ WrDelay(cfg) \in Nat /\ CapDelay(cfg) \in Nat /\ HoldDelay(cfg) \in Nat
      /\ ReadDelay(cfg) = CapDelay(cfg) + HoldDelay(cfg) /\ ReadDelay(cfg) # 0
      /\ WrDelay(cfg) = cfg.isc - 1 /\ (cfg.isc > 1 => CapDelay(cfg) = cfg.isc)
      /\ (cfg.isc = 1 => CapDelay(cfg) = IF cfg.dual THEN 1 ELSE 0)
  BY <1>1, SramDelays
<1> DEFINE cd == CapDelay(cfg)
           d == WrDelay(cfg)
<1>3. cd = d + 1 \/ (cd = 0 /\ d = 0 /\ ~cfg.dual)
  BY <1>2
<1>4. cd \in Nat /\ d \in Nat
  BY <1>2
<1> HIDE DEF cd, d
<1>5. /\ \A i \in 1 .. cd : i # 1 => i - 1 \in 1 .. d
      /\ cd # 0 => cd > d
      /\ cd = 0 => d = 0 /\ ~cfg.dual
  BY <1>3, <1>4
<1>6. /\ mem \in [Row -> Word] /\ now \in [Row -> Word]
      /\ wrPipe \in [1 .. d -> Opt(SramWr)] /\ capPipe \in [1 .. cd -> Opt(SramRd)]
  BY DEF SramInv, SramTypes, cd, d
<1>7. /\ \A j \in 1 .. d : wrPipe[j] # <<>> => wrPipe[j][1] \in SramWr
      /\ \A j \in 1 .. cd : capPipe[j] # <<>> => capPipe[j][1] \in SramRd
  BY <1>6 DEF Opt
<1>8. \A j \in 1 .. cd : capPipe[j] # <<>> => capPipe[j][1].row \in Row
  BY <1>7 DEF SramRd
<1> QED BY <1>1, <1>2, <1>5, <1>6, <1>7, <1>8 DEF cd, d

LEMMA WrittenIs ==
  ASSUME NEW m \in [Row -> Word], NEW o, o # <<>> => o[1] \in SramWr, NEW r \in Row
  PROVE  Written(m, o)[r] = IF o # <<>> /\ o[1].row = r THEN o[1].word ELSE m[r]
<1>1. o # <<>> => o[1].row \in Row
  BY DEF SramWr
<1> QED BY <1>1 DEF Written

\* What a row holds once some of the writes are in does not change when they
\* all move on by an edge.
LEMMA HoldsOn ==
  ASSUME SramInv, NEW in, SramEdge(in), NEW i \in 1 .. WrDelay(cfg), NEW r \in Row, NEW w,
         Holds(r, i, w)
  PROVE  Holds(r, i + 1, w)'
<1> DEFINE d == WrDelay(cfg)
<1>1. /\ d \in Nat /\ mem \in [Row -> Word] /\ cfg' = cfg
      /\ \A j \in 1 .. d : wrPipe[j] # <<>> => wrPipe[j][1] \in SramWr
  BY SramNow, SramFires
<1>2. d # 0 /\ d \in 1 .. d /\ \A j \in 1 .. d : j <= d
  BY <1>1
<1>3. /\ \A j \in 1 .. d : wrPipe'[j] = IF j = 1 THEN WrFire(in) ELSE wrPipe[j - 1]
      /\ mem' = Written(mem, wrPipe[d])
  BY <1>2, SramMoves
<1>4. mem'[r] = IF wrPipe[d] # <<>> /\ wrPipe[d][1].row = r THEN wrPipe[d][1].word ELSE mem[r]
  BY <1>1, <1>2, <1>3, WrittenIs
<1>5. \A j, k \in 1 .. d : wrPipe[j] # <<>> /\ wrPipe[k] # <<>> => k = j
  BY DEF SramInv, OneWrite
<1>6. WrDelay(cfg') = d
  BY <1>1
<1>7. \/ \E j \in 1 .. d : j >= i /\ wrPipe[j] # <<>> /\ wrPipe[j][1].row = r /\ wrPipe[j][1].word = w
      \/ (w = mem[r] /\ \A j \in 1 .. d : j >= i /\ wrPipe[j] # <<>> => wrPipe[j][1].row # r)
  BY DEF Holds
<1> DEFINE Rest(j) == j >= i + 1 /\ wrPipe'[j] # <<>>
<1> HIDE DEF d
<1>8. \A j \in 1 .. d : Rest(j) => j - 1 \in 1 .. d /\ j - 1 >= i /\ j - 1 # d /\ wrPipe'[j] = wrPipe[j - 1] /\ wrPipe[j - 1] # <<>>
  BY <1>1, <1>3, i \in 1 .. d DEF d
<1>9. CASE w = mem[r] /\ \A j \in 1 .. d : j >= i /\ wrPipe[j] # <<>> => wrPipe[j][1].row # r
  <2>1. d >= i
    BY <1>1, <1>2 DEF d
  <2>2. mem'[r] = w
    BY <1>2, <1>4, <1>9, <2>1
  <2>3. \A j \in 1 .. d : Rest(j) => wrPipe'[j][1].row # r
    BY <1>8, <1>9
  <2> QED BY <1>6, <2>2, <2>3 DEF Holds
<1>10. ASSUME NEW j \in 1 .. d, j >= i, wrPipe[j] # <<>>, wrPipe[j][1].row = r, wrPipe[j][1].word = w
       PROVE  Holds(r, i + 1, w)'
  <2>1. CASE j = d
    <3>1. mem'[r] = w
      BY <1>4, <1>10, <2>1
    <3>2. \A k \in 1 .. d : ~Rest(k)
      BY <1>5, <1>8, <1>10, <2>1
    <3> QED BY <1>6, <3>1, <3>2 DEF Holds
  <2>2. CASE j # d
    <3>1. j + 1 \in 1 .. d /\ j + 1 >= i + 1 /\ j + 1 # 1 /\ (j + 1) - 1 = j
      BY <1>1, <1>10, <2>2
    <3>2. wrPipe'[j + 1] = wrPipe[j]
      BY <1>3, <3>1
    <3> QED BY <1>6, <1>10, <3>1, <3>2 DEF Holds
  <2> QED BY <2>1, <2>2
<1> QED BY <1>7, <1>9, <1>10

LEMMA NowStep ==
  ASSUME SramInv, NEW in, SramEdge(in)
  PROVE  NowIs'
<1> SUFFICES ASSUME NEW r \in Row PROVE Holds(r, 1, now[r])'
  BY DEF NowIs
<1> DEFINE d == WrDelay(cfg)
           wr == WrFire(in)
<1>1. /\ d \in Nat /\ mem \in [Row -> Word] /\ now \in [Row -> Word] /\ cfg' = cfg
      /\ (wr # <<>> => wr[1] \in SramWr)
  BY SramNow, SramFires
<1>2. /\ \A j \in 1 .. d : wrPipe'[j] = IF j = 1 THEN wr ELSE wrPipe[j - 1]
      /\ d = 0 => mem' = Written(mem, wr)
      /\ now' = Written(now, wr)
  BY SramMoves
<1>3. /\ now'[r] = IF wr # <<>> /\ wr[1].row = r THEN wr[1].word ELSE now[r]
      /\ d = 0 => mem'[r] = IF wr # <<>> /\ wr[1].row = r THEN wr[1].word ELSE mem[r]
  BY <1>1, <1>2, WrittenIs
<1>4. Holds(r, 1, now[r])
  BY DEF SramInv, NowIs
<1>5. WrDelay(cfg') = d
  BY <1>1
<1>6. CASE d = 0
  <2>1. 1 .. d = {}
    BY <1>6
  <2>2. now[r] = mem[r]
    BY <1>4, <2>1 DEF Holds
  <2>3. now'[r] = mem'[r]
    BY <1>3, <1>6, <2>2
  <2> QED BY <1>5, <2>1, <2>3 DEF Holds
<1>7. CASE d # 0
  <2>1. 1 \in 1 .. d /\ \A j \in 1 .. d : j >= 1 /\ (j # 1 => j >= 2) /\ (j >= 2 => j # 1)
    BY <1>1, <1>7
  <2>2. wrPipe'[1] = wr
    BY <1>2, <2>1
  <2>3. CASE wr # <<>> /\ wr[1].row = r
    <3>1. now'[r] = wr[1].word
      BY <1>3, <2>3
    <3> QED BY <1>5, <2>1, <2>2, <2>3, <3>1 DEF Holds
  <2>4. CASE ~(wr # <<>> /\ wr[1].row = r)
    <3>1. now'[r] = now[r]
      BY <1>3, <2>4
    <3>3. ASSUME NEW x, Holds(r, 1, x) PROVE Holds(r, 1 + 1, x)'
      BY <3>3, <2>1, HoldsOn
    <3>4. ASSUME NEW x, Holds(r, 1 + 1, x)' PROVE Holds(r, 1, x)'
      BY <3>4, <1>5, <2>1, <2>2, <2>4 DEF Holds
    <3>5. ASSUME NEW x, now'[r] = x, Holds(r, 1, x)' PROVE Holds(r, 1, now[r])'
      BY <3>5 DEF Holds
    <3>6. PICK x : x = now[r]
      OBVIOUS
    <3>7. Holds(r, 1, x) /\ now'[r] = x
      BY <1>4, <3>1, <3>6
    <3> QED BY <3>3, <3>4, <3>5, <3>7
  <2> QED BY <2>3, <2>4
<1> QED BY <1>6, <1>7

LEMMA CapStep ==
  ASSUME SramInv, NEW in, SramEdge(in)
  PROVE  CapIs'
<1> SUFFICES ASSUME NEW i \in 1 .. CapDelay(cfg)
             PROVE (/\ capPipe[i] = <<>> => brings[i] = <<>>
                    /\ capPipe[i] # <<>> /\ capPipe[i][1].fwd # <<>> => brings[i] = capPipe[i][1].fwd
                    /\ capPipe[i] # <<>> /\ capPipe[i][1].fwd = <<>> =>
                         \E w \in Word : brings[i] = <<w>> /\ Holds(capPipe[i][1].row, i, w))'
  BY SramFires DEF CapIs
<1> DEFINE cd == CapDelay(cfg)
           rd == RdFire(in)
           wr == WrFire(in)
<1>1. /\ cd \in Nat /\ ReadDelay(cfg) \in Nat /\ cd <= ReadDelay(cfg) /\ now \in [Row -> Word] /\ cfg' = cfg
      /\ (wr # <<>> => wr[1] \in SramWr) /\ (rd # <<>> => rd[1] \in Row)
      /\ \A k \in 1 .. cd : k # 1 => k - 1 \in 1 .. WrDelay(cfg)
      /\ \A k \in 1 .. cd : capPipe[k] # <<>> => capPipe[k][1].row \in Row
  BY SramNow, SramFires
<1>2. i \in 1 .. ReadDelay(cfg) /\ (i # 1 => i - 1 \in 1 .. cd /\ (i - 1) + 1 = i)
  BY <1>1
<1>3. /\ capPipe'[i] = IF i = 1 THEN Captured(in) ELSE capPipe[i - 1]
      /\ brings'[i] = IF i = 1 THEN IF rd = <<>> THEN <<>> ELSE <<now'[rd[1]]>> ELSE brings[i - 1]
      /\ now' = Written(now, wr) /\ now' \in [Row -> Word]
  BY <1>2, SramMoves DEF SramTypes
<1>4. CASE i # 1
  <2> DEFINE k == i - 1
  <2>1. k \in 1 .. cd /\ k + 1 = i /\ k \in 1 .. WrDelay(cfg) /\ capPipe'[i] = capPipe[k] /\ brings'[i] = brings[k]
    BY <1>1, <1>2, <1>3, <1>4
  <2> HIDE DEF k
  <2>2. /\ capPipe[k] = <<>> => brings[k] = <<>>
        /\ capPipe[k] # <<>> /\ capPipe[k][1].fwd # <<>> => brings[k] = capPipe[k][1].fwd
        /\ capPipe[k] # <<>> /\ capPipe[k][1].fwd = <<>> =>
             \E w \in Word : brings[k] = <<w>> /\ Holds(capPipe[k][1].row, k, w)
    BY <2>1 DEF SramInv, CapIs
  <2>3. ASSUME capPipe[k] # <<>>, capPipe[k][1].fwd = <<>>
        PROVE  \E w \in Word : brings'[i] = <<w>> /\ Holds(capPipe[i][1].row, i, w)'
    <3>1. PICK w \in Word : brings[k] = <<w>> /\ Holds(capPipe[k][1].row, k, w)
      BY <2>2, <2>3
    <3>2. PICK r \in Row : r = capPipe[k][1].row
      BY <1>1, <2>1, <2>3
    <3>3. Holds(r, k + 1, w)'
      BY <2>1, <3>1, <3>2, HoldsOn
    <3>4. Holds(capPipe[i][1].row, i, w)'
      BY <2>1, <3>2, <3>3 DEF Holds
    <3> QED BY <2>1, <3>1, <3>4
  <2> QED BY <2>1, <2>2, <2>3
<1>5. CASE i = 1
  <2>1. CASE rd = <<>>
    <3>1. Captured(in) = <<>>
      BY <2>1 DEF Captured
    <3> QED BY <1>3, <1>5, <2>1, <3>1
  <2>2. CASE rd # <<>>
    <3> DEFINE hit == cfg.bypass /\ wr # <<>> /\ wr[1].row = rd[1]
               fw == IF hit THEN <<wr[1].word>> ELSE <<>>
    <3>1. Captured(in) = <<[row |-> rd[1], fwd |-> fw]>>
      BY <2>2 DEF Captured
    <3>2. /\ capPipe'[1] = <<[row |-> rd[1], fwd |-> fw]>> /\ brings'[1] = <<now'[rd[1]]>>
          /\ now'[rd[1]] \in Word
      BY <1>1, <1>3, <1>5, <2>2, <3>1
    <3>3. now'[rd[1]] = IF wr # <<>> /\ wr[1].row = rd[1] THEN wr[1].word ELSE now[rd[1]]
      BY <1>1, <1>3, <2>2, WrittenIs
    <3>4. CASE hit
      BY <1>5, <3>2, <3>3, <3>4
    <3>5. CASE ~hit
      <4>1. PICK r \in Row : r = rd[1]
        BY <1>1, <2>2
      <4>2. PICK w \in Word : w = now'[r]
        BY <3>2, <4>1
      <4>3. Holds(r, 1, now[r])'
        BY NowStep DEF NowIs
      <4>4. Holds(capPipe[i][1].row, i, w)'
        BY <1>5, <3>2, <4>1, <4>2, <4>3 DEF Holds
      <4> QED BY <1>5, <3>2, <3>5, <4>1, <4>2, <4>4
    <3> QED BY <3>4, <3>5
  <2> QED BY <2>1, <2>2
<1> QED BY <1>4, <1>5

\* What the oldest read samples is what it is due.
LEMMA SampleIs ==
  ASSUME SramInv, CapDelay(cfg) # 0
  PROVE  Sampled(capPipe[CapDelay(cfg)]) = brings[CapDelay(cfg)]
<1> DEFINE cd == CapDelay(cfg)
<1>1. cd \in 1 .. cd /\ \A j \in 1 .. WrDelay(cfg) : ~(j >= cd)
  BY SramNow
<1>2. /\ capPipe[cd] = <<>> => brings[cd] = <<>>
      /\ capPipe[cd] # <<>> /\ capPipe[cd][1].fwd # <<>> => brings[cd] = capPipe[cd][1].fwd
      /\ capPipe[cd] # <<>> /\ capPipe[cd][1].fwd = <<>> =>
           \E w \in Word : brings[cd] = <<w>> /\ Holds(capPipe[cd][1].row, cd, w)
  BY <1>1 DEF SramInv, CapIs
<1>3. \A r, w : Holds(r, cd, w) => w = mem[r]
  BY <1>1 DEF Holds
<1> QED BY <1>2, <1>3 DEF Sampled

LEMMA HoldStep ==
  ASSUME SramInv, NEW in, SramEdge(in)
  PROVE  HoldIs'
<1> DEFINE cd == CapDelay(cfg)
           h == HoldDelay(cfg)
<1>1. cd \in Nat /\ h \in Nat /\ ReadDelay(cfg) = cd + h /\ cfg' = cfg
  BY SramNow, SramFires
<1> SUFFICES ASSUME NEW i \in 1 .. h PROVE holdPipe'[i] = brings'[cd + i]
  BY <1>1 DEF HoldIs
<1> DEFINE rd == RdFire(in)
<1> HIDE DEF h
<1>2. cd + i \in 1 .. ReadDelay(cfg) /\ (i # 1 => i - 1 \in 1 .. h /\ cd + i # 1 /\ (cd + i) - 1 = cd + (i - 1))
      /\ (i = 1 => (cd + i = 1 <=> cd = 0) /\ (cd + i) - 1 = cd)
  BY <1>1
<1>3. /\ holdPipe'[i] = IF i = 1 THEN Sampled(IF cd = 0 THEN Captured(in) ELSE capPipe[cd]) ELSE holdPipe[i - 1]
      /\ brings'[cd + i] = IF cd + i = 1 THEN IF rd = <<>> THEN <<>> ELSE <<now'[rd[1]]>> ELSE brings[(cd + i) - 1]
      /\ now' = Written(now, WrFire(in))
  BY <1>2, SramMoves DEF h
<1>4. CASE i # 1
  <2>1. holdPipe[i - 1] = brings[cd + (i - 1)]
    BY <1>2, <1>4 DEF SramInv, HoldIs, h
  <2> QED BY <1>2, <1>3, <1>4, <2>1
<1>5. CASE i = 1 /\ cd # 0
  <2>1. Sampled(capPipe[cd]) = brings[cd]
    BY <1>5, SampleIs
  <2> QED BY <1>2, <1>3, <1>5, <2>1
<1>6. CASE i = 1 /\ cd = 0
  <2>1. WrDelay(cfg) = 0 /\ ~cfg.dual
    BY <1>6, SramNow
  <2>2. CASE rd = <<>>
    <3>1. Sampled(Captured(in)) = <<>>
      BY <2>2 DEF Captured, Sampled
    <3> QED BY <1>2, <1>3, <1>6, <2>2, <3>1
  <2>3. CASE rd # <<>>
    <3>1. WrFire(in) = <<>> /\ rd[1] \in Row
      BY <2>1, <2>3, SramFires
    <3>2. now' = now
      BY <1>3, <3>1 DEF Written
    <3>3. Captured(in) = <<[row |-> rd[1], fwd |-> <<>>]>>
      BY <2>3, <3>1 DEF Captured
    <3>4. Sampled(Captured(in)) = <<mem[rd[1]]>>
      BY <3>3 DEF Sampled
    <3>5. Holds(rd[1], 1, now[rd[1]])
      BY <3>1 DEF SramInv, NowIs
    <3>6. 1 .. WrDelay(cfg) = {}
      BY <2>1
    <3>7. now[rd[1]] = mem[rd[1]]
      BY <3>5, <3>6 DEF Holds
    <3> QED BY <1>2, <1>3, <1>6, <2>3, <3>2, <3>4, <3>7
  <2> QED BY <2>2, <2>3
<1> QED BY <1>4, <1>5, <1>6

-----------------------------------------------------------------------------
(* The start, and what the invariant says of the answer.                   *)

LEMMA SramStarts ==
  ASSUME SramInit
  PROVE  SramInv
<1>1. cfg \in SramKinds /\ Zero \in Word
  BY SramAssumption DEF SramInit
<1>2. /\ WrDelay(cfg) \in Nat /\ CapDelay(cfg) \in Nat /\ HoldDelay(cfg) \in Nat
      /\ ReadDelay(cfg) = CapDelay(cfg) + HoldDelay(cfg)
  BY <1>1, SramDelays
<1>3. /\ wrPipe = [i \in 1 .. WrDelay(cfg) |-> <<>>] /\ capPipe = [i \in 1 .. CapDelay(cfg) |-> <<>>]
      /\ holdPipe = [i \in 1 .. HoldDelay(cfg) |-> <<>>] /\ brings = [i \in 1 .. ReadDelay(cfg) |-> <<>>]
      /\ mem = [a \in Row |-> Zero] /\ now = mem /\ intv = [p \in SramPorts(cfg) |-> 0]
  BY DEF SramInit, Blanks
<1>4. <<>> \in Opt(SramRd) /\ <<>> \in Opt(SramWr) /\ <<>> \in Opt(Word)
  BY DEF Opt
<1>5. SramTypes
  BY <1>1, <1>3, <1>4 DEF SramTypes
<1>6. OneWrite
  BY <1>3 DEF OneWrite
<1>7. NowIs
  BY <1>3 DEF NowIs, Holds
<1>8. CapIs
  <2>1. \A i \in 1 .. CapDelay(cfg) : i \in 1 .. ReadDelay(cfg)
    BY <1>2
  <2> QED BY <1>3, <2>1 DEF CapIs
<1>9. HoldIs
  <2>1. \A i \in 1 .. HoldDelay(cfg) : CapDelay(cfg) + i \in 1 .. ReadDelay(cfg)
    BY <1>2
  <2> QED BY <1>3, <2>1 DEF HoldIs
<1> QED BY <1>5, <1>6, <1>7, <1>8, <1>9 DEF SramInv

LEMMA SramStands ==
  ASSUME SramInv, UNCHANGED sramVars
  PROVE  SramInv'
<1>1. SramTypes' /\ OneWrite'
  BY DEF SramInv, SramTypes, OneWrite, Port, sramVars
<1>2. NowIs' /\ CapIs' /\ HoldIs'
  BY DEF SramInv, NowIs, CapIs, HoldIs, Holds, sramVars
<1> QED BY <1>1, <1>2 DEF SramInv

LEMMA SramAnswers ==
  ASSUME SramInv
  PROVE  SramIsMemory
<1> DEFINE cd == CapDelay(cfg)
           h == HoldDelay(cfg)
<1>1. cd \in Nat /\ h \in Nat /\ ReadDelay(cfg) = cd + h /\ ReadDelay(cfg) # 0
  BY SramNow
<1>2. /\ capPipe \in [1 .. cd -> Opt(SramRd)] /\ holdPipe \in [1 .. h -> Opt(Word)]
      /\ <<>> \in Opt(SramRd) /\ <<>> \in Opt(Word)
  BY DEF SramInv, SramTypes, Opt
<1>3. GivesOut(Oldest(capPipe, <<>>), capPipe, <<>>, cd) /\ GivesOut(Oldest(holdPipe, <<>>), holdPipe, <<>>, h)
  BY <1>1, <1>2, PipeIs
<1>4. holdPipe = <<>> <=> h = 0
  BY <1>1, <1>2, PipeIs
<1>5. CASE h = 0
  <2>1. Sampled(capPipe[cd]) = brings[cd]
    BY <1>1, <1>5, SampleIs
  <2> QED BY <1>1, <1>3, <1>4, <1>5, <2>1 DEF SramIsMemory, SramResp, GivesOut
<1>6. CASE h # 0
  <2>1. h \in 1 .. h
    BY <1>1, <1>6
  <2>2. holdPipe[h] = brings[cd + h]
    BY <2>1 DEF SramInv, HoldIs
  <2> QED BY <1>1, <1>3, <1>4, <1>6, <2>2 DEF SramIsMemory, SramResp, GivesOut
<1> QED BY <1>5, <1>6

\* A memory serves a read ReadDelay edges after it took it with what the writes
\* taken up to the same edge have left (sram.h), for every number of rows,
\* every latency and every interval, in each of the variants.
THEOREM SramServes == SramSpec => []SramIsMemory
<1>1. SramInit => SramInv
  BY SramStarts
<1>2. SramInv /\ [SramNext]_sramVars => SramInv'
  <2> SUFFICES ASSUME SramInv, [SramNext]_sramVars PROVE SramInv'
    OBVIOUS
  <2>1. ASSUME NEW in \in SramInputs, SramTick(in) PROVE SramInv'
    <3>1. SramEdge(in)
      BY <2>1 DEF SramEdge
    <3> QED BY <3>1, SramMoves, OneWriteStep, NowStep, CapStep, HoldStep DEF SramInv
  <2> QED BY <2>1, SramStands DEF SramNext
<1>3. SramInv => SramIsMemory
  BY SramAnswers
<1> QED BY <1>1, <1>2, <1>3, PTL DEF SramSpec

-----------------------------------------------------------------------------
(* The id pool: two FastQueues of half the ids.                            *)

\* A queue holds no id twice, and its registered enq_rdy is exact.
QueueOk(q) ==
  /\ q \in FqState(Ids) /\ Len(q.items) <= Half /\ IsInjective(q.items)
  /\ q.rdy = (Len(q.items) < Half)

IdsApart ==
  /\ Range(q0.items) \cap Range(q1.items) = {}
  /\ InQueues \cap used = {}

Balanced == Len(q0.items) <= Len(q1.items) + 1 /\ Len(q1.items) <= Len(q0.items) + 1

Filling ==
  /\ used = {}
  /\ Len(q0.items) = rst.cnt /\ Range(q0.items) = 0 .. rst.cnt - 1
  /\ Len(q1.items) = rst.cnt /\ Range(q1.items) = Half .. Half + rst.cnt - 1

DbidIInv ==
  /\ started \in BOOLEAN /\ woken \in BOOLEAN
  /\ rst \in [cnt : 0 .. Half - 1, done : BOOLEAN]
  /\ ~started => rst.cnt = 0 /\ ~rst.done
  /\ used \subseteq Ids
  /\ QueueOk(q0) /\ QueueOk(q1) /\ IdsApart
  /\ rst.done => woken /\ InQueues \cup used = Ids /\ Balanced
  /\ ~rst.done => Filling

-----------------------------------------------------------------------------
(* One edge of a queue that has room for what comes.                       *)

OutOf(q, deqRdy) == IF deqRdy /\ q.items # <<>> THEN {Head(q.items)} ELSE {}

FqMoved(q, n, enq, deqRdy) ==
  /\ QueueOk(n)
  /\ Range(n.items) = (Range(q.items) \ OutOf(q, deqRdy)) \cup Range(enq)
  /\ Len(n.items) = Len(q.items) + Len(enq) - (IF deqRdy /\ q.items # <<>> THEN 1 ELSE 0)

LEMMA QueueStep ==
  ASSUME NEW q, QueueOk(q), NEW enq \in Opt(Ids), NEW deqRdy \in BOOLEAN,
         enq # <<>> => Len(q.items) < Half, Range(enq) \cap Range(q.items) = {},
         NEW n, n = FqNext(Half, q, enq, deqRdy)
  PROVE  FqMoved(q, n, enq, deqRdy)
<1> DEFINE e == enq # <<>> /\ q.rdy
           d == q.items # <<>> /\ deqRdy
           rest == IF d THEN Tail(q.items) ELSE q.items
           last == IF e THEN enq ELSE <<>>
           k == IF d THEN 1 ELSE 0
<1>1. /\ q.items \in Seq(Ids) /\ Len(q.items) \in Nat /\ Len(q.items) <= Half
      /\ IsInjective(q.items) /\ q.rdy = (Len(q.items) < Half)
      /\ Half \in Nat /\ Half >= 2
  BY DbidAssumption, LenProperties DEF QueueOk, FqState
<1>2. e = (enq # <<>>) /\ last = enq
  BY <1>1
<1>3. /\ rest \in Seq(Ids) /\ IsInjective(rest) /\ Range(rest) = Range(q.items) \ OutOf(q, deqRdy)
      /\ Len(rest) = Len(q.items) - (IF d THEN 1 ELSE 0)
  <2>1. CASE d
    BY <1>1, <2>1, TailRange DEF OutOf
  <2>2. CASE ~d
    BY <1>1, <2>2 DEF OutOf
  <2> QED BY <2>1, <2>2
<1>4. /\ rest \o last \in Seq(Ids) /\ IsInjective(rest \o last)
      /\ Range(rest \o last) = Range(rest) \cup Range(enq)
      /\ Len(rest \o last) = Len(rest) + Len(enq)
  <2> HIDE DEF rest, last
  <2>1. CASE enq = <<>>
    BY <1>2, <1>3, <2>1, EmptyRange, ConcatEmptySeq, LenProperties
  <2>2. CASE enq # <<>>
    <3>1. PICK x \in Ids : enq = <<x>>
      BY <2>2 DEF Opt
    <3>2. Range(enq) = {x} /\ Len(enq) = 1
      BY <3>1, OneRange
    <3>3. x \notin Range(rest)
      BY <1>3, <3>2
    <3> QED BY <1>2, <1>3, <3>1, <3>2, <3>3, AppendRange
  <2> QED BY <2>1, <2>2
<1>5. n.items = rest \o last /\ n.rdy = FqNextRdy(Half, q, e, d) /\ n \in FqState(Ids)
  <2>1. n = [items |-> rest \o last, rdy |-> FqNextRdy(Half, q, e, d)]
    BY DEF FqNext
  <2>2. FqNextRdy(Half, q, e, d) \in BOOLEAN
    <3>1. q.rdy \in BOOLEAN /\ d \in BOOLEAN
      BY <1>1
    <3> HIDE DEF e, d
    <3> QED BY <3>1 DEF FqNextRdy
  <2> HIDE DEF rest, last, e, d
  <2> QED BY <2>1, <2>2, <1>4 DEF FqState
<1>6. k \in {0, 1} /\ (d <=> k = 1) /\ (d => Len(q.items) > 0) /\ Len(rest) = Len(q.items) - k
  BY <1>1, <1>3, EmptySeq
<1>7. Len(enq) = (IF e THEN 1 ELSE 0) /\ (e => Len(q.items) < Half)
  BY <1>2, OneRange, EmptyRange DEF Opt
<1>8. Len(n.items) = Len(q.items) + Len(enq) - k
  <2> HIDE DEF rest, last, e, d, k
  <2>1. Len(enq) \in {0, 1}
    BY <1>7
  <2> QED BY <1>1, <1>4, <1>5, <1>6, <2>1
<1>9. n.rdy = IF (Len(enq) = 1) = (k = 1) THEN Len(q.items) < Half
              ELSE k = 1 \/ Len(q.items) < Half - 1
  <2>1. e = (Len(enq) = 1) /\ d = (k = 1)
    BY <1>7
  <2> HIDE DEF e, d, k
  <2> QED BY <1>1, <1>5, <2>1 DEF FqNextRdy
<1>10. Len(n.items) <= Half /\ n.rdy = (Len(n.items) < Half)
  <2>1. Len(enq) \in {0, 1} /\ (Len(enq) = 1 => Len(q.items) < Half) /\ (k = 1 => Len(q.items) > 0)
    BY <1>6, <1>7
  <2> HIDE DEF e, d, k
  <2> DEFINE l == Len(q.items)
             a == Len(enq)
  <2>2. l \in Nat /\ l <= Half /\ Half \in Nat /\ k \in {0, 1}
    BY <1>1, <1>6
  <2>3. CASE a = 1 /\ k = 1
    BY <2>1, <2>2, <2>3, <1>8, <1>9
  <2>4. CASE a = 1 /\ k = 0
    BY <2>1, <2>2, <2>4, <1>8, <1>9
  <2>5. CASE a = 0 /\ k = 1
    BY <2>1, <2>2, <2>5, <1>8, <1>9
  <2>6. CASE a = 0 /\ k = 0
    BY <2>1, <2>2, <2>6, <1>8, <1>9
  <2> QED BY <2>1, <2>2, <2>3, <2>4, <2>5, <2>6
<1>11. QueueOk(n)
  <2> HIDE DEF rest, last, e, d, k
  <2> QED BY <1>4, <1>5, <1>10 DEF QueueOk
<1>12. Range(n.items) = (Range(q.items) \ OutOf(q, deqRdy)) \cup Range(enq)
  <2> HIDE DEF rest, last, e, d, k
  <2> QED BY <1>3, <1>4, <1>5
<1>13. k = IF deqRdy /\ q.items # <<>> THEN 1 ELSE 0
  OBVIOUS
<1> HIDE DEF k
<1> QED BY <1>8, <1>11, <1>12, <1>13 DEF FqMoved

-----------------------------------------------------------------------------
(* Counting: what the invariant says of the sizes.                         *)

LEMMA Sizes ==
  ASSUME DbidIInv
  PROVE  /\ Half \in Nat /\ Half >= 2 /\ IsFiniteSet(used) /\ Cardinality(used) \in Nat
         /\ Len(q0.items) \in Nat /\ Len(q1.items) \in Nat
         /\ IsFiniteSet(InQueues) /\ Cardinality(InQueues) = Len(q0.items) + Len(q1.items)
         /\ rst.done => Len(q0.items) + Len(q1.items) + Cardinality(used) = 2 * Half
<1>1. Half \in Nat /\ Half >= 2
  BY DbidAssumption
<1>2. IsFiniteSet(Ids) /\ Cardinality(Ids) = 2 * Half
  <2>1. 0 \in Int /\ 2 * Half - 1 \in Int /\ (2 * Half - 1) - 0 + 1 = 2 * Half /\ 0 <= 2 * Half - 1
    BY <1>1
  <2>2. IsFiniteSet(0 .. 2 * Half - 1)
        /\ Cardinality(0 .. 2 * Half - 1) = IF 0 > 2 * Half - 1 THEN 0 ELSE (2 * Half - 1) - 0 + 1
    BY <2>1, FS_Interval
  <2> QED BY <1>1, <2>1, <2>2 DEF Ids
<1>3. used \subseteq Ids /\ IdsApart /\ IsFiniteSet(used) /\ Cardinality(used) \in Nat
  BY <1>2, FS_Subset, FS_CardinalityType DEF DbidIInv
<1>4. /\ q0.items \in Seq(Ids) /\ IsInjective(q0.items)
      /\ q1.items \in Seq(Ids) /\ IsInjective(q1.items)
  BY DEF DbidIInv, QueueOk, FqState
<1>5. /\ IsFiniteSet(Range(q0.items)) /\ Cardinality(Range(q0.items)) = Len(q0.items)
      /\ IsFiniteSet(Range(q1.items)) /\ Cardinality(Range(q1.items)) = Len(q1.items)
      /\ Len(q0.items) \in Nat /\ Len(q1.items) \in Nat
  BY <1>4, RangeCard, LenProperties
<1>6. IsFiniteSet(InQueues) /\ Cardinality(InQueues) = Len(q0.items) + Len(q1.items)
  <2>1. Range(q0.items) \cap Range(q1.items) = {}
    BY <1>3 DEF IdsApart
  <2>2. /\ IsFiniteSet(Range(q0.items) \cup Range(q1.items))
        /\ Cardinality(Range(q0.items) \cup Range(q1.items))
             = Cardinality(Range(q0.items)) + Cardinality(Range(q1.items))
    BY <1>5, <2>1, DisjointCard
  <2> QED BY <1>5, <2>2 DEF InQueues
<1>7. Cardinality(InQueues \cup used) = Cardinality(InQueues) + Cardinality(used)
  <2>1. InQueues \cap used = {}
    BY <1>3 DEF IdsApart
  <2> QED BY <1>3, <1>6, <2>1, DisjointCard
<1>8. rst.done => InQueues \cup used = Ids
  BY DEF DbidIInv
<1>9. rst.done => Len(q0.items) + Len(q1.items) + Cardinality(used) = 2 * Half
  BY <1>2, <1>6, <1>7, <1>8
<1> QED BY <1>1, <1>3, <1>5, <1>6, <1>9

-----------------------------------------------------------------------------
(* Ids that come back, and ids that are taken.                             *)

LEMMA BeatSets ==
  ASSUME NEW B \in SUBSET TwoBeats
  PROVE  /\ B \in {{}, {0}, {1}, TwoBeats} /\ TwoBeats \subseteq {0, 1}
         /\ Single(B) <=> B \in {{0}, {1}}
         /\ B = {0} => OnlyBeat(B) = 0
         /\ B = {1} => OnlyBeat(B) = 1
         /\ Cardinality(B) = IF B = {} THEN 0 ELSE IF B = TwoBeats THEN 2 ELSE 1
<1>1. TwoBeats = {0, 1} /\ TwoBeats # {0} /\ TwoBeats # {1} /\ TwoBeats # {}
  <2>1. TwoBeats = {0, 1} /\ 0 \in TwoBeats /\ 1 \in TwoBeats /\ 0 \notin {1} /\ 1 \notin {0}
    BY DEF TwoBeats
  <2> QED BY <2>1
<1>2. B \in {{}, {0}, {1}, TwoBeats}
  BY <1>1
<1>3. /\ Cardinality({}) = 0 /\ Cardinality({0}) = 1 /\ Cardinality({1}) = 1
      /\ Cardinality({0, 1}) = 2
  BY FS_EmptySet, FS_Singleton, PairCard
<1>4. Cardinality(B) = IF B = {} THEN 0 ELSE IF B = TwoBeats THEN 2 ELSE 1
  BY <1>1, <1>2, <1>3
<1>5. Single(B) <=> B \in {{0}, {1}}
  BY <1>1, <1>2, <1>4 DEF Single
<1>6. (B = {0} => OnlyBeat(B) = 0) /\ (B = {1} => OnlyBeat(B) = 1)
  BY DEF OnlyBeat
<1> QED BY <1>1, <1>2, <1>4, <1>5, <1>6

\* What the queues are given after the filling: the ids that come back,
\* each to one queue, a single one to the shorter.
LEMMA EnqFacts ==
  ASSUME rst.done, used \subseteq Ids, NEW back \in Releases
  PROVE  /\ Q0Enq(back) \in Opt(Ids) /\ Q1Enq(back) \in Opt(Ids)
         /\ Range(Q0Enq(back)) \cup Range(Q1Enq(back)) = Range(back) /\ Range(back) \subseteq used
         /\ Range(Q0Enq(back)) \cap Range(Q1Enq(back)) = {}
         /\ Q0Enq(back) # <<>> /\ Q1Enq(back) = <<>> => EnqSelQ0
         /\ Q0Enq(back) = <<>> /\ Q1Enq(back) # <<>> => ~EnqSelQ0
<1>1. PICK B \in SUBSET TwoBeats : back \in [B -> used] /\ IsInjective(back)
  BY DEF Releases
<1>2. DOMAIN back = B /\ Range(back) = {back[b] : b \in B} /\ \A b \in B : back[b] \in used
  BY <1>1 DEF Range
<1>3. B \in {{}, {0}, {1}, TwoBeats} /\ (Single(B) <=> B \in {{0}, {1}}) /\ TwoBeats = {0, 1}
      /\ (B = {0} => OnlyBeat(B) = 0) /\ (B = {1} => OnlyBeat(B) = 1)
  BY BeatSets DEF TwoBeats
<1>4. Range(back) \subseteq used
  BY <1>2
<1>5. CASE B = {}
  <2>1. Q0Enq(back) = <<>> /\ Q1Enq(back) = <<>> /\ Range(back) = {}
    BY <1>2, <1>3, <1>5 DEF Q0Enq, Q1Enq
  <2> QED BY <1>4, <2>1, EmptyRange DEF Opt
<1>6. CASE B \in {{0}, {1}}
  <2>1. PICK b \in B : B = {b} /\ OnlyBeat(B) = b
    BY <1>3, <1>6
  <2>2. Range(back) = {back[b]} /\ back[b] \in Ids
    BY <1>2, <2>1
  <2>3. /\ Q0Enq(back) = IF EnqSelQ0 THEN <<back[b]>> ELSE <<>>
        /\ Q1Enq(back) = IF EnqSelQ0 THEN <<>> ELSE <<back[b]>>
    BY <1>2, <1>3, <1>6, <2>1 DEF Q0Enq, Q1Enq
  <2>4. Range(<<back[b]>>) = {back[b]} /\ <<back[b]>> \in Opt(Ids) /\ <<back[b]>> # <<>>
    BY <2>2, OneRange
  <2>5. <<>> \in Opt(Ids) /\ Range(<<>>) = {}
    BY EmptyRange DEF Opt
  <2>6. CASE EnqSelQ0
    BY <1>4, <2>2, <2>3, <2>4, <2>5, <2>6
  <2>7. CASE ~EnqSelQ0
    BY <1>4, <2>2, <2>3, <2>4, <2>5, <2>7
  <2> QED BY <2>6, <2>7
<1>7. CASE B = TwoBeats
  <2>1. Range(back) = {back[0], back[1]} /\ back[0] \in Ids /\ back[1] \in Ids /\ back[0] # back[1]
    <3>1. 0 \in B /\ 1 \in B /\ 0 # 1 /\ B = {0, 1}
      BY <1>3, <1>7
    <3>2. back[0] # back[1]
      BY <1>1, <1>2, <3>1 DEF IsInjective
    <3> QED BY <1>2, <3>1, <3>2, <1>4
  <2>2. Q0Enq(back) = <<back[0]>> /\ Q1Enq(back) = <<back[1]>>
    <3>1. 0 \in TwoBeats /\ 1 \in TwoBeats
      BY <1>3
    <3>2. ~Single(B)
      BY <1>3, <1>7, <3>1
    <3> QED BY <1>2, <1>7, <3>2 DEF Q0Enq, Q1Enq
  <2>3. /\ Range(<<back[0]>>) = {back[0]} /\ <<back[0]>> \in Opt(Ids) /\ <<back[0]>> # <<>>
        /\ Range(<<back[1]>>) = {back[1]} /\ <<back[1]>> \in Opt(Ids) /\ <<back[1]>> # <<>>
    BY <2>1, OneRange
  <2> QED BY <1>4, <2>1, <2>2, <2>3
<1> QED BY <1>3, <1>5, <1>6, <1>7

\* What a request takes: from each queue its oldest id or nothing, a single
\* one from the longer.
LEMMA DeqFacts ==
  ASSUME NEW req \in SUBSET TwoBeats
  PROVE  /\ Q0DeqRdy(req) \in BOOLEAN /\ Q1DeqRdy(req) \in BOOLEAN
         /\ Got(req) = OutOf(q0, Q0DeqRdy(req)) \cup OutOf(q1, Q1DeqRdy(req))
         /\ Q0DeqRdy(req) \/ Q1DeqRdy(req) => ReqRdy
         /\ Q0DeqRdy(req) /\ ~Q1DeqRdy(req) => DeqSelQ0
         /\ ~Q0DeqRdy(req) /\ Q1DeqRdy(req) => ~DeqSelQ0
         /\ ReqRdy => Single(req) <=> (Q0DeqRdy(req) <=> ~Q1DeqRdy(req))
<1> DEFINE g == Granted(req)
<1>1. g \in {{}, {0}, {1}, TwoBeats} /\ (Single(g) <=> g \in {{0}, {1}}) /\ TwoBeats = {0, 1}
      /\ DeqSelQ0 \in BOOLEAN
  <2>1. g \in SUBSET TwoBeats
    BY DEF Granted
  <2> QED BY <2>1, BeatSets DEF TwoBeats, DeqSelQ0
<1>2. (~ReqRdy => g = {}) /\ (ReqRdy => g = req /\ q0.items # <<>> /\ q1.items # <<>>)
  BY DEF Granted, ReqRdy
<1>3. Got(req) = {Resp(req, b) : b \in g}
  BY DEF Got
<1> HIDE DEF g
<1>4. CASE g = {}
  <2>1. Q0DeqRdy(req) = FALSE /\ Q1DeqRdy(req) = FALSE /\ Got(req) = {}
    BY <1>1, <1>3, <1>4 DEF Q0DeqRdy, Q1DeqRdy, g
  <2> QED BY <1>1, <1>2, <1>4, <2>1 DEF OutOf
<1>5. CASE g \in {{0}, {1}}
  <2>1. Q0DeqRdy(req) = DeqSelQ0 /\ Q1DeqRdy(req) = ~DeqSelQ0
    BY <1>1, <1>5 DEF Q0DeqRdy, Q1DeqRdy, g
  <2>2. \A b : Resp(req, b) = IF DeqSelQ0 THEN Head(q0.items) ELSE Head(q1.items)
    BY <1>1, <1>5 DEF Resp, g
  <2>3. Got(req) = {IF DeqSelQ0 THEN Head(q0.items) ELSE Head(q1.items)}
    BY <1>3, <1>5, <2>2
  <2>4. CASE DeqSelQ0
    BY <1>1, <1>2, <1>5, <2>1, <2>3, <2>4 DEF OutOf
  <2>5. CASE ~DeqSelQ0
    BY <1>1, <1>2, <1>5, <2>1, <2>3, <2>5 DEF OutOf
  <2> QED BY <2>4, <2>5
<1>6. CASE g = TwoBeats
  <2>1. Q0DeqRdy(req) = TRUE /\ Q1DeqRdy(req) = TRUE
    BY <1>1, <1>6 DEF Q0DeqRdy, Q1DeqRdy, g
  <2>2. Resp(req, 0) = Head(q0.items) /\ Resp(req, 1) = Head(q1.items)
    BY <1>1, <1>6 DEF Resp, g
  <2>3. Got(req) = {Head(q0.items), Head(q1.items)}
    BY <1>1, <1>3, <1>6, <2>2
  <2>4. ReqRdy /\ req = TwoBeats /\ q0.items # <<>> /\ q1.items # <<>> /\ ~Single(req)
    <3>1. TwoBeats # {} /\ 0 \in TwoBeats /\ 1 \in TwoBeats
      BY <1>1
    <3>2. TwoBeats \notin {{0}, {1}}
      BY <3>1
    <3> QED BY <1>1, <1>2, <1>6, <3>1, <3>2
  <2>5. OutOf(q0, TRUE) = {Head(q0.items)} /\ OutOf(q1, TRUE) = {Head(q1.items)}
    BY <2>4 DEF OutOf
  <2> QED BY <2>1, <2>3, <2>4, <2>5
<1> QED BY <1>1, <1>4, <1>5, <1>6

-----------------------------------------------------------------------------
(* The steps.                                                              *)

LEMMA Exchange ==
  ASSUME NEW R0, NEW R1, NEW U, NEW E0, NEW E1, NEW D0, NEW D1,
         R0 \cap R1 = {}, (R0 \cup R1) \cap U = {}, E0 \cup E1 \subseteq U, E0 \cap E1 = {},
         D0 \subseteq R0, D1 \subseteq R1,
         NEW S0, S0 = (R0 \ D0) \cup E0, NEW S1, S1 = (R1 \ D1) \cup E1,
         NEW V, V = (U \ (E0 \cup E1)) \cup (D0 \cup D1)
  PROVE  /\ S0 \cap S1 = {} /\ (S0 \cup S1) \cap V = {}
         /\ (S0 \cup S1) \cup V = (R0 \cup R1) \cup U
OBVIOUS

\* A queue has room for what comes back.
LEMMA Room ==
  ASSUME DbidIInv, rst.done, NEW back \in Releases
  PROVE  /\ Q0Enq(back) # <<>> => Len(q0.items) < Half
         /\ Q1Enq(back) # <<>> => Len(q1.items) < Half
<1> DEFINE E0 == Range(Q0Enq(back))
           E1 == Range(Q1Enq(back))
           l0 == Len(q0.items)
           l1 == Len(q1.items)
           u == Cardinality(used)
<1>1. /\ Half \in Nat /\ IsFiniteSet(used) /\ u \in Nat /\ l0 \in Nat /\ l1 \in Nat
      /\ l0 + l1 + u = 2 * Half
  BY Sizes
<1>2. l0 <= Half /\ l1 <= Half /\ l0 <= l1 + 1 /\ l1 <= l0 + 1 /\ used \subseteq Ids
  BY DEF DbidIInv, QueueOk, Balanced
<1>3. /\ E0 \cup E1 \subseteq used /\ E0 \cap E1 = {}
      /\ Q0Enq(back) \in Opt(Ids) /\ Q1Enq(back) \in Opt(Ids)
      /\ Q0Enq(back) # <<>> /\ Q1Enq(back) = <<>> => l0 <= l1
      /\ Q0Enq(back) = <<>> /\ Q1Enq(back) # <<>> => l1 < l0
  BY <1>1, <1>2, EnqFacts DEF EnqSelQ0
<1>4. (Q0Enq(back) # <<>> => E0 # {}) /\ (Q1Enq(back) # <<>> => E1 # {})
  BY <1>3, OneRange DEF Opt
<1> HIDE DEF E0, E1, l0, l1, u
<1>5. Q0Enq(back) # <<>> \/ Q1Enq(back) # <<>> => u >= 1
  <2>1. u = 0 => used = {}
    BY <1>1, FS_EmptySet DEF u
  <2> QED BY <1>1, <1>3, <1>4, <2>1
<1>6. Q0Enq(back) # <<>> /\ Q1Enq(back) # <<>> => u >= 2
  <2> SUFFICES ASSUME Q0Enq(back) # <<>>, Q1Enq(back) # <<>> PROVE u >= 2
    OBVIOUS
  <2>1. PICK x, y \in used : x # y
    BY <1>3, <1>4
  <2>2. Cardinality({x, y}) = 2 /\ {x, y} \subseteq used
    BY <2>1, PairCard
  <2>3. Cardinality({x, y}) <= Cardinality(used)
    BY <1>1, <2>2, FS_Subset
  <2> QED BY <1>1, <2>2, <2>3 DEF u
<1>7. CASE Q0Enq(back) # <<>> /\ Q1Enq(back) # <<>>
  <2>1. l0 < Half /\ l1 < Half
    BY <1>1, <1>2, <1>6, <1>7
  <2> QED BY <2>1 DEF l0, l1
<1>8. CASE Q0Enq(back) # <<>> /\ Q1Enq(back) = <<>>
  <2>1. l0 < Half
    BY <1>1, <1>2, <1>3, <1>5, <1>8
  <2> QED BY <1>8, <2>1 DEF l0
<1>9. CASE Q0Enq(back) = <<>> /\ Q1Enq(back) # <<>>
  <2>1. l1 < Half
    BY <1>1, <1>2, <1>3, <1>9
  <2> QED BY <1>9, <2>1 DEF l1
<1> QED BY <1>7, <1>8, <1>9

\* After the filling every id that is taken or comes back changes hands.
LEMMA StepDone ==
  ASSUME DbidIInv, rst.done, NEW wake \in BOOLEAN, NEW req \in SUBSET TwoBeats,
         NEW back \in Releases, DbidTick(wake, req, back)
  PROVE  DbidIInv'
<1> DEFINE e0 == Q0Enq(back)
           e1 == Q1Enq(back)
           r0 == Q0DeqRdy(req)
           r1 == Q1DeqRdy(req)
           l0 == Len(q0.items)
           l1 == Len(q1.items)
           k0 == IF r0 /\ q0.items # <<>> THEN 1 ELSE 0
           k1 == IF r1 /\ q1.items # <<>> THEN 1 ELSE 0
<1>1. /\ woken = TRUE /\ QueueOk(q0) /\ QueueOk(q1) /\ IdsApart /\ Balanced
      /\ InQueues \cup used = Ids /\ used \subseteq Ids
      /\ rst \in [cnt : 0 .. Half - 1, done : BOOLEAN]
  BY DEF DbidIInv
<1>2. /\ started' = TRUE /\ woken' = TRUE /\ rst' = NextRst
      /\ q0' = FqNext(Half, q0, e0, r0) /\ q1' = FqNext(Half, q1, e1, r1)
      /\ used' = (used \ Range(back)) \cup Got(req)
  BY <1>1 DEF DbidTick, ClkEn, QueueClk, RstClk
<1>3. /\ e0 \in Opt(Ids) /\ e1 \in Opt(Ids) /\ Range(e0) \cup Range(e1) = Range(back)
      /\ Range(back) \subseteq used /\ Range(e0) \cap Range(e1) = {}
      /\ e0 # <<>> /\ e1 = <<>> => l0 <= l1
      /\ e0 = <<>> /\ e1 # <<>> => ~(l0 <= l1)
  BY <1>1, EnqFacts DEF EnqSelQ0
<1>4. /\ r0 \in BOOLEAN /\ r1 \in BOOLEAN /\ Got(req) = OutOf(q0, r0) \cup OutOf(q1, r1)
      /\ r0 \/ r1 => q0.items # <<>> /\ q1.items # <<>>
      /\ r0 /\ ~r1 => l0 >= l1
      /\ ~r0 /\ r1 => ~(l0 >= l1)
  BY DeqFacts DEF DeqSelQ0, ReqRdy
<1>5. (e0 # <<>> => l0 < Half) /\ (e1 # <<>> => l1 < Half)
  BY Room
<1>6. l0 \in Nat /\ l1 \in Nat /\ l0 <= l1 + 1 /\ l1 <= l0 + 1
  BY <1>1, Sizes DEF Balanced
<1> HIDE DEF e0, e1, r0, r1
<1>7. /\ (InQueues \cup used = Ids /\ used \subseteq Ids)
      /\ Range(q0.items) \cap Range(q1.items) = {}
      /\ (Range(q0.items) \cup Range(q1.items)) \cap used = {}
      /\ Range(e0) \cap Range(q0.items) = {} /\ Range(e1) \cap Range(q1.items) = {}
  BY <1>1, <1>3 DEF IdsApart, InQueues
<1>8. /\ QueueOk(q0')
      /\ Range(q0'.items) = (Range(q0.items) \ OutOf(q0, r0)) \cup Range(e0)
      /\ Len(q0'.items) = l0 + Len(e0) - k0
  <2>1. /\ QueueOk(q0) /\ e0 \in Opt(Ids) /\ r0 \in BOOLEAN
        /\ e0 # <<>> => Len(q0.items) < Half
        /\ Range(e0) \cap Range(q0.items) = {}
        /\ q0' = FqNext(Half, q0, e0, r0)
    BY <1>1, <1>2, <1>3, <1>4, <1>5, <1>7
  <2>2. FqMoved(q0, q0', e0, r0)
    BY <2>1, QueueStep
  <2> QED BY <2>2 DEF FqMoved
<1>9. /\ QueueOk(q1')
      /\ Range(q1'.items) = (Range(q1.items) \ OutOf(q1, r1)) \cup Range(e1)
      /\ Len(q1'.items) = l1 + Len(e1) - k1
  <2>1. /\ QueueOk(q1) /\ e1 \in Opt(Ids) /\ r1 \in BOOLEAN
        /\ e1 # <<>> => Len(q1.items) < Half
        /\ Range(e1) \cap Range(q1.items) = {}
        /\ q1' = FqNext(Half, q1, e1, r1)
    BY <1>1, <1>2, <1>3, <1>4, <1>5, <1>7
  <2>2. FqMoved(q1, q1', e1, r1)
    BY <2>1, QueueStep
  <2> QED BY <2>2 DEF FqMoved
<1>10. IdsApart' /\ (InQueues \cup used = Ids)'
  <2>1. OutOf(q0, r0) \subseteq Range(q0.items) /\ OutOf(q1, r1) \subseteq Range(q1.items)
    <3>1. /\ q0.items \in Seq(Ids) /\ IsInjective(q0.items)
          /\ q1.items \in Seq(Ids) /\ IsInjective(q1.items)
      BY <1>1 DEF QueueOk, FqState
    <3> QED BY <3>1, TailRange DEF OutOf
  <2> DEFINE S0 == Range(q0'.items)
             S1 == Range(q1'.items)
             V  == used'
  <2>2. /\ S0 = (Range(q0.items) \ OutOf(q0, r0)) \cup Range(e0)
        /\ S1 = (Range(q1.items) \ OutOf(q1, r1)) \cup Range(e1)
        /\ V = (used \ (Range(e0) \cup Range(e1))) \cup (OutOf(q0, r0) \cup OutOf(q1, r1))
    BY <1>2, <1>3, <1>4, <1>8, <1>9
  <2>3. Range(e0) \cup Range(e1) \subseteq used /\ Range(e0) \cap Range(e1) = {}
    BY <1>3
  <2> HIDE DEF S0, S1, V
  <2>4. /\ S0 \cap S1 = {} /\ (S0 \cup S1) \cap V = {}
        /\ (S0 \cup S1) \cup V = (Range(q0.items) \cup Range(q1.items)) \cup used
    BY <1>7, <2>1, <2>2, <2>3, Exchange
  <2>5. (S0 \cup S1) \cup V = Ids
    BY <1>7, <2>4 DEF InQueues
  <2> QED BY <2>4, <2>5 DEF IdsApart, InQueues, S0, S1, V
<1>11. Balanced'
  <2>1. /\ Len(e0) = IF e0 = <<>> THEN 0 ELSE 1
        /\ Len(e1) = IF e1 = <<>> THEN 0 ELSE 1
    BY <1>3, OneRange, EmptyRange DEF Opt
  <2>2. k0 \in {0, 1} /\ k1 \in {0, 1} /\ (k0 = 1 /\ k1 = 0 => l0 >= l1) /\ (k0 = 0 /\ k1 = 1 => l0 < l1)
    BY <1>4, <1>6
  <2> DEFINE n0 == Len(e0)
             n1 == Len(e1)
  <2>3. n0 \in {0, 1} /\ n1 \in {0, 1} /\ (n0 = 1 /\ n1 = 0 => l0 <= l1) /\ (n0 = 0 /\ n1 = 1 => l1 < l0)
    BY <1>3, <1>6, <2>1
  <2> HIDE DEF l0, l1, k0, k1, n0, n1
  <2>4. l0 + n0 - k0 <= l1 + n1 - k1 + 1 /\ l1 + n1 - k1 <= l0 + n0 - k0 + 1
    BY <1>6, <2>2, <2>3
  <2>5. Len(q0'.items) = l0 + n0 - k0 /\ Len(q1'.items) = l1 + n1 - k1
    BY <1>8, <1>9 DEF n0, n1
  <2> QED BY <2>4, <2>5 DEF Balanced
<1>12. rst' \in [cnt : 0 .. Half - 1, done : BOOLEAN] /\ rst'.done
  BY <1>1, <1>2, DbidAssumption DEF NextRst
<1>13. used' \subseteq Ids
  BY <1>10
<1> QED BY <1>2, <1>8, <1>9, <1>10, <1>11, <1>12, <1>13 DEF DbidIInv

\* During the filling nothing is asked of the queues and nothing comes back.
LEMMA StepFilling ==
  ASSUME DbidIInv, ~rst.done, NEW wake \in BOOLEAN, NEW req \in SUBSET TwoBeats,
         NEW back \in Releases, DbidTick(wake, req, back)
  PROVE  DbidIInv'
<1> DEFINE n == rst.cnt
<1>1. /\ used = {} /\ QueueOk(q0) /\ QueueOk(q1)
      /\ Len(q0.items) = n /\ Range(q0.items) = 0 .. n - 1
      /\ Len(q1.items) = n /\ Range(q1.items) = Half .. Half + n - 1
      /\ n \in 0 .. Half - 1 /\ rst \in [cnt : 0 .. Half - 1, done : BOOLEAN]
      /\ ~started => n = 0
      /\ started \in BOOLEAN /\ woken \in BOOLEAN
      /\ Half \in Nat /\ Half >= 2
  BY DbidAssumption DEF DbidIInv, Filling
<1>2. Range(back) = {}
  <2>1. PICK B \in SUBSET TwoBeats : back \in [B -> used]
    BY DEF Releases
  <2> QED BY <1>1, <2>1 DEF Range
<1>3. ~ReqRdy /\ Got(req) = {}
  BY DEF ReqRdy, Got, Granted
<1>4. Q0DeqRdy(req) = FALSE /\ Q1DeqRdy(req) = FALSE
  BY <1>3, DeqFacts
<1>5. used' = {}
  BY <1>1, <1>2, <1>3 DEF DbidTick
<1>6. started' = TRUE /\ woken' = ClkEn(wake) /\ woken' \in BOOLEAN
  BY <1>1 DEF DbidTick, ClkEn
<1>7. CASE ~(ClkEn(wake) \/ ~started)
  <2>1. rst' = rst /\ q0' = q0 /\ q1' = q1
    BY <1>7 DEF DbidTick, RstClk, QueueClk
  <2> QED BY <1>1, <1>5, <1>6, <2>1 DEF DbidIInv, Filling, IdsApart, InQueues, Balanced
<1>8. CASE ClkEn(wake) \/ ~started
  <2>1. /\ rst' = NextRst
        /\ q0' = FqNext(Half, q0, <<n>>, FALSE) /\ q1' = FqNext(Half, q1, <<Half + n>>, FALSE)
    BY <1>4, <1>8 DEF DbidTick, RstClk, QueueClk, Q0Enq, Q1Enq
  <2>2. n \in Ids /\ Half + n \in Ids /\ n < Half /\ n \in Nat
    BY <1>1 DEF Ids
  <2>3. /\ Range(<<n>>) = {n} /\ <<n>> \in Opt(Ids) /\ Len(<<n>>) = 1
        /\ Range(<<Half + n>>) = {Half + n} /\ <<Half + n>> \in Opt(Ids) /\ Len(<<Half + n>>) = 1
    BY <2>2, OneRange
  <2>4. {n} \cap Range(q0.items) = {} /\ {Half + n} \cap Range(q1.items) = {}
    BY <1>1
  <2>5. OutOf(q0, FALSE) = {} /\ OutOf(q1, FALSE) = {}
    BY DEF OutOf
  <2>6. /\ QueueOk(q0') /\ Range(q0'.items) = Range(q0.items) \cup {n}
        /\ Len(q0'.items) = Len(q0.items) + 1
    <3> DEFINE e == <<n>>
    <3>1. /\ QueueOk(q0) /\ e \in Opt(Ids) /\ FALSE \in BOOLEAN
          /\ e # <<>> => Len(q0.items) < Half
          /\ Range(e) = {n} /\ Range(e) \cap Range(q0.items) = {} /\ Len(e) = 1
          /\ q0' = FqNext(Half, q0, e, FALSE)
      BY <1>1, <2>1, <2>2, <2>3, <2>4
    <3> HIDE DEF e
    <3>2. FqMoved(q0, q0', e, FALSE)
      BY <3>1, QueueStep
    <3>3. QueueOk(q0') /\ Range(q0'.items) = Range(q0.items) \cup {n}
      BY <2>5, <3>1, <3>2 DEF FqMoved
    <3>4. Len(q0'.items) = n + 1 - 0
      BY <1>1, <3>1, <3>2 DEF FqMoved
    <3> QED BY <1>1, <2>2, <3>3, <3>4
  <2>7. /\ QueueOk(q1') /\ Range(q1'.items) = Range(q1.items) \cup {Half + n}
        /\ Len(q1'.items) = Len(q1.items) + 1
    <3> DEFINE e == <<Half + n>>
    <3>1. /\ QueueOk(q1) /\ e \in Opt(Ids) /\ FALSE \in BOOLEAN
          /\ e # <<>> => Len(q1.items) < Half
          /\ Range(e) = {Half + n} /\ Range(e) \cap Range(q1.items) = {} /\ Len(e) = 1
          /\ q1' = FqNext(Half, q1, e, FALSE)
      BY <1>1, <2>1, <2>2, <2>3, <2>4
    <3> HIDE DEF e
    <3>2. FqMoved(q1, q1', e, FALSE)
      BY <3>1, QueueStep
    <3>3. QueueOk(q1') /\ Range(q1'.items) = Range(q1.items) \cup {Half + n}
      BY <2>5, <3>1, <3>2 DEF FqMoved
    <3>4. Len(q1'.items) = n + 1 - 0
      BY <1>1, <3>1, <3>2 DEF FqMoved
    <3> QED BY <1>1, <2>2, <3>3, <3>4
  <2>8. Range(q0'.items) = 0 .. n /\ Range(q1'.items) = Half .. Half + n
    BY <1>1, <2>6, <2>7
  <2>9. Len(q0'.items) = n + 1 /\ Len(q1'.items) = n + 1
    BY <1>1, <2>6, <2>7
  <2>10. IdsApart' /\ Balanced'
    <3>1. (0 .. n) \cap (Half .. Half + n) = {}
      BY <1>1, <2>2
    <3> QED BY <1>5, <2>2, <2>8, <2>9, <3>1 DEF IdsApart, InQueues, Balanced
  <2>11. rst' = [cnt |-> IF n = Half - 1 THEN 0 ELSE n + 1, done |-> n = Half - 1]
    BY <1>1, <2>1 DEF NextRst
  <2>12. CASE n = Half - 1
    <3>1. rst'.done /\ rst' \in [cnt : 0 .. Half - 1, done : BOOLEAN]
      BY <1>1, <2>11, <2>12
    <3>2. woken'
      BY <1>1, <1>6, <1>8, <2>12
    <3>3. (0 .. n) \cup (Half .. Half + n) = Ids
      BY <1>1, <2>2, <2>12 DEF Ids
    <3>4. (InQueues \cup used = Ids)'
      BY <1>5, <2>8, <3>3 DEF InQueues
    <3> QED BY <1>5, <1>6, <2>6, <2>7, <2>10, <3>1, <3>2, <3>4 DEF DbidIInv
  <2>13. CASE n # Half - 1
    <3>1. ~rst'.done /\ rst'.cnt = n + 1 /\ rst' \in [cnt : 0 .. Half - 1, done : BOOLEAN]
      BY <1>1, <2>2, <2>11, <2>13
    <3>2. 0 .. n = 0 .. (n + 1) - 1 /\ Half .. Half + n = Half .. Half + (n + 1) - 1
      BY <1>1, <2>2
    <3>3. Filling'
      BY <1>5, <2>8, <2>9, <3>1, <3>2 DEF Filling
    <3> QED BY <1>5, <1>6, <2>6, <2>7, <2>10, <3>1, <3>3 DEF DbidIInv
  <2> QED BY <2>12, <2>13
<1> QED BY <1>7, <1>8

LEMMA DbidInductive == DbidSpec => []DbidIInv
<1>1. DbidInit => DbidIInv
  <2> SUFFICES ASSUME DbidInit PROVE DbidIInv
    OBVIOUS
  <2>1. Half \in Nat /\ Half >= 2 /\ 0 \in 0 .. Half - 1 /\ 0 .. 0 - 1 = {} /\ Half .. Half + 0 - 1 = {}
    BY DbidAssumption
  <2>2. /\ started = FALSE /\ woken = FALSE /\ used = {} /\ rst = [cnt |-> 0, done |-> FALSE]
        /\ q0 = FqEmpty /\ q1 = FqEmpty
    BY DEF DbidInit
  <2>3. <<>> \in Seq(Ids) /\ Len(<<>>) = 0 /\ Range(<<>>) = {} /\ IsInjective(<<>>)
    BY EmptyRange
  <2>4. QueueOk(FqEmpty) /\ FqEmpty.items = <<>>
    <3>1. FqEmpty.items = <<>> /\ FqEmpty.rdy = TRUE /\ FqEmpty \in FqState(Ids)
      BY <2>3 DEF FqState, FqEmpty
    <3>2. Len(<<>>) <= Half /\ (Len(<<>>) < Half) = TRUE
      BY <2>1, <2>3
    <3> QED BY <2>3, <3>1, <3>2 DEF QueueOk
  <2>5. Filling /\ IdsApart
    BY <2>1, <2>2, <2>3, <2>4 DEF Filling, IdsApart, InQueues
  <2>6. QueueOk(q0) /\ QueueOk(q1) /\ rst \in [cnt : 0 .. Half - 1, done : BOOLEAN]
    BY <2>1, <2>2, <2>4
  <2> QED BY <2>2, <2>5, <2>6 DEF DbidIInv
<1>2. DbidIInv /\ [DbidNext]_dbidVars => DbidIInv'
  <2> SUFFICES ASSUME DbidIInv, [DbidNext]_dbidVars PROVE DbidIInv'
    OBVIOUS
  <2>1. CASE DbidNext
    <3>1. PICK wake \in BOOLEAN, req \in SUBSET TwoBeats, back \in Releases : DbidTick(wake, req, back)
      BY <2>1 DEF DbidNext
    <3> QED BY <3>1, StepDone, StepFilling
  <2>2. CASE UNCHANGED dbidVars
    BY <2>2 DEF dbidVars, DbidIInv, QueueOk, IdsApart, Balanced, Filling, InQueues
  <2> QED BY <2>1, <2>2
<1> QED BY <1>1, <1>2, PTL DEF DbidSpec

-----------------------------------------------------------------------------
(* Whatever the number of ids: once the pool is filled every id is in one  *)
(* place, none is handed out that somebody holds, and two that are handed  *)
(* out together differ (DBIDPool and DBIDCtrl, model/dj/data.cpp).         *)
THEOREM DbidIsSafe == DbidSpec => []DbidInv
<1>1. DbidIInv => DbidInv
  <2> SUFFICES ASSUME DbidIInv PROVE DbidInv
    OBVIOUS
  <2>1. DbidTypeOK
    BY DEF DbidIInv, QueueOk, DbidTypeOK
  <2>2. Conserved
    BY Sizes DEF DbidIInv, Conserved
  <2>3. NoIdTwice
    <3> SUFFICES ASSUME NEW req \in SUBSET TwoBeats, ReqRdy
                 PROVE  Got(req) \cap used = {} /\ Cardinality(Got(req)) = Cardinality(req)
      BY DEF NoIdTwice
    <3> DEFINE h0 == Head(q0.items)
               h1 == Head(q1.items)
    <3>1. /\ q0.items \in Seq(Ids) /\ q0.items # <<>> /\ IsInjective(q0.items)
          /\ q1.items \in Seq(Ids) /\ q1.items # <<>> /\ IsInjective(q1.items)
      BY DEF DbidIInv, QueueOk, FqState, ReqRdy
    <3>2. /\ h0 \in Range(q0.items) /\ h1 \in Range(q1.items)
      BY <3>1, TailRange
    <3>3. h0 # h1 /\ h0 \notin used /\ h1 \notin used
      BY <3>2 DEF DbidIInv, IdsApart, InQueues
    <3>4. Granted(req) = req
      BY DEF Granted
    <3>5. req \in {{}, {0}, {1}, TwoBeats} /\ (Single(req) <=> req \in {{0}, {1}}) /\ TwoBeats = {0, 1}
          /\ Cardinality(req) = IF req = {} THEN 0 ELSE IF req = TwoBeats THEN 2 ELSE 1
      BY BeatSets DEF TwoBeats
    <3>6. Got(req) = {Resp(req, b) : b \in req}
      BY <3>4 DEF Got
    <3> HIDE DEF h0, h1
    <3>7. CASE req = {}
      BY <3>5, <3>6, <3>7, FS_EmptySet
    <3>8. CASE req \in {{0}, {1}}
      <4>1. \A b : Resp(req, b) = IF DeqSelQ0 THEN h0 ELSE h1
        BY <3>4, <3>5, <3>8 DEF Resp, h0, h1
      <4>2. Got(req) = {IF DeqSelQ0 THEN h0 ELSE h1}
        BY <3>6, <3>8, <4>1
      <4>3. Cardinality(req) = 1
        BY <3>8, FS_Singleton
      <4> QED BY <3>3, <4>2, <4>3, FS_Singleton
    <3>9. CASE req = TwoBeats
      <4>1. ~Single(req)
        <5>1. 0 \in req /\ 1 \in req
          BY <3>5, <3>9
        <5> QED BY <3>5, <5>1
      <4>2. Resp(req, 0) = h0 /\ Resp(req, 1) = h1
        BY <3>4, <4>1 DEF Resp, h0, h1
      <4>3. Got(req) = {h0, h1}
        BY <3>5, <3>6, <3>9, <4>2
      <4>4. Cardinality(req) = 2 /\ Cardinality({h0, h1}) = 2
        BY <3>3, <3>5, <3>9, PairCard
      <4> QED BY <3>3, <4>3, <4>4
    <3> QED BY <3>5, <3>7, <3>8, <3>9
  <2> QED BY <2>1, <2>2, <2>3 DEF DbidInv
<1> QED BY <1>1, DbidInductive, PTL

(* A request is refused only when fewer than two ids are free: the queues  *)
(* are kept in balance, so that neither runs empty before the other has    *)
(* one id left.                                                            *)
THEOREM DbidRefusesOnlyWhenShort == DbidSpec => []RefusedOnlyWhenShort
<1>1. DbidIInv => RefusedOnlyWhenShort
  <2> SUFFICES ASSUME DbidIInv, rst.done, Cardinality(Ids \ used) >= 2 PROVE ReqRdy
    BY DEF RefusedOnlyWhenShort
  <2>1. Ids \ used = InQueues
    BY DEF DbidIInv, IdsApart
  <2>2. /\ Cardinality(InQueues) = Len(q0.items) + Len(q1.items)
        /\ Len(q0.items) \in Nat /\ Len(q1.items) \in Nat
    BY Sizes
  <2>3. Len(q0.items) <= Len(q1.items) + 1 /\ Len(q1.items) <= Len(q0.items) + 1
    BY DEF DbidIInv, Balanced
  <2>4. Len(q0.items) > 0 /\ Len(q1.items) > 0
    <3>1. Cardinality(InQueues) >= 2
      BY <2>1
    <3> DEFINE a == Len(q0.items)
               b == Len(q1.items)
    <3>2. a \in Nat /\ b \in Nat /\ a <= b + 1 /\ b <= a + 1
      BY <2>2, <2>3
    <3>3. Cardinality(InQueues) = a + b
      BY <2>2
    <3> HIDE DEF a, b
    <3>4. a > 0 /\ b > 0
      BY <3>1, <3>2, <3>3
    <3> QED BY <3>4 DEF a, b
  <2> QED BY <2>4, EmptyRange DEF ReqRdy
<1> QED BY <1>1, DbidInductive, PTL

-----------------------------------------------------------------------------
(***************************************************************************)
(* The write data buffer of the memory bridge for any number of slots and  *)
(* machines.                                                               *)
(*                                                                         *)
(* Slots.  The circular list read from head is a queue (FreeSeq, ListMove) *)
(* and every slot is in one place: the queue, the slots on their way back, *)
(* the write that is read out, or one live write (Apart, Covered).  An     *)
(* edge hands whole sequences from place to place (SlotsMove), so none is  *)
(* lost and none given out twice (PlacesStep), and the list never holds    *)
(* more than it has entries (SlotsCount).                                  *)
(*                                                                         *)
(* Beats.  What the W channel owes lies, in order, in the two stages and   *)
(* in the rest of the burst that is read out (DueOK); a turn appends a     *)
(* burst, the slave takes the first beat.  A slot that is still to be read *)
(* is not the one a beat is written to (RamKeeps), for that one belongs to *)
(* a live write; so what was sent stays until it is read (RamOK).  To a    *)
(* slave that stalls the RAM shows a slot that is no longer held, which is *)
(* the finding about WCarriesOwnData: RamOK says nothing of it.            *)
(***************************************************************************)

\* The circular list as a queue, and the places a slot can be in.
FreeSeq == [i \in 1 .. avail |-> fl[((head + i) - 1) % Slots]]
Buf(m) == ctrl[m].buf

CtrlRec == [buf : Seq(Slot), cnt : 0 .. 2, off : {0, 1}]
IcnRec == [cm : CM, half : {0, 1}, cancel : BOOLEAN]
TxRec == [cm : CM, ctrl : CtrlRec, cnt : {0, 1}]
S1Rec == [set : Slot, last : BOOLEAN]
S2Rec == [val : {NoData} \cup (CM \X {0, 1}), last : BOOLEAN]
Beat == [val : CM \X {0, 1}, last : BOOLEAN]
Phases == {"idle", "wait", "full", "sent"}

AdbTypes ==
  /\ fl \in [Slot -> Slot \cup {NoSlot}] /\ head \in Slot /\ tail \in Slot /\ avail \in 0 .. Slots
  /\ rel \in Seq(Slot) /\ Len(rel) <= 3
  /\ ctrl \in [CM -> CtrlRec]
  /\ ram \in [Slot -> {NoData} \cup (CM \X {0, 1})]
  /\ rx \in Opt(IcnRec) /\ tx \in Opt(TxRec) /\ s1 \in Opt(S1Rec) /\ s2 \in Opt(S2Rec)
  /\ phase \in [CM -> Phases] /\ DOMAIN got = CM /\ due \in Seq(Beat)
  /\ stalls \in BOOLEAN

\* Every slot is in exactly one place.
ListOK == tail = (head + avail) % Slots /\ FreeSeq \in Seq(Slot) /\ IsInjective(FreeSeq)
Apart ==
  /\ IsInjective(rel) /\ IsInjective(InTx) /\ \A m \in CM : IsInjective(Buf(m))
  /\ Range(FreeSeq) \cap Range(rel) = {} /\ Range(FreeSeq) \cap Range(InTx) = {}
  /\ Range(rel) \cap Range(InTx) = {}
  /\ \A m \in CM : Range(Buf(m)) \cap (Range(FreeSeq) \cup Range(rel) \cup Range(InTx)) = {}
  /\ \A m, n \in CM : m # n => Range(Buf(m)) \cap Range(Buf(n)) = {}
Covered ==
  \A v \in Slot : \/ v \in Range(FreeSeq) \cup Range(rel) \cup Range(InTx)
                  \/ \E m \in CM : v \in Range(Buf(m))

\* What a machine knows of its write is what the control entry says.
MachineOK(m) ==
  /\ phase[m] \in {"idle", "sent"} => ctrl[m] = NoCtrl
  /\ phase[m] \in {"wait", "full"} => Len(Buf(m)) \in {1, 2}
  /\ phase[m] = "wait" => got[m] \subseteq Halves(m) /\ ctrl[m].cnt = Cardinality(got[m])
RxOK ==
  rx # <<>> => /\ phase[rx[1].cm] = "wait"
               /\ rx[1].cancel => Len(Buf(rx[1].cm)) = 1
TxOK ==
  tx # <<>> => /\ phase[tx[1].cm] = "sent"
               /\ Len(tx[1].ctrl.buf) \in {1, 2} /\ tx[1].cnt < Len(tx[1].ctrl.buf)

\* What the W channel owes, by place: the two stages, then the burst that is
\* being read out.
Owed(t, k) == [val |-> <<t.cm, ((t.ctrl.off + k) - 1) % 2>>, last |-> k = Len(t.ctrl.buf)]
DueOK ==
  /\ Len(due) = Len(s2) + Len(s1) + IF tx = <<>> THEN 0 ELSE Len(tx[1].ctrl.buf) - tx[1].cnt
  /\ s2 # <<>> => s2[1].last = due[1].last
  /\ s1 # <<>> => s1[1].last = due[Len(s2) + 1].last
  /\ tx # <<>> => \A k \in 1 .. Len(tx[1].ctrl.buf) : k > tx[1].cnt =>
       due[Len(s2) + Len(s1) + k - tx[1].cnt] = Owed(tx[1], k)
  /\ \A i \in 1 .. Len(due) :
       /\ phase[due[i].val[1]] = "sent"
       /\ due[i].last => \A j \in 1 .. Len(due) : j > i => due[j].val[1] # due[i].val[1]

\* What the RAM holds of a write, and what the stages carry to a slave that
\* does not stall.
Nth(m, k) == <<m, ((ctrl[m].off + k) - 1) % 2>>
RamOK ==
  /\ \A m \in CM : phase[m] \in {"wait", "full"} /\ ~Cancelled(m) =>
       \A k \in 1 .. Len(Buf(m)) :
         phase[m] = "full" \/ Nth(m, k)[2] \in got[m] => ram[Buf(m)[k]] = Nth(m, k)
  /\ tx # <<>> => \A k \in 1 .. Len(tx[1].ctrl.buf) : k > tx[1].cnt =>
       ram[tx[1].ctrl.buf[k]] = Owed(tx[1], k).val
  /\ ~stalls => /\ s1 # <<>> => /\ ram[s1[1].set] = due[Len(s2) + 1].val
                                /\ s1[1].set \in Range(InTx) \cup Range(rel)
                /\ s2 # <<>> => s2[1].val = due[1].val

AdbIInv ==
  /\ AdbTypes /\ ListOK /\ Apart /\ Covered /\ \A m \in CM : MachineOK(m)
  /\ RxOK /\ TxOK /\ DueOK /\ RamOK

-----------------------------------------------------------------------------
(* Places of the list, and sequences joined and cut.                       *)

LEMMA WrapIs ==
  ASSUME NEW i \in Nat
  PROVE  /\ i < Slots => i % Slots = i
         /\ i >= Slots /\ i < 2 * Slots => i % Slots = i - Slots
         /\ i % Slots \in Slot
<1>1. Slots \in Nat /\ Slots > 0
  BY BufferAssumption
<1>2. CASE i < Slots
  BY <1>1, <1>2 DEF Slot
<1>3. CASE i >= Slots /\ i < 2 * Slots
  BY <1>1, <1>3 DEF Slot
<1>4. CASE i >= 2 * Slots
  BY <1>1, <1>4 DEF Slot
<1> QED BY <1>1, <1>2, <1>3, <1>4

\* Places of the list less than its size apart are different, and each place
\* can be counted from any other.
LEMMA WrapTwice ==
  ASSUME NEW h \in Slot, NEW i \in 0 .. Slots, NEW j \in 0 .. Slots
  PROVE  (h + i) % Slots \in Slot /\ (((h + i) % Slots) + j) % Slots = ((h + i) + j) % Slots
<1>1. Slots \in Nat /\ Slots > 0 /\ h \in Nat /\ h < Slots
  BY BufferAssumption DEF Slot
<1> DEFINE n == Slots
<1>2. (h + i) % n = (IF h + i < n THEN h + i ELSE h + i - n)
  BY <1>1
<1>3. CASE h + i < n
  BY <1>1, <1>2, <1>3 DEF Slot
<1>4. CASE h + i >= n
  <2>1. (h + i) % n = h + i - n /\ h + i - n \in 0 .. n - 1
    BY <1>1, <1>2, <1>4
  <2>2. (((h + i) + j) - n) % n = ((h + i) + j) % n
    <3>1. CASE (h + i) + j < 2 * n
      BY <1>1, <1>4, <3>1
    <3>2. CASE (h + i) + j >= 2 * n
      BY <1>1, <1>4, <3>2
    <3> QED BY <3>1, <3>2, <1>1
  <2> QED BY <1>1, <2>1, <2>2 DEF Slot
<1> QED BY <1>1, <1>3, <1>4

LEMMA WrapApart ==
  ASSUME NEW h \in Slot, NEW i \in 0 .. Slots - 1, NEW j \in 0 .. Slots - 1,
         (h + i) % Slots = (h + j) % Slots
  PROVE  i = j
<1>1. Slots \in Nat /\ Slots > 0 /\ h \in Nat /\ h < Slots
  BY BufferAssumption DEF Slot
<1>2. (h + i) % Slots = (IF h + i < Slots THEN h + i ELSE h + i - Slots)
  BY <1>1
<1>3. (h + j) % Slots = (IF h + j < Slots THEN h + j ELSE h + j - Slots)
  BY <1>1
<1> QED BY <1>1, <1>2, <1>3

\* Two sequences without a common element, one behind the other.
LEMMA ConcatRange ==
  ASSUME NEW S, NEW v \in Seq(S), NEW t \in Seq(S)
  PROVE  /\ v \o t \in Seq(S) /\ Len(v \o t) = Len(v) + Len(t)
         /\ Range(v \o t) = Range(v) \cup Range(t)
         /\ IsInjective(v) /\ IsInjective(t) /\ Range(v) \cap Range(t) = {} => IsInjective(v \o t)
<1> DEFINE u == v \o t
<1>1. /\ u \in Seq(S) /\ Len(v) \in Nat /\ Len(t) \in Nat /\ Len(u) = Len(v) + Len(t)
      /\ \A i \in 1 .. Len(u) : u[i] = IF i <= Len(v) THEN v[i] ELSE t[i - Len(v)]
  BY ConcatProperties, LenProperties
<1> HIDE DEF u
<1>2. \A i \in 1 .. Len(v) : i \in 1 .. Len(u) /\ u[i] = v[i]
  BY <1>1
<1>3. \A i \in 1 .. Len(t) : Len(v) + i \in 1 .. Len(u) /\ u[Len(v) + i] = t[i]
  <2>1. ASSUME NEW i \in 1 .. Len(t)
        PROVE  Len(v) + i \in 1 .. Len(u) /\ ~(Len(v) + i <= Len(v)) /\ (Len(v) + i) - Len(v) = i
    BY <1>1
  <2> QED BY <2>1, <1>1
<1>4. \A i \in 1 .. Len(u) : \/ i \in 1 .. Len(v) /\ u[i] = v[i]
                             \/ i - Len(v) \in 1 .. Len(t) /\ u[i] = t[i - Len(v)]
  <2>1. ASSUME NEW i \in 1 .. Len(u), ~(i <= Len(v)) PROVE i - Len(v) \in 1 .. Len(t)
    BY <2>1, <1>1
  <2>2. ASSUME NEW i \in 1 .. Len(u), i <= Len(v) PROVE i \in 1 .. Len(v)
    BY <2>2, <1>1
  <2> QED BY <2>1, <2>2, <1>1
<1>5. /\ Range(u) = {u[i] : i \in 1 .. Len(u)}
      /\ Range(v) = {v[i] : i \in 1 .. Len(v)}
      /\ Range(t) = {t[i] : i \in 1 .. Len(t)}
  <2>1. Range(u) = {u[i] : i \in 1 .. Len(u)}
    BY <1>1, RangeIs
  <2>2. Range(v) = {v[i] : i \in 1 .. Len(v)}
    BY RangeIs
  <2>3. Range(t) = {t[i] : i \in 1 .. Len(t)}
    BY RangeIs
  <2> QED BY <2>1, <2>2, <2>3
<1>6. Range(u) = Range(v) \cup Range(t)
  BY <1>2, <1>3, <1>4, <1>5
<1>7. ASSUME IsInjective(v), IsInjective(t), Range(v) \cap Range(t) = {} PROVE IsInjective(u)
  <2>1. \A i, j \in 1 .. Len(v) : v[i] = v[j] => i = j
    BY <1>7, RangeIs
  <2>2. \A i, j \in 1 .. Len(t) : t[i] = t[j] => i = j
    BY <1>7, RangeIs
  <2>3. \A i \in 1 .. Len(v), j \in 1 .. Len(t) : v[i] # t[j]
    BY <1>5, <1>7
  <2>4. ASSUME NEW i \in 1 .. Len(u), NEW j \in 1 .. Len(u), u[i] = u[j] PROVE i = j
    <3>1. CASE i \in 1 .. Len(v) /\ u[i] = v[i]
      BY <3>1, <2>1, <2>3, <2>4, <1>4
    <3>2. CASE i - Len(v) \in 1 .. Len(t) /\ u[i] = t[i - Len(v)]
      <4>1. ~(j \in 1 .. Len(v) /\ u[j] = v[j])
        BY <3>2, <2>3, <2>4
      <4>2. j - Len(v) \in 1 .. Len(t) /\ u[j] = t[j - Len(v)]
        BY <4>1, <1>4
      <4>3. i - Len(v) = j - Len(v)
        BY <3>2, <4>2, <2>2, <2>4
      <4> QED BY <4>3, <1>1
    <3> QED BY <3>1, <3>2, <1>4
  <2> QED BY <2>4, <1>1, RangeIs
<1> QED BY <1>1, <1>6, <1>7 DEF u

\* A sequence cut in two.
IsCut(v, a, b) ==
  /\ Len(a) + Len(b) = Len(v)
  /\ \A k \in 1 .. Len(a) : a[k] = v[k]
  /\ \A k \in 1 .. Len(b) : b[k] = v[k + Len(a)]
Parted(v, a, b) ==
  /\ IsInjective(a) /\ IsInjective(b)
  /\ Range(a) \cap Range(b) = {} /\ Range(a) \cup Range(b) = Range(v)

LEMMA CutRange ==
  ASSUME NEW S, NEW v \in Seq(S), IsInjective(v), NEW a \in Seq(S), NEW b \in Seq(S), IsCut(v, a, b)
  PROVE  Parted(v, a, b)
<1> DEFINE n == Len(a)
<1>1. Len(v) \in Nat /\ n \in Nat /\ Len(b) \in Nat /\ Len(v) - n = Len(b)
  BY LenProperties DEF IsCut
<1>0. (\A k \in 1 .. n : a[k] = v[k]) /\ \A k \in 1 .. Len(v) - n : b[k] = v[k + n]
  BY <1>1 DEF IsCut
<1>4. a \in Seq(S) /\ Len(a) = n /\ b \in Seq(S) /\ Len(b) = Len(v) - n
  BY <1>1
<1> HIDE DEF n
<1>2. \A k \in 1 .. n : k \in 1 .. Len(v)
  BY <1>1
<1>3. \A k \in 1 .. Len(v) - n : k + n \in 1 .. Len(v)
  BY <1>1
<1>5. /\ Range(a) = {a[k] : k \in 1 .. n}
      /\ Range(b) = {b[k] : k \in 1 .. Len(v) - n}
      /\ Range(v) = {v[k] : k \in 1 .. Len(v)}
  <2>1. Range(a) = {a[k] : k \in 1 .. n}
    <3>1. Range(a) = {a[k] : k \in 1 .. Len(a)}
      BY ONLY <1>4, RangeIs
    <3> QED BY ONLY <3>1, <1>4
  <2>2. Range(b) = {b[k] : k \in 1 .. Len(v) - n}
    <3>1. Range(b) = {b[k] : k \in 1 .. Len(b)}
      BY ONLY <1>4, RangeIs
    <3> QED BY ONLY <3>1, <1>4
  <2>3. Range(v) = {v[k] : k \in 1 .. Len(v)}
    BY RangeIs
  <2> QED BY <2>1, <2>2, <2>3
<1>6. \A i, j \in 1 .. Len(v) : v[i] = v[j] => i = j
  BY RangeIs
<1>7. \A k \in 1 .. Len(v) : k \in 1 .. n \/ (k - n \in 1 .. Len(v) - n /\ (k - n) + n = k)
  BY <1>1
<1>8. IsInjective(a)
  <2>1. \A i, j \in 1 .. Len(a) : a[i] = a[j] => i = j
    BY <1>0, <1>2, <1>4, <1>6
  <2> QED BY <2>1, <1>4, RangeIs
<1>9. IsInjective(b)
  <2>1. ASSUME NEW i \in 1 .. Len(b), NEW j \in 1 .. Len(b), b[i] = b[j] PROVE i = j
    <3>1. i + n \in 1 .. Len(v) /\ j + n \in 1 .. Len(v) /\ b[i] = v[i + n] /\ b[j] = v[j + n]
      BY <1>0, <1>3, <1>4
    <3>2. i + n = j + n
      BY <3>1, <2>1, <1>6
    <3> QED BY <3>2, <1>1
  <2> QED BY <2>1, <1>4, RangeIs
<1>10. Range(a) \cap Range(b) = {}
  <2>1. ASSUME NEW i \in 1 .. n, NEW j \in 1 .. Len(v) - n PROVE a[i] # b[j]
    <3>1. i # j + n
      BY <1>1
    <3> QED BY <3>1, <1>0, <1>2, <1>3, <1>6
  <2>2. ASSUME NEW x, x \in Range(a), x \in Range(b) PROVE FALSE
    <3>1. PICK i \in 1 .. n : x = a[i]
      BY <2>2, <1>5
    <3>2. PICK j \in 1 .. Len(v) - n : x = b[j]
      BY <2>2, <1>5
    <3> QED BY <3>1, <3>2, <2>1
  <2> QED BY <2>2
<1>11. Range(a) \cup Range(b) = Range(v)
  <2>1. \A k \in 1 .. n : a[k] \in Range(v)
    BY <1>0, <1>2, <1>5
  <2>2. \A k \in 1 .. Len(v) - n : b[k] \in Range(v)
    BY <1>0, <1>3, <1>5
  <2>3. \A k \in 1 .. Len(v) : v[k] \in Range(a) \cup Range(b)
    <3>1. ASSUME NEW k \in 1 .. Len(v) PROVE v[k] \in Range(a) \cup Range(b)
      <4>1. CASE k \in 1 .. n
        BY <4>1, <1>0, <1>5
      <4>2. CASE k - n \in 1 .. Len(v) - n /\ (k - n) + n = k
        <5>1. b[k - n] = v[k]
          BY <4>2, <1>0
        <5> QED BY <5>1, <4>2, <1>5
      <4> QED BY <4>1, <4>2, <1>7
    <3> QED BY <3>1
  <2>4. Range(a) \subseteq Range(v) /\ Range(b) \subseteq Range(v)
    <3>1. ASSUME NEW x \in Range(a) PROVE x \in Range(v)
      BY <1>5, <2>1
    <3>2. ASSUME NEW x \in Range(b) PROVE x \in Range(v)
      BY <1>5, <2>2
    <3> QED BY <3>1, <3>2
  <2>5. ASSUME NEW x \in Range(v) PROVE x \in Range(a) \cup Range(b)
    <3>1. PICK k \in 1 .. Len(v) : x = v[k]
      BY <1>5, <2>5
    <3> QED BY <3>1, <2>3
  <2> QED BY <2>4, <2>5
<1> QED BY <1>8, <1>9, <1>10, <1>11 DEF Parted

-----------------------------------------------------------------------------
(* What comes in at an edge, and what the edge does.                       *)

AdbIn == [alloc : Opt(Allocs), icn : Opt(Icns), from : Opt({m \in CM : phase[m] = "full"}),
          wRdy : {TRUE, ~stalls}]

LEMMA AdbNextIs == AdbNext => \E in \in AdbIn : AdbTick(in)
<1> SUFFICES ASSUME AdbNext PROVE \E in \in AdbIn : AdbTick(in)
  OBVIOUS
<1>1. PICK a \in Opt(Allocs), i \in Opt(Icns), f \in Opt({m \in CM : phase[m] = "full"}),
           w \in {TRUE, ~stalls} : AdbTick([alloc |-> a, icn |-> i, from |-> f, wRdy |-> w])
  BY DEF AdbNext
<1>2. [alloc |-> a, icn |-> i, from |-> f, wRdy |-> w] \in AdbIn
  BY DEF AdbIn
<1> QED BY <1>1, <1>2

LEMMA OptOne ==
  ASSUME NEW S, NEW o \in Opt(S), o # <<>>
  PROVE  o[1] \in S /\ o = <<o[1]>> /\ Len(o) = 1 /\ DOMAIN o = {1}
BY DEF Opt

LEMMA AdbInputs ==
  ASSUME AdbTypes, NEW in \in AdbIn
  PROVE  /\ in.wRdy \in BOOLEAN /\ (~stalls => in.wRdy = TRUE)
         /\ in.alloc # <<>> => /\ in.alloc[1].cm \in CM /\ in.alloc[1].num \in {1, 2}
                               /\ in.alloc[1].off \in {0, 1} /\ phase[in.alloc[1].cm] = "idle"
         /\ in.icn \in Opt(IcnRec)
         /\ in.icn # <<>> => /\ in.icn[1] \in Icns /\ in.icn[1] \in IcnRec
         /\ in.from # <<>> => /\ in.from[1] \in CM /\ in.from = <<in.from[1]>>
                              /\ phase[in.from[1]] = "full"
<1>1. /\ in.alloc \in Opt(Allocs) /\ in.icn \in Opt(Icns)
      /\ in.from \in Opt({m \in CM : phase[m] = "full"}) /\ in.wRdy \in {TRUE, ~stalls}
  BY DEF AdbIn
<1>2. in.alloc # <<>> => in.alloc[1] \in Allocs
  BY <1>1, OptOne
<1>3. in.icn # <<>> => in.icn[1] \in Icns
  BY <1>1, OptOne
<1>4. Icns \subseteq IcnRec
  BY DEF Icns, IcnRec
<1>5. in.icn \in Opt(IcnRec)
  BY <1>1, <1>4 DEF Opt
<1>6. in.from # <<>> => in.from[1] \in {m \in CM : phase[m] = "full"} /\ in.from = <<in.from[1]>>
  BY <1>1, OptOne
<1>7. stalls \in BOOLEAN
  BY DEF AdbTypes
<1>8. in.wRdy \in BOOLEAN /\ (~stalls => in.wRdy = TRUE)
  BY <1>1, <1>7
<1>9. in.alloc # <<>> => /\ in.alloc[1].cm \in CM /\ in.alloc[1].num \in {1, 2}
                         /\ in.alloc[1].off \in {0, 1} /\ phase[in.alloc[1].cm] = "idle"
  BY <1>2 DEF Allocs
<1> QED BY <1>3, <1>4, <1>5, <1>6, <1>8, <1>9

\* The two stages move when what follows them has room.
Drains(in) == s2 = <<>> \/ in.wRdy
StageMoves(in) ==
  /\ S1Out(in) <=> Drains(in)
  /\ RdrFire(in) <=> tx # <<>> /\ (s1 = <<>> \/ Drains(in))
  /\ WOut(in) = IF in.wRdy THEN s2 ELSE <<>>
  /\ s1' = IF s1 = <<>> \/ Drains(in) THEN S1Enq ELSE s1
  /\ s2' = IF Drains(in) THEN S2Enq ELSE s2
  /\ S1Enq \in Opt(S1Rec) /\ S2Enq \in Opt(S2Rec)

LEMMA TxFields ==
  ASSUME AdbTypes, TxOK, tx # <<>>
  PROVE  /\ tx = <<tx[1]>> /\ tx[1] \in TxRec /\ tx[1].cm \in CM /\ tx[1].ctrl \in CtrlRec
         /\ tx[1].ctrl.buf \in Seq(Slot) /\ tx[1].ctrl.off \in {0, 1} /\ tx[1].cnt \in {0, 1}
         /\ Len(tx[1].ctrl.buf) \in {1, 2} /\ tx[1].cnt < Len(tx[1].ctrl.buf)
         /\ \A k \in 1 .. Len(tx[1].ctrl.buf) : tx[1].ctrl.buf[k] \in Slot
         /\ 1 + tx[1].cnt \in 1 .. Len(tx[1].ctrl.buf)
<1>1. tx[1] \in TxRec /\ tx = <<tx[1]>>
  BY OptOne DEF AdbTypes
<1>2. /\ tx[1].cm \in CM /\ tx[1].ctrl \in CtrlRec /\ tx[1].ctrl.buf \in Seq(Slot)
      /\ tx[1].ctrl.off \in {0, 1} /\ tx[1].cnt \in {0, 1}
  BY <1>1 DEF TxRec, CtrlRec
<1>3. Len(tx[1].ctrl.buf) \in {1, 2} /\ tx[1].cnt < Len(tx[1].ctrl.buf)
  BY DEF TxOK
<1>4. \A k \in 1 .. Len(tx[1].ctrl.buf) : tx[1].ctrl.buf[k] \in Slot
  BY <1>2, ElementOfSeq
<1>5. 1 + tx[1].cnt \in 1 .. Len(tx[1].ctrl.buf)
  BY <1>2, <1>3
<1> QED BY <1>1, <1>2, <1>3, <1>4, <1>5

LEMMA StagesMove ==
  ASSUME AdbTypes, TxOK, NEW in \in AdbIn, AdbTick(in)
  PROVE  StageMoves(in)
<1>1. Stage.n = 1 /\ Stage.flow = FALSE /\ Stage.pipe = TRUE
  BY DEF Stage
<1>2. s1 \in Opt(S1Rec) /\ s2 \in Opt(S2Rec) /\ in.wRdy \in BOOLEAN
  BY AdbInputs DEF AdbTypes
<1>3. S1Enq \in Opt(S1Rec)
  <2>1. CASE tx = <<>>
    BY <2>1 DEF S1Enq, Opt
  <2>2. CASE tx # <<>>
    <3>1. tx[1].ctrl.buf[1 + tx[1].cnt] \in Slot /\ RdrLast \in BOOLEAN
      BY <2>2, TxFields DEF RdrLast
    <3> QED BY <2>2, <3>1 DEF S1Enq, Opt, S1Rec
  <2> QED BY <2>1, <2>2
<1>4. S2Enq \in Opt(S2Rec)
  <2>1. CASE s1 = <<>>
    BY <2>1 DEF S2Enq, Opt
  <2>2. CASE s1 # <<>>
    <3>1. s1[1] \in S1Rec
      BY <1>2, <2>2, OptOne
    <3>2. ram[s1[1].set] \in {NoData} \cup (CM \X {0, 1}) /\ s1[1].last \in BOOLEAN
      BY <3>1 DEF AdbTypes, S1Rec
    <3> QED BY <2>2, <3>2 DEF S2Enq, Opt, S2Rec
  <2> QED BY <2>1, <2>2
<1>5. S1Out(in) <=> Drains(in)
  BY <1>1, <1>2, OptIsSeq DEF S1Out, EnqRdy, Drains
<1>6. S1Out(in) \in BOOLEAN
  BY DEF S1Out, EnqRdy
<1>7. StageStep(Stage, s1, S1Enq, S1Out(in))
  BY <1>1, <1>2, <1>3, <1>6, StageNext
<1>8. StageStep(Stage, s2, S2Enq, in.wRdy)
  BY <1>1, <1>2, <1>4, StageNext
<1>9. s1' = IF s1 = <<>> \/ Drains(in) THEN S1Enq ELSE s1
  BY <1>5, <1>7 DEF StageStep, AdbTick
<1>10. s2' = IF Drains(in) THEN S2Enq ELSE s2
  BY <1>8 DEF StageStep, AdbTick, Drains
<1>11. RdrFire(in) <=> tx # <<>> /\ (s1 = <<>> \/ Drains(in))
  BY <1>5, <1>7 DEF StageStep, RdrFire
<1>12. WOut(in) = IF in.wRdy THEN s2 ELSE <<>>
  <2>1. s2 # <<>> => <<Head(s2)>> = s2
    BY <1>2, OptOne
  <2> QED BY <1>1, <2>1 DEF WOut, Given, Deq
<1> QED BY <1>3, <1>4, <1>5, <1>9, <1>10, <1>11, <1>12 DEF StageMoves

-----------------------------------------------------------------------------
(* Which machine moves on.                                                 *)

Asked(in, m) == AllocFire(in) /\ in.alloc[1].cm = m
Told(m) == m \in Notice
Turned(in, m) == in.from = <<m>> /\ FromFire(in)
Ended(in, m) == WOut(in) # <<>> /\ WOut(in)[1].last /\ Head(due).val[1] = m
Leaves(in, m) == (Told(m) /\ Cancel) \/ Turned(in, m)
Gets(in, m) == in.icn # <<>> /\ in.icn[1].cm = m

LEMMA HalvesCard ==
  ASSUME NEW m \in CM, AdbTypes, MachineOK(m), phase[m] = "wait"
  PROVE  /\ IsFiniteSet(Halves(m)) /\ Cardinality(Halves(m)) = Len(Buf(m)) /\ Halves(m) \subseteq {0, 1}
         /\ IsFiniteSet(got[m]) /\ ctrl[m].cnt = Cardinality(got[m])
         /\ ctrl[m].cnt \in Nat /\ ctrl[m].cnt <= Len(Buf(m))
         /\ ctrl[m].cnt = Len(Buf(m)) => got[m] = Halves(m)
<1>1. ctrl[m] \in CtrlRec /\ Len(Buf(m)) \in {1, 2} /\ ctrl[m].off \in {0, 1}
  BY DEF AdbTypes, MachineOK, CtrlRec
<1>2. got[m] \in SUBSET Halves(m) /\ ctrl[m].cnt = Cardinality(got[m])
  BY DEF MachineOK
<1>3. IsFiniteSet(Halves(m)) /\ Cardinality(Halves(m)) = Len(Buf(m)) /\ Halves(m) \subseteq {0, 1}
  <2>1. CASE Len(Buf(m)) = 2
    <3>1. Halves(m) = {0, 1}
      BY <2>1 DEF Halves, Buf
    <3>2. IsFiniteSet({0} \cup {1}) /\ {0} \cup {1} = {0, 1}
      BY FS_Singleton, FS_AddElement
    <3>3. Cardinality({0, 1}) = 2
      BY PairCard
    <3> QED BY <2>1, <3>1, <3>2, <3>3
  <2>2. CASE Len(Buf(m)) = 1
    <3>1. Halves(m) = {ctrl[m].off}
      BY <2>2 DEF Halves, Buf
    <3> QED BY <1>1, <2>2, <3>1, FS_Singleton
  <2> QED BY <1>1, <2>1, <2>2
<1>4. /\ IsFiniteSet(got[m]) /\ Cardinality(got[m]) <= Cardinality(Halves(m))
      /\ Cardinality(Halves(m)) = Cardinality(got[m]) => Halves(m) = got[m]
  BY <1>2, <1>3, FS_Subset
<1>5. Cardinality(got[m]) \in Nat
  BY <1>4, FS_CardinalityType
<1> QED BY <1>2, <1>3, <1>4, <1>5

LEMMA WhoMoves ==
  ASSUME AdbTypes, \A m \in CM : MachineOK(m), RxOK, TxOK, DueOK, NEW in \in AdbIn, AdbTick(in),
         NEW m \in CM
  PROVE  /\ Asked(in, m) => phase[m] = "idle"
         /\ Told(m) => phase[m] = "wait" /\ rx # <<>> /\ rx[1].cm = m
         /\ Turned(in, m) => phase[m] = "full"
         /\ Ended(in, m) => phase[m] = "sent" /\ s2 # <<>> /\ in.wRdy
                            /\ due[1].last /\ due[1].val[1] = m
         /\ Gets(in, m) => /\ phase[m] = "wait" /\ ~Told(m) /\ ~Cancelled(m) /\ in.icn[1] \in IcnRec
                           /\ in.icn[1].half \in Halves(m) \ got[m]
                           /\ in.icn[1].cancel => Len(Buf(m)) = 1
<1>1. Asked(in, m) => phase[m] = "idle"
  BY AdbInputs DEF Asked, AllocFire
<1>2. Told(m) => phase[m] = "wait" /\ rx # <<>> /\ rx[1].cm = m
  BY DEF Told, Notice, RxOK
<1>3. Turned(in, m) => phase[m] = "full"
  <2>1. in.from = <<m>> => in.from[1] = m /\ in.from # <<>>
    OBVIOUS
  <2> QED BY <2>1, AdbInputs DEF Turned
<1>4. ASSUME Ended(in, m)
      PROVE  /\ phase[m] = "sent" /\ s2 # <<>> /\ in.wRdy /\ due[1].last /\ due[1].val[1] = m
  <2>1. WOut(in) = s2 /\ s2 # <<>> /\ in.wRdy
    BY <1>4, StagesMove DEF StageMoves, Ended
  <2>2. Len(s2) = 1 /\ Len(s1) \in Nat
    BY <2>1, OptOne, OptIsSeq DEF AdbTypes
  <2>3. 1 \in 1 .. Len(due)
    <3>1. tx # <<>> => Len(tx[1].ctrl.buf) - tx[1].cnt > 0 /\ Len(tx[1].ctrl.buf) - tx[1].cnt \in Nat
      BY TxFields
    <3> QED BY <2>2, <3>1 DEF DueOK
  <2>4. Head(due) = due[1]
    BY <2>3 DEF AdbTypes
  <2> QED BY <1>4, <2>1, <2>3, <2>4 DEF Ended, DueOK
<1>5. ASSUME Gets(in, m)
      PROVE  /\ phase[m] = "wait" /\ ~Told(m) /\ ~Cancelled(m) /\ in.icn[1] \in IcnRec
             /\ in.icn[1].half \in Halves(m) \ got[m]
             /\ in.icn[1].cancel => Len(Buf(m)) = 1
  <2>1. in.icn[1] \in Icns /\ in.icn[1] \in IcnRec /\ in.icn[1].cm = m
    BY <1>5, AdbInputs DEF Gets
  <2>2. /\ phase[m] = "wait" /\ ~Cancelled(m) /\ in.icn[1].half \in Halves(m) \ got[m]
        /\ in.icn[1].cancel => Len(Buf(m)) = 1
    BY <2>1 DEF Icns, Buf
  <2>3. ctrl[m].cnt # Len(Buf(m))
    BY <2>2, HalvesCard
  <2>4. ~Told(m)
    BY <2>2, <2>3 DEF Told, Notice, Cancelled, Buf
  <2> QED BY <2>1, <2>2, <2>4
<1> QED BY <1>1, <1>2, <1>3, <1>4, <1>5

-----------------------------------------------------------------------------
(* Counting slots.                                                         *)

InMachines == UNION {Range(Buf(m)) : m \in CM}

LEMMA ListLen ==
  ASSUME AdbTypes
  PROVE  /\ Slots \in Nat /\ Slots > 1 /\ avail \in Nat /\ avail <= Slots /\ head \in Nat
         /\ DOMAIN FreeSeq = 1 .. avail
         /\ FreeSeq \in Seq(Slot) => Len(FreeSeq) = avail
         /\ Len(rel) \in Nat /\ DOMAIN rel = 1 .. Len(rel)
<1>1. Slots \in Nat /\ Slots > 1 /\ avail \in Nat /\ avail <= Slots /\ head \in Nat
  BY BufferAssumption DEF AdbTypes, Slot
<1>2. DOMAIN FreeSeq = 1 .. avail
  BY DEF FreeSeq
<1>3. FreeSeq \in Seq(Slot) => Len(FreeSeq) = avail
  BY <1>1, <1>2, LenProperties
<1>4. Len(rel) \in Nat /\ DOMAIN rel = 1 .. Len(rel)
  BY LenProperties DEF AdbTypes
<1> QED BY <1>1, <1>2, <1>3, <1>4

LEMMA InTxIs ==
  ASSUME AdbTypes, TxOK
  PROVE  /\ InTx \in Seq(Slot) /\ Len(InTx) \in Nat /\ Len(InTx) <= 2
         /\ tx = <<>> => InTx = <<>>
         /\ tx # <<>> => InTx = tx[1].ctrl.buf
<1>1. CASE tx = <<>>
  BY <1>1, EmptySeq DEF InTx
<1>2. CASE tx # <<>>
  BY <1>2, TxFields DEF InTx
<1> QED BY <1>1, <1>2

LEMMA SlotsCount ==
  ASSUME AdbTypes, TxOK, ListOK, Apart, Covered
  PROVE  /\ avail + Len(rel) + Len(InTx) + Cardinality(InMachines) = Slots
         /\ Cardinality(InMachines) \in Nat
         /\ Cardinality(Range(FreeSeq)) = avail /\ avail + Len(rel) <= Slots
<1> DEFINE F == Range(FreeSeq)
           R == Range(rel)
           T == Range(InTx)
           M == InMachines
<1>1. /\ IsFiniteSet(F) /\ Cardinality(F) = avail
      /\ IsFiniteSet(R) /\ Cardinality(R) = Len(rel)
      /\ IsFiniteSet(T) /\ Cardinality(T) = Len(InTx)
  <2>1. IsFiniteSet(F) /\ Cardinality(F) = avail
    BY ListLen, RangeCard DEF ListOK
  <2>2. IsFiniteSet(R) /\ Cardinality(R) = Len(rel)
    BY RangeCard DEF AdbTypes, Apart
  <2>3. IsFiniteSet(T) /\ Cardinality(T) = Len(InTx)
    BY InTxIs, RangeCard DEF Apart
  <2> QED BY <2>1, <2>2, <2>3
<1>2. F \subseteq Slot /\ R \subseteq Slot /\ T \subseteq Slot /\ M \subseteq Slot
  <2>1. F \subseteq Slot
    BY RangeIs DEF ListOK
  <2>2. R \subseteq Slot
    BY RangeIs DEF AdbTypes
  <2>3. T \subseteq Slot
    BY InTxIs, RangeIs
  <2>4. ASSUME NEW m \in CM PROVE Range(Buf(m)) \subseteq Slot
    <3>1. Buf(m) \in Seq(Slot)
      BY DEF AdbTypes, CtrlRec, Buf
    <3> QED BY <3>1, RangeIs
  <2> QED BY <2>1, <2>2, <2>3, <2>4 DEF InMachines
<1>3. ((F \cup R) \cup T) \cup M = Slot
  <2>1. ASSUME NEW v \in Slot PROVE v \in ((F \cup R) \cup T) \cup M
    BY DEF Covered, InMachines
  <2> QED BY <1>2, <2>1
<1>4. F \cap R = {} /\ (F \cup R) \cap T = {} /\ ((F \cup R) \cup T) \cap M = {}
  <2>1. F \cap R = {} /\ F \cap T = {} /\ R \cap T = {}
    BY DEF Apart
  <2>2. ASSUME NEW v \in M PROVE v \notin ((F \cup R) \cup T)
    BY DEF Apart, InMachines
  <2> QED BY <2>1, <2>2
<1>5. IsFiniteSet(Slot) /\ Cardinality(Slot) = Slots
  <2> DEFINE m == Slots - 1
  <2>1. 0 \in Int /\ m \in Int /\ m >= 0 /\ m + 1 = Slots /\ Slot = 0 .. m
    BY ListLen DEF Slot
  <2>2. IsFiniteSet(0 .. m) /\ Cardinality(0 .. m) = m + 1
    <3> HIDE DEF m
    <3> QED BY <2>1, FS_Interval
  <2> QED BY <2>1, <2>2
<1>6. IsFiniteSet(M)
  BY <1>2, <1>5, FS_Subset
<1> HIDE DEF F, R, T, M
<1>7. IsFiniteSet(F \cup R) /\ Cardinality(F \cup R) = avail + Len(rel)
  BY <1>1, <1>4, DisjointCard
<1>8. IsFiniteSet((F \cup R) \cup T) /\ Cardinality((F \cup R) \cup T) = avail + Len(rel) + Len(InTx)
  <2> DEFINE U == F \cup R
  <2>1. IsFiniteSet(U) /\ Cardinality(U) = avail + Len(rel) /\ U \cap T = {}
    BY <1>4, <1>7
  <2>2. IsFiniteSet(U \cup T) /\ Cardinality(U \cup T) = avail + Len(rel) + Len(InTx)
    <3> HIDE DEF U
    <3>1. Cardinality(U \cup T) = Cardinality(U) + Cardinality(T) /\ IsFiniteSet(U \cup T)
      BY <1>1, <2>1, DisjointCard
    <3> QED BY <3>1, <1>1, <2>1
  <2> QED BY <2>2
<1>9. Cardinality(((F \cup R) \cup T) \cup M) = avail + Len(rel) + Len(InTx) + Cardinality(M)
  BY <1>4, <1>6, <1>8, DisjointCard
<1>10. Cardinality(M) \in Nat
  BY <1>6, FS_CardinalityType
<1>11. avail + Len(rel) + Len(InTx) + Cardinality(M) = Slots
  BY <1>3, <1>5, <1>9
<1>12. avail + Len(rel) <= Slots
  <2>1. avail \in Nat /\ Len(rel) \in Nat /\ Len(InTx) \in Nat
    BY ListLen, InTxIs
  <2> QED BY <2>1, <1>10, <1>11
<1> QED BY <1>1, <1>10, <1>11, <1>12 DEF M, F

-----------------------------------------------------------------------------
(* The gate, and what an edge does to the registers.                       *)

LEMMA AdbGate ==
  ASSUME AdbTypes, \A m \in CM : MachineOK(m), RxOK, TxOK, DueOK, NEW in \in AdbIn, AdbTick(in)
  PROVE  RegsTick(in)
<1>1. CASE AdbAny(in)
  BY <1>1 DEF AdbTick
<1>2. CASE ~AdbAny(in)
  <2>1. /\ ~AllocFire(in) /\ ~RdrFire(in) /\ in.icn = <<>> /\ in.from = <<>> /\ rel = <<>> /\ rx = <<>>
        /\ UNCHANGED <<freeVars, ctrl, rx, tx>>
    BY <1>2 DEF AdbTick, AdbAny
  <2>2. /\ Len(rel) = 0 /\ DOMAIN rel = {} /\ Slots \in Nat /\ Slots > 0 /\ head \in Nat /\ tail \in Nat
        /\ head < Slots /\ tail < Slots /\ avail \in Nat
    BY <2>1, ListLen DEF AdbTypes, Slot
  <2>3. FreeTick(in)
    <3>1. ASSUME NEW k \in Slot PROVE NextFl(k, 0) = fl[k]
      <4>1. 0 .. 0 - 1 = {}
        OBVIOUS
      <4> QED BY <4>1, <2>2 DEF NextFl
    <3>2. fl = [k \in Slot |-> NextFl(k, 0)]
      BY <3>1 DEF AdbTypes
    <3>3. (head + 0) % Slots = head /\ (tail + 0) % Slots = tail /\ avail + 0 - 0 = avail
      BY <2>2
    <3>4. NextRel(in) = <<>>
      <4>1. ~Release(in) /\ ~Cancel
        BY <2>1 DEF Release, Cancel
      <4>2. <<>> \o <<>> = <<>>
        OBVIOUS
      <4> QED BY <4>1, <4>2 DEF NextRel
    <3> QED BY <3>2, <3>3, <3>4, <2>1, <2>2 DEF FreeTick, freeVars
  <2>4. ASSUME NEW m \in CM PROVE NextCtrl(m, in) = ctrl[m]
    <3>1. ~Asked(in, m) /\ ~Told(m) /\ ~Turned(in, m)
      <4>1. <<m>> # <<>>
        OBVIOUS
      <4> QED BY <4>1, <2>1 DEF Asked, Told, Turned, Notice
    <3>2. NextPhase(m, in) = IF Ended(in, m) THEN "idle" ELSE phase[m]
      BY <3>1 DEF NextPhase, Asked, Told, Turned, Ended
    <3>3. NextPhase(m, in) \in {"sent", "idle"} => phase[m] \in {"sent", "idle"}
      BY <3>2, WhoMoves
    <3>4. NextPhase(m, in) \in {"sent", "idle"} => ctrl[m] = NoCtrl
      BY <3>3 DEF MachineOK
    <3> QED BY <3>1, <3>4, <2>1 DEF NextCtrl, Asked
  <2>5. ctrl' = [m \in CM |-> NextCtrl(m, in)]
    BY <2>1, <2>4 DEF AdbTypes
  <2>6. tx' = NextTx(in)
    <3>1. ~FromFire(in) /\ (AllowNew(in) => tx = <<>>)
      BY <2>1 DEF FromFire, AllowNew, Release
    <3> QED BY <3>1, <2>1 DEF NextTx
  <2> QED BY <2>1, <2>3, <2>5, <2>6 DEF RegsTick
<1> QED BY <1>1, <1>2

Num(in) == IF AllocFire(in) THEN in.alloc[1].num ELSE 0
MachineMoves(in, m) ==
  /\ phase'[m] = IF Asked(in, m) THEN "wait"
                 ELSE IF Told(m) THEN IF Cancel THEN "idle" ELSE "full"
                 ELSE IF Turned(in, m) THEN "sent"
                 ELSE IF Ended(in, m) THEN "idle" ELSE phase[m]
  /\ ctrl'[m] = IF Asked(in, m)
                THEN [buf |-> [k \in 1 .. Num(in) |-> FreeSeq[k]], cnt |-> 0, off |-> in.alloc[1].off]
                ELSE IF Leaves(in, m) THEN NoCtrl
                ELSE IF Gets(in, m) THEN [ctrl[m] EXCEPT !.cnt = @ + 1] ELSE ctrl[m]
  /\ got'[m] = IF Asked(in, m) THEN {}
               ELSE IF Gets(in, m) THEN got[m] \cup {in.icn[1].half}
               ELSE IF phase'[m] # "wait" THEN {} ELSE got[m]

LEMMA NumIs ==
  ASSUME AdbTypes, NEW in \in AdbIn
  PROVE  /\ Num(in) \in 0 .. 2 /\ Num(in) <= avail
         /\ AllocFire(in) => /\ Num(in) \in {1, 2} /\ in.alloc[1].cm \in CM /\ in.alloc[1].off \in {0, 1}
                             /\ Asked(in, in.alloc[1].cm)
         /\ \A m \in CM : Asked(in, m) => AllocFire(in) /\ in.alloc[1].cm = m
<1>1. CASE AllocFire(in)
  <2>1. in.alloc # <<>> /\ avail >= in.alloc[1].num /\ Num(in) = in.alloc[1].num
    BY <1>1 DEF Num, AllocFire
  <2>2. in.alloc[1].cm \in CM /\ in.alloc[1].num \in {1, 2} /\ in.alloc[1].off \in {0, 1}
    BY <2>1, AdbInputs
  <2>3. Num(in) \in {1, 2} /\ Num(in) <= avail
    BY <2>1, <2>2, ListLen
  <2> QED BY <1>1, <2>2, <2>3 DEF Asked
<1>2. CASE ~AllocFire(in)
  BY <1>2, ListLen DEF Num, Asked
<1> QED BY <1>1, <1>2

LEMMA MachinesMove ==
  ASSUME AdbTypes, \A m \in CM : MachineOK(m), RxOK, TxOK, DueOK, NEW in \in AdbIn, AdbTick(in),
         NEW m \in CM
  PROVE  MachineMoves(in, m)
<1>1. RegsTick(in) /\ GhostTick(in)
  BY AdbGate DEF AdbTick
<1>2. phase'[m] = NextPhase(m, in)
  BY <1>1 DEF GhostTick
<1>3. NextPhase(m, in) = IF Asked(in, m) THEN "wait"
                         ELSE IF Told(m) THEN IF Cancel THEN "idle" ELSE "full"
                         ELSE IF Turned(in, m) THEN "sent"
                         ELSE IF Ended(in, m) THEN "idle" ELSE phase[m]
  BY DEF NextPhase, Asked, Told, Turned, Ended
<1>4. got'[m] = IF Asked(in, m) THEN {}
                ELSE IF Gets(in, m) THEN got[m] \cup {in.icn[1].half}
                ELSE IF phase'[m] # "wait" THEN {} ELSE got[m]
  BY <1>1, <1>2 DEF GhostTick, Asked, Gets
<1>5. ctrl'[m] = NextCtrl(m, in)
  BY <1>1 DEF RegsTick
<1>6. CASE Asked(in, m)
  <2>1. ctrl'[m] = [buf |-> [k \in 1 .. in.alloc[1].num |-> fl[((head + k) - 1) % Slots]],
                    cnt |-> 0, off |-> in.alloc[1].off]
    BY <1>5, <1>6 DEF NextCtrl, Asked
  <2>2. Num(in) = in.alloc[1].num /\ Num(in) \in Nat /\ Num(in) <= avail /\ avail \in Nat
    BY <1>6, NumIs, ListLen DEF Num, Asked
  <2>3. ASSUME NEW k \in 1 .. Num(in) PROVE FreeSeq[k] = fl[((head + k) - 1) % Slots]
    <3>1. k \in 1 .. avail
      BY <2>2
    <3> QED BY <3>1 DEF FreeSeq
  <2>4. [k \in 1 .. Num(in) |-> FreeSeq[k]] = [k \in 1 .. Num(in) |-> fl[((head + k) - 1) % Slots]]
    BY <2>3
  <2> QED BY <1>2, <1>3, <1>4, <1>6, <2>1, <2>2, <2>4 DEF MachineMoves
<1>7. CASE ~Asked(in, m)
  <2>1. ctrl'[m] = IF phase'[m] \in {"sent", "idle"} THEN NoCtrl
                   ELSE IF Gets(in, m) THEN [ctrl[m] EXCEPT !.cnt = @ + 1] ELSE ctrl[m]
    BY <1>2, <1>5, <1>7 DEF NextCtrl, Asked, Gets
  <2>2. Leaves(in, m) => phase'[m] \in {"sent", "idle"}
    BY <1>2, <1>3, <1>7, WhoMoves DEF Leaves
  <2>3. phase'[m] \in {"sent", "idle"} /\ ~Leaves(in, m) => ctrl[m] = NoCtrl /\ ~Gets(in, m)
    <3>1. phase'[m] \in {"sent", "idle"} /\ ~Leaves(in, m) => phase[m] \in {"sent", "idle"}
      BY <1>2, <1>3, <1>7, WhoMoves DEF Leaves
    <3> QED BY <3>1, WhoMoves DEF MachineOK
  <2> QED BY <1>2, <1>3, <1>4, <1>7, <2>1, <2>2, <2>3 DEF MachineMoves
<1> QED BY <1>6, <1>7

-----------------------------------------------------------------------------
(* The circular list is a queue of slots.                                  *)

All == FreeSeq \o rel
ListMoves(in) ==
  /\ head' = (head + Num(in)) % Slots /\ avail' = avail + Len(rel) - Num(in)
  /\ head' \in Slot /\ tail' \in Slot /\ avail' \in 0 .. Slots
  /\ tail' = (head' + avail') % Slots
  /\ fl' \in [Slot -> Slot \cup {NoSlot}]
  /\ FreeSeq' = [i \in 1 .. Len(All) - Num(in) |-> All[i + Num(in)]]

LEMMA ListMove ==
  ASSUME AdbTypes, ListOK, avail + Len(rel) <= Slots, NEW in \in AdbIn, FreeTick(in)
  PROVE  ListMoves(in)
<1> DEFINE n == Num(in)
           r == Len(rel)
<1>1. /\ fl' = [k \in Slot |-> NextFl(k, n)] /\ head' = (head + n) % Slots
      /\ tail' = (tail + r) % Slots /\ avail' = avail + r - n
  BY DEF FreeTick, Num
<1>2. /\ Slots \in Nat /\ Slots > 1 /\ avail \in Nat /\ r \in Nat /\ n \in Nat /\ n <= avail
      /\ avail + r <= Slots /\ head \in Slot /\ head \in Nat /\ DOMAIN rel = 1 .. r
      /\ FreeSeq \in Seq(Slot) /\ Len(FreeSeq) = avail /\ rel \in Seq(Slot)
      /\ tail = (head + avail) % Slots
  <2>1. /\ Slots \in Nat /\ Slots > 1 /\ avail \in Nat /\ r \in Nat /\ DOMAIN rel = 1 .. r
        /\ head \in Nat
    BY ListLen
  <2>2. FreeSeq \in Seq(Slot) /\ Len(FreeSeq) = avail /\ tail = (head + avail) % Slots
    BY ListLen DEF ListOK
  <2>3. n \in Nat /\ n <= avail
    BY NumIs
  <2>4. head \in Slot /\ rel \in Seq(Slot)
    BY DEF AdbTypes
  <2> QED BY <2>1, <2>2, <2>3, <2>4
<1>3. Len(All) = avail + r /\ \A k \in 1 .. avail + r : All[k] = IF k <= avail THEN FreeSeq[k] ELSE rel[k - avail]
  BY <1>2, ConcatProperties DEF All
<1> HIDE DEF n, r
<1>4. ASSUME NEW j \in 1 .. r PROVE avail + j - 1 \in 0 .. Slots - 1 /\ ((tail + j) - 1) % Slots = (head + (avail + j - 1)) % Slots
  <2>1. avail \in 0 .. Slots /\ j - 1 \in 0 .. Slots /\ avail + j - 1 \in 0 .. Slots - 1
    BY <1>2
  <2>2. (((head + avail) % Slots) + (j - 1)) % Slots = ((head + avail) + (j - 1)) % Slots
    BY <1>2, <2>1, WrapTwice
  <2>3. tail \in Int /\ (tail + j) - 1 = tail + (j - 1) /\ (head + avail) + (j - 1) = head + (avail + j - 1)
    <3>1. tail \in Int
      BY <1>2 DEF AdbTypes, Slot
    <3> QED BY <3>1, <1>2
  <2> QED BY <1>2, <2>1, <2>2, <2>3
<1>5. ASSUME NEW p \in n .. avail + r - 1
      PROVE  (head + p) % Slots \in Slot /\ NextFl((head + p) % Slots, n) = All[p + 1]
  <2> DEFINE k == (head + p) % Slots
             back == {j \in DOMAIN rel : k = ((tail + j) - 1) % Slots}
             taken == {(head + j) % Slots : j \in 0 .. n - 1}
  <2>1. p \in 0 .. Slots - 1 /\ p + 1 \in 1 .. avail + r /\ p \in Nat
    BY <1>2
  <2>2. k \in Slot
    <3>1. head + p \in Nat
      BY <1>2, <2>1
    <3> QED BY <3>1, WrapIs
  <2>3. \A j \in back : j \in 1 .. r /\ p = avail + j - 1
    <3>1. ASSUME NEW j \in 1 .. r, k = ((tail + j) - 1) % Slots PROVE p = avail + j - 1
      <4>1. avail + j - 1 \in 0 .. Slots - 1 /\ (head + p) % Slots = (head + (avail + j - 1)) % Slots
        BY <3>1, <1>4
      <4> QED BY <4>1, <1>2, <2>1, WrapApart
    <3> QED BY <3>1, <1>2
  <2>4. k \notin taken
    <3>1. ASSUME NEW j \in 0 .. n - 1 PROVE (head + p) % Slots # (head + j) % Slots
      <4>1. j \in 0 .. Slots - 1 /\ p # j
        BY <1>2
      <4> QED BY <4>1, <1>2, <2>1, WrapApart
    <3> QED BY <3>1
  <2>5. CASE p < avail
    <3>1. back = {}
      <4>1. ASSUME NEW j \in back PROVE FALSE
        <5>1. j \in 1 .. r /\ p = avail + j - 1
          BY <2>3
        <5> QED BY <5>1, <2>5, <1>2
      <4> QED BY <4>1
    <3>2. NextFl(k, n) = fl[k]
      BY <3>1, <2>4 DEF NextFl
    <3>3. p + 1 \in 1 .. avail /\ (head + (p + 1)) - 1 = head + p
      BY <1>2, <2>1, <2>5
    <3>4. FreeSeq[p + 1] = fl[k]
      BY <3>3 DEF FreeSeq
    <3>5. All[p + 1] = FreeSeq[p + 1]
      BY <1>3, <2>1, <3>3
    <3> QED BY <2>2, <3>2, <3>4, <3>5
  <2>6. CASE p >= avail
    <3> DEFINE j == (p + 1) - avail
    <3>1. j \in 1 .. r /\ avail + j - 1 = p
      BY <1>2, <2>1, <2>6
    <3>2. j \in back
      BY <1>2, <1>4, <3>1
    <3>3. \A i \in back : i = j
      <4>1. ASSUME NEW i \in back PROVE i = j
        <5>1. i \in 1 .. r /\ p = avail + i - 1
          BY <2>3
        <5> QED BY <5>1, <1>2
      <4> QED BY <4>1
    <3>4. back = {j}
      BY <3>2, <3>3
    <3>5. NextFl(k, n) = rel[j]
      BY <3>4 DEF NextFl
    <3>6. All[p + 1] = rel[j]
      <4>1. ~(p + 1 <= avail)
        BY <1>2, <2>1, <2>6
      <4> QED BY <4>1, <1>3, <2>1
    <3> QED BY <2>2, <3>5, <3>6
  <2> QED BY <2>5, <2>6, <1>2, <2>1
<1>6. avail' \in 0 .. Slots /\ avail' \in Nat /\ n \in 0 .. Slots
  BY <1>1, <1>2
<1>7. ASSUME NEW i \in 1 .. avail'
      PROVE  i + n \in 1 .. avail + r /\ fl'[((head' + i) - 1) % Slots] = All[i + n]
  <2>1. /\ (n + i) - 1 \in n .. avail + r - 1 /\ ((n + i) - 1) + 1 = i + n /\ i - 1 \in 0 .. Slots
        /\ i + n \in 1 .. avail + r
    BY <1>1, <1>2, <1>6
  <2>2. (((head + n) % Slots) + (i - 1)) % Slots = ((head + n) + (i - 1)) % Slots
    BY <1>2, <1>6, <2>1, WrapTwice
  <2>3. head' \in Int /\ (head' + i) - 1 = head' + (i - 1) /\ (head + n) + (i - 1) = head + ((n + i) - 1)
    <3>1. head' \in Int
      BY <1>1, <1>2
    <3> QED BY <3>1, <1>2, <2>1
  <2>4. ((head' + i) - 1) % Slots = (head + ((n + i) - 1)) % Slots
    BY <1>1, <2>2, <2>3
  <2>5. (head + ((n + i) - 1)) % Slots \in Slot /\ NextFl((head + ((n + i) - 1)) % Slots, n) = All[i + n]
    BY <1>5, <2>1
  <2> QED BY <1>1, <2>1, <2>4, <2>5
<1>8. FreeSeq' = [i \in 1 .. Len(All) - n |-> All[i + n]]
  <2>1. FreeSeq' = [i \in 1 .. avail' |-> fl'[((head' + i) - 1) % Slots]]
    BY DEF FreeSeq
  <2>2. avail' = Len(All) - n
    <3>1. Len(All) = avail + r
      BY <1>3
    <3> QED BY <3>1, <1>1, <1>2
  <2> QED BY <1>7, <2>1, <2>2
<1>9. head' \in Slot /\ tail' \in Slot
  <2>1. head + n \in Nat /\ tail + r \in Nat
    BY <1>2 DEF AdbTypes, Slot
  <2> QED BY <1>1, <2>1, WrapIs
<1>10. tail' = (head' + avail') % Slots
  <2>1. avail \in 0 .. Slots /\ r \in 0 .. Slots /\ avail' \in 0 .. Slots
    BY <1>2, <1>6
  <2>2. (((head + avail) % Slots) + r) % Slots = ((head + avail) + r) % Slots
    BY <1>2, <2>1, WrapTwice
  <2>3. (((head + n) % Slots) + avail') % Slots = ((head + n) + avail') % Slots
    BY <1>2, <1>6, <2>1, WrapTwice
  <2>4. (head + n) + avail' = (head + avail) + r
    BY <1>1, <1>2
  <2> QED BY <1>1, <1>2, <2>2, <2>3, <2>4
<1>11. fl' \in [Slot -> Slot \cup {NoSlot}]
  <2>1. ASSUME NEW k \in Slot PROVE NextFl(k, n) \in Slot \cup {NoSlot}
    <3> DEFINE back == {j \in DOMAIN rel : k = ((tail + j) - 1) % Slots}
    <3>1. back # {} => (CHOOSE j \in back : TRUE) \in DOMAIN rel
      <4>1. back # {} => (CHOOSE j \in back : TRUE) \in back
        OBVIOUS
      <4> QED BY <4>1
    <3>2. \A j \in DOMAIN rel : rel[j] \in Slot
      BY <1>2, ElementOfSeq
    <3>3. back # {} => rel[CHOOSE j \in back : TRUE] \in Slot
      BY <3>1, <3>2
    <3>4. fl[k] \in Slot \cup {NoSlot}
      BY DEF AdbTypes
    <3> QED BY <3>3, <3>4 DEF NextFl
  <2> QED BY <1>1, <2>1
<1> QED BY <1>1, <1>6, <1>8, <1>9, <1>10, <1>11 DEF ListMoves, n, r

-----------------------------------------------------------------------------
(* Where each slot goes.                                                   *)

Taken2(in) == [k \in 1 .. Num(in) |-> FreeSeq[k]]
Back(in) == IF Release(in) THEN InTx ELSE <<>>
BackCancel == IF Cancel THEN Buf(rx[1].cm) ELSE <<>>

ListSplit(in) ==
  /\ Taken2(in) \in Seq(Slot) /\ Len(Taken2(in)) = Num(in) /\ IsInjective(Taken2(in))
  /\ FreeSeq' \in Seq(Slot) /\ IsInjective(FreeSeq')
  /\ Range(Taken2(in)) \cap Range(FreeSeq') = {}
  /\ Range(Taken2(in)) \cup Range(FreeSeq') = Range(FreeSeq) \cup Range(rel)

LEMMA ListSplits ==
  ASSUME AdbTypes, ListOK, Apart, avail + Len(rel) <= Slots, NEW in \in AdbIn, FreeTick(in)
  PROVE  ListSplit(in)
<1>1. /\ FreeSeq \in Seq(Slot) /\ rel \in Seq(Slot) /\ Len(FreeSeq) = avail /\ avail \in Nat
      /\ IsInjective(FreeSeq) /\ IsInjective(rel) /\ Range(FreeSeq) \cap Range(rel) = {}
  BY ListLen DEF AdbTypes, ListOK, Apart
<1>2. /\ All \in Seq(Slot) /\ IsInjective(All) /\ Range(All) = Range(FreeSeq) \cup Range(rel)
      /\ Len(All) = avail + Len(rel)
  BY <1>1, ConcatRange DEF All
<1>3. Num(in) \in 0 .. avail /\ Num(in) \in 0 .. Len(All) /\ Len(rel) \in Nat
  <2>1. Num(in) \in 0 .. 2 /\ Num(in) <= avail /\ Len(rel) \in Nat
    BY NumIs, ListLen
  <2> QED BY <2>1, <1>1, <1>2
<1>4. Taken2(in) = [k \in 1 .. Num(in) |-> All[k]]
  <2>1. ASSUME NEW k \in 1 .. Num(in) PROVE FreeSeq[k] = All[k]
    <3>1. k \in 1 .. Len(FreeSeq)
      BY <1>1, <1>3
    <3>2. k \in 1 .. Len(FreeSeq) + Len(rel) /\ k <= Len(FreeSeq)
      BY <1>1, <1>3, <3>1
    <3> QED BY <1>1, <3>2, ConcatProperties DEF All
  <2> QED BY <2>1 DEF Taken2
<1>5. FreeSeq' = [i \in 1 .. Len(All) - Num(in) |-> All[i + Num(in)]]
  BY ListMove DEF ListMoves
<1>6. \A k \in 1 .. Len(All) : All[k] \in Slot
  BY <1>2, ElementOfSeq
<1>7. ASSUME NEW a, a = Taken2(in)
      PROVE  a \in Seq(Slot) /\ Len(a) = Num(in) /\ \A k \in 1 .. Num(in) : a[k] = All[k]
  <2>1. Num(in) \in Nat /\ \A k \in 1 .. Num(in) : k \in 1 .. Len(All)
    BY <1>2, <1>3
  <2>2. [k \in 1 .. Num(in) |-> All[k]] \in Seq(Slot)
    BY <1>6, <2>1, IsASeq
  <2>3. a \in Seq(Slot) /\ DOMAIN a = 1 .. Num(in) /\ \A k \in 1 .. Num(in) : a[k] = All[k]
    BY <1>4, <1>7, <2>2
  <2> QED BY <2>1, <2>3, LenProperties
<1>8. ASSUME NEW b, b = FreeSeq'
      PROVE  b \in Seq(Slot) /\ Len(b) = Len(All) - Num(in)
             /\ \A k \in 1 .. Len(All) - Num(in) : b[k] = All[k + Num(in)]
  <2> DEFINE d == Len(All) - Num(in)
  <2>1. d \in Nat /\ \A k \in 1 .. d : k + Num(in) \in 1 .. Len(All)
    BY <1>1, <1>2, <1>3
  <2>2. [k \in 1 .. d |-> All[k + Num(in)]] \in Seq(Slot)
    <3> HIDE DEF d
    <3> QED BY <1>6, <2>1, IsASeq
  <2>3. b \in Seq(Slot) /\ DOMAIN b = 1 .. d /\ \A k \in 1 .. d : b[k] = All[k + Num(in)]
    BY <1>5, <1>8, <2>2
  <2>4. Len(b) = d
    <3> HIDE DEF d
    <3> QED BY <2>1, <2>3, LenProperties
  <2> QED BY <2>3, <2>4
<1>9. ASSUME NEW a, a = Taken2(in), NEW b, b = FreeSeq'
      PROVE  /\ a \in Seq(Slot) /\ b \in Seq(Slot) /\ Len(a) = Num(in)
             /\ IsInjective(a) /\ IsInjective(b)
             /\ Range(a) \cap Range(b) = {} /\ Range(a) \cup Range(b) = Range(All)
  <2>1. a \in Seq(Slot) /\ Len(a) = Num(in) /\ \A k \in 1 .. Num(in) : a[k] = All[k]
    BY <1>7, <1>9
  <2>2. /\ b \in Seq(Slot) /\ Len(b) = Len(All) - Num(in)
        /\ \A k \in 1 .. Len(All) - Num(in) : b[k] = All[k + Num(in)]
    BY <1>8, <1>9
  <2>3. Len(a) + Len(b) = Len(All)
    BY <2>1, <2>2, <1>2, <1>3
  <2>4. IsInjective(a) /\ IsInjective(b) /\ Range(a) \cap Range(b) = {} /\ Range(a) \cup Range(b) = Range(All)
    <3>1. \A k \in 1 .. Len(a) : a[k] = All[k]
      BY <2>1
    <3>2. \A k \in 1 .. Len(b) : b[k] = All[k + Len(a)]
      BY <2>1, <2>2
    <3>3. a \in Seq(Slot) /\ b \in Seq(Slot)
      BY <2>1, <2>2
    <3>4. IsCut(All, a, b)
      BY <3>1, <3>2, <2>3 DEF IsCut
    <3>5. Parted(All, a, b)
      BY <3>3, <3>4, <1>2, CutRange
    <3> QED BY <3>5 DEF Parted
  <2> QED BY <2>1, <2>2, <2>4
<1> QED BY <1>2, <1>9 DEF ListSplit

SlotMoves(in) ==
  /\ rel' = Back(in) \o BackCancel
  /\ InTx' = IF FromFire(in) THEN Buf(in.from[1]) ELSE IF AllowNew(in) THEN <<>> ELSE InTx
  /\ FromFire(in) => AllowNew(in) /\ in.from[1] \in CM /\ Turned(in, in.from[1])
  /\ AllowNew(in) <=> Release(in) \/ tx = <<>>
  /\ Release(in) => tx # <<>>
  /\ Cancel => rx[1].cm \in CM /\ Told(rx[1].cm)
  /\ \A m \in CM : /\ Buf(m)' = IF Asked(in, m) THEN Taken2(in) ELSE IF Leaves(in, m) THEN <<>> ELSE Buf(m)
                   /\ Asked(in, m) => Buf(m) = <<>>
                   /\ Leaves(in, m) <=> (Cancel /\ m = rx[1].cm) \/ (FromFire(in) /\ m = in.from[1])

LEMMA SlotsMove ==
  ASSUME AdbTypes, \A m \in CM : MachineOK(m), RxOK, TxOK, DueOK, NEW in \in AdbIn, AdbTick(in)
  PROVE  SlotMoves(in)
<1>1. RegsTick(in)
  BY AdbGate
<1>2. rel' = Back(in) \o BackCancel
  <2>1. Release(in) => InTx = tx[1].ctrl.buf
    BY InTxIs DEF Release, RdrFire
  <2>2. rel' = NextRel(in)
    BY <1>1 DEF RegsTick, FreeTick
  <2> QED BY <2>1, <2>2 DEF NextRel, Back, BackCancel, Buf
<1>3. FromFire(in) => AllowNew(in) /\ in.from[1] \in CM /\ Turned(in, in.from[1])
  BY AdbInputs DEF FromFire, Turned
<1>4. InTx' = IF FromFire(in) THEN Buf(in.from[1]) ELSE IF AllowNew(in) THEN <<>> ELSE InTx
  <2>1. tx' = NextTx(in)
    BY <1>1 DEF RegsTick
  <2>2. CASE FromFire(in)
    <3>1. tx' = <<[cm |-> in.from[1], ctrl |-> ctrl[in.from[1]], cnt |-> 0]>>
      BY <2>1, <2>2 DEF NextTx
    <3>2. tx' # <<>> /\ tx'[1].ctrl.buf = ctrl[in.from[1]].buf
      BY <3>1
    <3> QED BY <2>2, <3>2 DEF InTx, Buf
  <2>3. CASE ~FromFire(in) /\ AllowNew(in)
    BY <2>1, <2>3 DEF NextTx, InTx
  <2>4. CASE ~FromFire(in) /\ ~AllowNew(in)
    <3>1. tx # <<>>
      BY <2>4 DEF AllowNew
    <3>2. CASE RdrFire(in)
      <4>1. tx' = <<[tx[1] EXCEPT !.cnt = @ + 1]>>
        BY <2>1, <2>4, <3>2 DEF NextTx
      <4>2. tx[1] \in TxRec
        BY <3>1, TxFields
      <4>3. tx' # <<>> /\ tx'[1].ctrl.buf = tx[1].ctrl.buf
        BY <4>1, <4>2 DEF TxRec
      <4> QED BY <2>4, <3>1, <4>3 DEF InTx
    <3>3. CASE ~RdrFire(in)
      BY <2>1, <2>4, <3>1, <3>3 DEF NextTx, InTx
    <3> QED BY <3>2, <3>3
  <2> QED BY <2>2, <2>3, <2>4
<1>5. Cancel => rx[1].cm \in CM /\ Told(rx[1].cm)
  <2>1. rx # <<>> => rx[1] \in IcnRec
    BY OptOne DEF AdbTypes
  <2> QED BY <2>1 DEF Cancel, Told, Notice, IcnRec
<1>6. ASSUME NEW m \in CM
      PROVE  /\ Buf(m)' = IF Asked(in, m) THEN Taken2(in) ELSE IF Leaves(in, m) THEN <<>> ELSE Buf(m)
             /\ Asked(in, m) => Buf(m) = <<>>
             /\ Leaves(in, m) <=> (Cancel /\ m = rx[1].cm) \/ (FromFire(in) /\ m = in.from[1])
  <2>1. Buf(m)' = IF Asked(in, m) THEN Taken2(in) ELSE IF Leaves(in, m) THEN <<>> ELSE Buf(m)
    <3>1. MachineMoves(in, m)
      BY MachinesMove
    <3>2. ctrl[m] \in CtrlRec
      BY DEF AdbTypes
    <3>3. CASE Asked(in, m)
      BY <3>1, <3>3 DEF MachineMoves, Taken2, Buf
    <3>4. CASE ~Asked(in, m) /\ Leaves(in, m)
      BY <3>1, <3>4 DEF MachineMoves, NoCtrl, Buf
    <3>5. CASE ~Asked(in, m) /\ ~Leaves(in, m)
      BY <3>1, <3>2, <3>5 DEF MachineMoves, CtrlRec, Buf
    <3> QED BY <3>3, <3>4, <3>5
  <2>2. Asked(in, m) => Buf(m) = <<>>
    BY WhoMoves DEF MachineOK, NoCtrl, Buf
  <2>3. Told(m) /\ Cancel <=> Cancel /\ m = rx[1].cm
    BY <1>5, WhoMoves
  <2>4. Turned(in, m) <=> FromFire(in) /\ m = in.from[1]
    <3>1. in.from = <<m>> => in.from[1] = m
      OBVIOUS
    <3>2. FromFire(in) => in.from = <<in.from[1]>>
      BY AdbInputs DEF FromFire
    <3> QED BY <3>1, <3>2 DEF Turned
  <2> QED BY <2>1, <2>2, <2>3, <2>4 DEF Leaves
<1> QED BY <1>2, <1>3, <1>4, <1>5, <1>6 DEF SlotMoves, AllowNew, Release, RdrFire

LEMMA BufIs ==
  ASSUME AdbTypes, NEW m \in CM
  PROVE  Buf(m) \in Seq(Slot) /\ (\A k \in 1 .. Len(Buf(m)) : Buf(m)[k] \in Slot) /\ Len(Buf(m)) \in Nat
<1>1. Buf(m) \in Seq(Slot)
  BY DEF AdbTypes, CtrlRec, Buf
<1> QED BY <1>1, ElementOfSeq, LenProperties

\* The slots that come back: those of the write that was read out and of the
\* write that was cancelled.
LEMMA BackIs ==
  ASSUME AdbTypes, Apart, \A m \in CM : MachineOK(m), RxOK, TxOK, NEW in \in AdbIn,
         SlotMoves(in)
  PROVE  /\ Back(in) \o BackCancel \in Seq(Slot) /\ IsInjective(Back(in) \o BackCancel)
         /\ Len(Back(in) \o BackCancel) <= 3
         /\ Range(Back(in) \o BackCancel)
              = (IF Release(in) THEN Range(InTx) ELSE {}) \cup (IF Cancel THEN Range(Buf(rx[1].cm)) ELSE {})
<1>1. /\ Back(in) \in Seq(Slot) /\ IsInjective(Back(in)) /\ Len(Back(in)) \in 0 .. 2
      /\ Range(Back(in)) = IF Release(in) THEN Range(InTx) ELSE {}
  <2>1. CASE Release(in)
    <3>1. Back(in) = InTx /\ IsInjective(InTx)
      BY <2>1 DEF Back, Apart
    <3>2. InTx \in Seq(Slot) /\ Len(InTx) \in 0 .. 2
      <4>1. \A i \in Nat : i <= 2 => i \in 0 .. 2
        OBVIOUS
      <4> QED BY <4>1, InTxIs
    <3> QED BY <2>1, <3>1, <3>2
  <2>2. CASE ~Release(in)
    BY <2>2, EmptyRange, EmptySeq DEF Back
  <2> QED BY <2>1, <2>2
<1>2. /\ BackCancel \in Seq(Slot) /\ IsInjective(BackCancel) /\ Len(BackCancel) \in 0 .. 1
      /\ Range(BackCancel) = IF Cancel THEN Range(Buf(rx[1].cm)) ELSE {}
  <2>1. CASE Cancel
    <3>1. rx[1].cm \in CM /\ Len(Buf(rx[1].cm)) = 1
      BY <2>1 DEF SlotMoves, RxOK, Cancel
    <3> QED BY <2>1, <3>1, BufIs DEF BackCancel, Apart
  <2>2. CASE ~Cancel
    BY <2>2, EmptyRange, EmptySeq DEF BackCancel
  <2> QED BY <2>1, <2>2
<1>3. Range(Back(in)) \cap Range(BackCancel) = {}
  <2>1. Cancel => rx[1].cm \in CM
    BY DEF SlotMoves
  <2>2. Cancel => Range(Buf(rx[1].cm)) \cap Range(InTx) = {}
    BY <2>1 DEF Apart
  <2> QED BY <1>1, <1>2, <2>2
<1>4. /\ Back(in) \o BackCancel \in Seq(Slot) /\ IsInjective(Back(in) \o BackCancel)
      /\ Len(Back(in) \o BackCancel) = Len(Back(in)) + Len(BackCancel)
      /\ Range(Back(in) \o BackCancel) = Range(Back(in)) \cup Range(BackCancel)
  BY <1>1, <1>2, <1>3, ConcatRange
<1>5. Len(Back(in) \o BackCancel) <= 3
  <2>1. \A i \in 0 .. 2, j \in 0 .. 1 : i + j <= 3
    OBVIOUS
  <2>2. Len(Back(in)) \in 0 .. 2 /\ Len(BackCancel) \in 0 .. 1
    BY <1>1, <1>2
  <2> QED BY <2>1, <2>2, <1>4
<1> QED BY <1>1, <1>2, <1>4, <1>5

\* No slot is lost and none is in two places after the edge.
LEMMA PlacesStep ==
  ASSUME AdbTypes, ListOK, Apart, Covered, \A m \in CM : MachineOK(m), RxOK, TxOK, DueOK,
         NEW in \in AdbIn, AdbTick(in)
  PROVE  ListOK' /\ Apart' /\ Covered'
<1>1. avail + Len(rel) <= Slots
  BY SlotsCount
<1>2. FreeTick(in)
  BY AdbGate DEF RegsTick
<1>3. ListMoves(in) /\ ListSplit(in)
  BY <1>1, <1>2, ListMove, ListSplits
<1>4. SlotMoves(in)
  BY SlotsMove
<1>5. ListOK'
  BY <1>3 DEF ListOK, ListMoves, ListSplit
<1> DEFINE F == Range(FreeSeq)
           R == Range(rel)
           T == Range(InTx)
           L(m) == Range(Buf(m))
           A == Range(Taken2(in))
           cm == rx[1].cm
           fr == in.from[1]
           F2 == Range(FreeSeq')
           R2 == Range(rel')
           T2 == Range(InTx')
           L2(m) == Range(Buf(m)')
<1>6. F2 \cap A = {} /\ F2 \cup A = F \cup R
  BY <1>3 DEF ListSplit
<1>7. R2 = (IF Release(in) THEN T ELSE {}) \cup (IF Cancel THEN L(cm) ELSE {})
  BY <1>4, BackIs DEF SlotMoves
<1>8. T2 = IF FromFire(in) THEN L(fr) ELSE IF AllowNew(in) THEN {} ELSE T
  <2>1. ASSUME NEW b, b = InTx' PROVE Range(b) = IF FromFire(in) THEN L(fr) ELSE IF AllowNew(in) THEN {} ELSE T
    <3>1. b = IF FromFire(in) THEN Buf(fr) ELSE IF AllowNew(in) THEN <<>> ELSE InTx
      BY <2>1, <1>4 DEF SlotMoves
    <3> QED BY <3>1, EmptyRange
  <2> QED BY <2>1
<1>9. \A m \in CM : L2(m) = IF Asked(in, m) THEN A ELSE IF Leaves(in, m) THEN {} ELSE L(m)
  <2>1. ASSUME NEW m \in CM, NEW b, b = Buf(m)'
        PROVE  Range(b) = IF Asked(in, m) THEN A ELSE IF Leaves(in, m) THEN {} ELSE L(m)
    <3>1. b = IF Asked(in, m) THEN Taken2(in) ELSE IF Leaves(in, m) THEN <<>> ELSE Buf(m)
      BY <2>1, <1>4 DEF SlotMoves
    <3> QED BY <3>1, EmptyRange
  <2> QED BY <2>1
<1>10. \A m \in CM : Asked(in, m) => L(m) = {}
  BY <1>4, EmptyRange DEF SlotMoves
<1>11. /\ FromFire(in) => AllowNew(in) /\ fr \in CM
       /\ AllowNew(in) <=> Release(in) \/ tx = <<>>
       /\ tx = <<>> => T = {}
       /\ Cancel => cm \in CM
  BY <1>4, InTxIs, EmptyRange DEF SlotMoves
<1>12. \A m \in CM : Leaves(in, m) <=> (Cancel /\ m = cm) \/ (FromFire(in) /\ m = fr)
  BY <1>4 DEF SlotMoves
<1>13. Cancel /\ FromFire(in) => cm # fr
  BY <1>4, WhoMoves DEF SlotMoves
<1>14. A = {} \/ \E m \in CM : Asked(in, m)
  <2>1. CASE AllocFire(in)
    BY <2>1, NumIs
  <2>2. CASE ~AllocFire(in)
    <3>1. Taken2(in) = <<>>
      <4>1. Num(in) = 0
        BY <2>2 DEF Num
      <4>2. Taken2(in) \in Seq(Slot) /\ Len(Taken2(in)) = 0
        BY <1>3, <4>1 DEF ListSplit
      <4> QED BY <4>2, EmptySeq
    <3> QED BY <3>1, EmptyRange
  <2> QED BY <2>1, <2>2
<1>15. \A m, n \in CM : Asked(in, m) /\ Asked(in, n) => m = n
  BY DEF Asked
<1>16. /\ F \cap R = {} /\ F \cap T = {} /\ R \cap T = {}
       /\ \A m \in CM : L(m) \cap (F \cup R \cup T) = {}
       /\ \A m, n \in CM : m # n => L(m) \cap L(n) = {}
  BY DEF Apart
<1>17. \A v \in Slot : v \in F \cup R \cup T \/ \E m \in CM : v \in L(m)
  BY DEF Covered
<1>18. IsInjective(rel') /\ IsInjective(InTx') /\ \A m \in CM : IsInjective(Buf(m)')
  <2>1. IsInjective(rel')
    BY <1>4, BackIs DEF SlotMoves
  <2>2. IsInjective(<<>>)
    BY EmptyRange
  <2>3. IsInjective(InTx')
    BY <1>4, <2>2 DEF SlotMoves, Apart
  <2>4. ASSUME NEW m \in CM PROVE IsInjective(Buf(m)')
    BY <1>3, <1>4, <2>2 DEF SlotMoves, ListSplit, Apart
  <2> QED BY <2>1, <2>3, <2>4
<1>19. /\ F2 \cap R2 = {} /\ F2 \cap T2 = {} /\ R2 \cap T2 = {}
       /\ \A m \in CM : L2(m) \cap (F2 \cup R2 \cup T2) = {}
       /\ \A m, n \in CM : m # n => L2(m) \cap L2(n) = {}
  <2> HIDE DEF F, R, T, L, A, cm, fr, F2, R2, T2, L2
  <2>1. F2 \subseteq F \cup R /\ A \subseteq F \cup R
    BY <1>6
  <2>2. F2 \cap R2 = {}
    BY <2>1, <1>7, <1>11, <1>16
  <2>3. F2 \cap T2 = {}
    BY <2>1, <1>8, <1>11, <1>16
  <2>4. R2 \cap T2 = {}
    <3>1. CASE FromFire(in)
      BY <3>1, <1>7, <1>8, <1>11, <1>13, <1>16
    <3>2. CASE ~FromFire(in)
      BY <3>2, <1>7, <1>8, <1>11, <1>16
    <3> QED BY <3>1, <3>2
  <2>5. ASSUME NEW m \in CM PROVE L2(m) \cap (F2 \cup R2 \cup T2) = {}
    <3>1. CASE Asked(in, m)
      <4>1. L2(m) = A /\ L(m) = {}
        BY <3>1, <1>9, <1>10
      <4>2. A \cap R2 = {}
        BY <2>1, <1>7, <1>11, <1>16
      <4>3. A \cap T2 = {}
        BY <2>1, <1>8, <1>11, <1>16
      <4> QED BY <4>1, <4>2, <4>3, <1>6
    <3>2. CASE ~Asked(in, m) /\ Leaves(in, m)
      BY <3>2, <1>9
    <3>3. CASE ~Asked(in, m) /\ ~Leaves(in, m)
      <4>1. L2(m) = L(m) /\ (Cancel => m # cm) /\ (FromFire(in) => m # fr)
        BY <3>3, <1>9, <1>12
      <4>2. L(m) \cap F2 = {}
        BY <2>1, <1>16
      <4>3. L(m) \cap R2 = {}
        BY <4>1, <1>7, <1>11, <1>16
      <4>4. L(m) \cap T2 = {}
        BY <4>1, <1>8, <1>11, <1>16
      <4> QED BY <4>1, <4>2, <4>3, <4>4
    <3> QED BY <3>1, <3>2, <3>3
  <2>6. ASSUME NEW m \in CM, NEW n \in CM, m # n PROVE L2(m) \cap L2(n) = {}
    <3>1. L2(m) \subseteq (IF Asked(in, m) THEN A ELSE L(m)) /\ L2(n) \subseteq (IF Asked(in, n) THEN A ELSE L(n))
      BY <1>9
    <3>2. ~(Asked(in, m) /\ Asked(in, n))
      BY <2>6, <1>15
    <3>3. A \cap L(m) = {} /\ A \cap L(n) = {} /\ L(m) \cap L(n) = {}
      BY <2>1, <2>6, <1>16
    <3> QED BY <3>1, <3>2, <3>3
  <2> QED BY <2>2, <2>3, <2>4, <2>5, <2>6
<1>20. ASSUME NEW v \in Slot PROVE v \in F2 \cup R2 \cup T2 \/ \E m \in CM : v \in L2(m)
  <2> HIDE DEF F, R, T, L, A, cm, fr, F2, R2, T2, L2
  <2>1. CASE v \in F \cup R
    <3>1. v \in F2 \/ v \in A
      BY <2>1, <1>6
    <3>2. v \in A => \E m \in CM : v \in L2(m)
      BY <1>9, <1>14
    <3> QED BY <3>1, <3>2
  <2>2. CASE v \in T
    <3>1. CASE Release(in)
      BY <2>2, <3>1, <1>7
    <3>2. CASE ~Release(in)
      <4>1. ~AllowNew(in) /\ ~FromFire(in)
        BY <2>2, <3>2, <1>11
      <4> QED BY <4>1, <2>2, <1>8
    <3> QED BY <3>1, <3>2
  <2>3. ASSUME NEW m \in CM, v \in L(m) PROVE v \in F2 \cup R2 \cup T2 \/ \E n \in CM : v \in L2(n)
    <3>1. ~Asked(in, m)
      BY <2>3, <1>10
    <3>2. CASE Cancel /\ m = cm
      BY <2>3, <3>2, <1>7
    <3>3. CASE FromFire(in) /\ m = fr
      BY <2>3, <3>3, <1>8
    <3>4. CASE ~Leaves(in, m)
      BY <2>3, <3>1, <3>4, <1>9
    <3> QED BY <3>2, <3>3, <3>4, <1>12
  <2> QED BY <2>1, <2>2, <2>3, <1>17
<1>21. Apart'
  BY <1>18, <1>19 DEF Apart
<1>22. Covered'
  BY <1>20 DEF Covered, Slot
<1> QED BY <1>5, <1>21, <1>22

-----------------------------------------------------------------------------
(* Types, machines, and the write that is being read out.                  *)

\* What happens to the write that is read out: it ends, moves on or stands,
\* and another may take its place.
TxMoves(in) ==
  /\ rx' = in.icn
  /\ tx' = IF FromFire(in) THEN <<[cm |-> in.from[1], ctrl |-> ctrl[in.from[1]], cnt |-> 0]>>
           ELSE IF AllowNew(in) THEN <<>>
           ELSE IF RdrFire(in) THEN <<[tx[1] EXCEPT !.cnt = @ + 1]>> ELSE tx
  /\ due' = (IF WOut(in) # <<>> THEN Tail(due) ELSE due)
            \o (IF FromFire(in) THEN Burst(in.from[1]) ELSE <<>>)
  /\ stalls' = stalls

LEMMA TxMove ==
  ASSUME AdbTypes, \A m \in CM : MachineOK(m), RxOK, TxOK, DueOK, NEW in \in AdbIn, AdbTick(in)
  PROVE  TxMoves(in)
<1>1. RegsTick(in)
  BY AdbGate
<1> QED BY <1>1 DEF AdbTick, RegsTick, GhostTick, NextTx, TxMoves

LEMMA BurstIs ==
  ASSUME AdbTypes, NEW m \in CM, Len(Buf(m)) \in {1, 2}
  PROVE  /\ Burst(m) \in Seq(Beat) /\ Len(Burst(m)) = Len(Buf(m))
         /\ \A k \in 1 .. Len(Buf(m)) : Burst(m)[k] = [val |-> Nth(m, k), last |-> k = Len(Buf(m))]
         /\ \A k \in 1 .. Len(Buf(m)) : Nth(m, k) \in CM \X {0, 1}
<1>1. ctrl[m].off \in {0, 1}
  BY DEF AdbTypes, CtrlRec
<1>2. ASSUME NEW k \in 1 .. Len(Buf(m)) PROVE ((ctrl[m].off + k) - 1) % 2 \in {0, 1}
  <2>1. k \in {1, 2}
    <3>1. \A l \in {1, 2} : \A i \in 1 .. l : i \in {1, 2}
      OBVIOUS
    <3> QED BY <3>1
  <2>2. 0 % 2 = 0 /\ 1 % 2 = 1 /\ 2 % 2 = 0
    OBVIOUS
  <2>3. (ctrl[m].off + k) - 1 \in {0, 1, 2}
    BY <1>1, <2>1
  <2> QED BY <2>2, <2>3
<1>3. \A k \in 1 .. Len(Buf(m)) : Nth(m, k) \in CM \X {0, 1}
  BY <1>2 DEF Nth
<1>4. Burst(m) = [k \in 1 .. Len(Buf(m)) |-> [val |-> Nth(m, k), last |-> k = Len(Buf(m))]]
  BY DEF Burst, Nth, Buf
<1>5. \A k \in 1 .. Len(Buf(m)) : [val |-> Nth(m, k), last |-> k = Len(Buf(m))] \in Beat
  BY <1>3 DEF Beat
<1>6. Len(Buf(m)) \in Nat
  OBVIOUS
<1>7. Burst(m) \in Seq(Beat) /\ DOMAIN Burst(m) = 1 .. Len(Buf(m))
  <2>1. [k \in 1 .. Len(Buf(m)) |-> [val |-> Nth(m, k), last |-> k = Len(Buf(m))]] \in Seq(Beat)
    BY <1>5, <1>6, IsASeq
  <2> QED BY <2>1, <1>4
<1>8. Len(Burst(m)) = Len(Buf(m))
  BY <1>6, <1>7, LenProperties
<1> QED BY <1>3, <1>4, <1>7, <1>8

\* A machine whose turn it is has all its beats.
LEMMA TurnIs ==
  ASSUME AdbTypes, \A m \in CM : MachineOK(m), NEW in \in AdbIn, FromFire(in)
  PROVE  /\ in.from[1] \in CM /\ phase[in.from[1]] = "full" /\ ctrl[in.from[1]] \in CtrlRec
         /\ Len(Buf(in.from[1])) \in {1, 2}
<1>1. in.from # <<>>
  BY DEF FromFire
<1>2. in.from[1] \in CM /\ phase[in.from[1]] = "full"
  BY <1>1, AdbInputs
<1> QED BY <1>2 DEF MachineOK, AdbTypes

LEMMA DueLen ==
  ASSUME AdbTypes, TxOK, DueOK
  PROVE  /\ Len(s1) \in {0, 1} /\ Len(s2) \in {0, 1} /\ Len(due) \in Nat
         /\ s1 = <<>> <=> Len(s1) = 0
         /\ s2 = <<>> <=> Len(s2) = 0
         /\ Len(due) >= Len(s2) + Len(s1)
<1>1. Len(s1) \in {0, 1} /\ (s1 = <<>> <=> Len(s1) = 0)
  BY OptIsSeq DEF AdbTypes
<1>2. Len(s2) \in {0, 1} /\ (s2 = <<>> <=> Len(s2) = 0)
  BY OptIsSeq DEF AdbTypes
<1>3. Len(due) \in Nat
  BY LenProperties DEF AdbTypes
<1>4. Len(due) >= Len(s2) + Len(s1)
  <2>1. CASE tx = <<>>
    BY <2>1, <1>1, <1>2, <1>3 DEF DueOK
  <2>2. CASE tx # <<>>
    <3> DEFINE d == Len(tx[1].ctrl.buf) - tx[1].cnt
    <3>1. d \in Nat
      BY <2>2, TxFields
    <3>2. Len(due) = Len(s2) + Len(s1) + d
      BY <2>2 DEF DueOK
    <3> HIDE DEF d
    <3> QED BY <3>1, <3>2, <1>1, <1>2
  <2> QED BY <2>1, <2>2
<1> QED BY <1>1, <1>2, <1>3, <1>4

LEMMA RamMove ==
  ASSUME AdbTypes, NEW in \in AdbIn, AdbTick(in)
  PROVE  ram' \in [Slot -> {NoData} \cup (CM \X {0, 1})]
<1>1. ASSUME NEW k \in Slot
      PROVE  (IF in.icn # <<>> /\ ~in.icn[1].cancel /\ k = SlotFor(in.icn[1])
              THEN <<in.icn[1].cm, in.icn[1].half>>
              ELSE IF k \in ToRead THEN ram[k] ELSE NoData) \in {NoData} \cup (CM \X {0, 1})
  <2>1. ram[k] \in {NoData} \cup (CM \X {0, 1})
    BY DEF AdbTypes
  <2>2. in.icn # <<>> => in.icn[1] \in IcnRec
    BY AdbInputs
  <2>3. in.icn # <<>> => <<in.icn[1].cm, in.icn[1].half>> \in CM \X {0, 1}
    BY <2>2 DEF IcnRec
  <2> QED BY <2>1, <2>3
<1> QED BY <1>1 DEF AdbTick, RamTick

LEMMA TypesStep ==
  ASSUME AdbTypes, ListOK, Apart, Covered, \A m \in CM : MachineOK(m), RxOK, TxOK, DueOK,
         NEW in \in AdbIn, AdbTick(in)
  PROVE  AdbTypes'
<1>1. ListMoves(in) /\ ListSplit(in)
  <2>1. avail + Len(rel) <= Slots /\ FreeTick(in)
    BY SlotsCount, AdbGate DEF RegsTick
  <2> QED BY <2>1, ListMove, ListSplits
<1>2. SlotMoves(in) /\ StageMoves(in) /\ TxMoves(in)
  BY SlotsMove, StagesMove, TxMove
<1>3. \A m \in CM : MachineMoves(in, m)
  BY MachinesMove
<1>4. /\ fl' \in [Slot -> Slot \cup {NoSlot}] /\ head' \in Slot /\ tail' \in Slot /\ avail' \in 0 .. Slots
  BY <1>1 DEF ListMoves
<1>5. rel' \in Seq(Slot) /\ Len(rel') <= 3
  BY <1>2, BackIs DEF SlotMoves
<1>6. ctrl' \in [CM -> CtrlRec] /\ phase' \in [CM -> Phases] /\ DOMAIN got' = CM
  <2>1. DOMAIN ctrl' = CM /\ DOMAIN phase' = CM /\ DOMAIN got' = CM
        /\ ctrl' = [m \in CM |-> ctrl'[m]] /\ phase' = [m \in CM |-> phase'[m]]
    BY AdbGate DEF AdbTick, RegsTick, GhostTick
  <2>2. ASSUME NEW m \in CM PROVE ctrl'[m] \in CtrlRec /\ phase'[m] \in Phases
    <3>1. ctrl[m] \in CtrlRec /\ phase[m] \in Phases
      BY DEF AdbTypes
    <3>2. phase'[m] \in Phases
      BY <1>3, <3>1 DEF MachineMoves, Phases
    <3>3. CASE Asked(in, m)
      <4>1. ctrl'[m] = [buf |-> Taken2(in), cnt |-> 0, off |-> in.alloc[1].off]
        BY <1>3, <3>3 DEF MachineMoves, Taken2
      <4>2. in.alloc[1].off \in {0, 1}
        BY <3>3, NumIs
      <4>3. Taken2(in) \in Seq(Slot)
        BY <1>1 DEF ListSplit
      <4> QED BY <3>2, <4>1, <4>2, <4>3 DEF CtrlRec
    <3>4. CASE ~Asked(in, m) /\ Leaves(in, m)
      <4>1. NoCtrl \in CtrlRec
        BY EmptySeq DEF NoCtrl, CtrlRec
      <4> QED BY <1>3, <3>2, <3>4, <4>1 DEF MachineMoves
    <3>5. CASE ~Asked(in, m) /\ ~Leaves(in, m) /\ Gets(in, m)
      <4>1. ctrl'[m] = [ctrl[m] EXCEPT !.cnt = @ + 1]
        BY <1>3, <3>5 DEF MachineMoves
      <4>2. phase[m] = "wait" /\ in.icn[1].half \in Halves(m) \ got[m]
        BY <3>5, WhoMoves
      <4>3. ctrl[m].cnt \in 0 .. 2 /\ ctrl[m].cnt # Len(Buf(m)) /\ ctrl[m].cnt <= Len(Buf(m))
        BY <3>1, <4>2, HalvesCard DEF CtrlRec
      <4>4. Len(Buf(m)) \in {1, 2}
        BY <4>2 DEF MachineOK
      <4>5. ctrl[m].cnt + 1 \in 0 .. 2
        <5>1. \A l \in {1, 2} : \A i \in 0 .. 2 : i # l /\ i <= l => i + 1 \in 0 .. 2
          OBVIOUS
        <5> QED BY <5>1, <4>3, <4>4
      <4> QED BY <3>1, <3>2, <4>1, <4>5 DEF CtrlRec
    <3>6. CASE ~Asked(in, m) /\ ~Leaves(in, m) /\ ~Gets(in, m)
      BY <1>3, <3>1, <3>2, <3>6 DEF MachineMoves
    <3> QED BY <3>3, <3>4, <3>5, <3>6
  <2> QED BY <2>1, <2>2
<1>7. ram' \in [Slot -> {NoData} \cup (CM \X {0, 1})]
  BY RamMove
<1>8. rx' \in Opt(IcnRec) /\ stalls' \in BOOLEAN
  BY <1>2, AdbInputs DEF TxMoves, AdbTypes
<1>9. tx' \in Opt(TxRec)
  <2>1. CASE FromFire(in)
    <3>1. [cm |-> in.from[1], ctrl |-> ctrl[in.from[1]], cnt |-> 0] \in TxRec
      BY <2>1, TurnIs DEF TxRec
    <3> QED BY <1>2, <2>1, <3>1 DEF TxMoves, Opt
  <2>2. CASE ~FromFire(in) /\ AllowNew(in)
    BY <1>2, <2>2 DEF TxMoves, Opt
  <2>3. CASE ~FromFire(in) /\ ~AllowNew(in) /\ RdrFire(in)
    <3>1. tx # <<>> /\ ~RdrLast
      BY <2>3 DEF AllowNew, Release
    <3>2. /\ tx[1] \in TxRec /\ tx[1].cnt \in {0, 1} /\ Len(tx[1].ctrl.buf) \in {1, 2}
          /\ tx[1].cnt < Len(tx[1].ctrl.buf)
      BY <3>1, TxFields
    <3>3. tx[1].cnt + 1 # Len(tx[1].ctrl.buf)
      BY <3>1 DEF RdrLast
    <3>4. tx[1].cnt + 1 \in {0, 1}
      <4>1. \A l \in {1, 2} : \A i \in {0, 1} : i + 1 # l /\ i < l => i + 1 \in {0, 1}
        OBVIOUS
      <4> QED BY <4>1, <3>2, <3>3
    <3>5. [tx[1] EXCEPT !.cnt = @ + 1] \in TxRec
      BY <3>2, <3>4 DEF TxRec
    <3> QED BY <1>2, <2>3, <3>5 DEF TxMoves, Opt
  <2>4. CASE ~FromFire(in) /\ ~AllowNew(in) /\ ~RdrFire(in)
    BY <1>2, <2>4 DEF TxMoves, AdbTypes
  <2> QED BY <2>1, <2>2, <2>3, <2>4
<1>10. s1' \in Opt(S1Rec) /\ s2' \in Opt(S2Rec)
  BY <1>2 DEF StageMoves, AdbTypes
<1>11. due' \in Seq(Beat)
  <2>1. (IF WOut(in) # <<>> THEN Tail(due) ELSE due) \in Seq(Beat)
    <3>1. CASE WOut(in) # <<>>
      <4>1. s2 # <<>>
        BY <1>2, <3>1 DEF StageMoves
      <4>2. Len(due) \in Nat /\ Len(due) # 0
        BY <4>1, DueLen
      <4>3. due # <<>> /\ due \in Seq(Beat)
        BY <4>2, EmptySeq DEF AdbTypes
      <4> QED BY <3>1, <4>3, HeadTailProperties
    <3>2. CASE ~(WOut(in) # <<>>)
      BY <3>2 DEF AdbTypes
    <3> QED BY <3>1, <3>2
  <2>2. (IF FromFire(in) THEN Burst(in.from[1]) ELSE <<>>) \in Seq(Beat)
    BY TurnIs, BurstIs, EmptySeq
  <2> QED BY <1>2, <2>1, <2>2, ConcatProperties DEF TxMoves
<1> QED BY <1>4, <1>5, <1>6, <1>7, <1>8, <1>9, <1>10, <1>11 DEF AdbTypes, Slot, CtrlRec, IcnRec, TxRec, S1Rec, S2Rec, Beat, NoSlot

LEMMA MachineStep ==
  ASSUME AdbTypes, ListOK, Apart, Covered, \A m \in CM : MachineOK(m), RxOK, TxOK, DueOK,
         NEW in \in AdbIn, AdbTick(in), NEW m \in CM
  PROVE  MachineOK(m)'
<1>1. MachineMoves(in, m) /\ SlotMoves(in) /\ MachineOK(m) /\ ctrl[m] \in CtrlRec /\ phase[m] \in Phases
  BY MachinesMove, SlotsMove DEF AdbTypes
<1>2. ListSplit(in)
  BY SlotsCount, AdbGate, ListSplits DEF RegsTick
<1>3. CASE Asked(in, m)
  <2>1. phase'[m] = "wait" /\ got'[m] = {} /\ ctrl'[m].cnt = 0 /\ Buf(m)' = Taken2(in)
    BY <1>1, <1>3 DEF MachineMoves, SlotMoves
  <2>2. Len(Buf(m)') = Num(in) /\ Num(in) \in {1, 2}
    BY <1>2, <1>3, <2>1, NumIs DEF ListSplit
  <2>3. Cardinality({}) = 0
    BY FS_EmptySet
  <2> QED BY <2>1, <2>2, <2>3 DEF MachineOK
<1>4. CASE ~Asked(in, m) /\ Leaves(in, m)
  <2>1. ctrl'[m] = NoCtrl
    BY <1>1, <1>4 DEF MachineMoves
  <2>2. phase'[m] \in {"idle", "sent"}
    BY <1>1, <1>4, WhoMoves DEF MachineMoves, Leaves
  <2> QED BY <2>1, <2>2 DEF MachineOK
<1>5. CASE ~Asked(in, m) /\ ~Leaves(in, m) /\ Gets(in, m)
  <2> DEFINE h == in.icn[1].half
  <2>1. phase[m] = "wait" /\ ~Told(m) /\ h \in Halves(m) \ got[m]
    BY <1>5, WhoMoves
  <2>2. phase'[m] = "wait" /\ got'[m] = got[m] \cup {h} /\ ctrl'[m] = [ctrl[m] EXCEPT !.cnt = @ + 1]
    BY <1>1, <1>5, <2>1, WhoMoves DEF MachineMoves, Leaves
  <2>3. /\ ctrl'[m].cnt = ctrl[m].cnt + 1 /\ ctrl'[m].buf = ctrl[m].buf /\ ctrl'[m].off = ctrl[m].off
    BY <1>1, <2>2 DEF CtrlRec
  <2>4. IsFiniteSet(got[m]) /\ ctrl[m].cnt = Cardinality(got[m]) /\ got[m] \subseteq Halves(m)
    BY <2>1, HalvesCard DEF MachineOK
  <2>5. Cardinality(got[m] \cup {h}) = Cardinality(got[m]) + 1
    BY <2>1, <2>4, FS_AddElement
  <2>6. Halves(m)' = Halves(m)
    BY <2>3 DEF Halves
  <2>7. Len(Buf(m)') \in {1, 2}
    BY <1>1, <2>1, <2>3 DEF MachineOK, Buf
  <2>8. ctrl'[m].cnt = Cardinality(got'[m]) /\ got'[m] \subseteq Halves(m)'
    BY <2>1, <2>2, <2>3, <2>4, <2>5, <2>6
  <2> QED BY <2>2, <2>7, <2>8 DEF MachineOK
<1>6. CASE ~Asked(in, m) /\ ~Leaves(in, m) /\ ~Gets(in, m)
  <2>1. ctrl'[m] = ctrl[m]
    BY <1>1, <1>6 DEF MachineMoves
  <2>2. Halves(m)' = Halves(m) /\ Buf(m)' = Buf(m)
    BY <2>1 DEF Halves, Buf
  <2>3. CASE phase'[m] = phase[m]
    <3>1. phase'[m] = "wait" => got'[m] = got[m]
      BY <1>1, <1>6 DEF MachineMoves
    <3> QED BY <1>1, <2>1, <2>2, <2>3, <3>1 DEF MachineOK
  <2>4. CASE phase[m] = "wait" /\ phase'[m] = "full"
    BY <1>1, <2>1, <2>2, <2>4 DEF MachineOK
  <2>5. CASE phase[m] = "sent" /\ phase'[m] = "idle"
    BY <1>1, <2>1, <2>2, <2>5 DEF MachineOK
  <2>6. \/ phase'[m] = phase[m]
        \/ phase[m] = "wait" /\ phase'[m] = "full"
        \/ phase[m] = "sent" /\ phase'[m] = "idle"
    <3>1. Told(m) => phase[m] = "wait" /\ ~Cancel
      BY <1>6, WhoMoves DEF Leaves
    <3>2. ~Turned(in, m)
      BY <1>6 DEF Leaves
    <3>3. Ended(in, m) => phase[m] = "sent"
      BY WhoMoves
    <3> QED BY <1>1, <1>6, <3>1, <3>2, <3>3 DEF MachineMoves
  <2> QED BY <2>3, <2>4, <2>5, <2>6
<1> QED BY <1>3, <1>4, <1>5, <1>6

LEMMA RxStep ==
  ASSUME AdbTypes, \A m \in CM : MachineOK(m), RxOK, TxOK, DueOK, NEW in \in AdbIn, AdbTick(in)
  PROVE  RxOK'
<1>1. rx' = in.icn /\ SlotMoves(in)
  BY TxMove, SlotsMove DEF TxMoves
<1>2. ASSUME in.icn # <<>> PROVE phase'[in.icn[1].cm] = "wait" /\ (in.icn[1].cancel => Len(Buf(in.icn[1].cm)') = 1)
  <2> DEFINE m == in.icn[1].cm
  <2>1. m \in CM
    BY <1>2, AdbInputs DEF IcnRec
  <2>2. Gets(in, m)
    BY <1>2 DEF Gets
  <2>3. phase[m] = "wait" /\ ~Told(m) /\ (in.icn[1].cancel => Len(Buf(m)) = 1)
    BY <2>1, <2>2, WhoMoves
  <2>4. ~Asked(in, m) /\ ~Turned(in, m) /\ ~Ended(in, m) /\ ~Leaves(in, m)
    BY <2>1, <2>3, WhoMoves DEF Leaves
  <2>5. phase'[m] = "wait"
    BY <2>1, <2>3, <2>4, MachinesMove DEF MachineMoves
  <2>6. Buf(m)' = Buf(m)
    BY <1>1, <2>1, <2>4 DEF SlotMoves
  <2> QED BY <2>3, <2>5, <2>6
<1>3. rx' # <<>> => phase'[rx'[1].cm] = "wait" /\ (rx'[1].cancel => Len(ctrl'[rx'[1].cm].buf) = 1)
  BY <1>1, <1>2 DEF Buf
<1> QED BY <1>3 DEF RxOK, Buf

LEMMA TxStep ==
  ASSUME AdbTypes, \A m \in CM : MachineOK(m), RxOK, TxOK, DueOK, NEW in \in AdbIn, AdbTick(in)
  PROVE  TxOK'
<1>1. TxMoves(in) /\ SlotMoves(in)
  BY TxMove, SlotsMove
<1>2. CASE FromFire(in)
  <2> DEFINE m == in.from[1]
  <2>1. tx' = <<[cm |-> m, ctrl |-> ctrl[m], cnt |-> 0]>>
    BY <1>1, <1>2 DEF TxMoves
  <2>2. m \in CM /\ phase[m] = "full" /\ Len(Buf(m)) \in {1, 2} /\ Turned(in, m)
    BY <1>1, <1>2, TurnIs DEF SlotMoves
  <2>3. phase'[m] = "sent"
    BY <2>2, MachinesMove, WhoMoves, ZenonT(30) DEF MachineMoves
  <2> HIDE DEF m
  <2>4. 0 < Len(Buf(m))
    <3>1. \A l \in {1, 2} : 0 < l
      OBVIOUS
    <3> QED BY <3>1, <2>2
  <2>5. tx'[1].cm = m /\ tx'[1].ctrl.buf = Buf(m) /\ tx'[1].cnt = 0
    BY <2>1 DEF Buf
  <2> QED BY <2>2, <2>3, <2>4, <2>5 DEF TxOK
<1>3. CASE ~FromFire(in) /\ AllowNew(in)
  BY <1>1, <1>3 DEF TxMoves, TxOK
<1>4. CASE ~FromFire(in) /\ ~AllowNew(in)
  <2>1. tx # <<>>
    BY <1>4 DEF AllowNew
  <2>2. /\ tx[1] \in TxRec /\ tx[1].cm \in CM /\ tx[1].cnt \in {0, 1} /\ Len(tx[1].ctrl.buf) \in {1, 2}
        /\ tx[1].cnt < Len(tx[1].ctrl.buf) /\ phase[tx[1].cm] = "sent"
    BY <2>1, TxFields DEF TxOK
  <2>3. phase'[tx[1].cm] = "sent"
    <3> DEFINE m == tx[1].cm
    <3>1. m \in CM /\ phase[m] = "sent"
      BY <2>2
    <3>2. ~Ended(in, m)
      <4>1. SUFFICES ASSUME Ended(in, m) PROVE FALSE
        OBVIOUS
      <4>2. s2 # <<>> /\ due[1].last /\ due[1].val[1] = m
        BY <3>1, <4>1, WhoMoves
      <4> DEFINE j == Len(s2) + Len(s1) + 1
                 k == tx[1].cnt + 1
                 o == Len(s2) + Len(s1)
                 l == Len(tx[1].ctrl.buf)
      <4>3. Len(s1) \in {0, 1} /\ Len(s2) = 1 /\ Len(due) \in Nat
        BY <4>2, DueLen, OptIsSeq DEF AdbTypes
      <4>4. o \in {1, 2} /\ k \in 1 .. l /\ k > tx[1].cnt /\ o + k - tx[1].cnt = o + 1
            /\ o + 1 > 1 /\ o + 1 \in 1 .. o + l - tx[1].cnt
        <5> DEFINE e == tx[1].cnt
        <5>1. l \in {1, 2} /\ e \in {0, 1} /\ e < l /\ k = e + 1
          BY <2>2
        <5>2. o \in {1, 2}
          <6>1. \A i \in {0, 1} : 1 + i \in {1, 2}
            OBVIOUS
          <6> QED BY <6>1, <4>3
        <5> HIDE DEF o, l, e, k
        <5>3. k \in 1 .. l /\ k > e /\ o + k - e = o + 1 /\ o + 1 > 1 /\ o + 1 \in 1 .. o + l - e
          BY <5>1, <5>2
        <5> QED BY <5>2, <5>3 DEF e
      <4>5. Len(due) = o + (l - tx[1].cnt) /\ due[o + k - tx[1].cnt] = Owed(tx[1], k)
        BY <2>1, <4>4 DEF DueOK
      <4>6. due[o + 1].val[1] = m
        BY <4>4, <4>5 DEF Owed
      <4>7. 1 \in 1 .. Len(due) /\ o + 1 \in 1 .. Len(due)
        BY <2>2, <4>4, <4>5
      <4>8. due[o + 1].val[1] # due[1].val[1]
        BY <4>2, <4>4, <4>7 DEF DueOK
      <4> QED BY <4>2, <4>6, <4>8
    <3> QED BY <3>1, <3>2, MachinesMove, WhoMoves, ZenonT(30) DEF MachineMoves
  <2>4. CASE RdrFire(in)
    <3>1. tx' = <<[tx[1] EXCEPT !.cnt = @ + 1]>>
      BY <1>1, <1>4, <2>4 DEF TxMoves
    <3>2. tx'[1].cm = tx[1].cm /\ tx'[1].ctrl = tx[1].ctrl /\ tx'[1].cnt = tx[1].cnt + 1
      BY <2>2, <3>1 DEF TxRec
    <3>3. tx[1].cnt + 1 # Len(tx[1].ctrl.buf)
      BY <1>4, <2>1, <2>4 DEF AllowNew, Release, RdrLast
    <3>4. tx[1].cnt + 1 < Len(tx[1].ctrl.buf)
      <4>1. \A l \in {1, 2} : \A i \in {0, 1} : i + 1 # l /\ i < l => i + 1 < l
        OBVIOUS
      <4> QED BY <4>1, <2>2, <3>3
    <3> QED BY <2>2, <2>3, <3>2, <3>4 DEF TxOK
  <2>5. CASE ~RdrFire(in)
    <3>1. tx' = tx
      BY <1>1, <1>4, <2>5 DEF TxMoves
    <3> QED BY <2>2, <2>3, <3>1 DEF TxOK
  <2> QED BY <2>4, <2>5
<1> QED BY <1>2, <1>3, <1>4

-----------------------------------------------------------------------------
(* What the W channel owes.                                                *)

Paid(in) == IF WOut(in) # <<>> THEN 1 ELSE 0
Rest == IF tx = <<>> THEN 0 ELSE Len(tx[1].ctrl.buf) - tx[1].cnt
DueMoves(in) ==
  /\ Paid(in) \in {0, 1} /\ Paid(in) <= Len(due)
  /\ \A i \in 1 .. Len(due) - Paid(in) : due'[i] = due[i + Paid(in)]
  /\ FromFire(in) =>
       /\ Len(due') = Len(due) - Paid(in) + Len(Buf(in.from[1]))
       /\ \A k \in 1 .. Len(Buf(in.from[1])) : due'[Len(due) - Paid(in) + k] = Burst(in.from[1])[k]
  /\ ~FromFire(in) => Len(due') = Len(due) - Paid(in)

LEMMA DueMove ==
  ASSUME AdbTypes, \A m \in CM : MachineOK(m), RxOK, TxOK, DueOK, NEW in \in AdbIn, AdbTick(in)
  PROVE  DueMoves(in)
<1> DEFINE p == Paid(in)
           old == IF WOut(in) # <<>> THEN Tail(due) ELSE due
<1>1. due \in Seq(Beat) /\ Len(due) \in Nat
  BY LenProperties DEF AdbTypes
<1>2. p \in {0, 1} /\ p <= Len(due)
  <2>1. CASE WOut(in) # <<>>
    <3>1. s2 # <<>>
      BY <2>1, StagesMove DEF StageMoves
    <3>2. Len(due) \in Nat /\ Len(due) # 0
      BY <3>1, DueLen
    <3> QED BY <2>1, <3>2 DEF Paid
  <2>2. CASE ~(WOut(in) # <<>>)
    BY <2>2, <1>1 DEF Paid
  <2> QED BY <2>1, <2>2
<1>3. old \in Seq(Beat) /\ Len(old) = Len(due) - p /\ \A i \in 1 .. Len(due) - p : old[i] = due[i + p]
  <2>1. CASE WOut(in) # <<>>
    <3>1. p = 1 /\ due # <<>> /\ old = Tail(due)
      BY <2>1, <1>1, <1>2, EmptySeq DEF Paid
    <3>2. /\ Tail(due) \in Seq(Beat) /\ Len(Tail(due)) = Len(due) - 1
          /\ \A i \in 1 .. Len(Tail(due)) : Tail(due)[i] = due[i + 1]
      BY <1>1, <3>1, HeadTailProperties
    <3> QED BY <3>1, <3>2
  <2>2. CASE ~(WOut(in) # <<>>)
    <3>1. p = 0 /\ old = due
      BY <2>2 DEF Paid
    <3> HIDE DEF p, old
    <3>2. Len(due) - p = Len(due) /\ \A i \in 1 .. Len(due) : i + p = i
      BY <3>1, <1>1
    <3> QED BY <3>1, <3>2, <1>1
  <2> QED BY <2>1, <2>2
<1>4. due' = old \o (IF FromFire(in) THEN Burst(in.from[1]) ELSE <<>>)
  BY TxMove DEF TxMoves
<1> HIDE DEF old, p
<1>5. Len(old) \in Nat /\ Len(due) - p \in Nat
  BY <1>1, <1>2, <1>3
<1>6. CASE FromFire(in)
  <2> DEFINE m == in.from[1]
             u == Burst(m)
  <2>1. u \in Seq(Beat) /\ Len(u) = Len(Buf(m)) /\ Len(Buf(m)) \in Nat
    BY <1>6, TurnIs, BurstIs
  <2>2. due' = old \o u
    BY <1>4, <1>6
  <2> HIDE DEF u
  <2>3. ASSUME NEW w, w = old \o u
        PROVE  /\ Len(w) = Len(old) + Len(u)
               /\ \A i \in 1 .. Len(old) : w[i] = old[i]
               /\ \A k \in 1 .. Len(u) : w[Len(old) + k] = u[k]
    <3>1. /\ Len(w) = Len(old) + Len(u)
          /\ \A i \in 1 .. Len(old) + Len(u) : w[i] = IF i <= Len(old) THEN old[i] ELSE u[i - Len(old)]
      <4>1. old \in Seq(Beat) /\ u \in Seq(Beat)
        BY <1>3, <2>1
      <4>2. /\ Len(old \o u) = Len(old) + Len(u)
            /\ \A i \in 1 .. Len(old) + Len(u) :
                 (old \o u)[i] = IF i <= Len(old) THEN old[i] ELSE u[i - Len(old)]
        BY ONLY <4>1, ConcatProperties
      <4> QED BY <4>2, <2>3
    <3>2. ASSUME NEW i \in 1 .. Len(old) PROVE i \in 1 .. Len(old) + Len(u) /\ i <= Len(old)
      BY <1>5, <2>1
    <3>3. ASSUME NEW k \in 1 .. Len(u)
          PROVE  Len(old) + k \in 1 .. Len(old) + Len(u) /\ ~(Len(old) + k <= Len(old)) /\ (Len(old) + k) - Len(old) = k
      BY <1>5, <2>1
    <3> QED BY <3>1, <3>2, <3>3
  <2>4. /\ Len(due') = Len(old) + Len(u)
        /\ \A i \in 1 .. Len(old) : due'[i] = old[i]
        /\ \A k \in 1 .. Len(u) : due'[Len(old) + k] = u[k]
    BY <2>2, <2>3
  <2> QED BY <1>2, <1>3, <1>6, <2>1, <2>4 DEF DueMoves, p, u
<1>7. CASE ~FromFire(in)
  <2>1. due' = old
    BY <1>3, <1>4, <1>7, ConcatEmptySeq
  <2> QED BY <1>2, <1>3, <1>7, <2>1 DEF DueMoves, p
<1> QED BY <1>6, <1>7

OutMoves(in) ==
  /\ Len(s2') \in {0, 1} /\ Len(s1') \in {0, 1}
  /\ Len(s2') + Len(s1') = Len(s2) + Len(s1) - Paid(in) + (IF RdrFire(in) THEN 1 ELSE 0)
  /\ s2' # <<>> => \/ s2' = s2 /\ Paid(in) = 0
                   \/ Drains(in) /\ s2' = S2Enq /\ s1 # <<>> /\ Paid(in) = Len(s2)
  /\ s1' # <<>> => \/ s1' = s1 /\ Len(s2') = Len(s2) /\ Paid(in) = 0 /\ ~RdrFire(in)
                   \/ s1' = S1Enq /\ RdrFire(in) /\ Len(s2') + Paid(in) = Len(s2) + Len(s1)

LEMMA OutMove ==
  ASSUME AdbTypes, TxOK, DueOK, NEW in \in AdbIn, AdbTick(in)
  PROVE  OutMoves(in)
<1> DEFINE a == Len(s2)
           b == Len(s1)
           t == Len(tx)
<1>1. StageMoves(in) /\ in.wRdy \in BOOLEAN
  BY StagesMove, AdbInputs
<1>2. a \in {0, 1} /\ b \in {0, 1} /\ (s2 = <<>> <=> a = 0) /\ (s1 = <<>> <=> b = 0)
  BY DueLen
<1>3. t \in {0, 1} /\ (tx = <<>> <=> t = 0)
  BY OptIsSeq DEF AdbTypes
<1>4. Len(S1Enq) = t /\ (S1Enq = <<>> <=> tx = <<>>)
  BY <1>3, OptIsSeq DEF S1Enq
<1>5. Len(S2Enq) = b /\ (S2Enq = <<>> <=> s1 = <<>>)
  BY <1>2, OptIsSeq DEF S2Enq
<1>6. Paid(in) = IF in.wRdy THEN a ELSE 0
  BY <1>1, <1>2 DEF Paid, StageMoves
<1> HIDE DEF a, b, t
<1>7. CASE Drains(in)
  <2>1. s1' = S1Enq /\ s2' = S2Enq /\ (RdrFire(in) <=> tx # <<>>) /\ Paid(in) = a
    BY <1>1, <1>2, <1>6, <1>7 DEF StageMoves, Drains
  <2>2. Len(s2') = b /\ Len(s1') = t
    BY <2>1, <1>4, <1>5
  <2>3. Len(s2') + Len(s1') = a + b - Paid(in) + (IF RdrFire(in) THEN 1 ELSE 0)
    BY <2>1, <2>2, <1>2, <1>3
  <2>4. Len(s2') + Paid(in) = a + b
    BY <2>1, <2>2, <1>2
  <2> QED BY <1>2, <1>3, <1>4, <1>5, <1>7, <2>1, <2>2, <2>3, <2>4 DEF OutMoves, a, b
<1>8. CASE ~Drains(in)
  <2>1. s2' = s2 /\ a = 1 /\ Paid(in) = 0
    BY <1>1, <1>2, <1>6, <1>8 DEF StageMoves, Drains
  <2>2. CASE s1 = <<>>
    <3>1. s1' = S1Enq /\ (RdrFire(in) <=> tx # <<>>) /\ b = 0
      BY <1>1, <1>2, <2>2 DEF StageMoves
    <3>2. Len(s1') = t /\ Len(s2') = a
      BY <2>1, <3>1, <1>4 DEF a
    <3>3. Len(s2') + Len(s1') = a + b - Paid(in) + (IF RdrFire(in) THEN 1 ELSE 0)
      BY <2>1, <3>1, <3>2, <1>2, <1>3
    <3>4. Len(s2') + Paid(in) = a + b
      BY <2>1, <3>1, <3>2
    <3> QED BY <1>2, <1>3, <1>4, <2>1, <3>1, <3>2, <3>3, <3>4 DEF OutMoves, a, b
  <2>3. CASE s1 # <<>>
    <3>1. s1' = s1 /\ ~RdrFire(in) /\ b = 1
      BY <1>1, <1>2, <1>8, <2>3 DEF StageMoves
    <3>2. Len(s2') = a /\ Len(s1') = b
      BY <2>1, <3>1 DEF a, b
    <3>3. Len(s2') + Len(s1') = a + b - Paid(in) + (IF RdrFire(in) THEN 1 ELSE 0)
      BY <2>1, <3>1, <3>2
    <3> QED BY <1>2, <2>1, <3>1, <3>2, <3>3 DEF OutMoves, a, b
  <2> QED BY <2>2, <2>3
<1> QED BY <1>7, <1>8

\* What the invariant says of one beat that is owed.
SentAt(i) == phase[due[i].val[1]] = "sent"
LastAt(i) == due[i].last => \A j \in 1 .. Len(due) : j > i => due[j].val[1] # due[i].val[1]

LEMMA DueIs ==
  ASSUME AdbTypes, TxOK, DueOK
  PROVE  /\ Len(due) = Len(s2) + Len(s1) + Rest /\ Rest \in 0 .. 2 /\ Len(due) \in Nat
         /\ \A i \in 1 .. Len(due) : due[i] \in Beat /\ SentAt(i) /\ LastAt(i)
<1>1. Rest \in 0 .. 2
  <2>1. CASE tx = <<>>
    BY <2>1 DEF Rest
  <2>2. CASE tx # <<>>
    <3>1. Len(tx[1].ctrl.buf) \in {1, 2} /\ tx[1].cnt \in {0, 1} /\ tx[1].cnt < Len(tx[1].ctrl.buf)
      BY <2>2, TxFields
    <3>2. \A l \in {1, 2}, e \in {0, 1} : e < l => l - e \in 0 .. 2
      OBVIOUS
    <3> QED BY <2>2, <3>1, <3>2 DEF Rest
  <2> QED BY <2>1, <2>2
<1>2. \A i \in 1 .. Len(due) : due[i] \in Beat
  BY ElementOfSeq DEF AdbTypes
<1> QED BY <1>1, <1>2, DueLen DEF DueOK, Rest, SentAt, LastAt

\* What is left to read of the write in turn.
RestMoves(in) ==
  /\ FromFire(in) => Rest' = Len(Buf(in.from[1])) /\ Rest = IF RdrFire(in) THEN 1 ELSE 0
  /\ ~FromFire(in) => Rest' = Rest - IF RdrFire(in) THEN 1 ELSE 0

LEMMA RestMove ==
  ASSUME AdbTypes, \A m \in CM : MachineOK(m), RxOK, TxOK, DueOK, NEW in \in AdbIn, AdbTick(in)
  PROVE  RestMoves(in) /\ Rest' \in Nat
<1>1. TxMoves(in)
  BY TxMove
<1>2. Rest \in 0 .. 2
  BY DueIs
<1>3. AllowNew(in) => Rest = IF RdrFire(in) THEN 1 ELSE 0
  <2>1. CASE tx = <<>>
    BY <2>1 DEF Rest, RdrFire
  <2>2. CASE tx # <<>> /\ Release(in)
    <3>1. /\ RdrFire(in) /\ tx[1].cnt + 1 = Len(tx[1].ctrl.buf) /\ tx[1].cnt \in {0, 1}
          /\ Rest = Len(tx[1].ctrl.buf) - tx[1].cnt
      BY <2>2, TxFields DEF Release, RdrLast, Rest
    <3>2. \A e \in {0, 1} : (e + 1) - e = 1
      OBVIOUS
    <3> QED BY <3>1, <3>2
  <2> QED BY <2>1, <2>2 DEF AllowNew
<1>4. CASE FromFire(in)
  <2>1. tx' = <<[cm |-> in.from[1], ctrl |-> ctrl[in.from[1]], cnt |-> 0]>>
    BY <1>1, <1>4 DEF TxMoves
  <2>2. Len(Buf(in.from[1])) \in {1, 2}
    BY <1>4, TurnIs
  <2>3. tx' # <<>> /\ Len(tx'[1].ctrl.buf) = Len(Buf(in.from[1])) /\ tx'[1].cnt = 0
    BY <2>1 DEF Buf
  <2>4. \A l \in {1, 2} : l - 0 = l /\ l \in Nat
    OBVIOUS
  <2>5. Rest' = Len(Buf(in.from[1])) /\ Rest' \in Nat
    BY <2>2, <2>3, <2>4 DEF Rest
  <2>6. AllowNew(in)
    BY <1>4 DEF FromFire
  <2> QED BY <1>3, <1>4, <2>5, <2>6 DEF RestMoves
<1>5. CASE ~FromFire(in) /\ AllowNew(in)
  <2>1. Rest' = 0
    BY <1>1, <1>5 DEF TxMoves, Rest
  <2>2. Rest - (IF RdrFire(in) THEN 1 ELSE 0) = 0
    BY <1>3, <1>5
  <2> QED BY <1>5, <2>1, <2>2 DEF RestMoves
<1>6. CASE ~FromFire(in) /\ ~AllowNew(in)
  <2>1. tx # <<>>
    BY <1>6 DEF AllowNew
  <2>2. /\ tx[1] \in TxRec /\ tx[1].cnt \in {0, 1} /\ Len(tx[1].ctrl.buf) \in {1, 2}
        /\ tx[1].cnt < Len(tx[1].ctrl.buf)
    BY <2>1, TxFields
  <2>3. CASE RdrFire(in)
    <3>1. tx' = <<[tx[1] EXCEPT !.cnt = @ + 1]>>
      BY <1>1, <1>6, <2>3 DEF TxMoves
    <3>2. tx' # <<>> /\ tx'[1].ctrl = tx[1].ctrl /\ tx'[1].cnt = tx[1].cnt + 1
      BY <2>2, <3>1 DEF TxRec
    <3>3. \A l \in {1, 2}, e \in {0, 1} : e < l => l - (e + 1) = (l - e) - 1 /\ l - (e + 1) \in Nat
      OBVIOUS
    <3>4. /\ Rest' = Len(tx[1].ctrl.buf) - (tx[1].cnt + 1)
          /\ Rest = Len(tx[1].ctrl.buf) - tx[1].cnt
      BY <2>1, <3>2 DEF Rest
    <3> QED BY <1>6, <2>2, <2>3, <3>3, <3>4 DEF RestMoves
  <2>4. CASE ~RdrFire(in)
    <3>1. tx' = tx
      BY <1>1, <1>6, <2>4 DEF TxMoves
    <3>2. Rest' = Rest
      BY <3>1 DEF Rest
    <3>3. Rest - 0 = Rest /\ Rest \in Nat
      BY <1>2
    <3> QED BY <1>6, <2>4, <3>2, <3>3 DEF RestMoves
  <2> QED BY <2>3, <2>4
<1> QED BY <1>4, <1>5, <1>6

LEMMA DueLenStep ==
  ASSUME AdbTypes, \A m \in CM : MachineOK(m), RxOK, TxOK, DueOK, NEW in \in AdbIn, AdbTick(in)
  PROVE  /\ Len(due') = Len(s2') + Len(s1') + Rest' /\ Len(due') \in Nat
         /\ FromFire(in) => Len(due) - Paid(in) = Len(s2') + Len(s1')
<1> DEFINE D == Len(due)
           o == Len(s2) + Len(s1)
           o2 == Len(s2') + Len(s1')
           p == Paid(in)
           f == IF RdrFire(in) THEN 1 ELSE 0
<1>1. D = o + Rest /\ Rest \in 0 .. 2 /\ D \in Nat
  BY DueIs
<1>2. o \in 0 .. 2 /\ o2 \in 0 .. 2
  <2>1. \A i, j \in {0, 1} : i + j \in 0 .. 2
    OBVIOUS
  <2>2. Len(s2) \in {0, 1} /\ Len(s1) \in {0, 1}
    BY DueLen
  <2> QED BY <2>1, <2>2, OutMove DEF OutMoves
<1>3. o2 = o - p + f /\ f \in {0, 1} /\ p \in {0, 1}
  BY OutMove, DueMove DEF OutMoves, DueMoves
<1>4. RestMoves(in) /\ Rest' \in Nat
  BY RestMove
<1>5. CASE FromFire(in)
  <2> DEFINE l == Len(Buf(in.from[1]))
  <2>1. Rest' = l /\ Rest = f /\ Len(due') = D - p + l /\ l \in Nat
    BY <1>4, <1>5, DueMove DEF RestMoves, DueMoves
  <2> HIDE DEF D, o, o2, p, f, l
  <2>2. D - p = o2 /\ Len(due') = o2 + Rest' /\ o2 + Rest' \in Nat
    BY <2>1, <1>1, <1>2, <1>3, <1>4
  <2> QED BY <2>2 DEF D, p, o2
<1>6. CASE ~FromFire(in)
  <2>1. Rest' = Rest - f /\ Len(due') = D - p
    BY <1>4, <1>6, DueMove DEF RestMoves, DueMoves
  <2> HIDE DEF D, o, o2, p, f
  <2>2. Len(due') = o2 + Rest' /\ o2 + Rest' \in Nat
    BY <2>1, <1>1, <1>2, <1>3, <1>4
  <2> QED BY <1>6, <2>2 DEF o2
<1> QED BY <1>5, <1>6

\* The beats in the stages keep their places in what is owed.
HeadsMoves(in) ==
  /\ s2' # <<>> => \/ s2' = s2 /\ due'[1] = due[1]
                   \/ Drains(in) /\ s2' = S2Enq /\ s1 # <<>> /\ due'[1] = due[Len(s2) + 1]
  /\ s1' # <<>> => \/ s1' = s1 /\ ~RdrFire(in) /\ due'[Len(s2') + 1] = due[Len(s2) + 1]
                   \/ s1' = S1Enq /\ RdrFire(in) /\ due'[Len(s2') + 1] = Owed(tx[1], 1 + tx[1].cnt)

LEMMA NextOwed ==
  ASSUME AdbTypes, TxOK, DueOK, tx # <<>>, NEW k \in 1 .. Len(tx[1].ctrl.buf), k > tx[1].cnt
  PROVE  due[Len(s2) + Len(s1) + k - tx[1].cnt] = Owed(tx[1], k)
BY DEF DueOK

LEMMA HeadsMove ==
  ASSUME AdbTypes, \A m \in CM : MachineOK(m), RxOK, TxOK, DueOK, NEW in \in AdbIn, AdbTick(in)
  PROVE  HeadsMoves(in)
<1> DEFINE D == Len(due)
           a == Len(s2)
           b == Len(s1)
           p == Paid(in)
<1>1. /\ a \in {0, 1} /\ b \in {0, 1} /\ D \in Nat /\ D >= a + b
      /\ (s1 = <<>> <=> b = 0) /\ (s2 = <<>> <=> a = 0)
  BY DueLen
<1>2. p \in {0, 1} /\ \A i \in 1 .. D - p : due'[i] = due[i + p]
  BY DueMove DEF DueMoves
<1>3. OutMoves(in)
  BY OutMove
<1>4. Len(s2') \in {0, 1}
  BY <1>3 DEF OutMoves
<1>5. ASSUME s2' # <<>>, s2' = s2, p = 0 PROVE due'[1] = due[1]
  <2>1. 1 \in 1 .. D - p /\ 1 + p = 1
    <3>1. a = 1
      BY <1>1, <1>5
    <3> HIDE DEF a, b, D, p
    <3> QED BY <3>1, <1>1, <1>5
  <2>2. due'[1] = due[1 + p]
    BY <2>1, <1>2
  <2> QED BY <1>5, <2>1, <2>2
<1>6. ASSUME s2' # <<>>, s1 # <<>>, p = a PROVE due'[1] = due[a + 1]
  <2>1. 1 \in 1 .. D - p /\ 1 + p = a + 1
    <3>1. b = 1
      BY <1>1, <1>6
    <3> HIDE DEF a, b, D, p
    <3> QED BY <3>1, <1>1, <1>6
  <2>2. due'[1] = due[1 + p]
    BY <2>1, <1>2
  <2> QED BY <1>6, <2>1, <2>2
<1>7. ASSUME s1' # <<>>, s1' = s1, Len(s2') = a, p = 0 PROVE due'[Len(s2') + 1] = due[a + 1]
  <2>1. a + 1 \in 1 .. D - p /\ (a + 1) + p = a + 1
    <3>1. b = 1
      BY <1>1, <1>7
    <3> HIDE DEF a, b, D, p
    <3> QED BY <3>1, <1>1, <1>7
  <2>2. due'[a + 1] = due[(a + 1) + p]
    BY <2>1, <1>2
  <2> QED BY <1>7, <2>1, <2>2
<1>8. ASSUME s1' # <<>>, RdrFire(in), Len(s2') + p = a + b
      PROVE  due'[Len(s2') + 1] = Owed(tx[1], 1 + tx[1].cnt)
  <2> DEFINE e == tx[1].cnt
             l == Len(tx[1].ctrl.buf)
             a2 == Len(s2')
  <2>1. tx # <<>>
    BY <1>8 DEF RdrFire
  <2>2. e \in {0, 1} /\ l \in {1, 2} /\ e < l /\ 1 + e \in 1 .. l
    BY <2>1, TxFields
  <2>3. due[a + b + (1 + e) - e] = Owed(tx[1], 1 + e)
    <3>1. 1 + e > e
      <4> HIDE DEF e
      <4> QED BY <2>2
    <3> QED BY <2>1, <2>2, <3>1, NextOwed
  <2>4. D = a + b + (l - e)
    BY <2>1, DueIs DEF Rest
  <2>5. a2 + 1 \in 1 .. D - p /\ (a2 + 1) + p = a + b + (1 + e) - e
    <3>1. a2 + p = a + b /\ a2 \in {0, 1}
      BY <1>4, <1>8
    <3> HIDE DEF a, b, D, p, e, l, a2
    <3> QED BY <3>1, <1>1, <1>2, <2>2, <2>4
  <2>6. due'[a2 + 1] = due[(a2 + 1) + p]
    BY <2>5, <1>2
  <2>7. due'[a2 + 1] = Owed(tx[1], 1 + e)
    BY <2>3, <2>5, <2>6
  <2> QED BY <1>8, <2>7
<1>9. s2' # <<>> => \/ s2' = s2 /\ due'[1] = due[1]
                    \/ Drains(in) /\ s2' = S2Enq /\ s1 # <<>> /\ due'[1] = due[Len(s2) + 1]
  BY <1>3, <1>5, <1>6 DEF OutMoves
<1>10. s1' # <<>> => \/ s1' = s1 /\ ~RdrFire(in) /\ due'[Len(s2') + 1] = due[Len(s2) + 1]
                     \/ s1' = S1Enq /\ RdrFire(in) /\ due'[Len(s2') + 1] = Owed(tx[1], 1 + tx[1].cnt)
  BY <1>3, <1>7, <1>8 DEF OutMoves
<1> QED BY <1>9, <1>10 DEF HeadsMoves

LEMMA LastsStep ==
  ASSUME AdbTypes, \A m \in CM : MachineOK(m), RxOK, TxOK, DueOK, NEW in \in AdbIn, AdbTick(in)
  PROVE  /\ s2' # <<>> => s2'[1].last = due'[1].last
         /\ s1' # <<>> => s1'[1].last = due'[Len(s2') + 1].last
<1>1. HeadsMoves(in)
  BY HeadsMove
<1>2. ASSUME s2' # <<>>, s2' = s2, due'[1] = due[1] PROVE s2'[1].last = due'[1].last
  BY <1>2 DEF DueOK
<1>3. ASSUME s2' = S2Enq, s1 # <<>>, due'[1] = due[Len(s2) + 1] PROVE s2'[1].last = due'[1].last
  <2>1. s2'[1].last = s1[1].last
    BY <1>3 DEF S2Enq
  <2> QED BY <1>3, <2>1 DEF DueOK
<1>4. ASSUME s1' # <<>>, s1' = s1, due'[Len(s2') + 1] = due[Len(s2) + 1]
      PROVE  s1'[1].last = due'[Len(s2') + 1].last
  BY <1>4 DEF DueOK
<1>5. ASSUME s1' = S1Enq, RdrFire(in), due'[Len(s2') + 1] = Owed(tx[1], 1 + tx[1].cnt)
      PROVE  s1'[1].last = due'[Len(s2') + 1].last
  <2>1. tx # <<>> /\ tx[1].cnt \in {0, 1}
    BY <1>5, TxFields DEF RdrFire
  <2>2. s1'[1].last = RdrLast
    BY <1>5, <2>1 DEF S1Enq
  <2>3. RdrLast <=> 1 + tx[1].cnt = Len(tx[1].ctrl.buf)
    <3>1. \A i \in {0, 1} : i + 1 = 1 + i
      OBVIOUS
    <3> QED BY <3>1, <2>1 DEF RdrLast
  <2>4. RdrLast \in BOOLEAN
    BY DEF RdrLast
  <2> QED BY <1>5, <2>2, <2>3, <2>4 DEF Owed
<1>6. s2' # <<>> => s2'[1].last = due'[1].last
  BY <1>1, <1>2, <1>3 DEF HeadsMoves
<1>7. s1' # <<>> => s1'[1].last = due'[Len(s2') + 1].last
  BY <1>1, <1>4, <1>5 DEF HeadsMoves
<1> QED BY <1>6, <1>7

\* The burst that is being read out keeps its place too; a new one comes last.
LEMMA BurstStep ==
  ASSUME AdbTypes, \A m \in CM : MachineOK(m), RxOK, TxOK, DueOK, NEW in \in AdbIn, AdbTick(in),
         tx' # <<>>, NEW k \in 1 .. Len(tx'[1].ctrl.buf), k > tx'[1].cnt
  PROVE  due'[Len(s2') + Len(s1') + k - tx'[1].cnt] = Owed(tx'[1], k)
<1> DEFINE D == Len(due)
           o == Len(s2) + Len(s1)
           o2 == Len(s2') + Len(s1')
           p == Paid(in)
           f == IF RdrFire(in) THEN 1 ELSE 0
<1>1. TxMoves(in)
  BY TxMove
<1>2. o \in 0 .. 2 /\ o2 \in 0 .. 2
  <2>1. \A i, j \in {0, 1} : i + j \in 0 .. 2
    OBVIOUS
  <2>2. Len(s2) \in {0, 1} /\ Len(s1) \in {0, 1}
    BY DueLen
  <2> QED BY <2>1, <2>2, OutMove DEF OutMoves
<1>3. o2 = o - p + f /\ f \in {0, 1} /\ p \in {0, 1}
  BY OutMove, DueMove DEF OutMoves, DueMoves
<1>4. \A i \in 1 .. D - p : due'[i] = due[i + p]
  BY DueMove DEF DueMoves
<1>5. CASE FromFire(in)
  <2> DEFINE m == in.from[1]
  <2>1. tx' = <<[cm |-> m, ctrl |-> ctrl[m], cnt |-> 0]>>
    BY <1>1, <1>5 DEF TxMoves
  <2>2. tx'[1].cm = m /\ tx'[1].ctrl = ctrl[m] /\ tx'[1].cnt = 0
    BY <2>1
  <2>3. m \in CM /\ Len(Buf(m)) \in {1, 2}
    BY <1>5, TurnIs
  <2>4. k \in 1 .. Len(Buf(m)) /\ tx'[1].ctrl.buf = Buf(m)
    BY <2>2 DEF Buf
  <2>5. due'[D - p + k] = Burst(m)[k] /\ D - p = o2
    BY <2>4, <1>5, DueMove, DueLenStep DEF DueMoves
  <2>6. Burst(m)[k] = [val |-> Nth(m, k), last |-> k = Len(Buf(m))]
    BY <2>3, <2>4, BurstIs
  <2>7. Owed(tx'[1], k) = [val |-> Nth(m, k), last |-> k = Len(Buf(m))]
    BY <2>2, <2>4 DEF Owed, Nth
  <2>8. o2 + k - tx'[1].cnt = D - p + k
    <3>1. k \in Int /\ o2 \in Int
      BY <1>2
    <3> HIDE DEF D, p, o2
    <3> QED BY <3>1, <2>2, <2>5
  <2> QED BY <2>5, <2>6, <2>7, <2>8
<1>6. CASE ~FromFire(in)
  <2> DEFINE e == tx[1].cnt
             l == Len(tx[1].ctrl.buf)
  <2>1. ~AllowNew(in) /\ tx # <<>>
    BY <1>1, <1>6 DEF TxMoves, AllowNew
  <2>2. tx[1] \in TxRec /\ e \in {0, 1} /\ l \in {1, 2} /\ e < l
    BY <2>1, TxFields
  <2>3. tx'[1].cm = tx[1].cm /\ tx'[1].ctrl = tx[1].ctrl /\ tx'[1].cnt = e + f
    <3>1. CASE RdrFire(in)
      <4>1. tx' = <<[tx[1] EXCEPT !.cnt = @ + 1]>>
        BY <1>1, <1>6, <2>1, <3>1 DEF TxMoves
      <4> QED BY <2>2, <3>1, <4>1 DEF TxRec
    <3>2. CASE ~RdrFire(in)
      <4>1. tx' = tx /\ e + 0 = e
        BY <1>1, <1>6, <2>1, <2>2, <3>2 DEF TxMoves
      <4> QED BY <3>2, <4>1
    <3> QED BY <3>1, <3>2
  <2>4. Owed(tx'[1], k) = Owed(tx[1], k) /\ k \in 1 .. l
    BY <2>3 DEF Owed
  <2>5. k > e /\ o2 + k - (e + f) \in 1 .. D - p /\ (o2 + k - (e + f)) + p = o + k - e
    <3>1. D = o + (l - e)
      BY <2>1, DueIs DEF Rest
    <3>2. k > e + f /\ k \in 1 .. l
      BY <2>3, <2>4
    <3> HIDE DEF D, o, o2, p, f, e, l
    <3>3. k > e /\ (o2 + k - (e + f)) + p = o + k - e
      BY <3>2, <1>2, <1>3, <2>2
    <3>4. o2 + k - (e + f) \in 1 .. D - p
      BY <3>1, <3>2, <1>2, <1>3, <2>2
    <3> QED BY <3>3, <3>4
  <2>6. due[o + k - e] = Owed(tx[1], k)
    BY <2>1, <2>4, <2>5, NextOwed
  <2>7. due'[o2 + k - (e + f)] = due[o + k - e]
    <3>1. due'[o2 + k - (e + f)] = due[(o2 + k - (e + f)) + p]
      BY <2>5, <1>4
    <3> QED BY <3>1, <2>5
  <2>8. due'[o2 + k - tx'[1].cnt] = Owed(tx[1], k)
    BY <2>3, <2>6, <2>7
  <2> QED BY <2>4, <2>8
<1> QED BY <1>5, <1>6

\* A beat that is owed after the edge was owed before it, or is one of the
\* burst whose turn has come.
OldAt(in, i) ==
  i \in 1 .. Len(due) - Paid(in) /\ i + Paid(in) \in 1 .. Len(due) /\ due'[i] = due[i + Paid(in)]
NewAt(in, i) ==
  /\ FromFire(in) /\ i > Len(due) - Paid(in) /\ i <= Len(due) - Paid(in) + Len(Buf(in.from[1]))
  /\ due'[i].val[1] = in.from[1]
  /\ due'[i].last => i = Len(due) - Paid(in) + Len(Buf(in.from[1]))

LEMMA DuePlaces ==
  ASSUME AdbTypes, \A m \in CM : MachineOK(m), RxOK, TxOK, DueOK, NEW in \in AdbIn, AdbTick(in),
         NEW i \in 1 .. Len(due')
  PROVE  OldAt(in, i) \/ NewAt(in, i)
<1> DEFINE D == Len(due)
           p == Paid(in)
<1>1. D \in Nat /\ p \in {0, 1} /\ p <= D /\ DueMoves(in)
  BY DueIs, DueMove DEF DueMoves
<1>2. CASE i <= D - p
  <2>1. i \in 1 .. D - p /\ i + p \in 1 .. D
    BY <1>1, <1>2
  <2> QED BY <1>1, <2>1 DEF DueMoves, OldAt
<1>3. CASE ~(i <= D - p)
  <2> DEFINE m == in.from[1]
             l == Len(Buf(m))
  <2>1. FromFire(in)
    <3>1. SUFFICES ASSUME ~FromFire(in) PROVE FALSE
      OBVIOUS
    <3>2. Len(due') = D - p
      BY <1>1, <3>1 DEF DueMoves
    <3> QED BY <3>2, <1>1, <1>3
  <2>2. m \in CM /\ l \in {1, 2} /\ Len(due') = D - p + l
    BY <1>1, <2>1, TurnIs DEF DueMoves
  <2>3. PICK k \in 1 .. l : i = D - p + k
    <3> HIDE DEF D, p, l
    <3>1. i - (D - p) \in 1 .. l /\ i = D - p + (i - (D - p))
      BY <1>1, <1>3, <2>2
    <3> QED BY <3>1
  <2>4. due'[i] = [val |-> Nth(m, k), last |-> k = l]
    BY <1>1, <2>1, <2>2, <2>3, BurstIs DEF DueMoves
  <2>5. due'[i].val[1] = m /\ (due'[i].last => k = l)
    <3>1. Nth(m, k)[1] = m
      BY DEF Nth
    <3>2. due'[i].val = Nth(m, k) /\ due'[i].last = (k = l)
      BY <2>4
    <3> QED BY <3>1, <3>2
  <2>6. i > D - p /\ i <= D - p + l
    <3> HIDE DEF D, p, l
    <3> QED BY <1>1, <2>2, <2>3
  <2> QED BY <2>1, <2>3, <2>5, <2>6 DEF NewAt
<1> QED BY <1>2, <1>3

LEMMA SentStep ==
  ASSUME AdbTypes, \A m \in CM : MachineOK(m), RxOK, TxOK, DueOK, NEW in \in AdbIn, AdbTick(in),
         NEW i \in 1 .. Len(due')
  PROVE  SentAt(i)'
<1>1. CASE OldAt(in, i)
  <2> DEFINE p == Paid(in)
             q == due[i + p].val[1]
  <2>1. i + p \in 1 .. Len(due) /\ i \in 1 .. Len(due) - p /\ due'[i] = due[i + p]
    BY <1>1 DEF OldAt
  <2>2. q \in CM /\ phase[q] = "sent"
    BY <2>1, DueIs DEF Beat, SentAt
  <2>3. ~Ended(in, q)
    <3>1. SUFFICES ASSUME Ended(in, q) PROVE FALSE
      OBVIOUS
    <3>2. due[1].last /\ due[1].val[1] = q
      BY <2>2, <3>1, WhoMoves
    <3>3. p = 1
      BY <3>1 DEF Ended, Paid
    <3>4. 1 \in 1 .. Len(due) /\ i + p > 1
      BY <2>1, <3>3, DueIs
    <3>5. due[i + p].val[1] # due[1].val[1]
      BY <2>1, <3>2, <3>4, DueIs DEF LastAt
    <3> QED BY <3>2, <3>5
  <2>4. phase'[q] = "sent"
    BY <2>2, <2>3, MachinesMove, WhoMoves, ZenonT(30) DEF MachineMoves
  <2> QED BY <2>1, <2>4 DEF SentAt
<1>2. CASE NewAt(in, i)
  <2> DEFINE m == in.from[1]
  <2>1. m \in CM /\ phase[m] = "full" /\ Turned(in, m)
    BY <1>2, TurnIs, SlotsMove DEF NewAt, SlotMoves
  <2>2. phase'[m] = "sent"
    BY <2>1, MachinesMove, WhoMoves, ZenonT(30) DEF MachineMoves
  <2> QED BY <1>2, <2>2 DEF NewAt, SentAt
<1> QED BY <1>1, <1>2, DuePlaces

LEMMA LastStep ==
  ASSUME AdbTypes, \A m \in CM : MachineOK(m), RxOK, TxOK, DueOK, NEW in \in AdbIn, AdbTick(in),
         NEW i \in 1 .. Len(due'), due'[i].last, NEW j \in 1 .. Len(due'), j > i
  PROVE  due'[j].val[1] # due'[i].val[1]
<1> DEFINE D == Len(due)
           p == Paid(in)
           l == Len(Buf(in.from[1]))
<1>0. D \in Nat /\ p \in {0, 1}
  BY DueIs, DueMove DEF DueMoves
<1>1. CASE OldAt(in, i) /\ OldAt(in, j)
  <2>1. /\ i + p \in 1 .. D /\ due'[i] = due[i + p]
        /\ j + p \in 1 .. D /\ due'[j] = due[j + p]
    BY <1>1 DEF OldAt
  <2>2. j + p > i + p
    BY <1>0
  <2> QED BY <2>1, <2>2, DueIs DEF LastAt
<1>2. CASE OldAt(in, i) /\ NewAt(in, j)
  <2>1. i + p \in 1 .. D /\ due'[i] = due[i + p]
    BY <1>2 DEF OldAt
  <2>2. phase[due[i + p].val[1]] = "sent"
    BY <2>1, DueIs DEF SentAt
  <2>3. phase[in.from[1]] = "full" /\ due'[j].val[1] = in.from[1]
    BY <1>2, TurnIs DEF NewAt
  <2> QED BY <2>1, <2>2, <2>3
<1>3. CASE NewAt(in, i)
  <2>1. FromFire(in) /\ i = D - p + l
    BY <1>3 DEF NewAt
  <2>2. Len(due') = D - p + l
    BY <2>1, DueMove DEF DueMoves
  <2> QED BY <2>1, <2>2
<1> QED BY <1>1, <1>2, <1>3, DuePlaces

LEMMA DueStep ==
  ASSUME AdbTypes, \A m \in CM : MachineOK(m), RxOK, TxOK, DueOK, NEW in \in AdbIn, AdbTick(in)
  PROVE  DueOK'
<1>1. Len(due') = Len(s2') + Len(s1') + IF tx' = <<>> THEN 0 ELSE Len(tx'[1].ctrl.buf) - tx'[1].cnt
  BY DueLenStep DEF Rest
<1>2. /\ s2' # <<>> => s2'[1].last = due'[1].last
      /\ s1' # <<>> => s1'[1].last = due'[Len(s2') + 1].last
  BY LastsStep
<1>3. tx' # <<>> => \A k \in 1 .. Len(tx'[1].ctrl.buf) : k > tx'[1].cnt =>
        due'[Len(s2') + Len(s1') + k - tx'[1].cnt] = Owed(tx'[1], k)
  BY BurstStep
<1>4. \A i \in 1 .. Len(due') : phase'[due'[i].val[1]] = "sent"
  BY SentStep DEF SentAt
<1>5. \A i \in 1 .. Len(due') : due'[i].last => \A j \in 1 .. Len(due') : j > i => due'[j].val[1] # due'[i].val[1]
  BY LastStep
<1> QED BY <1>1, <1>2, <1>3, <1>4, <1>5 DEF DueOK, Owed

-----------------------------------------------------------------------------
(* What the RAM holds.                                                     *)

\* The place of a half in the slots of its write.
Place(d) == 1 + ((d.half - ctrl[d.cm].off) % 2)

LEMMA WriteIs ==
  ASSUME AdbTypes, \A m \in CM : MachineOK(m), RxOK, TxOK, DueOK, NEW in \in AdbIn, AdbTick(in),
         NEW m \in CM, Gets(in, m)
  PROVE  /\ Place(in.icn[1]) \in 1 .. Len(Buf(m))
         /\ SlotFor(in.icn[1]) = Buf(m)[Place(in.icn[1])] /\ SlotFor(in.icn[1]) \in Range(Buf(m))
         /\ \A k \in 1 .. Len(Buf(m)) : Nth(m, k)[2] = in.icn[1].half <=> k = Place(in.icn[1])
<1> DEFINE d == in.icn[1]
           o == ctrl[m].off
           l == Len(Buf(m))
<1>1. d \in IcnRec /\ d.cm = m /\ d.half \in Halves(m) /\ phase[m] = "wait"
  BY WhoMoves DEF Gets
<1>2. d.half \in {0, 1} /\ o \in {0, 1} /\ l \in {1, 2}
  BY <1>1 DEF IcnRec, AdbTypes, CtrlRec, MachineOK
<1>3. l = 1 => d.half = o
  BY <1>1 DEF Halves, Buf
<1>4. Place(d) = 1 + ((d.half - o) % 2)
  BY <1>1 DEF Place
<1>5. \A h, f \in {0, 1} : /\ 1 + ((h - f) % 2) \in {1, 2} /\ (h = f => 1 + ((h - f) % 2) = 1)
                           /\ \A k \in {1, 2} : ((f + k) - 1) % 2 = h <=> k = 1 + ((h - f) % 2)
  OBVIOUS
<1>6. \A k \in 1 .. l : k \in {1, 2}
  <2>1. \A n \in {1, 2} : \A k \in 1 .. n : k \in {1, 2}
    OBVIOUS
  <2> QED BY <1>2, <2>1
<1>7. Place(d) \in 1 .. l
  <2>1. Place(d) \in {1, 2} /\ (d.half = o => Place(d) = 1)
    BY <1>2, <1>4, <1>5
  <2> HIDE DEF l, d, o
  <2> QED BY <2>1, <1>2, <1>3
<1>8. SlotFor(d) = Buf(m)[Place(d)]
  BY <1>1 DEF SlotFor, Place, Buf
<1>9. Buf(m)[Place(d)] \in Range(Buf(m))
  BY <1>7, BufIs, RangeIs
<1>10. ASSUME NEW k \in 1 .. l PROVE Nth(m, k)[2] = d.half <=> k = Place(d)
  <2>1. Nth(m, k)[2] = ((o + k) - 1) % 2
    BY DEF Nth
  <2>2. ((o + k) - 1) % 2 = d.half <=> k = 1 + ((d.half - o) % 2)
    BY <1>2, <1>5, <1>6
  <2> QED BY <2>1, <2>2, <1>4
<1> QED BY <1>7, <1>8, <1>9, <1>10

\* A slot that will be read keeps its beat, unless it is the one written.
LEMMA RamKeeps ==
  ASSUME AdbTypes, \A m \in CM : MachineOK(m), RxOK, TxOK, DueOK, NEW in \in AdbIn, AdbTick(in),
         NEW v \in Slot, v \in ToRead,
         \A m \in CM : Gets(in, m) => v \notin Range(Buf(m))
  PROVE  ram'[v] = ram[v]
<1>1. ram'[v] = IF in.icn # <<>> /\ ~in.icn[1].cancel /\ v = SlotFor(in.icn[1])
                THEN <<in.icn[1].cm, in.icn[1].half>>
                ELSE IF v \in ToRead THEN ram[v] ELSE NoData
  BY DEF AdbTick, RamTick
<1>2. in.icn # <<>> => v # SlotFor(in.icn[1])
  <2>1. in.icn # <<>> => in.icn[1].cm \in CM /\ Gets(in, in.icn[1].cm)
    BY AdbInputs DEF IcnRec, Gets
  <2> QED BY <2>1, WriteIs
<1> QED BY <1>1, <1>2

LEMMA ToReadHas ==
  /\ \A m \in CM : \A k \in DOMAIN ctrl'[m].buf : ctrl'[m].buf[k] \in ToRead
  /\ tx' # <<>> => \A k \in DOMAIN tx'[1].ctrl.buf : tx'[1].ctrl.buf[k] \in ToRead
  /\ 1 \in DOMAIN s1' => s1'[1].set \in ToRead
<1> DEFINE A == UNION {RangeOf(ctrl'[e].buf) : e \in CM}
           B == BufSlots(tx')
           C == {s1'[k].set : k \in DOMAIN s1'}
<1>0. ToRead = (A \cup B) \cup C
  BY DEF ToRead
<1>1. ASSUME NEW m \in CM, NEW k \in DOMAIN ctrl'[m].buf PROVE ctrl'[m].buf[k] \in A
  <2>1. ctrl'[m].buf[k] \in RangeOf(ctrl'[m].buf)
    BY DEF RangeOf
  <2> QED BY <2>1
<1>2. ASSUME tx' # <<>>, NEW k \in DOMAIN tx'[1].ctrl.buf PROVE tx'[1].ctrl.buf[k] \in B
  BY <1>2 DEF RangeOf, BufSlots
<1>3. ASSUME 1 \in DOMAIN s1' PROVE s1'[1].set \in C
  BY <1>3
<1> HIDE DEF A, B, C
<1> QED BY <1>0, <1>1, <1>2, <1>3

\* The beats a machine has sent are in its slots.
SentIn(m) ==
  phase[m] \in {"wait", "full"} /\ ~Cancelled(m) =>
    \A k \in 1 .. Len(Buf(m)) : phase[m] = "full" \/ Nth(m, k)[2] \in got[m] => ram[Buf(m)[k]] = Nth(m, k)

LEMMA SentInStep ==
  ASSUME AdbTypes, Apart, \A m \in CM : MachineOK(m), RxOK, TxOK, DueOK, NEW in \in AdbIn, AdbTick(in),
         NEW m \in CM, SentIn(m)
  PROVE  SentIn(m)'
<1> SUFFICES ASSUME phase'[m] \in {"wait", "full"}, ~Cancelled(m)',
                    NEW k \in 1 .. Len(Buf(m)'), phase'[m] = "full" \/ Nth(m, k)'[2] \in got'[m]
             PROVE  ram'[Buf(m)'[k]] = Nth(m, k)'
  BY DEF SentIn
<1>1. MachineMoves(in, m) /\ MachineOK(m) /\ ctrl[m] \in CtrlRec /\ phase[m] \in Phases
  BY MachinesMove DEF AdbTypes
<1>2. ~Asked(in, m)
  BY <1>1 DEF MachineMoves
<1>3. ~Leaves(in, m)
  BY <1>1, <1>2, WhoMoves DEF MachineMoves, Leaves
<1>4. phase[m] \in {"wait", "full"}
  BY <1>1, <1>2, WhoMoves DEF MachineMoves, Phases
<1>5. ~Cancelled(m)
  <2>1. Cancelled(m) => Told(m) /\ Cancel
    BY DEF Cancelled, Told, Notice, Cancel
  <2> QED BY <2>1, <1>3 DEF Leaves
<1>6. ctrl'[m].buf = ctrl[m].buf /\ ctrl'[m].off = ctrl[m].off
  BY <1>1, <1>2, <1>3 DEF MachineMoves, CtrlRec
<1>7. Nth(m, k)' = Nth(m, k) /\ Buf(m)' = Buf(m) /\ k \in 1 .. Len(Buf(m))
  BY <1>6 DEF Nth, Buf
<1> DEFINE v == Buf(m)[k]
<1>8. v \in Slot /\ v \in Range(Buf(m)) /\ v \in ToRead
  <2>1. v \in Slot /\ v \in Range(Buf(m))
    BY <1>7, BufIs, RangeIs
  <2>2. k \in DOMAIN ctrl'[m].buf /\ ctrl'[m].buf[k] = v
    BY <1>6, <1>7, BufIs, LenProperties DEF Buf
  <2> QED BY <2>1, <2>2, ToReadHas
<1>9. CASE Gets(in, m)
  <2> DEFINE d == in.icn[1]
  <2>1. phase[m] = "wait" /\ ~Told(m)
    BY <1>9, WhoMoves
  <2>2. phase'[m] = "wait" /\ got'[m] = got[m] \cup {d.half}
    BY <1>1, <1>2, <1>9, <2>1, WhoMoves DEF MachineMoves
  <2>3. ~d.cancel
    <3>1. rx' = in.icn
      BY TxMove DEF TxMoves
    <3> QED BY <3>1, <1>9 DEF Cancelled, Gets
  <2>4. /\ Place(d) \in 1 .. Len(Buf(m)) /\ SlotFor(d) = Buf(m)[Place(d)]
        /\ Nth(m, k)[2] = d.half <=> k = Place(d)
    BY <1>7, <1>9, WriteIs
  <2>5. ram'[v] = IF v = SlotFor(d) THEN <<d.cm, d.half>> ELSE ram[v]
    BY <1>8, <1>9, <2>3 DEF AdbTick, RamTick, Gets
  <2>6. CASE k = Place(d)
    <3>1. Nth(m, k) = <<m, d.half>>
      <4>1. Nth(m, k) = <<m, Nth(m, k)[2]>>
        BY DEF Nth
      <4> QED BY <4>1, <2>4, <2>6
    <3> QED BY <1>7, <1>9, <2>4, <2>5, <2>6, <3>1 DEF Gets
  <2>7. CASE k # Place(d)
    <3>1. v # SlotFor(d)
      <4>1. IsInjective(Buf(m)) /\ Buf(m) \in Seq(Slot)
        BY BufIs DEF Apart
      <4> QED BY <4>1, <1>7, <2>4, <2>7, RangeIs
    <3>2. Nth(m, k)[2] \in got[m]
      BY <1>7, <2>2, <2>4, <2>7
    <3>3. ram[v] = Nth(m, k)
      BY <1>4, <1>5, <1>7, <3>2 DEF SentIn
    <3> QED BY <1>7, <2>5, <3>1, <3>3
  <2> QED BY <2>6, <2>7
<1>10. CASE ~Gets(in, m)
  <2>1. ram'[v] = ram[v]
    <3>1. \A n \in CM : Gets(in, n) => v \notin Range(Buf(n))
      BY <1>8, <1>10 DEF Apart
    <3> QED BY <3>1, <1>8, RamKeeps
  <2>2. phase[m] = "full" \/ Nth(m, k)[2] \in got[m]
    <3>1. CASE phase'[m] = "wait"
      <4>1. got'[m] = got[m]
        BY <1>1, <1>2, <1>10, <3>1 DEF MachineMoves
      <4> QED BY <3>1, <4>1, <1>7
    <3>2. CASE phase'[m] = "full" /\ phase[m] # "full"
      <4>1. phase[m] = "wait" /\ Told(m) /\ ~Cancel
        BY <1>1, <1>2, <1>4, <3>2, <1>3, WhoMoves DEF MachineMoves, Leaves
      <4>2. rx[1].cm = m /\ ctrl[m].cnt = Len(Buf(m))
        BY <4>1, WhoMoves DEF Told, Notice, Cancel, Buf
      <4>3. got[m] = Halves(m)
        BY <4>1, <4>2, HalvesCard
      <4>4. Nth(m, k)[2] \in Halves(m)
        <5>1. Len(Buf(m)) \in {1, 2} /\ ctrl[m].off \in {0, 1}
          BY <1>1, <1>4 DEF MachineOK, CtrlRec
        <5>2. Nth(m, k) \in CM \X {0, 1}
          BY <5>1, <1>7, BurstIs
        <5>3. CASE Len(Buf(m)) = 2
          BY <5>2, <5>3 DEF Halves, Buf
        <5>4. CASE Len(Buf(m)) = 1
          <6>1. k = 1
            BY <5>4, <1>7
          <6>2. \A f \in {0, 1} : ((f + 1) - 1) % 2 = f
            OBVIOUS
          <6>3. Nth(m, k)[2] = ctrl[m].off
            BY <6>1, <6>2, <5>1 DEF Nth
          <6> QED BY <5>4, <6>3 DEF Halves, Buf
        <5> QED BY <5>1, <5>3, <5>4
      <4> QED BY <4>3, <4>4
    <3> QED BY <3>1, <3>2
  <2>3. ram[v] = Nth(m, k)
    BY <1>4, <1>5, <1>7, <2>2 DEF SentIn
  <2> QED BY <1>7, <2>1, <2>3
<1> QED BY <1>9, <1>10

\* The slots of the burst that is read out hold what is owed.
LEMMA TxRamStep ==
  ASSUME AdbTypes, Apart, \A m \in CM : MachineOK(m), RxOK, TxOK, DueOK, RamOK, NEW in \in AdbIn,
         AdbTick(in), tx' # <<>>, NEW k \in 1 .. Len(tx'[1].ctrl.buf), k > tx'[1].cnt
  PROVE  ram'[tx'[1].ctrl.buf[k]] = Owed(tx'[1], k).val
<1>1. TxMoves(in)
  BY TxMove
<1>2. CASE FromFire(in)
  <2> DEFINE m == in.from[1]
             v == Buf(m)[k]
  <2>1. m \in CM /\ phase[m] = "full" /\ Len(Buf(m)) \in {1, 2}
    BY <1>2, TurnIs
  <2>2. tx' = <<[cm |-> m, ctrl |-> ctrl[m], cnt |-> 0]>>
    BY <1>1, <1>2 DEF TxMoves
  <2> HIDE DEF m
  <2>3. tx'[1].cm = m /\ tx'[1].ctrl = ctrl[m] /\ k \in 1 .. Len(Buf(m))
    BY <2>2 DEF Buf
  <2>4. tx'[1].ctrl.buf[k] = v /\ k \in DOMAIN tx'[1].ctrl.buf
    BY <2>1, <2>3, BufIs, LenProperties DEF Buf
  <2>5. Owed(tx'[1], k).val = Nth(m, k)
    BY <2>3 DEF Owed, Nth
  <2>6. v \in Slot /\ v \in Range(Buf(m)) /\ v \in ToRead
    BY <2>1, <2>3, <2>4, BufIs, RangeIs, ToReadHas
  <2>7. ~Gets(in, m)
    BY <2>1, WhoMoves
  <2>8. \A n \in CM : Gets(in, n) => v \notin Range(Buf(n))
    BY <2>1, <2>6, <2>7 DEF Apart
  <2>9. ram'[v] = ram[v]
    BY <2>6, <2>8, RamKeeps
  <2>10. ~Cancelled(m)
    BY <2>1 DEF Cancelled, RxOK
  <2>11. ram[v] = Nth(m, k)
    BY <2>1, <2>3, <2>10 DEF RamOK
  <2> QED BY <2>4, <2>5, <2>9, <2>11
<1>3. CASE ~FromFire(in)
  <2> DEFINE e == tx[1].cnt
             v == tx[1].ctrl.buf[k]
  <2>1. ~AllowNew(in) /\ tx # <<>>
    BY <1>1, <1>3 DEF TxMoves, AllowNew
  <2>2. tx[1] \in TxRec /\ e \in {0, 1} /\ Len(tx[1].ctrl.buf) \in {1, 2}
    BY <2>1, TxFields
  <2>3. tx'[1].cm = tx[1].cm /\ tx'[1].ctrl = tx[1].ctrl /\ (tx'[1].cnt = e \/ tx'[1].cnt = e + 1)
    <3>1. CASE RdrFire(in)
      <4>1. tx' = <<[tx[1] EXCEPT !.cnt = @ + 1]>>
        BY <1>1, <1>3, <2>1, <3>1 DEF TxMoves
      <4> QED BY <2>2, <4>1 DEF TxRec
    <3>2. CASE ~RdrFire(in)
      BY <1>1, <1>3, <2>1, <3>2 DEF TxMoves
    <3> QED BY <3>1, <3>2
  <2>4. Owed(tx'[1], k) = Owed(tx[1], k) /\ tx'[1].ctrl.buf[k] = v /\ k \in 1 .. Len(tx[1].ctrl.buf)
    BY <2>3 DEF Owed
  <2>5. k > e
    <3> HIDE DEF e
    <3> QED BY <2>2, <2>3
  <2>6. InTx = tx[1].ctrl.buf /\ InTx \in Seq(Slot)
    BY <2>1, InTxIs
  <2>7. v \in Slot /\ v \in Range(InTx) /\ k \in DOMAIN tx'[1].ctrl.buf
    BY <2>3, <2>4, <2>6, ElementOfSeq, LenProperties, RangeIs
  <2>8. v \in ToRead
    BY <2>4, <2>7, ToReadHas
  <2>9. \A n \in CM : Gets(in, n) => v \notin Range(Buf(n))
    BY <2>7 DEF Apart
  <2>10. ram'[v] = ram[v]
    BY <2>7, <2>8, <2>9, RamKeeps
  <2>11. ram[v] = Owed(tx[1], k).val
    BY <2>1, <2>4, <2>5 DEF RamOK
  <2> QED BY <2>4, <2>10, <2>11
<1> QED BY <1>2, <1>3

\* For a slave that does not stall, both stages carry what is owed.
LEMMA StagesRamStep ==
  ASSUME AdbTypes, Apart, \A m \in CM : MachineOK(m), RxOK, TxOK, DueOK, RamOK, NEW in \in AdbIn,
         AdbTick(in), ~stalls
  PROVE  /\ s1' # <<>> => ram'[s1'[1].set] = due'[Len(s2') + 1].val /\ s1'[1].set \in Range(InTx') \cup Range(rel')
         /\ s2' # <<>> => s2'[1].val = due'[1].val
<1>1. in.wRdy = TRUE /\ Drains(in)
  BY AdbInputs DEF Drains
<1>2. StageMoves(in) /\ HeadsMoves(in) /\ SlotMoves(in) /\ TxMoves(in)
  BY StagesMove, HeadsMove, SlotsMove, TxMove
<1>3. s1' = S1Enq
  BY <1>1, <1>2 DEF StageMoves
<1>4. ASSUME s1' # <<>>
      PROVE  ram'[s1'[1].set] = due'[Len(s2') + 1].val /\ s1'[1].set \in Range(InTx') \cup Range(rel')
  <2> DEFINE e == tx[1].cnt
             v == tx[1].ctrl.buf[1 + e]
  <2>1. tx # <<>>
    BY <1>3, <1>4 DEF S1Enq
  <2>2. RdrFire(in)
    BY <1>1, <1>2, <2>1 DEF StageMoves
  <2>3. due'[Len(s2') + 1] = Owed(tx[1], 1 + e)
    BY <1>2, <1>4, <2>2 DEF HeadsMoves
  <2>4. s1' = <<[set |-> v, last |-> RdrLast]>>
    BY <1>3, <2>1 DEF S1Enq
  <2>5. s1'[1].set = v /\ 1 \in DOMAIN s1'
    BY <2>4
  <2>6. v \in Slot /\ 1 + e \in 1 .. Len(tx[1].ctrl.buf) /\ e \in {0, 1} /\ InTx = tx[1].ctrl.buf
    BY <2>1, TxFields, InTxIs
  <2>7. v \in Range(InTx)
    BY <2>6, InTxIs, RangeIs
  <2>8. v \in ToRead
    BY <2>5, ToReadHas
  <2>9. \A n \in CM : Gets(in, n) => v \notin Range(Buf(n))
    BY <2>7 DEF Apart
  <2>10. ram'[v] = ram[v]
    BY <2>6, <2>8, <2>9, RamKeeps
  <2>11. 1 + e > e
    <3> HIDE DEF e
    <3> QED BY <2>6
  <2>12. ram[v] = Owed(tx[1], 1 + e).val
    BY <2>1, <2>6, <2>11 DEF RamOK
  <2>13. v \in Range(InTx') \cup Range(rel')
    <3>1. CASE Release(in)
      <4>1. Range(InTx) \subseteq Range(rel')
        BY <1>2, <3>1, BackIs DEF SlotMoves
      <4> QED BY <4>1, <2>7
    <3>2. CASE ~Release(in)
      <4>1. InTx' = InTx
        BY <1>2, <2>1, <3>2 DEF SlotMoves
      <4> QED BY <4>1, <2>7
    <3> QED BY <3>1, <3>2
  <2> QED BY <2>3, <2>5, <2>10, <2>12, <2>13
<1>5. ASSUME s2' # <<>> PROVE s2'[1].val = due'[1].val
  <2>1. CASE s2' = s2 /\ due'[1] = due[1]
    BY <1>5, <2>1 DEF RamOK
  <2>2. CASE s2' = S2Enq /\ s1 # <<>> /\ due'[1] = due[Len(s2) + 1]
    <3>1. s2'[1].val = ram[s1[1].set]
      BY <2>2 DEF S2Enq
    <3>2. ram[s1[1].set] = due[Len(s2) + 1].val
      BY <2>2 DEF RamOK
    <3> QED BY <2>2, <3>1, <3>2
  <2> QED BY <1>2, <1>5, <2>1, <2>2 DEF HeadsMoves
<1> QED BY <1>4, <1>5

LEMMA RamStep ==
  ASSUME AdbTypes, Apart, \A m \in CM : MachineOK(m), RxOK, TxOK, DueOK, RamOK, NEW in \in AdbIn, AdbTick(in)
  PROVE  RamOK'
<1>1. \A m \in CM : SentIn(m)
  BY DEF SentIn, RamOK
<1>2. \A m \in CM : SentIn(m)'
  BY <1>1, SentInStep
<1>3. tx' # <<>> => \A k \in 1 .. Len(tx'[1].ctrl.buf) : k > tx'[1].cnt =>
        ram'[tx'[1].ctrl.buf[k]] = Owed(tx'[1], k).val
  BY TxRamStep
<1>4. ~stalls' => /\ s1' # <<>> => /\ ram'[s1'[1].set] = due'[Len(s2') + 1].val
                                   /\ s1'[1].set \in Range(InTx') \cup Range(rel')
                  /\ s2' # <<>> => s2'[1].val = due'[1].val
  <2>1. stalls' = stalls
    BY TxMove DEF TxMoves
  <2>2. ASSUME ~stalls
        PROVE  /\ s1' # <<>> => /\ ram'[s1'[1].set] = due'[Len(s2') + 1].val
                                /\ s1'[1].set \in Range(InTx') \cup Range(rel')
               /\ s2' # <<>> => s2'[1].val = due'[1].val
    BY <2>2, StagesRamStep
  <2> QED BY <2>1, <2>2
<1> QED BY <1>2, <1>3, <1>4 DEF RamOK, SentIn, Owed

LEMMA AdbTickKeeps ==
  ASSUME AdbIInv, NEW in \in AdbIn, AdbTick(in)
  PROVE  AdbIInv'
<1>1. /\ AdbTypes /\ ListOK /\ Apart /\ Covered /\ (\A m \in CM : MachineOK(m))
      /\ RxOK /\ TxOK /\ DueOK /\ RamOK
  BY DEF AdbIInv
<1>2. AdbTypes' /\ ListOK' /\ Apart' /\ Covered'
  BY <1>1, TypesStep, PlacesStep
<1>3. \A m \in CM : MachineOK(m)'
  BY <1>1, MachineStep
<1>4. RxOK' /\ TxOK' /\ DueOK' /\ RamOK'
  BY <1>1, RxStep, TxStep, DueStep, RamStep
<1> QED BY <1>2, <1>3, <1>4 DEF AdbIInv

-----------------------------------------------------------------------------
(* The theorems.                                                           *)

LEMMA AdbStarts == AdbInit => AdbIInv
<1> SUFFICES ASSUME AdbInit PROVE AdbIInv
  OBVIOUS
<1>1. Slots \in Nat /\ Slots > 1
  BY BufferAssumption
<1>2. /\ fl = [k \in Slot |-> k] /\ head = 0 /\ tail = 0 /\ avail = Slots /\ rel = <<>>
      /\ ctrl = [e \in CM |-> NoCtrl] /\ ram = [k \in Slot |-> NoData]
      /\ rx = <<>> /\ tx = <<>> /\ s1 = <<>> /\ s2 = <<>>
      /\ phase = [e \in CM |-> "idle"] /\ got = [e \in CM |-> {}] /\ due = <<>> /\ stalls \in BOOLEAN
  BY DEF AdbInit
<1>3. rel \in Seq(Slot) /\ Len(rel) = 0 /\ Range(rel) = {} /\ IsInjective(rel)
  BY <1>2, EmptySeq, EmptyRange
<1>4. InTx = <<>> /\ Range(InTx) = {} /\ IsInjective(InTx)
  BY <1>2, EmptyRange DEF InTx
<1>5. ASSUME NEW m \in CM
      PROVE  ctrl[m] = NoCtrl /\ Buf(m) = <<>> /\ Range(Buf(m)) = {} /\ IsInjective(Buf(m)) /\ phase[m] = "idle"
  <2>1. ctrl[m] = NoCtrl /\ phase[m] = "idle"
    BY <1>2
  <2>2. Buf(m) = <<>>
    BY <2>1 DEF NoCtrl, Buf
  <2> QED BY <2>1, <2>2, EmptyRange
<1>6. \A i \in 1 .. Slots : FreeSeq[i] = i - 1 /\ i - 1 \in Slot
  <2>1. ASSUME NEW i \in 1 .. Slots PROVE FreeSeq[i] = i - 1 /\ i - 1 \in Slot
    <3>1. (0 + i) - 1 \in Nat /\ (0 + i) - 1 < Slots /\ (0 + i) - 1 = i - 1 /\ i - 1 \in Slot
      BY <1>1 DEF Slot
    <3>2. ((0 + i) - 1) % Slots = i - 1
      BY <3>1, WrapIs
    <3>3. FreeSeq[i] = fl[((head + i) - 1) % Slots]
      BY <1>2 DEF FreeSeq
    <3> QED BY <1>2, <3>1, <3>2, <3>3
  <2> QED BY <2>1
<1>7. FreeSeq \in Seq(Slot) /\ Len(FreeSeq) = Slots /\ IsInjective(FreeSeq)
      /\ Range(FreeSeq) = {FreeSeq[i] : i \in 1 .. Slots}
  <2>1. DOMAIN FreeSeq = 1 .. Slots
    BY <1>2 DEF FreeSeq
  <2>2. FreeSeq = [i \in 1 .. Slots |-> FreeSeq[i]]
    BY <1>2 DEF FreeSeq
  <2>3. FreeSeq \in Seq(Slot)
    <3>1. \A i \in 1 .. Slots : FreeSeq[i] \in Slot
      BY <1>6
    <3>2. [i \in 1 .. Slots |-> FreeSeq[i]] \in Seq(Slot)
      BY <1>1, <3>1, IsASeq
    <3> QED BY <2>2, <3>2
  <2>4. Len(FreeSeq) = Slots
    BY <1>1, <2>1, <2>3, LenProperties
  <2>5. ASSUME NEW i \in 1 .. Slots, NEW j \in 1 .. Slots, FreeSeq[i] = FreeSeq[j] PROVE i = j
    BY <2>5, <1>6
  <2>6. IsInjective(FreeSeq)
    BY <2>3, <2>4, <2>5, RangeIs
  <2>7. Range(FreeSeq) = {FreeSeq[i] : i \in 1 .. Slots}
    BY <2>3, <2>4, RangeIs
  <2> QED BY <2>3, <2>4, <2>6, <2>7
<1>8. ListOK
  <2>1. (0 + Slots) % Slots = 0
    BY <1>1
  <2> QED BY <1>2, <1>7, <2>1 DEF ListOK
<1>9. Apart
  BY <1>3, <1>4, <1>5, <1>7 DEF Apart
<1>10. Covered
  <2>1. ASSUME NEW v \in Slot PROVE v \in Range(FreeSeq)
    <3>1. v + 1 \in 1 .. Slots /\ (v + 1) - 1 = v
      BY <1>1 DEF Slot
    <3>2. FreeSeq[v + 1] = v
      BY <3>1, <1>6
    <3> QED BY <3>1, <3>2, <1>7
  <2> QED BY <2>1 DEF Covered
<1>11. AdbTypes
  <2>1. fl \in [Slot -> Slot \cup {NoSlot}] /\ head \in Slot /\ tail \in Slot /\ avail \in 0 .. Slots
    BY <1>1, <1>2 DEF Slot
  <2>2. ctrl \in [CM -> CtrlRec]
    <3>1. NoCtrl \in CtrlRec
      BY EmptySeq DEF NoCtrl, CtrlRec
    <3> QED BY <1>2, <3>1
  <2>3. ram \in [Slot -> {NoData} \cup (CM \X {0, 1})]
    BY <1>2
  <2>4. rx \in Opt(IcnRec) /\ tx \in Opt(TxRec) /\ s1 \in Opt(S1Rec) /\ s2 \in Opt(S2Rec)
    BY <1>2 DEF Opt
  <2>5. phase \in [CM -> Phases] /\ DOMAIN got = CM /\ due \in Seq(Beat)
    BY <1>2, EmptySeq DEF Phases
  <2>6. Len(rel) <= 3
    BY <1>3
  <2> QED BY <1>2, <1>3, <2>1, <2>2, <2>3, <2>4, <2>5, <2>6 DEF AdbTypes
<1>12. \A m \in CM : MachineOK(m)
  BY <1>5 DEF MachineOK
<1>13. RxOK /\ TxOK
  BY <1>2 DEF RxOK, TxOK
<1>14. DueOK
  <2>1. Len(<<>>) = 0 /\ 0 + 0 + 0 = 0 /\ 1 .. 0 = {}
    BY EmptySeq
  <2> QED BY <1>2, <2>1 DEF DueOK
<1>15. RamOK
  BY <1>2, <1>5 DEF RamOK
<1> QED BY <1>8, <1>9, <1>10, <1>11, <1>12, <1>13, <1>14, <1>15 DEF AdbIInv

(* Every state the write data buffer reaches is one AdbIInv describes.     *)
THEOREM AdbInvariant == AdbSpec => []AdbIInv
<1>1. AdbInit => AdbIInv
  BY AdbStarts
<1>2. AdbIInv /\ [AdbNext]_adbVars => AdbIInv'
  <2> SUFFICES ASSUME AdbIInv, [AdbNext]_adbVars PROVE AdbIInv'
    OBVIOUS
  <2>1. CASE AdbNext
    BY <2>1, AdbNextIs, AdbTickKeeps
  <2>2. CASE UNCHANGED adbVars
    <3>1. /\ UNCHANGED <<fl, head, tail, avail, rel>> /\ UNCHANGED <<ctrl, ram, rx, tx, s1, s2>>
          /\ UNCHANGED <<phase, got, due, stalls>>
      BY <2>2 DEF adbVars, freeVars, ghostVars
    <3>2. AdbTypes' /\ ListOK' /\ Apart' /\ Covered'
      <4>1. AdbTypes'
        BY <3>1 DEF AdbIInv, AdbTypes
      <4>2. FreeSeq' = FreeSeq /\ InTx' = InTx /\ \A m \in CM : Buf(m)' = Buf(m)
        BY <3>1 DEF FreeSeq, InTx, Buf
      <4>3. ListOK'
        BY <3>1, <4>2 DEF AdbIInv, ListOK
      <4>4. Apart'
        BY <3>1, <4>2 DEF AdbIInv, Apart
      <4>5. Covered'
        BY <3>1, <4>2 DEF AdbIInv, Covered
      <4> QED BY <4>1, <4>3, <4>4, <4>5
    <3>3. (\A m \in CM : MachineOK(m)') /\ RxOK' /\ TxOK'
      BY <3>1 DEF AdbIInv, MachineOK, RxOK, TxOK, Halves, Buf
    <3>4. DueOK'
      BY <3>1 DEF AdbIInv, DueOK, Owed
    <3>5. RamOK'
      BY <3>1 DEF AdbIInv, RamOK, Cancelled, Nth, Owed, Buf, InTx
    <3> QED BY <3>2, <3>3, <3>4, <3>5 DEF AdbIInv
  <2> QED BY <2>1, <2>2
<1> QED BY <1>1, <1>2, PTL DEF AdbSpec

LEMMA AdbConserves == AdbIInv => AdbTypeOK /\ SlotsConserved
<1> SUFFICES ASSUME AdbIInv PROVE AdbTypeOK /\ SlotsConserved
  OBVIOUS
<1>1. AdbTypes /\ ListOK /\ Apart /\ Covered /\ (\A m \in CM : MachineOK(m)) /\ TxOK
  BY DEF AdbIInv
<1>2. ASSUME NEW m \in CM PROVE /\ Live(m) = Buf(m) /\ Buf(m) \in Seq(Slot) /\ Len(Buf(m)) <= 2
                                /\ ctrl[m].cnt \in 0 .. 2 /\ ctrl[m].off \in {0, 1}
  <2>1. phase[m] \in Phases /\ ctrl[m] \in CtrlRec /\ MachineOK(m)
    BY <1>1 DEF AdbTypes
  <2>2. CASE phase[m] \in {"wait", "full"}
    <3>1. Len(Buf(m)) <= 2
      <4>1. \A l \in {1, 2} : l <= 2
        OBVIOUS
      <4> QED BY <2>1, <2>2, <4>1 DEF MachineOK
    <3> QED BY <2>1, <2>2, <3>1 DEF Live, Buf, CtrlRec
  <2>3. CASE phase[m] \in {"idle", "sent"}
    <3>1. Buf(m) = <<>>
      BY <2>1, <2>3 DEF MachineOK, NoCtrl, Buf
    <3>2. Live(m) = <<>>
      BY <2>3 DEF Live
    <3> QED BY <2>1, <3>1, <3>2, EmptySeq DEF CtrlRec
  <2> QED BY <2>1, <2>2, <2>3 DEF Phases
<1>3. AdbTypeOK
  <2>1. tx # <<>> => tx[1].cnt \in 0 .. Len(tx[1].ctrl.buf) - 1
    <3>1. SUFFICES ASSUME tx # <<>> PROVE tx[1].cnt \in 0 .. Len(tx[1].ctrl.buf) - 1
      OBVIOUS
    <3>2. tx[1].cnt \in {0, 1} /\ Len(tx[1].ctrl.buf) \in {1, 2} /\ tx[1].cnt < Len(tx[1].ctrl.buf)
      BY <1>1, <3>1, TxFields
    <3>3. \A l \in {1, 2}, e \in {0, 1} : e < l => e \in 0 .. l - 1
      OBVIOUS
    <3> QED BY <3>2, <3>3
  <2>2. Len(rx) <= 1 /\ Len(tx) <= 1
    BY <1>1, OptIsSeq DEF AdbTypes
  <2>3. Len(s1) <= 1 /\ Len(s2) <= 1
    BY <1>1, OptIsSeq DEF AdbTypes
  <2>4. Len(rel) <= 4
    BY <1>1, LenProperties DEF AdbTypes
  <2>5. \A e \in CM : /\ ctrl[e].buf \in Seq(Slot) /\ Len(ctrl[e].buf) <= 2
                      /\ ctrl[e].cnt \in 0 .. 2 /\ ctrl[e].off \in {0, 1}
    BY <1>2 DEF Buf
  <2> QED BY <1>1, <2>1, <2>2, <2>3, <2>4, <2>5 DEF AdbTypeOK, AdbTypes
<1>4. \A v : RangeOf(v) = Range(v)
  BY DEF RangeOf, Range
<1>5. Free = Range(FreeSeq)
  <2>1. /\ FreeSeq \in Seq(Slot) /\ Len(FreeSeq) = avail /\ avail \in Nat /\ head \in Nat
    BY <1>1, ListLen DEF ListOK
  <2>2. Range(FreeSeq) = {FreeSeq[i] : i \in 1 .. avail}
    BY <2>1, RangeIs
  <2>3. ASSUME NEW k \in 0 .. avail - 1 PROVE k + 1 \in 1 .. avail /\ FreeSeq[k + 1] = fl[(head + k) % Slots]
    <3>1. k + 1 \in 1 .. avail /\ (head + (k + 1)) - 1 = head + k
      BY <2>1
    <3> QED BY <3>1 DEF FreeSeq
  <2>4. ASSUME NEW i \in 1 .. avail PROVE i - 1 \in 0 .. avail - 1 /\ FreeSeq[i] = fl[(head + (i - 1)) % Slots]
    <3>1. i - 1 \in 0 .. avail - 1 /\ (head + i) - 1 = head + (i - 1)
      BY <2>1
    <3> QED BY <3>1 DEF FreeSeq
  <2> QED BY <2>2, <2>3, <2>4 DEF Free
<1>6. UNION {RangeOf(Live(e)) : e \in CM} = InMachines
  BY <1>2, <1>4 DEF InMachines
<1>7. /\ avail + Len(rel) + Len(InTx) + Cardinality(InMachines) = Slots
      /\ Cardinality(Free) = avail
  BY <1>1, <1>5, SlotsCount
<1>8. (InMachines \cup Free) \cup Range(rel) \cup Range(InTx) = Slot
  <2>1. Range(FreeSeq) \subseteq Slot /\ Range(rel) \subseteq Slot
    BY <1>1, RangeIs DEF ListOK, AdbTypes
  <2>2. Range(InTx) \subseteq Slot
    BY <1>1, InTxIs, RangeIs
  <2>3. \A m \in CM : Range(Buf(m)) \subseteq Slot
    BY <1>2, RangeIs
  <2>4. InMachines \subseteq Slot
    BY <2>3 DEF InMachines
  <2>5. \A v \in Slot : v \in InMachines \cup Range(FreeSeq) \cup Range(rel) \cup Range(InTx)
    BY <1>1 DEF Covered, InMachines
  <2> QED BY <1>5, <2>1, <2>2, <2>4, <2>5
<1>9. \A e, d \in CM : e # d => RangeOf(Live(e)) \cap RangeOf(Live(d)) = {}
  BY <1>1, <1>2, <1>4 DEF Apart
<1>10. SlotsConserved
  <2>1. (InMachines \cup Free) \cup RangeOf(rel) \cup RangeOf(InTx) = Slot
    BY <1>4, <1>8
  <2> QED BY <1>1, <1>6, <1>7, <1>9, <2>1 DEF SlotsConserved, ListOK
<1> QED BY <1>3, <1>10

(* Each slot is in one place, none is lost, for every number of slots and  *)
(* machines: the free list, the slots coming back, those of live writes    *)
(* and those of the burst read out are all there are (axi_data_buffer.cpp).*)
THEOREM AdbIsSafe == AdbSpec => []AdbInv
<1>1. AdbIInv => AdbGateLosesNothing
  <2> SUFFICES ASSUME AdbIInv, ~AdbAny(AdbQuiet) PROVE AdbGateLosesNothing
    BY DEF AdbGateLosesNothing
  <2>1. rel = <<>> /\ rx = <<>> /\ ~RdrFire(AdbQuiet)
    BY DEF AdbAny
  <2>2. ~Release(AdbQuiet) /\ ~Cancel /\ AdbQuiet.from = <<>>
    BY <2>1 DEF Release, Cancel, AdbQuiet
  <2>3. NextRel(AdbQuiet) = rel
    <3>1. <<>> \o <<>> = <<>>
      OBVIOUS
    <3> QED BY <2>1, <2>2, <3>1 DEF NextRel
  <2>4. NextTx(AdbQuiet) = tx
    BY <2>1, <2>2 DEF NextTx, FromFire, AllowNew
  <2> QED BY <2>1, <2>3, <2>4 DEF AdbGateLosesNothing
<1>2. AdbIInv => AdbInv
  BY <1>1, AdbConserves DEF AdbInv
<1> QED BY <1>2, AdbInvariant, PTL

(* A machine is told that its write is complete only when every beat it    *)
(* asked for is in the RAM, or its write was cancelled (to_cm).            *)
THEOREM AdbNotifies == AdbSpec => []NoticeWhenComplete
<1>1. AdbIInv => NoticeWhenComplete
  <2> SUFFICES ASSUME AdbIInv, NEW e \in Notice
               PROVE  phase[e] = "wait" /\ (Cancel \/ \A h \in Halves(e) : h \in got[e])
    BY DEF NoticeWhenComplete
  <2>1. rx # <<>> /\ rx[1].cm = e /\ (~rx[1].cancel => ctrl[e].cnt = Len(Buf(e)))
    BY DEF Notice, Buf
  <2>2. AdbTypes /\ phase[e] = "wait"
    BY <2>1 DEF AdbIInv, RxOK
  <2>3. e \in CM /\ MachineOK(e)
    <3>1. rx[1] \in IcnRec
      BY <2>1, <2>2, OptOne DEF AdbTypes
    <3> QED BY <2>1, <3>1 DEF IcnRec, AdbIInv
  <2>4. ~Cancel => got[e] = Halves(e)
    BY <2>1, <2>2, <2>3, HalvesCard DEF Cancel
  <2> QED BY <2>2, <2>4
<1> QED BY <1>1, AdbInvariant, PTL

(* The W channel sends whole bursts in the order of the turns, each with   *)
(* its last beat marked, and to a slave that does not stall each beat with *)
(* the data its writer sent.                                               *)
THEOREM AdbFollowsTurns == AdbSpec => []WFollowsTurns
<1>1. AdbIInv => WFollowsTurns
  <2> SUFFICES ASSUME AdbIInv PROVE WFollowsTurns
    OBVIOUS
  <2>1. AdbTypes /\ TxOK /\ DueOK /\ RamOK
    BY DEF AdbIInv
  <2> DEFINE R == S1Rec \cup S2Rec
             a == Len(s2)
             b == Len(s1)
             shown == s2 \o s1
  <2>2. /\ a \in {0, 1} /\ b \in {0, 1} /\ Len(due) \in Nat /\ a + b <= Len(due)
        /\ (s1 = <<>> <=> b = 0) /\ (s2 = <<>> <=> a = 0)
    BY <2>1, DueLen
  <2>3. s2 \in Seq(R) /\ s1 \in Seq(R)
    <3>1. Opt(S1Rec) \subseteq Opt(R) /\ Opt(S2Rec) \subseteq Opt(R)
      BY DEF Opt
    <3>2. s1 \in Opt(R) /\ s2 \in Opt(R)
      BY <2>1, <3>1 DEF AdbTypes
    <3> HIDE DEF R
    <3> QED BY <3>2, OptIsSeq
  <2>4. /\ shown \in Seq(R) /\ Len(shown) = a + b
        /\ \A k \in 1 .. a + b : shown[k] = IF k <= a THEN s2[k] ELSE s1[k - a]
    <3> HIDE DEF R
    <3> QED BY <2>3, ConcatProperties
  <2>5. DOMAIN shown = 1 .. a + b
    BY <2>4, LenProperties
  <2> HIDE DEF shown
  <2>6. ASSUME NEW k \in DOMAIN shown PROVE shown[k].last = due[k].last
    <3>0. k \in 1 .. a + b
      BY <2>5
    <3>1. CASE k <= a
      <4>1. k = 1 /\ s2 # <<>>
        <5> HIDE DEF a, b
        <5> QED BY <2>2, <3>0, <3>1
      <4>2. shown[k] = s2[1]
        BY <2>4, <3>0, <3>1, <4>1
      <4> QED BY <2>1, <4>1, <4>2 DEF DueOK
    <3>2. CASE ~(k <= a)
      <4>1. k - a = 1 /\ k = a + 1 /\ s1 # <<>>
        <5> HIDE DEF a, b
        <5> QED BY <2>2, <3>0, <3>2
      <4>2. shown[k] = s1[1]
        BY <2>4, <3>0, <3>2, <4>1
      <4> QED BY <2>1, <4>1, <4>2 DEF DueOK
    <3> QED BY <3>1, <3>2
  <2>7. Len(due) = Len(shown) + IF tx = <<>> THEN 0 ELSE Len(tx[1].ctrl.buf) - tx[1].cnt
    BY <2>1, <2>4 DEF DueOK
  <2>8. BurstsWhole
    BY <2>2, <2>4, <2>6, <2>7 DEF BurstsWhole, shown
  <2>9. ~stalls /\ s2 # <<>> => s2[1].val = due[1].val
    BY <2>1 DEF RamOK
  <2> QED BY <2>8, <2>9 DEF WFollowsTurns
<1> QED BY <1>1, AdbInvariant, PTL

-----------------------------------------------------------------------------
(***************************************************************************)
(* The control of the AXI bridges for any number of machines and requests. *)
(*                                                                         *)
(* A machine counts the older ones of its line once, and counts down on    *)
(* their pulses.  That the count stays right needs that two machines of a  *)
(* line never wake together: one of them waits for the other (OlderSame),  *)
(* and a machine that waits has not touched AXI yet.  The rest says what   *)
(* of a transaction comes before what (PhasesOK), who is in the two queues *)
(* (AwExact, AllocExact), and follows from it.                             *)
(***************************************************************************)
(* The inductive invariant.                                                *)

ReqOf(i) == cms[i].info[1]
Entered(i) == cms[i].valid /\ cms[i].snooped
SameLine(i, j) == ReqOf(i).tag = ReqOf(j).tag

CmRec == [valid : BOOLEAN, waiting : 0 .. Wrap - 1, owes : SUBSET Up, axi : SUBSET Down,
          info : Opt(Req[sn]), snooped : BOOLEAN, issued : BOOLEAN, buf : BOOLEAN,
          wk : BOOLEAN, wset : BOOLEAN]
BridgeTypes ==
  /\ sn \in BOOLEAN /\ cms \in [CMs -> CmRec] /\ tagm \in SUBSET CMs
  /\ sel \in [Chans -> SUBSET CMs] /\ older \in [CMs -> SUBSET CMs]
  /\ awq \in Seq(CMs) /\ Len(awq) <= kOutst
  /\ allocq \in Seq(CMs) /\ Len(allocq) <= 2

\* A machine that is not valid keeps nothing but a pulse that comes late.
ShapeOf(i) ==
  /\ ~cms[i].valid => cms[i] = [Idle EXCEPT !.wk = cms[i].wk]
  /\ cms[i].valid => /\ cms[i].info # <<>> /\ i < kOutst
                     /\ cms[i].owes \subseteq OwesOf(ReqOf(i)) /\ cms[i].axi \subseteq AxiOf(ReqOf(i))
                     /\ cms[i].wset => cms[i].waiting # 0
Shape == \A i \in CMs : ShapeOf(i)

PhaseOf(i) ==
  /\ "aw" \in cms[i].axi => "w" \in cms[i].axi
  /\ "w" \in cms[i].axi => "b" \in cms[i].axi
  /\ "ar" \in cms[i].axi => "r" \in cms[i].axi
  /\ ~cms[i].snooped => cms[i].axi = {}
  /\ "wdata" \in cms[i].owes => cms[i].axi = AxiOf(ReqOf(i))
  /\ "dbid" \in cms[i].owes => "wdata" \in cms[i].owes
  /\ "rdata" \in cms[i].owes <=> "r" \in cms[i].axi
  /\ sn /\ ~cms[i].buf => ReqOf(i).wr /\ "dbid" \in cms[i].owes
PhasesOK == \A i \in CMs : cms[i].valid => PhaseOf(i)

OlderOf(i) ==
  /\ ~Entered(i) => older[i] = {}
  /\ \A j \in older[i] : j # i /\ Entered(j) /\ SameLine(i, j)
  /\ older[i] # {} => cms[i].axi = AxiOf(ReqOf(i)) /\ (sn /\ ReqOf(i).wr => ~cms[i].buf)
  /\ \A j \in CMs \ {i} : Entered(i) /\ Entered(j) /\ SameLine(i, j) => i \in older[j] \/ j \in older[i]
OlderSame == \A i \in CMs : OlderOf(i)

AwOut(i) == cms[i].valid /\ "aw" \notin cms[i].axi /\ "w" \in cms[i].axi
AwExact == IsInjective(awq) /\ Range(awq) = {i \in CMs : AwOut(i)}

Asking(i) == sn /\ cms[i].valid /\ cms[i].issued /\ ~cms[i].buf
AllocExact ==
  /\ IsInjective(allocq) /\ Range(allocq) = {i \in CMs : Asking(i)}
  /\ \A i \in CMs : Asking(i) => older[i] = {}

BridgeIInv ==
  /\ BridgeTypes /\ Shape /\ PhasesOK /\ OlderSame /\ WaitCountsOlder /\ NoStaleGrant
  /\ AwExact /\ AllocExact

-----------------------------------------------------------------------------
(* An edge.                                                                *)

Took(in) ==
  /\ in.req \in Opt(Req[sn]) /\ in.allocRdy \in BOOLEAN /\ in.wRdy \in BOOLEAN
  /\ in.data \in Opt(Datas) /\ in.ack \in Opt(AckDue) /\ in.b \in Opt(BDue) /\ in.r \in Opt(RDue)
  /\ in.grant["rsp"] \in Opt(sel["rsp"]) /\ in.grant["aw"] \in Opt(sel["aw"])
  /\ in.grant["ar"] \in Opt(sel["ar"]) /\ in.grant["alloc"] \in AllocGrants
Edge(in) == Took(in) /\ BridgeTick(in)

LEMMA EdgeOf == ASSUME BridgeNext PROVE \E in : Edge(in)
<1>1. PICK req \in Opt(Req[sn]), rsp \in Opt(sel["rsp"]), aw \in Opt(sel["aw"]), ar \in Opt(sel["ar"]),
           al \in AllocGrants, allocRdy \in BOOLEAN, wRdy \in BOOLEAN, data \in Opt(Datas), ack \in Opt(AckDue),
           b \in Opt(BDue), r \in Opt(RDue) :
    BridgeTick([req |-> req, allocRdy |-> allocRdy, wRdy |-> wRdy, data |-> data,
                ack |-> ack, b |-> b, r |-> r,
                grant |-> [ch \in Chans |-> CASE ch = "rsp" -> rsp [] ch = "aw" -> aw
                                             [] ch = "ar" -> ar [] ch = "alloc" -> al]])
  BY DEF BridgeNext
<1> DEFINE g == [ch \in Chans |-> CASE ch = "rsp" -> rsp [] ch = "aw" -> aw
                                    [] ch = "ar" -> ar [] ch = "alloc" -> al]
           in == [req |-> req, allocRdy |-> allocRdy, wRdy |-> wRdy, data |-> data,
                  ack |-> ack, b |-> b, r |-> r, grant |-> g]
<1>2. g["rsp"] = rsp /\ g["aw"] = aw /\ g["ar"] = ar /\ g["alloc"] = al
  BY DEF Chans
<1> HIDE DEF g
<1>3. Took(in)
  BY <1>2 DEF Took
<1>4. BridgeTick(in)
  BY <1>1 DEF g
<1> QED BY <1>3, <1>4 DEF Edge

LEMMA Params ==
  ASSUME BridgeIInv
  PROVE  /\ sn \in BOOLEAN /\ N \in Nat /\ kOutst \in 2 .. N /\ kOutst \in Nat
         /\ CMs \in SUBSET Nat /\ IsFiniteSet(CMs) /\ Cardinality(CMs) = N
         /\ Wrap = 2 * N
<1>1. sn \in BOOLEAN /\ N \in Nat /\ kOutst \in 2 .. N
  BY BridgeAssumption DEF BridgeIInv, BridgeTypes, kOutst
<1>2. IsFiniteSet(0 .. N - 1) /\ Cardinality(0 .. N - 1) = IF 0 > N - 1 THEN 0 ELSE (N - 1) - 0 + 1
  BY <1>1, FS_Interval
<1>3. Cardinality(0 .. N - 1) = N
  BY <1>1, <1>2
<1> QED BY <1>1, <1>2, <1>3 DEF CMs, Wrap

\* A machine, field by field.
LEMMA CmType ==
  ASSUME BridgeIInv, NEW i \in CMs
  PROVE  /\ cms[i] \in CmRec
         /\ cms[i].valid \in BOOLEAN /\ cms[i].snooped \in BOOLEAN /\ cms[i].issued \in BOOLEAN
         /\ cms[i].buf \in BOOLEAN /\ cms[i].wk \in BOOLEAN /\ cms[i].wset \in BOOLEAN
         /\ cms[i].waiting \in 0 .. Wrap - 1 /\ cms[i].waiting \in Nat
         /\ cms[i].owes \subseteq Up /\ cms[i].axi \subseteq Down
         /\ cms[i].valid => /\ ReqOf(i) \in Req[sn] /\ cms[i].info = <<ReqOf(i)>>
                            /\ ReqOf(i).wr \in BOOLEAN
                            /\ cms[i].owes \subseteq OwesOf(ReqOf(i))
                            /\ cms[i].axi \subseteq AxiOf(ReqOf(i)) /\ i < kOutst
         /\ ~cms[i].valid => /\ ~cms[i].snooped /\ cms[i].axi = {} /\ cms[i].owes = {} /\ ~cms[i].wset
                             /\ cms[i].info = <<>>
<1>1. cms[i] \in CmRec /\ ShapeOf(i)
  BY DEF BridgeIInv, BridgeTypes, Shape
<1>2. /\ cms[i].valid \in BOOLEAN /\ cms[i].snooped \in BOOLEAN /\ cms[i].issued \in BOOLEAN
      /\ cms[i].buf \in BOOLEAN /\ cms[i].wk \in BOOLEAN /\ cms[i].wset \in BOOLEAN
      /\ cms[i].waiting \in 0 .. Wrap - 1 /\ cms[i].waiting \in Nat
      /\ cms[i].owes \subseteq Up /\ cms[i].axi \subseteq Down /\ cms[i].info \in Opt(Req[sn])
  BY <1>1, Params DEF CmRec
<1>3. cms[i].valid => /\ ReqOf(i) \in Req[sn] /\ cms[i].info = <<ReqOf(i)>> /\ ReqOf(i).wr \in BOOLEAN
  BY <1>1, <1>2, Params, BridgeAssumption DEF Opt, ReqOf, ShapeOf
<1>4. ~cms[i].valid => /\ cms[i].snooped = FALSE /\ cms[i].axi = {} /\ cms[i].owes = {}
                       /\ cms[i].wset = FALSE /\ cms[i].info = <<>>
  BY <1>1 DEF ShapeOf, Idle
<1> QED BY <1>1, <1>2, <1>3, <1>4 DEF ShapeOf

\* A closed gate changes nothing that an open one would change.
LEMMA GateOpen ==
  ASSUME BridgeIInv, NEW in, Edge(in)
  PROVE  cms' = [i \in CMs |-> NextCm(i, in)]
<1>1. CASE CmsAny(in)
  BY <1>1 DEF Edge, BridgeTick
<1>2. CASE ~CmsAny(in)
  <2>1. cms' = cms
    BY <1>2 DEF Edge, BridgeTick
  <2>2. ASSUME NEW i \in CMs PROVE NextCm(i, in) = cms[i]
    <3>1. ~cms[i].valid /\ cms[i].wk = FALSE /\ i \notin ReqFire(in)
      BY <1>2, CmType DEF CmsAny
    <3>2. cms[i] = Idle
      BY <3>1, ZenonT(30) DEF BridgeIInv, Shape, ShapeOf, Idle
    <3>3. WakeupVld(i) = FALSE
      BY <3>1 DEF WakeupVld
    <3> QED BY <3>1, <3>2, <3>3 DEF NextCm, Idle
  <2>3. cms = [i \in CMs |-> cms[i]]
    BY DEF BridgeIInv, BridgeTypes
  <2> QED BY <2>1, <2>2, <2>3
<1> QED BY <1>1, <1>2

\* What one edge does to a machine: it starts, goes on, or is free after it.
Stays(i) == cms[i].valid /\ ~AllDone(cms[i])
Comes(i, in) == i \in ReqFire(in)

LEMMA ComesIs ==
  ASSUME BridgeIInv, NEW in, Edge(in), NEW i \in CMs, Comes(i, in)
  PROVE  /\ ~cms[i].valid /\ ~Stays(i) /\ i < kOutst
         /\ in.req[1] \in Req[sn] /\ in.req[1].wr \in BOOLEAN /\ ReqFire(in) = {i}
         /\ cms'[i] = NewCm(in.req[1]) /\ ReqOf(i)' = in.req[1]
         /\ cms'[i].valid = TRUE /\ cms'[i].snooped = TRUE /\ cms'[i].issued = FALSE
         /\ cms'[i].buf = ~in.req[1].wr /\ cms'[i].wk = FALSE /\ cms'[i].wset = TRUE
         /\ cms'[i].waiting = kOutst - 1 /\ cms'[i].owes = OwesOf(in.req[1])
         /\ cms'[i].axi = AxiOf(in.req[1]) /\ cms'[i].info # <<>>
         /\ \A j \in CMs : Comes(j, in) => j = i
<1>1. in.req # <<>> /\ i \in FreeLo /\ ReqFire(in) = FreeLo
  BY DEF Comes, ReqFire
<1>2. in.req[1] \in Req[sn] /\ in.req[1].wr \in BOOLEAN
  <2>1. in.req \in Opt(Req[sn])
    BY DEF Edge, Took
  <2>2. PICK r \in Req[sn] : in.req = <<r>>
    BY <1>1, <2>1 DEF Opt
  <2> QED BY <2>2, Params, BridgeAssumption
<1>3. i \in 0 .. kOutst - 1 /\ ~cms[i].valid /\ i < kOutst
  BY <1>1, Params DEF FreeLo
<1>4. ASSUME NEW j \in FreeLo PROVE j = i
  <2>1. j \in Nat /\ i \in Nat /\ ~cms[j].valid /\ ~cms[i].valid
    BY <1>1, Params DEF FreeLo
  <2>2. ~(j < i) /\ ~(i < j)
    BY <1>1, <2>1, Params DEF FreeLo
  <2> QED BY <2>1, <2>2
<1>5. cms'[i] = NewCm(in.req[1])
  BY GateOpen DEF NextCm, Comes
<1>6. /\ cms'[i].valid = TRUE /\ cms'[i].snooped = TRUE /\ cms'[i].issued = FALSE
      /\ cms'[i].buf = ~in.req[1].wr /\ cms'[i].wk = FALSE /\ cms'[i].wset = TRUE
      /\ cms'[i].waiting = kOutst - 1 /\ cms'[i].owes = OwesOf(in.req[1])
      /\ cms'[i].axi = AxiOf(in.req[1]) /\ cms'[i].info = <<in.req[1]>>
  BY <1>5 DEF NewCm
<1>9. ReqOf(i)' = in.req[1] /\ cms'[i].info # <<>>
  BY <1>6 DEF ReqOf
<1>7. ReqFire(in) = {i}
  BY <1>1, <1>4
<1>8. \A j \in CMs : Comes(j, in) => j = i
  BY <1>7 DEF Comes
<1> QED BY <1>2, <1>3, <1>5, <1>6, <1>7, <1>8, <1>9 DEF Stays

LEMMA StaysIs ==
  ASSUME BridgeIInv, NEW in, Edge(in), NEW i \in CMs, Stays(i)
  PROVE  /\ cms'[i].valid = TRUE /\ cms'[i].waiting = NextWaiting(i, in)
         /\ cms'[i].owes = NextOwes(i, in) /\ cms'[i].axi = NextAxi(i, in)
         /\ cms'[i].info = cms[i].info
         /\ cms'[i].snooped = (cms[i].snooped /\ ~WakeupOut(cms[i]))
         /\ cms'[i].issued = (cms[i].issued \/ Fires("alloc", i, in))
         /\ cms'[i].buf = (cms[i].buf \/ i \in AllocResp(in))
         /\ cms'[i].wk = WakeupVld(i) /\ cms'[i].wset = FALSE
         /\ ReqOf(i)' = ReqOf(i) /\ ~Comes(i, in) /\ cms[i].valid
<1>1. cms[i].valid /\ ~AllDone(cms[i]) /\ ~Comes(i, in)
  BY ComesIs DEF Stays
<1>2. cms'[i] = NextCm(i, in)
  BY GateOpen
<1>3. cms'[i] = [valid |-> TRUE, waiting |-> NextWaiting(i, in), owes |-> NextOwes(i, in),
            axi |-> NextAxi(i, in), info |-> cms[i].info,
            snooped |-> cms[i].snooped /\ ~WakeupOut(cms[i]),
            issued |-> cms[i].issued \/ Fires("alloc", i, in),
            buf |-> cms[i].buf \/ i \in AllocResp(in),
            wk |-> WakeupVld(i), wset |-> FALSE]
  BY <1>1, <1>2 DEF NextCm, Comes
<1>4. ReqOf(i)' = ReqOf(i)
  BY <1>3 DEF ReqOf
<1> QED BY <1>1, <1>3, <1>4

LEMMA GoesIs ==
  ASSUME BridgeIInv, NEW in, Edge(in), NEW i \in CMs, ~Stays(i), ~Comes(i, in)
  PROVE  /\ cms'[i] = [Idle EXCEPT !.wk = WakeupVld(i)]
         /\ cms'[i].valid = FALSE /\ cms'[i].snooped = FALSE /\ cms'[i].axi = {}
         /\ cms'[i].issued = FALSE /\ cms'[i].wk = WakeupVld(i)
<1>1. cms'[i] = [Idle EXCEPT !.wk = WakeupVld(i)]
  BY GateOpen DEF NextCm, Stays, Comes
<1> QED BY <1>1 DEF Idle

LEMMA Kept ==
  ASSUME BridgeIInv, NEW in, Edge(in)
  PROVE  sn' = sn /\ kOutst' = kOutst
BY DEF Edge, BridgeTick, kOutst

-----------------------------------------------------------------------------
(* Who may ask, and who may wake.                                          *)

\* A machine that has counted down has nobody before it.
LEMMA MayStart ==
  ASSUME BridgeIInv, NEW i \in CMs, Entered(i), cms[i].waiting = 0
  PROVE  ~cms[i].wset /\ ~cms[i].wk /\ older[i] = {}
<1>1. ~cms[i].wset
  BY DEF BridgeIInv, Shape, ShapeOf, Entered
<1>2. cms[i].waiting = Cardinality(older[i]) + IF cms[i].wk THEN 1 ELSE 0
  BY <1>1 DEF BridgeIInv, WaitCountsOlder, Entered
<1>3. older[i] \in SUBSET CMs /\ IsFiniteSet(older[i])
  BY Params, FS_Subset DEF BridgeIInv, BridgeTypes
<1>4. Cardinality(older[i]) \in Nat
  BY <1>3, FS_CardinalityType
<1>5. Cardinality(older[i]) = 0 /\ ~cms[i].wk
  BY <1>2, <1>4
<1> QED BY <1>1, <1>3, <1>5, FS_EmptySet

LEMMA Waits ==
  ASSUME BridgeIInv, NEW i \in CMs, older[i] # {}
  PROVE  Entered(i) /\ cms[i].waiting # 0
BY MayStart DEF BridgeIInv, OlderSame, OlderOf

\* Who has something to do on AXI is in the snoop set of its line.
LEMMA OnAxi ==
  ASSUME BridgeIInv, NEW i \in CMs, cms[i].valid, cms[i].axi # {}
  PROVE  Entered(i)
BY DEF BridgeIInv, PhasesOK, PhaseOf, Entered

LEMMA NoPlace ==
  ASSUME BridgeIInv, NEW i \in CMs, cms[i].valid, sn, ~cms[i].buf
  PROVE  /\ ReqOf(i).wr /\ "dbid" \in cms[i].owes /\ "wdata" \in cms[i].owes
         /\ cms[i].axi = {"aw", "w", "b"} /\ Stays(i) /\ Entered(i)
<1>1. ReqOf(i).wr /\ "dbid" \in cms[i].owes /\ "wdata" \in cms[i].owes /\ cms[i].axi = AxiOf(ReqOf(i))
  BY DEF BridgeIInv, PhasesOK, PhaseOf
<1>2. cms[i].axi = {"aw", "w", "b"}
  BY <1>1 DEF AxiOf
<1>3. Stays(i)
  BY <1>2 DEF Stays, AllDone
<1> QED BY <1>1, <1>2, <1>3, OnAxi

LEMMA MayAsk ==
  ASSUME BridgeIInv, NEW i \in CMs, NEW ch \in {"aw", "ar", "alloc"}, i \in Asks(ch)
  PROVE  /\ cms[i].valid /\ Entered(i) /\ Stays(i) /\ cms[i].waiting = 0
         /\ ~cms[i].wset /\ ~cms[i].wk /\ older[i] = {}
         /\ ch = "aw" => AsksAw(cms[i])
         /\ ch = "ar" => AsksAr(cms[i])
         /\ ch = "alloc" => AsksAlloc(cms[i])
<1>1. /\ cms[i].valid
      /\ ch = "aw" => AsksAw(cms[i])
      /\ ch = "ar" => AsksAr(cms[i])
      /\ ch = "alloc" => AsksAlloc(cms[i])
  BY DEF Asks
<1>2. cms[i].axi # {} /\ cms[i].waiting = 0
  BY <1>1, NoPlace DEF AsksAw, AsksAr, AsksAlloc
<1>3. Entered(i) /\ Stays(i)
  BY <1>1, <1>2, OnAxi DEF Stays, AllDone
<1> QED BY <1>1, <1>2, <1>3, MayStart

\* A machine that wakes is done with AXI and waits for nobody.
LEMMA WakingIs ==
  ASSUME BridgeIInv, NEW i \in CMs
  PROVE  /\ WakeupOut(cms[i]) <=> Entered(i) /\ cms[i].axi = {}
         /\ i \in Waking <=> Entered(i) /\ cms[i].axi = {}
         /\ i \in Waking => older[i] = {}
<1>1. WakeupOut(cms[i]) <=> Entered(i) /\ cms[i].axi = {}
  <2>1. CASE ~Entered(i)
    BY <2>1 DEF Entered, WakeupOut
  <2>2. CASE Entered(i)
    <3>1. cms[i].axi \cap {"b", "r"} = {} => cms[i].axi = {}
      <4>1. cms[i].axi \subseteq {"aw", "w", "b", "ar", "r"} /\ PhaseOf(i)
        BY <2>2, CmType DEF BridgeIInv, PhasesOK, Entered, AxiOf
      <4> QED BY <4>1 DEF PhaseOf
    <3> QED BY <2>2, <3>1 DEF Entered, WakeupOut
  <2> QED BY <2>1, <2>2
<1>2. i \in Waking <=> WakeupOut(cms[i])
  BY DEF Waking
<1>3. Entered(i) /\ older[i] # {} => cms[i].axi # {}
  BY DEF BridgeIInv, OlderSame, OlderOf, AxiOf
<1> QED BY <1>1, <1>2, <1>3

LEMMA LiveNext ==
  ASSUME BridgeIInv, NEW in, Edge(in), NEW i \in CMs
  PROVE  /\ Entered(i)' <=> Comes(i, in) \/ (Entered(i) /\ i \notin Waking)
         /\ Entered(i) /\ i \notin Waking => Stays(i) /\ ~Comes(i, in) /\ ReqOf(i)' = ReqOf(i)
<1>1. CASE Comes(i, in)
  <2>1. Entered(i)'
    BY <1>1, ComesIs DEF Entered
  <2>2. ~Entered(i)
    BY <1>1, ComesIs DEF Entered
  <2> QED BY <1>1, <2>1, <2>2
<1>2. CASE Stays(i)
  BY <1>2, StaysIs, WakingIs DEF Entered
<1>3. CASE ~Stays(i) /\ ~Comes(i, in)
  <2>1. ~Entered(i)'
    BY <1>3, GoesIs DEF Entered
  <2>2. Entered(i) => i \in Waking
    BY <1>3, WakingIs DEF Stays, AllDone, Entered
  <2> QED BY <1>3, <2>1, <2>2
<1> QED BY <1>1, <1>2, <1>3

\* No two machines of a line wake together, so a pulse is exactly one.
LEMMA OneWakes ==
  ASSUME BridgeIInv, NEW i \in CMs, Entered(i), i \notin Waking
  PROVE  /\ IsFiniteSet(older[i] \ Waking)
         /\ Cardinality(older[i]) = Cardinality(older[i] \ Waking)
                                    + (IF WakeupVld(i) THEN 1 ELSE 0)
<1>1. older[i] \in SUBSET CMs /\ IsFiniteSet(older[i])
  BY Params, FS_Subset DEF BridgeIInv, BridgeTypes
<1>2. ASSUME NEW j \in Waking \ {i} PROVE j \in CMs /\ Entered(j) /\ (SameTag(cms[i], cms[j]) <=> SameLine(i, j))
  <2>1. j \in CMs /\ Entered(j)
    BY WakingIs DEF Waking
  <2>2. cms[i].info # <<>> /\ cms[j].info # <<>>
    BY <2>1 DEF Entered, BridgeIInv, Shape, ShapeOf
  <2> QED BY <2>1, <2>2 DEF SameTag, SameLine, ReqOf
<1>3. WakeupVld(i) <=> \E j \in Waking \ {i} : SameLine(i, j)
  BY <1>2 DEF WakeupVld, Entered
<1>4. ASSUME NEW j \in Waking \ {i}, SameLine(i, j) PROVE j \in older[i]
  <2>1. older[j] = {}
    BY <1>2, WakingIs
  <2> QED BY <1>2, <1>4, <2>1 DEF BridgeIInv, OlderSame, OlderOf
<1>5. ASSUME NEW j \in Waking \ {i}, NEW k \in Waking \ {i}, SameLine(i, j), SameLine(i, k) PROVE j = k
  <2>1. older[j] = {} /\ older[k] = {} /\ SameLine(j, k)
    BY <1>2, <1>5, WakingIs DEF SameLine
  <2> QED BY <1>2, <2>1 DEF BridgeIInv, OlderSame, OlderOf
<1>6. \A j \in older[i] : j # i /\ SameLine(i, j)
  BY DEF BridgeIInv, OlderSame, OlderOf
<1>7. CASE WakeupVld(i)
  <2>1. PICK j \in Waking \ {i} : SameLine(i, j)
    BY <1>3, <1>7
  <2>2. older[i] \ Waking = older[i] \ {j} /\ j \in older[i]
    BY <2>1, <1>4, <1>5, <1>6
  <2>3. IsFiniteSet(older[i] \ {j}) /\ Cardinality(older[i] \ {j}) = Cardinality(older[i]) - 1
    BY <1>1, <2>2, FS_RemoveElement
  <2>4. Cardinality(older[i]) \in Nat
    BY <1>1, FS_CardinalityType
  <2>5. Cardinality(older[i] \ {j}) + 1 = Cardinality(older[i])
    BY <2>3, <2>4
  <2>6. (IF WakeupVld(i) THEN 1 ELSE 0) = 1
    BY <1>7
  <2> QED BY <2>2, <2>3, <2>5, <2>6
<1>8. CASE ~WakeupVld(i)
  <2>1. older[i] \ Waking = older[i]
    BY <1>3, <1>6, <1>8
  <2>2. Cardinality(older[i]) \in Nat
    BY <1>1, FS_CardinalityType
  <2>3. (IF WakeupVld(i) THEN 1 ELSE 0) = 0
    BY <1>8
  <2>4. Cardinality(older[i]) + 0 = Cardinality(older[i])
    BY <2>2
  <2> QED BY <1>1, <2>1, <2>3, <2>4
<1> QED BY <1>7, <1>8

-----------------------------------------------------------------------------
(* What an edge ticks off.                                                 *)

Cancels(i, in) == sn /\ GotData(i, in) /\ in.data[1].op = "cancel"

LEMMA AxiIs ==
  ASSUME BridgeIInv, NEW in, Edge(in), NEW i \in CMs, Stays(i)
  PROVE  /\ cms'[i].axi \subseteq cms[i].axi
         /\ "aw" \in cms'[i].axi <=> "aw" \in cms[i].axi /\ ~Fires("aw", i, in) /\ ~Cancels(i, in)
         /\ "ar" \in cms'[i].axi <=> "ar" \in cms[i].axi /\ ~Fires("ar", i, in)
         /\ "w" \in cms'[i].axi <=> "w" \in cms[i].axi /\ i \notin WFires(in) /\ ~Cancels(i, in)
         /\ "b" \in cms'[i].axi <=> "b" \in cms[i].axi /\ in.b # <<i>> /\ ~Cancels(i, in)
         /\ "r" \in cms'[i].axi <=> "r" \in cms[i].axi /\ in.r # <<i>>
<1>1. cms'[i].axi = NextAxi(i, in)
  BY StaysIs
<1>2. \A x : x \in NextAxi(i, in) <=>
        /\ x \in cms[i].axi
        /\ ~(Fires("aw", i, in) /\ x = "aw") /\ ~(Fires("ar", i, in) /\ x = "ar")
        /\ ~(i \in WFires(in) /\ x = "w") /\ ~(in.b = <<i>> /\ x = "b") /\ ~(in.r = <<i>> /\ x = "r")
        /\ ~(Cancels(i, in) /\ x \in {"aw", "w", "b"})
  BY DEF NextAxi, Cancels
<1> QED BY <1>1, <1>2

LEMMA OwesIs ==
  ASSUME BridgeIInv, NEW in, Edge(in), NEW i \in CMs, Stays(i)
  PROVE  /\ cms'[i].owes \subseteq cms[i].owes
         /\ \A u \in {"dbid", "comp", "receipt"} :
              u \in cms'[i].owes <=> u \in cms[i].owes /\ ~(Fires("rsp", i, in) /\ u \in RspItems(cms[i]))
         /\ "wdata" \in cms'[i].owes <=> "wdata" \in cms[i].owes /\ ~GotData(i, in)
         /\ "rdata" \in cms'[i].owes <=> "rdata" \in cms[i].owes /\ in.r # <<i>>
<1>1. RspItems(cms[i]) \subseteq {"dbid", "comp", "receipt"}
  BY DEF RspItems
<1>2. cms'[i].owes = NextOwes(i, in)
  BY StaysIs
<1>3. \A x : x \in NextOwes(i, in) <=>
        /\ x \in cms[i].owes
        /\ ~(Fires("rsp", i, in) /\ x \in RspItems(cms[i]))
        /\ ~(GotData(i, in) /\ x = "wdata") /\ ~(in.r = <<i>> /\ x = "rdata")
        /\ ~(Acked(i, in) /\ x = "ack")
  BY DEF NextOwes
<1> QED BY <1>1, <1>2, <1>3

\* What the surroundings did was due.
LEMMA WasDue ==
  ASSUME BridgeIInv, NEW in, Edge(in), NEW i \in CMs
  PROVE  /\ Fires("aw", i, in) => AsksAw(cms[i])
         /\ Fires("ar", i, in) => AsksAr(cms[i])
         /\ i \in WFires(in) => AsksW(cms[i]) /\ awq # <<>> /\ i = Head(awq)
         /\ GotData(i, in) => "wdata" \in cms[i].owes /\ "dbid" \notin cms[i].owes
         /\ in.b = <<i>> => "b" \in cms[i].axi /\ cms[i].axi \cap {"aw", "w"} = {}
         /\ in.r = <<i>> => "r" \in cms[i].axi /\ "ar" \notin cms[i].axi
         /\ i \in AllocResp(in) => allocq # <<>> /\ i = Head(allocq) /\ i \in Range(allocq)
<1>1. (Fires("aw", i, in) => AsksAw(cms[i])) /\ (Fires("ar", i, in) => AsksAr(cms[i]))
  BY DEF Fires, Asks
<1>2. i \in WFires(in) => AsksW(cms[i]) /\ awq # <<>> /\ i = Head(awq)
  BY DEF WFires, WSel
<1>3. GotData(i, in) => "wdata" \in cms[i].owes /\ "dbid" \notin cms[i].owes
  <2> SUFFICES ASSUME GotData(i, in) PROVE i \in DataDue
    BY DEF DataDue
  <2>1. in.data # <<>> /\ in.data \in Opt(Datas) /\ in.data[1].cm = i
    BY DEF GotData, Edge, Took
  <2>2. in.data[1] \in Datas
    BY <2>1 DEF Opt
  <2>3. in.data[1] \in [cm : DataDue, op : DataOp[sn]]
    BY <2>2 DEF Datas
  <2> QED BY <2>1, <2>3
<1>4. in.b = <<i>> => i \in BDue
  <2>1. in.b \in Opt(BDue)
    BY DEF Edge, Took
  <2>2. \A x : <<x>> # <<>> /\ <<x>>[1] = x
    OBVIOUS
  <2> QED BY <2>1, <2>2 DEF Opt
<1>5. in.r = <<i>> => i \in RDue
  <2>1. in.r \in Opt(RDue)
    BY DEF Edge, Took
  <2>2. \A x : <<x>> # <<>> /\ <<x>>[1] = x
    OBVIOUS
  <2> QED BY <2>1, <2>2 DEF Opt
<1>6. i \in AllocResp(in) => allocq # <<>> /\ i = Head(allocq)
  BY DEF AllocResp
<1>7. allocq # <<>> => Head(allocq) \in Range(allocq)
  BY TailRange DEF BridgeIInv, BridgeTypes, AllocExact
<1> QED BY <1>1, <1>2, <1>3, <1>4, <1>5, <1>6, <1>7 DEF BDue, RDue

\* A machine that waits for an older one has not begun on AXI.
LEMMA WaitsUntouched ==
  ASSUME BridgeIInv, NEW in, Edge(in), NEW i \in CMs, older[i] # {}, Stays(i)
  PROVE  cms'[i].axi = cms[i].axi /\ (sn /\ ReqOf(i).wr => cms'[i].buf = FALSE)
<1>1. /\ cms[i].axi = AxiOf(ReqOf(i)) /\ (sn /\ ReqOf(i).wr => ~cms[i].buf)
      /\ Entered(i) /\ cms[i].waiting # 0
  BY Waits DEF BridgeIInv, OlderSame, OlderOf
<1>2. ReqOf(i).wr \in BOOLEAN /\ cms[i].owes \subseteq OwesOf(ReqOf(i))
  BY <1>1, CmType DEF Entered
<1>3. ~Fires("aw", i, in) /\ ~Fires("ar", i, in) /\ i \notin WFires(in)
  BY <1>1, WasDue DEF AsksAw, AsksAr, AsksW
<1>4. in.b # <<i>> /\ in.r # <<i>>
  BY <1>1, <1>2, WasDue DEF AxiOf
<1>5. ~Cancels(i, in)
  <2> SUFFICES ASSUME Cancels(i, in) PROVE FALSE
    OBVIOUS
  <2>1. sn /\ "wdata" \in cms[i].owes /\ "dbid" \notin cms[i].owes
    BY WasDue DEF Cancels
  <2>2. ReqOf(i).wr
    BY <2>1, <1>2 DEF OwesOf
  <2> QED BY <1>1, <2>1, <2>2, NoPlace DEF Entered
<1>6. cms'[i].axi = cms[i].axi
  <2>1. cms[i].axi \subseteq {"aw", "w", "b", "ar", "r"}
    BY <1>1 DEF AxiOf
  <2> QED BY <2>1, <1>3, <1>4, <1>5, AxiIs
<1>7. sn /\ ReqOf(i).wr => cms'[i].buf = FALSE
  <2>1. i \in Range(allocq) => older[i] = {}
    BY DEF BridgeIInv, AllocExact
  <2>2. i \notin AllocResp(in)
    BY <2>1, WasDue
  <2> QED BY <1>1, <2>2, StaysIs, CmType
<1> QED BY <1>6, <1>7
-----------------------------------------------------------------------------
(* The parts of the invariant, one by one, over an edge.                   *)

LEMMA ShapeStep ==
  ASSUME BridgeIInv, NEW in, Edge(in), NEW i \in CMs
  PROVE  ShapeOf(i)'
<1>1. CASE Comes(i, in)
  <2>1. kOutst - 1 # 0
    BY Params
  <2>2. /\ cms'[i].valid = TRUE /\ cms'[i].info # <<>> /\ i < kOutst /\ kOutst' = kOutst
        /\ cms'[i].owes = OwesOf(in.req[1]) /\ cms'[i].axi = AxiOf(in.req[1])
        /\ cms'[i].waiting = kOutst - 1 /\ ReqOf(i)' = in.req[1]
    BY <1>1, ComesIs, Kept
  <2>3. OwesOf(ReqOf(i))' = OwesOf(in.req[1]) /\ AxiOf(ReqOf(i))' = AxiOf(in.req[1])
    BY <2>2 DEF OwesOf, AxiOf
  <2> QED BY <2>1, <2>2, <2>3 DEF ShapeOf
<1>2. CASE Stays(i)
  <2>1. /\ cms'[i].valid = TRUE /\ cms'[i].info = cms[i].info /\ cms'[i].wset = FALSE
        /\ ReqOf(i)' = ReqOf(i) /\ kOutst' = kOutst /\ cms[i].valid
        /\ cms'[i].owes \subseteq cms[i].owes /\ cms'[i].axi \subseteq cms[i].axi
    BY <1>2, StaysIs, Kept, AxiIs, OwesIs
  <2>2. ShapeOf(i)
    BY DEF BridgeIInv, Shape
  <2>3. OwesOf(ReqOf(i))' = OwesOf(ReqOf(i)) /\ AxiOf(ReqOf(i))' = AxiOf(ReqOf(i))
    BY <2>1 DEF OwesOf, AxiOf
  <2> QED BY <2>1, <2>2, <2>3 DEF ShapeOf
<1>3. CASE ~Stays(i) /\ ~Comes(i, in)
  <2>1. /\ cms'[i] = [Idle EXCEPT !.wk = WakeupVld(i)] /\ cms'[i].wk = WakeupVld(i)
        /\ cms'[i].valid = FALSE
    BY <1>3, GoesIs
  <2>2. cms'[i] = [Idle EXCEPT !.wk = cms'[i].wk]
    BY <2>1
  <2>3. ([Idle EXCEPT !.wk = cms[i].wk])' = [Idle EXCEPT !.wk = cms'[i].wk]
    BY DEF Idle
  <2> QED BY <2>1, <2>2, <2>3 DEF ShapeOf
<1> QED BY <1>1, <1>2, <1>3

LEMMA PhaseStep ==
  ASSUME BridgeIInv, NEW in, Edge(in), NEW i \in CMs, cms'[i].valid
  PROVE  PhaseOf(i)'
<1>1. CASE Comes(i, in)
  <2> DEFINE rq == in.req[1]
  <2>1. /\ cms'[i].owes = OwesOf(rq) /\ cms'[i].axi = AxiOf(rq) /\ cms'[i].snooped = TRUE
        /\ cms'[i].buf = ~rq.wr /\ rq.wr \in BOOLEAN /\ ReqOf(i)' = rq
    BY <1>1, ComesIs
  <2>2. AxiOf(ReqOf(i))' = AxiOf(rq)
    BY <2>1 DEF AxiOf
  <2>3. "rdata" \in OwesOf(rq) <=> "r" \in AxiOf(rq)
    BY DEF OwesOf, AxiOf
  <2>4. /\ "aw" \in AxiOf(rq) => "w" \in AxiOf(rq)
        /\ "w" \in AxiOf(rq) => "b" \in AxiOf(rq)
        /\ "ar" \in AxiOf(rq) => "r" \in AxiOf(rq)
        /\ "dbid" \in OwesOf(rq) => "wdata" \in OwesOf(rq)
        /\ rq.wr => "dbid" \in OwesOf(rq)
    BY DEF OwesOf, AxiOf
  <2> HIDE DEF rq
  <2> QED BY <2>1, <2>2, <2>3, <2>4 DEF PhaseOf
<1>2. CASE Stays(i)
  <2>1. PhaseOf(i) /\ cms[i].valid
    BY <1>2, StaysIs DEF BridgeIInv, PhasesOK
  <2>2. /\ cms[i].axi \subseteq AxiOf(ReqOf(i)) /\ cms[i].owes \subseteq OwesOf(ReqOf(i))
        /\ ReqOf(i).wr \in BOOLEAN /\ cms[i].snooped \in BOOLEAN /\ cms[i].buf \in BOOLEAN
    BY <2>1, CmType
  <2>3. /\ ReqOf(i)' = ReqOf(i) /\ sn' = sn
        /\ cms'[i].snooped = (cms[i].snooped /\ ~WakeupOut(cms[i]))
        /\ cms'[i].buf = (cms[i].buf \/ i \in AllocResp(in))
    BY <1>2, StaysIs, Kept
  <2>4. AxiOf(ReqOf(i))' = AxiOf(ReqOf(i))
    BY <2>3 DEF AxiOf
  <2>5. "aw" \in cms'[i].axi => "w" \in cms'[i].axi
    BY <1>2, <2>1, AxiIs, WasDue DEF PhaseOf, AsksW
  <2>6. "w" \in cms'[i].axi => "b" \in cms'[i].axi
    BY <1>2, <2>1, AxiIs, WasDue DEF PhaseOf
  <2>7. "ar" \in cms'[i].axi => "r" \in cms'[i].axi
    BY <1>2, <2>1, AxiIs, WasDue DEF PhaseOf
  <2>8. ~cms'[i].snooped => cms'[i].axi = {}
    <3>1. cms[i].snooped /\ WakeupOut(cms[i]) => cms[i].axi = {}
      BY WakingIs
    <3> QED BY <1>2, <2>1, <2>2, <2>3, <3>1, AxiIs DEF PhaseOf
  <2>9. "wdata" \in cms'[i].owes => cms'[i].axi = AxiOf(ReqOf(i))
    <3> SUFFICES ASSUME "wdata" \in cms'[i].owes PROVE cms'[i].axi = AxiOf(ReqOf(i))
      OBVIOUS
    <3>1. "wdata" \in cms[i].owes /\ ~GotData(i, in) /\ cms[i].axi = AxiOf(ReqOf(i))
      BY <1>2, <2>1, OwesIs DEF PhaseOf
    <3>2. ReqOf(i).wr
      BY <2>2, <3>1 DEF OwesOf
    <3>3. cms[i].axi = {"aw", "w", "b"}
      BY <3>1, <3>2 DEF AxiOf
    <3>4. /\ ~Fires("aw", i, in) /\ ~Fires("ar", i, in) /\ i \notin WFires(in) /\ in.b # <<i>>
          /\ ~Cancels(i, in)
      BY <3>1, <3>3, WasDue DEF AsksAw, AsksAr, AsksW, Cancels
    <3>5. cms'[i].axi = {"aw", "w", "b"}
      BY <1>2, <3>3, <3>4, AxiIs
    <3> QED BY <3>1, <3>3, <3>5
  <2>10. "dbid" \in cms'[i].owes => "wdata" \in cms'[i].owes
    BY <1>2, <2>1, OwesIs, WasDue DEF PhaseOf
  <2>11. "rdata" \in cms'[i].owes <=> "r" \in cms'[i].axi
    BY <1>2, <2>1, OwesIs, AxiIs DEF PhaseOf
  <2>12. sn /\ ~cms'[i].buf => ReqOf(i).wr /\ "dbid" \in cms'[i].owes
    <3> SUFFICES ASSUME sn, ~cms'[i].buf PROVE ReqOf(i).wr /\ "dbid" \in cms'[i].owes
      OBVIOUS
    <3>1. ~cms[i].buf /\ ReqOf(i).wr /\ "dbid" \in cms[i].owes
      BY <2>1, <2>2, <2>3 DEF PhaseOf
    <3>2. "dbid" \notin RspItems(cms[i])
      BY <3>1 DEF RspItems, Base
    <3> QED BY <1>2, <3>1, <3>2, OwesIs
  <2> QED BY <2>3, <2>4, <2>5, <2>6, <2>7, <2>8, <2>9, <2>10, <2>11, <2>12 DEF PhaseOf
<1>3. CASE ~Stays(i) /\ ~Comes(i, in)
  BY <1>3, GoesIs
<1> QED BY <1>1, <1>2, <1>3
LEMMA OlderIs ==
  ASSUME BridgeIInv, NEW in, Edge(in), NEW i \in CMs
  PROVE  /\ Comes(i, in) => older'[i] = {j \in CMs : Entered(j) /\ ReqOf(j).tag = in.req[1].tag} \ Waking
         /\ ~Comes(i, in) => older'[i] = older[i] \ Waking
<1>1. older'[i] = (IF i \in ReqFire(in) THEN ToWake(in.req[1].tag) ELSE older[i]) \ Waking
  BY DEF Edge, BridgeTick
<1>2. ToWake(in.req[1].tag) = {j \in CMs : Entered(j) /\ ReqOf(j).tag = in.req[1].tag}
  BY DEF ToWake, Entered, ReqOf
<1> QED BY <1>1, <1>2 DEF Comes

LEMMA OlderStep ==
  ASSUME BridgeIInv, NEW in, Edge(in), NEW i \in CMs
  PROVE  OlderOf(i)'
<1>1. OlderOf(i) /\ older[i] \subseteq CMs /\ older'[i] \subseteq CMs
  <2>1. OlderOf(i) /\ older[i] \subseteq CMs
    BY DEF BridgeIInv, OlderSame, BridgeTypes
  <2> QED BY <2>1, OlderIs
<1>2. ~Entered(i)' => older'[i] = {}
  <2> SUFFICES ASSUME ~Entered(i)' PROVE older'[i] = {}
    OBVIOUS
  <2>1. ~Comes(i, in) /\ (~Entered(i) \/ i \in Waking)
    BY LiveNext
  <2>2. older[i] = {}
    BY <2>1, <1>1, WakingIs DEF OlderOf
  <2> QED BY <2>1, <2>2, OlderIs
<1>3. ASSUME NEW j \in older'[i] PROVE j # i /\ Entered(j)' /\ SameLine(i, j)'
  <2>1. j \in CMs /\ j \notin Waking
    BY <1>1, OlderIs
  <2>2. CASE Comes(i, in)
    <3>3. ~Entered(i)
      BY <2>2, ComesIs DEF Entered
    <3>1. Entered(j) /\ ReqOf(j).tag = in.req[1].tag /\ ~Entered(i)
      BY <2>2, <3>3, OlderIs
    <3>2. Entered(j)' /\ ReqOf(j)' = ReqOf(j) /\ ReqOf(i)' = in.req[1]
      BY <2>1, <2>2, <3>1, LiveNext, ComesIs
    <3> QED BY <3>1, <3>2 DEF SameLine
  <2>3. CASE ~Comes(i, in)
    <3>1. j \in older[i]
      BY <2>3, OlderIs
    <3>2. j # i /\ Entered(j) /\ SameLine(i, j) /\ Entered(i) /\ i \notin Waking
      BY <3>1, <1>1, Waits, WakingIs DEF OlderOf
    <3>3. Entered(j)' /\ ReqOf(j)' = ReqOf(j) /\ ReqOf(i)' = ReqOf(i)
      BY <2>1, <3>2, LiveNext
    <3> QED BY <3>2, <3>3 DEF SameLine
  <2> QED BY <2>2, <2>3
<1>4. older'[i] # {} => cms'[i].axi = AxiOf(ReqOf(i))' /\ ((sn /\ ReqOf(i).wr)' => ~cms'[i].buf)
  <2>1. CASE Comes(i, in)
    <3>1. /\ ReqOf(i)' = in.req[1] /\ cms'[i].axi = AxiOf(in.req[1]) /\ cms'[i].buf = ~in.req[1].wr
          /\ in.req[1].wr \in BOOLEAN
      BY <2>1, ComesIs
    <3>2. AxiOf(ReqOf(i))' = AxiOf(in.req[1])
      BY <3>1 DEF AxiOf
    <3> QED BY <3>1, <3>2
  <2>2. CASE ~Comes(i, in) /\ older[i] # {}
    <3>1. Entered(i) /\ i \notin Waking /\ Stays(i) /\ ReqOf(i)' = ReqOf(i) /\ sn' = sn
      BY <2>2, Waits, WakingIs, LiveNext, Kept
    <3>2. cms[i].axi = AxiOf(ReqOf(i))
      BY <2>2, <1>1 DEF OlderOf
    <3>3. AxiOf(ReqOf(i))' = AxiOf(ReqOf(i))
      BY <3>1 DEF AxiOf
    <3> QED BY <2>2, <3>1, <3>2, <3>3, WaitsUntouched
  <2>3. CASE ~Comes(i, in) /\ older[i] = {}
    BY <2>3, OlderIs
  <2> QED BY <2>1, <2>2, <2>3
<1>5. ASSUME NEW j \in CMs \ {i}, Entered(i)', Entered(j)', SameLine(i, j)'
      PROVE  i \in older'[j] \/ j \in older'[i]
  <2>1. CASE Comes(i, in)
    <3>1. Entered(j) /\ j \notin Waking /\ ReqOf(j)' = ReqOf(j) /\ ReqOf(i)' = in.req[1]
      BY <2>1, <1>5, ComesIs, LiveNext, ZenonT(30)
    <3>2. ReqOf(j).tag = in.req[1].tag
      BY <1>5, <3>1 DEF SameLine
    <3> QED BY <2>1, <3>1, <3>2, OlderIs
  <2>2. CASE Comes(j, in)
    <3>1. Entered(i) /\ i \notin Waking /\ ReqOf(i)' = ReqOf(i) /\ ReqOf(j)' = in.req[1]
      BY <2>2, <1>5, ComesIs, LiveNext
    <3>2. ReqOf(i).tag = in.req[1].tag
      BY <1>5, <3>1 DEF SameLine
    <3> QED BY <2>2, <3>1, <3>2, OlderIs
  <2>3. CASE ~Comes(i, in) /\ ~Comes(j, in)
    <3>1. /\ Entered(i) /\ i \notin Waking /\ ReqOf(i)' = ReqOf(i)
          /\ Entered(j) /\ j \notin Waking /\ ReqOf(j)' = ReqOf(j)
      BY <2>3, <1>5, LiveNext
    <3>2. SameLine(i, j)
      BY <1>5, <3>1 DEF SameLine
    <3>3. i \in older[j] \/ j \in older[i]
      BY <1>1, <3>1, <3>2 DEF OlderOf
    <3> QED BY <2>3, <3>1, <3>3, OlderIs
  <2> QED BY <2>1, <2>2, <2>3
<1> QED BY <1>2, <1>3, <1>4, <1>5 DEF OlderOf

LEMMA WaitsStep ==
  ASSUME BridgeIInv, NEW in, Edge(in), NEW i \in CMs, Entered(i)'
  PROVE  IF cms'[i].wset THEN tagm' = older'[i] /\ ~cms'[i].wk
         ELSE cms'[i].waiting = Cardinality(older'[i]) + IF cms'[i].wk THEN 1 ELSE 0
<1>1. CASE Comes(i, in)
  <2>1. cms'[i].wset = TRUE /\ cms'[i].wk = FALSE /\ ReqFire(in) = {i}
    BY <1>1, ComesIs
  <2>2. tagm' = TagMatch(in.req[1])
    BY <2>1 DEF Edge, BridgeTick
  <2>3. TagMatch(in.req[1]) = {j \in CMs : Entered(j) /\ ReqOf(j).tag = in.req[1].tag} \ Waking
    BY DEF TagMatch, Waking, Entered, ReqOf
  <2> QED BY <1>1, <2>1, <2>2, <2>3, OlderIs
<1>2. CASE ~Comes(i, in)
  <2>1. Entered(i) /\ i \notin Waking /\ Stays(i)
    BY <1>2, LiveNext
  <2>2. /\ cms'[i].wset = FALSE /\ cms'[i].wk = WakeupVld(i)
        /\ cms'[i].waiting = NextWaiting(i, in) /\ older'[i] = older[i] \ Waking
    BY <1>2, <2>1, StaysIs, OlderIs
  <2>3. Cardinality(older[i]) = Cardinality(older'[i]) + (IF cms'[i].wk THEN 1 ELSE 0)
    BY <2>1, <2>2, OneWakes
  <2>4. Cardinality(older[i]) \in Nat
    <3>1. older[i] \in SUBSET CMs
      BY DEF BridgeIInv, BridgeTypes
    <3> QED BY <3>1, Params, FS_Subset, FS_CardinalityType
  <2>5. /\ cms[i].wset => tagm = older[i]
        /\ ~cms[i].wset => cms[i].waiting = Cardinality(older[i]) + IF cms[i].wk THEN 1 ELSE 0
    BY <2>1 DEF BridgeIInv, WaitCountsOlder, Entered
  <2>6. NextWaiting(i, in) = Cardinality(older[i])
    <3>1. CASE cms[i].wset
      BY <2>5, <3>1 DEF NextWaiting
    <3>2. CASE ~cms[i].wset /\ cms[i].wk
      <4>1. cms[i].waiting = Cardinality(older[i]) + 1
        BY <2>5, <3>2
      <4>2. cms[i].waiting # 0 /\ cms[i].waiting - 1 = Cardinality(older[i])
        BY <2>4, <4>1
      <4> QED BY <3>2, <4>2 DEF NextWaiting, Dec
    <3>3. CASE ~cms[i].wset /\ ~cms[i].wk
      <4>1. cms[i].waiting = Cardinality(older[i])
        BY <2>4, <2>5, <3>3
      <4> QED BY <3>3, <4>1 DEF NextWaiting
    <3> QED BY <3>1, <3>2, <3>3
  <2> QED BY <2>2, <2>3, <2>6
<1> QED BY <1>1, <1>2

\* Who asked and was not granted asks again.
LEMMA StaleStep ==
  ASSUME BridgeIInv, NEW in, Edge(in), NEW ch \in Chans
  PROVE  sel'[ch] \subseteq Asks(ch)'
<1>1. ASSUME NEW i \in sel'[ch] PROVE i \in CMs /\ i \in Asks(ch) /\ in.grant[ch] # <<i>>
  <2>1. sel'[ch] = NextSel(ch, in.grant[ch])
    BY DEF Edge, BridgeTick
  <2>2. Asks(ch) # {}
    <3>1. sel[ch] \subseteq Asks(ch)
      BY DEF BridgeIInv, NoStaleGrant
    <3> QED BY <1>1, <2>1, <3>1 DEF NextSel
  <2>3. i \in BestOf({j \in Asks(ch) : in.grant[ch] # <<j>>})
    BY <1>1, <2>1, <2>2 DEF NextSel
  <2>4. i \in {j \in Asks(ch) : in.grant[ch] # <<j>>}
    BY <2>3 DEF BestOf
  <2> QED BY <2>4 DEF Asks
<1>2. ASSUME NEW i \in CMs, i \in Asks(ch), in.grant[ch] # <<i>> PROVE i \in Asks(ch)'
  <2>1. ~Fires(ch, i, in) /\ cms[i].valid /\ sn' = sn
    BY <1>2, Kept DEF Fires, Asks
  <2>2. ASSUME Stays(i), cms[i].waiting = 0, ~cms[i].wset, ~cms[i].wk
        PROVE  cms'[i].waiting = 0
    BY <2>2, StaysIs DEF NextWaiting
  <2>3. CASE ch = "rsp"
    <3>1. RspItems(cms[i]) # {}
      BY <1>2, <2>3 DEF Asks
    <3>2. cms[i].owes \cap {"dbid", "comp", "receipt"} # {}
      BY <3>1 DEF RspItems
    <3>3. Stays(i)
      <4>1. ~UpDone(cms[i])
        BY <3>2 DEF UpDone
      <4> QED BY <2>1, <4>1 DEF Stays, AllDone
    <3>4. /\ \A u \in {"dbid", "comp", "receipt"} : u \in cms'[i].owes <=> u \in cms[i].owes
          /\ cms'[i].owes \subseteq cms[i].owes /\ cms'[i].axi \subseteq cms[i].axi
      BY <2>1, <2>3, <3>3, OwesIs, AxiIs
    <3>5. cms'[i].valid /\ cms'[i].info = cms[i].info /\ (cms[i].buf => cms'[i].buf)
      BY <3>3, StaysIs
    <3>6. (Base(cms[i]) => Base(cms[i])') /\ (AllowComp(cms[i]) => AllowComp(cms[i])')
      BY <2>1, <3>4, <3>5 DEF Base, AllowComp
    <3>7. RspItems(cms[i])' # {}
      <4>1. \/ "receipt" \in cms[i].owes
            \/ "dbid" \in cms[i].owes /\ Base(cms[i])
            \/ "comp" \in cms[i].owes /\ Base(cms[i]) /\ AllowComp(cms[i])
        BY <3>1 DEF RspItems
      <4>2. \/ "receipt" \in cms'[i].owes
            \/ "dbid" \in cms'[i].owes /\ Base(cms[i])'
            \/ "comp" \in cms'[i].owes /\ Base(cms[i])' /\ AllowComp(cms[i])'
        BY <3>4, <3>6, <4>1
      <4> QED BY <4>2 DEF RspItems
    <3> QED BY <2>3, <3>5, <3>7 DEF Asks
  <2>4. CASE ch = "aw"
    <3>1. /\ "aw" \in cms[i].axi /\ "wdata" \notin cms[i].owes /\ cms[i].waiting = 0
          /\ Stays(i) /\ ~cms[i].wset /\ ~cms[i].wk
      BY <1>2, <2>4, MayAsk DEF AsksAw
    <3>2. ~Cancels(i, in)
      BY <3>1, WasDue DEF Cancels
    <3>3. "aw" \in cms'[i].axi /\ "wdata" \notin cms'[i].owes /\ cms'[i].waiting = 0 /\ cms'[i].valid
      BY <2>1, <2>2, <2>4, <3>1, <3>2, AxiIs, OwesIs, StaysIs
    <3> QED BY <2>4, <3>3 DEF Asks, AsksAw
  <2>5. CASE ch = "ar"
    <3>1. "ar" \in cms[i].axi /\ cms[i].waiting = 0 /\ Stays(i) /\ ~cms[i].wset /\ ~cms[i].wk
      BY <1>2, <2>5, MayAsk DEF AsksAr
    <3>2. "ar" \in cms'[i].axi /\ cms'[i].waiting = 0 /\ cms'[i].valid
      BY <2>1, <2>2, <2>5, <3>1, AxiIs, StaysIs
    <3> QED BY <2>5, <3>2 DEF Asks, AsksAr
  <2>6. CASE ch = "alloc"
    <3>1. /\ sn /\ ~cms[i].issued /\ ~cms[i].buf /\ cms[i].waiting = 0
          /\ Stays(i) /\ ~cms[i].wset /\ ~cms[i].wk
      BY <1>2, <2>6, MayAsk DEF AsksAlloc
    <3>2. i \notin AllocResp(in)
      <4>1. i \in Range(allocq) => cms[i].issued
        BY DEF BridgeIInv, AllocExact, Asking
      <4> QED BY <3>1, <4>1, WasDue
    <3>3. ~cms'[i].issued /\ ~cms'[i].buf /\ cms'[i].waiting = 0 /\ cms'[i].valid
      BY <2>1, <2>2, <2>6, <3>1, <3>2, StaysIs
    <3> QED BY <2>1, <2>6, <3>1, <3>3 DEF Asks, AsksAlloc
  <2> QED BY <2>3, <2>4, <2>5, <2>6 DEF Chans
<1> QED BY <1>1, <1>2

LEMMA AllocStep ==
  ASSUME BridgeIInv, NEW in, Edge(in)
  PROVE  /\ allocq' \in Seq(CMs) /\ Len(allocq') <= 2
         /\ AllocExact'
<1> DEFINE enq == in.grant["alloc"]
           first == HeadOf(allocq, in.allocRdy)
<1>1. /\ allocq \in Seq(CMs) /\ Len(allocq) <= 2 /\ IsInjective(allocq)
      /\ Range(allocq) = {i \in CMs : Asking(i)} /\ \A i \in CMs : Asking(i) => older[i] = {}
      /\ sel["alloc"] \subseteq Asks("alloc") /\ Asks("alloc") \subseteq CMs
  <2>1. "alloc" \in Chans
    BY DEF Chans
  <2> QED BY <2>1 DEF BridgeIInv, BridgeTypes, AllocExact, NoStaleGrant, Asks
<1>2. enq # <<>> => Len(allocq) < 2 /\ \E i \in Asks("alloc") : enq = <<i>>
  <2>1. enq \in AllocGrants
    BY DEF Edge, Took
  <2> QED BY <1>1, <2>1 DEF AllocGrants
<1>3. ASSUME NEW i \in CMs, enq = <<i>>
      PROVE  /\ i \in Asks("alloc") /\ Fires("alloc", i, in) /\ i \notin Range(allocq)
             /\ sn /\ ~cms[i].issued /\ ~cms[i].buf /\ Stays(i) /\ older[i] = {}
  <2>1. PICK j \in Asks("alloc") : enq = <<j>>
    <3>1. enq # <<>>
      BY <1>3
    <3> QED BY <3>1, <1>2
  <2>2. i = j
    BY <1>3, <2>1
  <2>3. i \in Asks("alloc") /\ Fires("alloc", i, in)
    BY <1>3, <2>1, <2>2 DEF Fires
  <2>4. AsksAlloc(cms[i]) /\ Stays(i) /\ older[i] = {}
    BY <2>3, MayAsk
  <2> QED BY <1>1, <2>3, <2>4 DEF AsksAlloc, Asking
<1>4. enq \in Opt(CMs) /\ Range(enq) \cap Range(allocq) = {}
  <2>1. CASE enq = <<>>
    BY <2>1, EmptyRange DEF Opt
  <2>2. CASE enq # <<>>
    <3>1. PICK i \in Asks("alloc") : enq = <<i>>
      BY <1>2, <2>2
    <3>2. i \in CMs
      BY <1>1
    <3> QED BY <1>3, <3>1, <3>2, OneRange
  <2> QED BY <2>1, <2>2
<1>5. /\ allocq' \in Seq(CMs) /\ Len(allocq') <= 2 /\ IsInjective(allocq')
      /\ Range(allocq') = (Range(allocq) \ first) \cup Range(enq)
  <2>1. allocq' = QNext(AllocQ, allocq, enq, in.allocRdy) /\ in.allocRdy \in BOOLEAN
    BY DEF Edge, BridgeTick, Took
  <2>2. AllocQ.n = 2 /\ AllocQ.flow = FALSE /\ AllocQ.pipe = FALSE /\ 2 \in Nat \ {0}
    BY DEF AllocQ
  <2> HIDE DEF enq
  <2>3. /\ AllocQ.n \in Nat \ {0} /\ Len(allocq) <= AllocQ.n
        /\ enq # <<>> => Len(allocq) < AllocQ.n
    BY <2>2, <1>1, <1>2
  <2>4. Moved(CMs, AllocQ, allocq, enq, in.allocRdy, allocq')
    <3> HIDE DEF AllocQ
    <3>1. allocq \in Seq(CMs) /\ IsInjective(allocq)
      BY <1>1
    <3> QED BY <2>1, <2>2, <2>3, <3>1, <1>4, QueueSet
  <2> QED BY <2>2, <2>4 DEF Moved, first
<1>6. ASSUME NEW i \in CMs PROVE (i \in Range(enq) <=> enq = <<i>>) /\ (i \in AllocResp(in) <=> i \in first)
  <2>1. i \in Range(enq) <=> enq = <<i>>
    <3>1. CASE enq = <<>>
      <4>1. <<>> # <<i>>
        OBVIOUS
      <4> QED BY <4>1, <3>1, EmptyRange
    <3>2. CASE enq # <<>>
      <4>1. PICK j \in CMs : enq = <<j>>
        BY <3>2, <1>4 DEF Opt
      <4>2. Range(enq) = {j}
        BY <4>1, OneRange
      <4>3. <<j>> = <<i>> <=> i = j
        OBVIOUS
      <4> QED BY <4>1, <4>2, <4>3
    <3> QED BY <3>1, <3>2
  <2> QED BY <2>1 DEF AllocResp, HeadOf
<1> HIDE DEF enq, first
<1>7. ASSUME NEW i \in CMs
      PROVE /\ Asking(i)' <=> (Asking(i) /\ i \notin first) \/ enq = <<i>>
            /\ Asking(i)' => older'[i] = {}
  <2>1. enq = <<i>> => i \notin first
    <3>1. first \subseteq Range(allocq)
      BY <1>1, TailRange DEF first, HeadOf
    <3> QED BY <3>1, <1>3
  <2>2. Fires("alloc", i, in) <=> enq = <<i>>
    BY <1>3 DEF Fires, enq
  <2>3. CASE Comes(i, in)
    <3>1. ~Asking(i)' /\ ~Asking(i)
      BY <2>3, ComesIs DEF Asking
    <3>2. enq # <<i>>
      BY <2>3, <1>3, ComesIs
    <3> QED BY <3>1, <3>2
  <2>4. CASE Stays(i)
    <3>1. /\ cms'[i].valid = TRUE /\ sn' = sn /\ cms[i].valid
          /\ cms'[i].issued = (cms[i].issued \/ enq = <<i>>)
          /\ cms'[i].buf = (cms[i].buf \/ i \in first)
          /\ cms[i].issued \in BOOLEAN /\ cms[i].buf \in BOOLEAN
          /\ older'[i] = older[i] \ Waking
      BY <1>6, <2>2, <2>4, StaysIs, Kept, CmType, OlderIs
    <3>2. Asking(i)' <=> (Asking(i) /\ i \notin first) \/ enq = <<i>>
      BY <3>1, <2>1, <1>3 DEF Asking
    <3> QED BY <1>1, <1>3, <3>1, <3>2
  <2>5. CASE ~Stays(i) /\ ~Comes(i, in)
    <3>1. ~Asking(i)'
      BY <2>5, GoesIs DEF Asking
    <3>2. enq # <<i>>
      BY <2>5, <1>3
    <3>3. ~Asking(i)
      BY <2>5, NoPlace DEF Asking
    <3> QED BY <3>1, <3>2, <3>3
  <2> QED BY <2>3, <2>4, <2>5
<1>8. Range(allocq') = {i \in CMs : Asking(i)'}
  <2>1. Range(enq) \subseteq CMs
    BY <1>4, RangeIs, OptIsSeq
  <2> QED BY <2>1, <1>1, <1>5, <1>6, <1>7
<1> QED BY <1>5, <1>7, <1>8 DEF AllocExact
LEMMA AwStep ==
  ASSUME BridgeIInv, NEW in, Edge(in)
  PROVE  /\ awq' \in Seq(CMs) /\ Len(awq') <= kOutst
         /\ AwExact'
<1> DEFINE enq == in.grant["aw"]
           rdy == WFires(in) # {}
           first == HeadOf(awq, rdy)
<1>1. /\ awq \in Seq(CMs) /\ Len(awq) <= kOutst /\ IsInjective(awq)
      /\ Range(awq) = {i \in CMs : AwOut(i)} /\ kOutst \in Nat \ {0}
      /\ sel["aw"] \subseteq Asks("aw") /\ Asks("aw") \subseteq CMs
  <2>1. "aw" \in Chans /\ Asks("aw") \subseteq CMs
    BY DEF Chans, Asks
  <2>2. kOutst \in Nat \ {0}
    BY Params
  <2> QED BY <2>1, <2>2 DEF BridgeIInv, BridgeTypes, AwExact, NoStaleGrant
<1>2. enq # <<>> => \E i \in Asks("aw") : enq = <<i>>
  <2>1. enq \in Opt(sel["aw"])
    BY DEF Edge, Took
  <2> QED BY <1>1, <2>1 DEF Opt
<1>3. ASSUME NEW i \in CMs, enq = <<i>>
      PROVE  /\ i \in Asks("aw") /\ Fires("aw", i, in) /\ i \notin Range(awq)
             /\ "aw" \in cms[i].axi /\ "w" \in cms[i].axi /\ "wdata" \notin cms[i].owes /\ Stays(i)
             /\ i < kOutst
  <2>1. PICK j \in Asks("aw") : enq = <<j>>
    <3>1. enq # <<>>
      BY <1>3
    <3> QED BY <3>1, <1>2
  <2>2. i = j
    BY <1>3, <2>1
  <2>3. i \in Asks("aw") /\ Fires("aw", i, in)
    BY <1>3, <2>1, <2>2 DEF Fires
  <2>4. AsksAw(cms[i]) /\ Stays(i) /\ cms[i].valid
    BY <2>3, MayAsk
  <2>5. PhaseOf(i) /\ i < kOutst
    BY <2>4, CmType DEF BridgeIInv, PhasesOK
  <2> QED BY <1>1, <2>3, <2>4, <2>5 DEF AsksAw, AwOut, PhaseOf
<1>4. enq \in Opt(CMs) /\ Range(enq) \cap Range(awq) = {}
  <2>1. CASE enq = <<>>
    BY <2>1, EmptyRange DEF Opt
  <2>2. CASE enq # <<>>
    <3>1. PICK i \in Asks("aw") : enq = <<i>>
      BY <1>2, <2>2
    <3>2. i \in CMs
      BY <1>1
    <3> QED BY <1>3, <3>1, <3>2, OneRange
  <2> QED BY <2>1, <2>2
<1>5. enq # <<>> => Len(awq) < kOutst
  <2> SUFFICES ASSUME enq # <<>> PROVE Len(awq) < kOutst
    OBVIOUS
  <2>1. PICK i \in CMs : enq = <<i>>
    BY <1>4 DEF Opt
  <2>2. i < kOutst /\ i \notin Range(awq) /\ i \in Nat
    BY <1>3, <2>1, Params
  <2> DEFINE S == (0 .. kOutst - 1) \ {i}
  <2>3. i \in 0 .. kOutst - 1
    BY <2>2, Params
  <2>4. IsFiniteSet(0 .. kOutst - 1) /\ Cardinality(0 .. kOutst - 1) = kOutst
    <3>1. 0 \in Int /\ kOutst - 1 \in Int /\ ~(0 > kOutst - 1) /\ (kOutst - 1) - 0 + 1 = kOutst
      BY <1>1
    <3> HIDE DEF S
    <3>2. ASSUME NEW a \in Int, NEW b \in Int, ~(a > b)
          PROVE  IsFiniteSet(a .. b) /\ Cardinality(a .. b) = b - a + 1
      BY <3>2, FS_Interval
    <3>3. IsFiniteSet(0 .. kOutst - 1) /\ Cardinality(0 .. kOutst - 1) = (kOutst - 1) - 0 + 1
      BY <3>1, <3>2
    <3> QED BY <3>1, <3>3
  <2>5. IsFiniteSet(S) /\ Cardinality(S) = kOutst - 1
    BY <2>3, <2>4, FS_RemoveElement
  <2>6. Range(awq) \in SUBSET S
    <3>1. ASSUME NEW j \in Range(awq) PROVE j \in 0 .. kOutst - 1
      <4>1. j \in CMs /\ cms[j].valid
        BY <1>1 DEF AwOut
      <4>2. j < kOutst
        BY <4>1, CmType
      <4> QED BY <4>1, <4>2, Params
    <3> QED BY <3>1, <2>2
  <2>7. Cardinality(Range(awq)) = Len(awq)
    BY <1>1, RangeCard
  <2>8. Cardinality(Range(awq)) <= Cardinality(S)
    BY <2>5, <2>6, FS_Subset
  <2>9. Len(awq) \in Nat
    BY <1>1, LenProperties
  <2> HIDE DEF S, enq
  <2> QED BY <2>5, <2>7, <2>8, <2>9, <1>1
<1>6. /\ awq' \in Seq(CMs) /\ Len(awq') <= kOutst /\ IsInjective(awq')
      /\ Range(awq') = (Range(awq) \ first) \cup Range(enq)
  <2>1. awq' = QNext(AwQ, awq, enq, rdy) /\ rdy \in BOOLEAN
    BY DEF Edge, BridgeTick
  <2>2. AwQ.n = kOutst /\ AwQ.flow = FALSE /\ AwQ.pipe = FALSE
    BY DEF AwQ
  <2>3. /\ AwQ.n \in Nat \ {0} /\ Len(awq) <= AwQ.n
        /\ enq # <<>> => Len(awq) < AwQ.n
    BY <2>2, <1>1, <1>5
  <2> HIDE DEF enq, rdy
  <2>4. Moved(CMs, AwQ, awq, enq, rdy, awq')
    <3> HIDE DEF AwQ
    <3>1. awq \in Seq(CMs) /\ IsInjective(awq)
      BY <1>1
    <3> QED BY <2>1, <2>2, <2>3, <3>1, <1>4, QueueSet
  <2> QED BY <2>2, <2>4 DEF Moved, first
<1>7. ASSUME NEW i \in CMs PROVE (i \in Range(enq) <=> enq = <<i>>) /\ (i \in WFires(in) <=> i \in first)
  <2>1. i \in Range(enq) <=> enq = <<i>>
    <3>1. CASE enq = <<>>
      <4>1. <<>> # <<i>>
        OBVIOUS
      <4> QED BY <4>1, <3>1, EmptyRange
    <3>2. CASE enq # <<>>
      <4>1. PICK j \in CMs : enq = <<j>>
        BY <3>2, <1>4 DEF Opt
      <4>2. Range(enq) = {j}
        BY <4>1, OneRange
      <4>3. <<j>> = <<i>> <=> i = j
        OBVIOUS
      <4> QED BY <4>1, <4>2, <4>3
    <3> QED BY <3>1, <3>2
  <2>2. rdy => awq # <<>> /\ WFires(in) = {Head(awq)}
    BY DEF WFires, WSel
  <2>3. i \in WFires(in) <=> i \in first
    BY <2>2 DEF HeadOf
  <2> QED BY <2>1, <2>3
<1> HIDE DEF enq, first, rdy
<1>8. ASSUME NEW i \in CMs
      PROVE  AwOut(i)' <=> (AwOut(i) /\ i \notin first) \/ enq = <<i>>
  <2>1. Fires("aw", i, in) <=> enq = <<i>>
    BY <1>3 DEF Fires, enq
  <2>2. CASE Comes(i, in)
    <3>1. ~AwOut(i)'
      <4>1. "w" \in AxiOf(in.req[1]) => "aw" \in AxiOf(in.req[1])
        BY DEF AxiOf
      <4>2. cms'[i].axi = AxiOf(in.req[1])
        BY <2>2, ComesIs
      <4> QED BY <4>1, <4>2 DEF AwOut
    <3>2. ~AwOut(i)
      BY <2>2, ComesIs DEF AwOut
    <3>3. enq # <<i>>
      BY <2>2, <1>3, ComesIs
    <3> QED BY <3>1, <3>2, <3>3
  <2>3. CASE Stays(i)
    <3>1. /\ cms'[i].valid = TRUE /\ cms[i].valid /\ PhaseOf(i)
          /\ "aw" \in cms'[i].axi <=> "aw" \in cms[i].axi /\ enq # <<i>> /\ ~Cancels(i, in)
          /\ "w" \in cms'[i].axi <=> "w" \in cms[i].axi /\ i \notin first /\ ~Cancels(i, in)
      BY <1>7, <2>1, <2>3, StaysIs, AxiIs DEF BridgeIInv, PhasesOK
    <3>2. Cancels(i, in) => "wdata" \in cms[i].owes
      BY WasDue DEF Cancels
    <3>3. i \in first => "aw" \notin cms[i].axi
      BY <1>7, WasDue DEF AsksW
    <3>4. CASE Cancels(i, in)
      <4>1. cms[i].axi = AxiOf(ReqOf(i)) /\ "wdata" \in cms[i].owes
        BY <3>1, <3>2, <3>4 DEF PhaseOf
      <4>2. ~AwOut(i)
        BY <4>1 DEF AwOut, AxiOf
      <4> QED BY <4>1, <4>2, <3>1, <3>4, <1>3 DEF AwOut
    <3>5. CASE ~Cancels(i, in)
      BY <3>1, <3>3, <3>5, <1>3 DEF AwOut, PhaseOf
    <3> QED BY <3>4, <3>5
  <2>4. CASE ~Stays(i) /\ ~Comes(i, in)
    <3>1. ~AwOut(i)'
      BY <2>4, GoesIs DEF AwOut
    <3>2. ~AwOut(i)
      BY <2>4 DEF AwOut, Stays, AllDone
    <3>3. enq # <<i>>
      BY <2>4, <1>3
    <3> QED BY <3>1, <3>2, <3>3
  <2> QED BY <2>2, <2>3, <2>4
<1>9. Range(awq') = {i \in CMs : AwOut(i)'}
  <2>1. Range(enq) \subseteq CMs
    BY <1>4, RangeIs, OptIsSeq
  <2> QED BY <2>1, <1>1, <1>6, <1>7, <1>8
<1> QED BY <1>6, <1>9 DEF AwExact

LEMMA CmStep ==
  ASSUME BridgeIInv, NEW in, Edge(in), NEW i \in CMs
  PROVE  cms'[i] \in CmRec
<1> DEFINE W == 0 .. Wrap - 1
<1>1. N \in Nat /\ kOutst \in 2 .. N /\ Wrap = 2 * N
  BY Params
<1>2. CASE Comes(i, in)
  <2>1. in.req[1] \in Req[sn] /\ in.req[1].wr \in BOOLEAN /\ cms'[i] = NewCm(in.req[1])
    BY <1>2, ComesIs
  <2>2. kOutst - 1 \in W
    BY <1>1
  <2>3. OwesOf(in.req[1]) \subseteq Up /\ AxiOf(in.req[1]) \subseteq Down
    BY DEF OwesOf, AxiOf, Up, Down
  <2>4. <<in.req[1]>> \in Opt(Req[sn]) /\ (~in.req[1].wr) \in BOOLEAN
    BY <2>1 DEF Opt
  <2> QED BY <2>1, <2>2, <2>3, <2>4 DEF NewCm, CmRec
<1>3. CASE Stays(i)
  <2>1. cms[i] \in CmRec /\ cms[i].waiting \in W
    BY CmType
  <2>2. cms'[i] = [valid |-> TRUE, waiting |-> NextWaiting(i, in), owes |-> NextOwes(i, in),
            axi |-> NextAxi(i, in), info |-> cms[i].info,
            snooped |-> cms[i].snooped /\ ~WakeupOut(cms[i]),
            issued |-> cms[i].issued \/ Fires("alloc", i, in),
            buf |-> cms[i].buf \/ i \in AllocResp(in),
            wk |-> WakeupVld(i), wset |-> FALSE]
    <3>1. cms'[i] = NextCm(i, in) /\ i \notin ReqFire(in) /\ cms[i].valid /\ ~AllDone(cms[i])
      BY <1>3, GateOpen, StaysIs DEF Comes, Stays
    <3> QED BY <3>1 DEF NextCm
  <2>3. NextWaiting(i, in) \in W
    <3>1. Cardinality(tagm) \in W
      <4>1. tagm \in SUBSET CMs
        BY DEF BridgeIInv, BridgeTypes
      <4>2. IsFiniteSet(tagm) /\ Cardinality(tagm) <= N
        BY <4>1, Params, FS_Subset
      <4>3. Cardinality(tagm) \in Nat
        BY <4>2, FS_CardinalityType
      <4> QED BY <4>2, <4>3, <1>1
    <3>2. Dec(cms[i].waiting) \in W
      BY <2>1, <1>1 DEF Dec
    <3> QED BY <2>1, <3>1, <3>2 DEF NextWaiting
  <2>4. NextOwes(i, in) \subseteq Up /\ NextAxi(i, in) \subseteq Down
    BY CmType DEF NextOwes, NextAxi
  <2>5. cms[i].info \in Opt(Req[sn])
    BY <2>1 DEF CmRec
  <2>6. WakeupVld(i) \in BOOLEAN
    BY CmType DEF WakeupVld
  <2> HIDE DEF W
  <2> QED BY <2>2, <2>3, <2>4, <2>5, <2>6 DEF CmRec, W
<1>4. CASE ~Stays(i) /\ ~Comes(i, in)
  <2>1. cms'[i] = [Idle EXCEPT !.wk = WakeupVld(i)]
    BY <1>4, GoesIs
  <2>2. WakeupVld(i) \in BOOLEAN
    BY CmType DEF WakeupVld
  <2>3. 0 \in W /\ {} \subseteq Up /\ {} \subseteq Down /\ <<>> \in Opt(Req[sn])
    BY <1>1 DEF Opt
  <2> QED BY <2>1, <2>2, <2>3 DEF Idle, CmRec
<1> QED BY <1>2, <1>3, <1>4
-----------------------------------------------------------------------------
(* The invariant holds.                                                    *)

LEMMA InvStep == BridgeIInv /\ BridgeNext => BridgeIInv'
<1> SUFFICES ASSUME BridgeIInv, BridgeNext PROVE BridgeIInv'
  OBVIOUS
<1>1. PICK in : Edge(in)
  BY EdgeOf
<1>2. BridgeTypes'
  <2>1. sn' \in BOOLEAN /\ kOutst' = kOutst /\ sn' = sn
    BY <1>1, Kept, Params
  <2>2. cms' \in [CMs -> CmRec']
    <3>1. CmRec' = CmRec
      BY <2>1 DEF CmRec
    <3>2. cms' = [i \in CMs |-> NextCm(i, in)]
      BY <1>1, GateOpen
    <3>3. \A i \in CMs : cms'[i] \in CmRec
      BY <1>1, CmStep
    <3>4. \A i \in CMs : NextCm(i, in) \in CmRec
      BY <3>2, <3>3
    <3> QED BY <3>1, <3>2, <3>4
  <2>3. tagm' \in SUBSET CMs
    BY <1>1 DEF Edge, BridgeTick, TagMatch
  <2>4. older' \in [CMs -> SUBSET CMs]
    <3>1. older' = [i \in CMs |-> (IF i \in ReqFire(in) THEN ToWake(in.req[1].tag) ELSE older[i]) \ Waking]
      BY <1>1 DEF Edge, BridgeTick
    <3>2. \A i \in CMs : (IF i \in ReqFire(in) THEN ToWake(in.req[1].tag) ELSE older[i]) \in SUBSET CMs
      BY DEF ToWake, BridgeIInv, BridgeTypes
    <3> QED BY <3>1, <3>2
  <2>5. sel' \in [Chans -> SUBSET CMs]
    <3>1. sel' = [ch \in Chans |-> NextSel(ch, in.grant[ch])]
      BY <1>1 DEF Edge, BridgeTick
    <3>2. ASSUME NEW ch \in Chans PROVE NextSel(ch, in.grant[ch]) \in SUBSET CMs
      <4>1. sel[ch] \in SUBSET CMs
        BY DEF BridgeIInv, BridgeTypes
      <4> QED BY <4>1 DEF NextSel, BestOf, Asks
    <3> QED BY <3>1, <3>2
  <2>6. awq' \in Seq(CMs) /\ Len(awq') <= kOutst /\ allocq' \in Seq(CMs) /\ Len(allocq') <= 2
    BY <1>1, AwStep, AllocStep
  <2> QED BY <2>1, <2>2, <2>3, <2>4, <2>5, <2>6 DEF BridgeTypes
<1>3. Shape'
  BY <1>1, ShapeStep DEF Shape
<1>4. PhasesOK'
  BY <1>1, PhaseStep DEF PhasesOK
<1>5. OlderSame'
  BY <1>1, OlderStep DEF OlderSame
<1>6. WaitCountsOlder'
  <2>1. ASSUME NEW i \in CMs, (cms[i].valid /\ cms[i].snooped)'
        PROVE  IF cms'[i].wset THEN tagm' = older'[i] /\ ~cms'[i].wk
               ELSE cms'[i].waiting = Cardinality(older'[i]) + IF cms'[i].wk THEN 1 ELSE 0
    BY <1>1, <2>1, WaitsStep DEF Entered
  <2> QED BY <2>1 DEF WaitCountsOlder
<1>7. NoStaleGrant'
  BY <1>1, StaleStep DEF NoStaleGrant
<1>8. AwExact' /\ AllocExact'
  BY <1>1, AwStep, AllocStep
<1> QED BY <1>2, <1>3, <1>4, <1>5, <1>6, <1>7, <1>8 DEF BridgeIInv

LEMMA InvInit == BridgeInit => BridgeIInv
<1> SUFFICES ASSUME BridgeInit PROVE BridgeIInv
  OBVIOUS
<1>1. /\ sn \in BOOLEAN /\ tagm = {} /\ awq = <<>> /\ allocq = <<>>
      /\ \A i \in CMs : cms[i] = Idle /\ older[i] = {}
      /\ \A ch \in Chans : sel[ch] = {}
  BY DEF BridgeInit
<1>2. \A i \in CMs : /\ cms[i].valid = FALSE /\ cms[i].snooped = FALSE /\ cms[i].axi = {}
                     /\ cms[i].issued = FALSE
  BY <1>1 DEF Idle
<1>3. N \in Nat /\ kOutst \in 2 .. N
  BY <1>1, BridgeAssumption DEF kOutst
<1>4. BridgeTypes
  <2>1. Idle \in CmRec
    <3>1. 0 \in 0 .. Wrap - 1 /\ <<>> \in Opt(Req[sn])
      BY <1>3 DEF Wrap, Opt
    <3> QED BY <3>1 DEF Idle, CmRec
  <2>2. cms \in [CMs -> CmRec] /\ older \in [CMs -> SUBSET CMs] /\ sel \in [Chans -> SUBSET CMs]
    BY <2>1 DEF BridgeInit
  <2>3. <<>> \in Seq(CMs) /\ Len(<<>>) = 0
    BY EmptySeq
  <2> QED BY <1>1, <1>3, <2>2, <2>3 DEF BridgeTypes
<1>5. Shape
  <2>1. Idle = [Idle EXCEPT !.wk = Idle.wk]
    BY DEF Idle
  <2> QED BY <1>1, <1>2, <2>1 DEF Shape, ShapeOf
<1>6. PhasesOK /\ WaitCountsOlder
  BY <1>2 DEF PhasesOK, WaitCountsOlder
<1>7. OlderSame
  BY <1>1, <1>2 DEF OlderSame, OlderOf, Entered
<1>8. NoStaleGrant
  BY <1>1 DEF NoStaleGrant
<1>9. AwExact /\ AllocExact
  BY <1>1, <1>2, EmptyRange DEF AwExact, AllocExact, AwOut, Asking
<1> QED BY <1>4, <1>5, <1>6, <1>7, <1>8, <1>9 DEF BridgeIInv

\* BridgeIInv is an invariant of the bridges.
THEOREM BridgeInvariant == BridgeSpec => []BridgeIInv
<1>1. BridgeIInv /\ UNCHANGED bridgeVars => BridgeIInv'
  <2> SUFFICES ASSUME BridgeIInv, UNCHANGED bridgeVars PROVE BridgeIInv'
    OBVIOUS
  <2> USE DEF bridgeVars
  <2>1. BridgeTypes'
    BY DEF BridgeIInv, BridgeTypes, CmRec, kOutst
  <2>2. Shape' /\ PhasesOK'
    BY DEF BridgeIInv, Shape, ShapeOf, PhasesOK, PhaseOf, kOutst, ReqOf, OwesOf, AxiOf
  <2>3. OlderSame' /\ WaitCountsOlder'
    BY DEF BridgeIInv, OlderSame, OlderOf, WaitCountsOlder, Entered, SameLine, ReqOf, AxiOf
  <2>4. NoStaleGrant'
    <3>1. ASSUME NEW ch \in Chans PROVE Asks(ch)' = Asks(ch)
      BY DEF Asks, RspItems, Base, AllowComp, AsksAw, AsksAr, AsksAlloc
    <3> QED BY <3>1 DEF BridgeIInv, NoStaleGrant
  <2>5. AwExact' /\ AllocExact'
    BY DEF BridgeIInv, AwExact, AllocExact, AwOut, Asking
  <2> QED BY <2>1, <2>2, <2>3, <2>4, <2>5 DEF BridgeIInv
<1> QED BY InvInit, InvStep, <1>1, PTL DEF BridgeSpec
-----------------------------------------------------------------------------
(* What follows from it.                                                   *)

LEMMA InvIsSafe == BridgeIInv => BridgeInv
<1> SUFFICES ASSUME BridgeIInv PROVE BridgeInv
  OBVIOUS
<1>1. BridgeTypeOK
  <2>1. Len(awq) <= N
    <3>1. Len(awq) \in Nat /\ Len(awq) <= kOutst
      BY LenProperties DEF BridgeIInv, BridgeTypes
    <3> QED BY <3>1, Params
  <2>2. cms \in [CMs -> CmRec]
    BY DEF BridgeIInv, BridgeTypes
  <2> QED BY <2>1, <2>2 DEF BridgeTypeOK, BridgeIInv, BridgeTypes, CmRec
<1>2. AwQueueExact
  <2>1. awq \in Seq(CMs) /\ IsInjective(awq) /\ Range(awq) = {i \in CMs : AwOut(i)}
    BY DEF BridgeIInv, BridgeTypes, AwExact
  <2>2. {awq[k] : k \in DOMAIN awq} = Range(awq)
    BY DEF Range
  <2>3. Cardinality(Range(awq)) = Len(awq)
    BY <2>1, RangeCard
  <2> QED BY <2>1, <2>2, <2>3 DEF AwQueueExact, AwOut
<1>3. CmsGateLosesNothing
  <2> SUFFICES ASSUME ~CmsAny(QuietIn), NEW i \in CMs PROVE NextCm(i, QuietIn) = cms[i]
    BY DEF CmsGateLosesNothing
  <2>1. ~cms[i].valid /\ cms[i].wk = FALSE /\ i \notin ReqFire(QuietIn)
    BY CmType DEF CmsAny
  <2>2. cms[i] = Idle
    BY <2>1, ZenonT(30) DEF BridgeIInv, Shape, ShapeOf, Idle
  <2>3. WakeupVld(i) = FALSE
    BY <2>1 DEF WakeupVld
  <2> QED BY <2>1, <2>2, <2>3 DEF NextCm, Idle
<1> QED BY <1>1, <1>2, <1>3 DEF BridgeInv, BridgeIInv

\* BridgeInv holds for any number of machines: each waits for exactly the
\* older ones of its line, aw_q holds exactly the machines between their AW
\* and their W, no grant of an arbiter has gone stale, and the closed gate
\* loses no change.
THEOREM BridgeIsSafe == BridgeSpec => []BridgeInv
BY BridgeInvariant, InvIsSafe, PTL

LEMMA InvForgetsNobody == BridgeIInv => NobodyForgotten
<1> SUFFICES ASSUME BridgeIInv, NEW i \in CMs, cms[i].valid PROVE Moving(i)
  BY DEF NobodyForgotten
<1> DEFINE e == cms[i]
<1>1. /\ e.owes \subseteq OwesOf(ReqOf(i)) /\ e.axi \subseteq AxiOf(ReqOf(i))
      /\ ReqOf(i).wr \in BOOLEAN /\ e.snooped \in BOOLEAN /\ e.buf \in BOOLEAN /\ e.issued \in BOOLEAN
      /\ PhaseOf(i)
  BY CmType DEF BridgeIInv, PhasesOK
<1>2. \A ch \in Chans : i \in Asks(ch) => Moving(i)
  BY DEF Moving
<1>3. CASE RspItems(e) # {}
  <2>1. i \in Asks("rsp") /\ "rsp" \in Chans
    BY <1>3 DEF Asks, Chans
  <2> QED BY <2>1, <1>2
<1>4. CASE e.axi = {} /\ RspItems(e) = {}
  <2>1. e.owes \cap {"dbid", "wdata", "rdata"} = {} /\ Base(e)
    BY <1>1, <1>4 DEF PhaseOf, AxiOf, Base
  <2>2. AllowComp(e)
    BY <1>4, <2>1 DEF AllowComp
  <2>3. "comp" \notin e.owes /\ "receipt" \notin e.owes
    BY <1>4, <2>1, <2>2 DEF RspItems
  <2>4. e.owes \subseteq {"ack"}
    BY <1>1, <2>1, <2>3 DEF OwesOf
  <2>5. CASE sn \/ "ack" \notin e.owes
    <3>1. AllDone(e)
      BY <1>4, <2>4, <2>5 DEF AllDone, UpDone
    <3> QED BY <3>1 DEF Moving
  <2>6. CASE ~sn /\ "ack" \in e.owes
    <3>1. i \in AckDue
      BY <2>1, <2>3, <2>6 DEF AckDue
    <3> QED BY <3>1 DEF Moving
  <2> QED BY <2>5, <2>6
<1>5. CASE e.axi # {} /\ RspItems(e) = {}
  <2>1. Entered(i)
    BY <1>5, OnAxi
  <2>2. CASE e.wset \/ e.wk \/ older[i] # {}
    BY <2>2 DEF Moving
  <2>3. CASE ~e.wset /\ ~e.wk /\ older[i] = {}
    <3>1. e.waiting = 0
      <4>1. e.waiting = Cardinality(older[i])
        <5>1. e.waiting = Cardinality(older[i]) + IF e.wk THEN 1 ELSE 0
          BY <2>1, <2>3 DEF BridgeIInv, WaitCountsOlder, Entered
        <5>2. Cardinality({}) = 0
          BY FS_EmptySet
        <5> QED BY <5>1, <5>2, <2>3
      <4> QED BY <4>1, <2>3, FS_EmptySet
    <3>2. CASE ~ReqOf(i).wr
      <4>1. e.axi \subseteq {"ar", "r"}
        BY <1>1, <3>2 DEF AxiOf
      <4>2. CASE "ar" \in e.axi
        <5>1. i \in Asks("ar") /\ "ar" \in Chans
          BY <4>2, <3>1 DEF Asks, AsksAr, Chans
        <5> QED BY <5>1, <1>2
      <4>3. CASE "ar" \notin e.axi
        <5>1. i \in RDue
          BY <4>1, <4>3, <1>5 DEF RDue
        <5> QED BY <5>1 DEF Moving
      <4> QED BY <4>2, <4>3
    <3>3. CASE ReqOf(i).wr /\ "wdata" \in e.owes
      <4>1. CASE "dbid" \notin e.owes
        <5>1. i \in DataDue
          BY <3>3, <4>1 DEF DataDue
        <5> QED BY <5>1 DEF Moving
      <4>2. CASE "dbid" \in e.owes
        <5>1. ~Base(e)
          BY <4>2, <1>5 DEF RspItems
        <5>2. sn /\ ~e.buf
          BY <5>1 DEF Base
        <5>3. CASE ~e.issued
          <6>1. i \in Asks("alloc") /\ "alloc" \in Chans
            BY <5>2, <5>3, <3>1 DEF Asks, AsksAlloc, Chans
          <6> QED BY <6>1, <1>2
        <5>4. CASE e.issued
          <6>1. i \in Range(allocq)
            BY <5>2, <5>4 DEF BridgeIInv, AllocExact, Asking
          <6>2. \E k \in DOMAIN allocq : allocq[k] = i
            BY <6>1 DEF Range
          <6> QED BY <6>2 DEF Moving
        <5> QED BY <1>1, <5>3, <5>4
      <4> QED BY <4>1, <4>2
    <3>4. CASE ReqOf(i).wr /\ "wdata" \notin e.owes
      <4>1. e.axi \subseteq {"aw", "w", "b"}
        BY <1>1, <3>4 DEF AxiOf
      <4>2. CASE "aw" \in e.axi
        <5>1. i \in Asks("aw") /\ "aw" \in Chans
          BY <4>2, <3>1, <3>4 DEF Asks, AsksAw, Chans
        <5> QED BY <5>1, <1>2
      <4>3. CASE "aw" \notin e.axi /\ "w" \in e.axi
        <5>1. i \in Range(awq)
          BY <4>3 DEF BridgeIInv, AwExact, AwOut
        <5>2. \E k \in DOMAIN awq : awq[k] = i
          BY <5>1 DEF Range
        <5> QED BY <5>2 DEF Moving
      <4>4. CASE "aw" \notin e.axi /\ "w" \notin e.axi
        <5>1. i \in BDue
          BY <4>1, <4>4, <1>5 DEF BDue
        <5> QED BY <5>1 DEF Moving
      <4> QED BY <4>2, <4>3, <4>4
    <3> QED BY <1>1, <3>2, <3>3, <3>4
  <2> QED BY <2>2, <2>3
<1> QED BY <1>3, <1>4, <1>5

\* No machine is forgotten: one that is not done asks for something, is owed
\* something by its surroundings, stands in a queue or waits for an older one.
THEOREM BridgeForgetsNobody == BridgeSpec => []NobodyForgotten
BY BridgeInvariant, InvForgetsNobody, PTL
-----------------------------------------------------------------------------
(* The order of a line.                                                    *)

AtOf(i) == IF Entered(i) THEN {ReqOf(i).tag} ELSE {}

LEMMA OrderStep ==
  ASSUME BridgeIInv, NEW in, Edge(in)
  PROVE  Order!Next
<1> DEFINE Came == {i \in CMs : Comes(i, in)}
<1>1. ASSUME NEW i \in CMs PROVE AtOf(i) # {} /\ AtOf(i)' = {} <=> i \in Waking
  <2>1. AtOf(i) # {} <=> Entered(i)
    BY DEF AtOf
  <2>2. AtOf(i)' # {} <=> Entered(i)'
    BY DEF AtOf
  <2>3. ~(Comes(i, in) /\ Entered(i))
    BY ComesIs DEF Entered
  <2> QED BY <2>1, <2>2, <2>3, LiveNext, WakingIs
<1>2. ASSUME NEW i \in CMs PROVE AtOf(i) = {} /\ AtOf(i)' # {} <=> i \in Came
  <2>1. AtOf(i) # {} <=> Entered(i)
    BY DEF AtOf
  <2>2. AtOf(i)' # {} <=> Entered(i)'
    BY DEF AtOf
  <2>3. ~(Comes(i, in) /\ Entered(i))
    BY ComesIs DEF Entered
  <2> QED BY <2>1, <2>2, <2>3, LiveNext
<1>3. Waking \subseteq CMs /\ \A i \in Waking : older[i] = {}
  BY WakingIs DEF Waking
<1>4. \A i, j \in Came : i = j
  BY ComesIs
<1>5. \A i \in Came : AtOf(i)' = {in.req[1].tag} /\ in.req[1].tag \in Lines
  <2> SUFFICES ASSUME NEW i \in CMs, Comes(i, in)
               PROVE  AtOf(i)' = {in.req[1].tag} /\ in.req[1].tag \in Lines
    OBVIOUS
  <2>1. in.req[1] \in Req[sn] /\ ReqOf(i)' = in.req[1] /\ Entered(i)'
    BY ComesIs, LiveNext
  <2>2. in.req[1] \in Req[TRUE] \cup Req[FALSE]
    <3>1. sn = TRUE \/ sn = FALSE
      BY Params
    <3> QED BY <2>1, <3>1
  <2> QED BY <2>1, <2>2 DEF AtOf, Lines
<1>6. \A i \in CMs \ (Waking \cup Came) : AtOf(i)' = AtOf(i)
  <2> SUFFICES ASSUME NEW i \in CMs, i \notin Waking, ~Comes(i, in) PROVE AtOf(i)' = AtOf(i)
    OBVIOUS
  <2>1. Entered(i)' <=> Entered(i)
    BY LiveNext
  <2>2. Entered(i) => ReqOf(i)' = ReqOf(i)
    BY LiveNext
  <2> QED BY <2>1, <2>2 DEF AtOf
<1>7. older' = [i \in CMs |-> (IF i \in Came THEN {j \in CMs : AtOf(j) = AtOf(i)'} ELSE older[i]) \ Waking]
  <2>1. older' = [i \in CMs |-> (IF i \in ReqFire(in) THEN ToWake(in.req[1].tag) ELSE older[i]) \ Waking]
    BY DEF Edge, BridgeTick
  <2>2. ASSUME NEW i \in CMs, Comes(i, in)
        PROVE  ToWake(in.req[1].tag) = {j \in CMs : AtOf(j) = AtOf(i)'}
    <3>1. AtOf(i)' = {in.req[1].tag}
      BY <1>5, <2>2
    <3>2. \A j \in CMs : AtOf(j) = {in.req[1].tag} <=> Entered(j) /\ ReqOf(j).tag = in.req[1].tag
      BY DEF AtOf
    <3>3. ToWake(in.req[1].tag) = {j \in CMs : Entered(j) /\ ReqOf(j).tag = in.req[1].tag}
      BY DEF ToWake, Entered, ReqOf
    <3> QED BY <3>1, <3>2, <3>3
  <2>3. \A i \in CMs : i \in Came <=> i \in ReqFire(in)
    BY DEF Comes
  <2> QED BY <2>1, <2>2, <2>3
<1>8. Order!Left = Waking /\ Order!Came = Came
  BY <1>1, <1>2, <1>3 DEF Order!Left, Order!Came, AtOf, Entered, ReqOf
<1> DEFINE at == [i \in CMs |-> IF cms[i].valid /\ cms[i].snooped THEN {cms[i].info[1].tag} ELSE {}]
<1>9. \A i \in CMs : at[i] = AtOf(i) /\ at'[i] = AtOf(i)'
  BY DEF AtOf, Entered, ReqOf
<1> HIDE DEF at
<1>10. \A p \in Order!Came : \E a \in Lines : at'[p] = {a}
  BY <1>5, <1>8, <1>9
<1>11. \A p \in CMs \ (Order!Left \cup Order!Came) : at'[p] = at[p]
  BY <1>6, <1>8, <1>9
<1>12. older' = [p \in CMs |-> (IF p \in Order!Came THEN {j \in CMs : at[j] = at'[p]} ELSE older[p])
                                \ Order!Left]
  BY <1>7, <1>8, <1>9
<1>13. (\A p \in Order!Left : older[p] = {}) /\ \A p, j \in Order!Came : p = j
  BY <1>3, <1>4, <1>8
<1> HIDE DEF Came
<1> USE DEF at
<1> QED BY <1>10, <1>11, <1>12, <1>13 DEF Order!Next

\* Transactions of a line finish on AXI in the order they came, one at a
\* time: the bridges implement a queue for each line.
THEOREM BridgeKeepsOrder == BridgeSpec => PerLineOrder
<1>1. BridgeInit => Order!Init
  <2> SUFFICES ASSUME BridgeInit PROVE Order!Init
    OBVIOUS
  <2>1. \A i \in CMs : cms[i].valid = FALSE
    BY DEF BridgeInit, Idle
  <2>2. older = [i \in CMs |-> {}]
    BY DEF BridgeInit
  <2> QED BY <2>1, <2>2 DEF Order!Init
<1>2. BridgeIInv /\ [BridgeNext]_bridgeVars => [Order!Next]_Order!vars
  <2> SUFFICES ASSUME BridgeIInv, [BridgeNext]_bridgeVars PROVE [Order!Next]_Order!vars
    OBVIOUS
  <2>1. CASE BridgeNext
    BY <2>1, EdgeOf, OrderStep
  <2>2. CASE UNCHANGED bridgeVars
    BY <2>2 DEF bridgeVars, Order!vars
  <2> QED BY <2>1, <2>2
<1> QED BY <1>1, <1>2, BridgeInvariant, PTL DEF BridgeSpec, PerLineOrder, Order!Spec
=============================================================================
