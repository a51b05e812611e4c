-------------------------- MODULE DataBlock_proofs --------------------------
(***************************************************************************)
(* The data block of module DataBlock, for any number of machines, slots   *)
(* and transactions and any latency of storage: its registers keep their   *)
(* types, its queues have room for what comes, and every beat a machine    *)
(* awaits is still to be asked for or on its way, once; and the data end   *)
(* up where their task wants them.  The socket channel, through which data *)
(* leave the chip, is at the end.                                          *)
(***************************************************************************)
EXTENDS DataBlock, Pdc, Basics_proofs

-----------------------------------------------------------------------------
(* The inductive invariant.                                                *)

Moves == {"Repl", "Read", "Send", "Save"}

\* The beats in a wire, a step of a shift register or a queue: machine and beat.
Who(x) == <<x.m, x.beat>>
Whos(s) == {Who(s[i]) : i \in 1 .. Len(s)}
Distinct(s) == \A i, j \in 1 .. Len(s) : Who(s[i]) = Who(s[j]) => i = j

\* The beats on their way to the slots, to the output and to storage.
On(p, qu) == Whos(p[1]) \cup Whos(p[2]) \cup Whos(qu.items)
LineOn(N, p) == UNION {Whos(p[k]) : k \in 1 .. N}
RdOn  == LineOn(Latency + 1, rdPipe)
ChiOn == On(chiD, chiQ)
DsOn  == On(dsD, dsQ)
BeatsOn(o, m) == {b \in Beats : <<m, b>> \in o}

\* The registers.
RdItem == [m : CMs, beat : Beats, id : Slots, atOnce : BOOLEAN, data : Bit]
ChiAsk == [m : CMs, beat : Beats, id : Slots]
DsAsk  == [m : CMs, beat : Beats, id : Slots, line : Txn]
ChiItem == [m : CMs, beat : Beats, data : Bit]
DsItem == [m : CMs, beat : Beats, line : Txn, data : Bit]
TaskRec == [txn : Txn, op : Tasks, tvec : SUBSET Beats]
RegTypes ==
  /\ watch \in Beats /\ plan \in Plans
  /\ dc \in [CMs -> CM] /\ mem \in [Txn -> Bit] /\ taskD \in Opt(TaskRec)
  /\ vip \in [resp : Nat, rel : Nat, db : Nat, ds : Nat, chi : Nat]
  /\ buf \in [Slots -> Bit] /\ wr \in Opt([id : Slots, data : Bit])
  /\ busy \subseteq Beats

\* A transaction has one machine; a free machine knows nothing.
OneMachine ==
  \A m \in CMs :
    /\ Valid(m) => dc[m].txn # <<>>
    /\ ~Valid(m) => dc[m] = FreeCM
    /\ \A n \in CMs : Valid(m) /\ Valid(n) /\ dc[m].txn = dc[n].txn => m = n

\* A task finds its machine between tasks.
TaskFits ==
  taskD # <<>> =>
    \E m \in CMs : dc[m].st = "Alloc" /\ dc[m].txn = <<taskD[1].txn>> /\ taskD[1].tvec \subseteq dc[m].vec

\* What a machine in each state still waits for: each task in its order.
Stage(r) ==
  /\ r.st \in Moves \cup {"Resp"} => r.op \in Tasks /\ r.tvec \subseteq r.vec
  /\ r.st \notin Moves => r.wR = {} /\ r.wS = {} /\ r.wV = {}
  /\ r.st = "Repl" => r.op = {"repl"} /\ r.sR = r.sV
  /\ r.st = "Read" => "read" \in r.op
  /\ r.st = "Send" => r.wR = {} /\ (r.op = {"repl"} => r.wV = {}) /\ Sends(r.op)
  /\ r.st = "Save" => r.wR = {} /\ r.wS = {} /\ "save" \in r.op
  /\ r.wS # {} => Sends(r.op)
  /\ r.wV # {} => Saves(r.op)
  /\ AtOnce(r.op) => r.wR \subseteq r.wS
  /\ r.wR \cup r.wS \cup r.wV \subseteq r.tvec

\* The beats a machine awaits are those to ask for and those on their way,
\* read R, to the output S, to storage V.
Ledger(r, R, S, V) ==
  /\ r.wR = r.sR \cup R /\ r.sR \cap R = {}
  /\ r.wS = r.sS \cup S /\ r.sS \cap S = {}
  /\ r.wV = r.sV \cup V /\ r.sV \cap V = {}
  /\ S # {} => r.st = "Send"
  /\ V # {} => r.st \in {"Repl", "Save"}

Stages == \A m \in CMs : Stage(dc[m]) /\ Ledger(dc[m], BeatsOn(RdOn, m), BeatsOn(ChiOn, m), BeatsOn(DsOn, m))

\* A beat is on its way once, and there is room at the end of the way.
Once(p, qu) ==
  /\ Distinct(qu.items) /\ Whos(p[1]) \cap Whos(p[2]) = {}
  /\ (Whos(p[1]) \cup Whos(p[2])) \cap Whos(qu.items) = {}
Roomy(p, qu) == (qu.rdy <=> Len(qu.items) < 2) /\ Len(p[1]) + Len(p[2]) + Len(qu.items) <= 2
Pipe(A, Q, p, qu) == p \in [1 .. 2 -> Opt(A)] /\ qu \in FqState(Q) /\ Once(p, qu) /\ Roomy(p, qu)
Line(A, N, p) ==
  /\ p \in [1 .. N -> Opt(A)]
  /\ \A k, l \in 1 .. N : Whos(p[k]) \cap Whos(p[l]) # {} => k = l
OnTheWay ==
  /\ Pipe(ChiAsk, ChiItem, chiD, chiQ) /\ Pipe(DsAsk, DsItem, dsD, dsQ)
  /\ Line(RdItem, Latency + 1, rdPipe)
  /\ \A k \in 1 .. 2 : chiD[k] = <<>> \/ dsD[k] = <<>>

FlowInv == RegTypes /\ OneMachine /\ TaskFits /\ Stages /\ OnTheWay

-----------------------------------------------------------------------------
(* Wires and queues as sets of beats.                                      *)

LEMMA WireWhos ==
  ASSUME NEW A, NEW o \in Opt(A)
  PROVE  /\ o \in Seq(A) /\ Len(o) \in Nat /\ Len(o) <= 1
         /\ o = <<>> <=> Len(o) = 0
         /\ o = <<>> <=> Whos(o) = {}
         /\ o # <<>> => o[1] \in A /\ o = <<o[1]>> /\ Whos(o) = {Who(o[1])}
<1>1. CASE o = <<>>
  BY <1>1, OptIsSeq DEF Whos
<1>2. ASSUME NEW x \in A, o = <<x>> PROVE Len(o) = 1 /\ o[1] = x /\ Whos(o) = {Who(x)}
  <2>1. Len(o) = 1 /\ o[1] = x /\ 1 .. 1 = {1}
    BY <1>2
  <2> QED BY <2>1 DEF Whos
<1> QED BY <1>1, <1>2, OptIsSeq DEF Opt

LEMMA ShiftWhos ==
  ASSUME NEW A, NEW s \in Seq(A), s # <<>>, Distinct(s)
  PROVE  /\ Tail(s) \in Seq(A) /\ Len(Tail(s)) = Len(s) - 1 /\ Head(s) \in A
         /\ Distinct(Tail(s)) /\ Who(Head(s)) \in Whos(s)
         /\ Whos(Tail(s)) = Whos(s) \ {Who(Head(s))}
<1> DEFINE t == Tail(s)
<1>1. /\ Len(s) \in Nat \ {0} /\ t \in Seq(A) /\ Len(t) = Len(s) - 1 /\ Head(s) = s[1] /\ Head(s) \in A
      /\ \A i \in 1 .. Len(t) : t[i] = s[i + 1]
  BY HeadTailProperties, EmptySeq
<1> HIDE DEF t
<1>2. \A i, j \in 1 .. Len(s) : Who(s[i]) = Who(s[j]) => i = j
  BY DEF Distinct
<1>3. Distinct(t)
  <2>1. ASSUME NEW i \in 1 .. Len(t), NEW j \in 1 .. Len(t), Who(t[i]) = Who(t[j]) PROVE i = j
    <3>1. i + 1 \in 1 .. Len(s) /\ j + 1 \in 1 .. Len(s) /\ Who(s[i + 1]) = Who(s[j + 1])
      BY <1>1, <2>1
    <3> QED BY <3>1, <1>2
  <2> QED BY <2>1 DEF Distinct
<1>4. 1 \in 1 .. Len(s)
  BY <1>1
<1>5. ASSUME NEW i \in 1 .. Len(t) PROVE Who(t[i]) \in Whos(s) /\ Who(t[i]) # Who(s[1])
  <2>1. i + 1 \in 1 .. Len(s) /\ i + 1 # 1 /\ t[i] = s[i + 1]
    BY <1>1
  <2> QED BY <2>1, <1>2, <1>4 DEF Whos
<1>6. ASSUME NEW i \in 1 .. Len(s), Who(s[i]) # Who(s[1]) PROVE Who(s[i]) \in Whos(t)
  <2>1. i # 1
    BY <1>6
  <2>2. i - 1 \in 1 .. Len(t) /\ (i - 1) + 1 = i
    BY <1>1, <2>1
  <2>3. t[i - 1] = s[i]
    BY <1>1, <2>2
  <2> QED BY <2>2, <2>3 DEF Whos
<1>7. Whos(t) = Whos(s) \ {Who(s[1])}
  BY <1>5, <1>6 DEF Whos
<1>8. Who(s[1]) \in Whos(s)
  BY <1>4 DEF Whos
<1> QED BY <1>1, <1>3, <1>7, <1>8 DEF t

LEMMA ArriveWhos ==
  ASSUME NEW A, NEW s \in Seq(A), NEW x \in A, Distinct(s), Who(x) \notin Whos(s)
  PROVE  /\ s \o <<x>> \in Seq(A) /\ Len(s \o <<x>>) = Len(s) + 1
         /\ Distinct(s \o <<x>>) /\ Whos(s \o <<x>>) = Whos(s) \cup {Who(x)}
<1> DEFINE t == s \o <<x>>
<1>1. /\ t \in Seq(A) /\ Len(s) \in Nat /\ Len(t) = Len(s) + 1
      /\ \A i \in 1 .. Len(s) : t[i] = s[i]
      /\ t[Len(s) + 1] = x
  <2>1. <<x>> \in Seq(A) /\ Len(<<x>>) = 1 /\ <<x>>[1] = x /\ Len(s) \in Nat
    BY LenProperties
  <2> QED BY <2>1, ConcatProperties
<1> HIDE DEF t
<1>2. \A i \in 1 .. Len(t) : i \in 1 .. Len(s) \/ i = Len(s) + 1
  BY <1>1
<1>3. 1 .. Len(s) \subseteq 1 .. Len(t) /\ Len(s) + 1 \in 1 .. Len(t)
  BY <1>1
<1>4. Whos(t) = Whos(s) \cup {Who(x)}
  BY <1>1, <1>2, <1>3 DEF Whos
<1>5. \A i \in 1 .. Len(s) : Who(s[i]) # Who(x)
  BY DEF Whos
<1>6. Distinct(t)
  BY <1>1, <1>2, <1>5 DEF Distinct
<1> QED BY <1>1, <1>4, <1>6 DEF t

\* What one edge does to a queue of two that is told nothing it has no room for.
HeadWho(qu, d) == IF d /\ qu.items # <<>> THEN {Who(Head(qu.items))} ELSE {}
Queue(Q, qu) == qu \in FqState(Q) /\ (qu.rdy <=> Len(qu.items) < 2) /\ Len(qu.items) <= 2 /\ Distinct(qu.items)

LEMMA QueueStep ==
  ASSUME NEW Q, NEW qu, Queue(Q, qu), NEW enq \in Opt(Q), NEW d \in BOOLEAN,
         enq # <<>> => Len(qu.items) < 2 /\ Whos(enq) \cap Whos(qu.items) = {},
         NEW n, n = FqNext(2, qu, enq, d)
  PROVE  /\ Queue(Q, n)
         /\ Whos(n.items) = (Whos(qu.items) \ HeadWho(qu, d)) \cup Whos(enq)
         /\ Len(n.items) <= Len(qu.items) + Len(enq)
<1> DEFINE s == qu.items
           e == enq # <<>> /\ qu.rdy
           out == s # <<>> /\ d
           rest == IF out THEN Tail(s) ELSE s
           all == rest \o (IF e THEN enq ELSE <<>>)
           rdy == FqNextRdy(2, qu, e, out)
<1>1. n = [items |-> all, rdy |-> rdy]
  BY DEF FqNext
<1>2. s \in Seq(Q) /\ Len(s) \in Nat /\ Distinct(s) /\ qu.rdy \in BOOLEAN /\ (s = <<>> <=> Len(s) = 0)
  BY LenProperties, EmptySeq DEF Queue, FqState
<1>3. /\ rest \in Seq(Q) /\ Distinct(rest) /\ Whos(rest) = Whos(s) \ HeadWho(qu, d)
      /\ Len(rest) = Len(s) - (IF out THEN 1 ELSE 0) /\ Len(rest) \in Nat
  <2>1. CASE out
    BY <2>1, <1>2, ShiftWhos, LenProperties DEF HeadWho
  <2>2. CASE ~out
    BY <2>2, <1>2 DEF HeadWho
  <2> QED BY <2>1, <2>2
<1>4. e <=> enq # <<>>
  BY DEF Queue
<1>5. /\ all \in Seq(Q) /\ Distinct(all) /\ Whos(all) = Whos(rest) \cup Whos(enq)
      /\ Len(all) = Len(rest) + (IF e THEN 1 ELSE 0)
  <2> HIDE DEF rest
  <2>1. CASE enq = <<>>
    <3>1. all = rest /\ ~e /\ Whos(enq) = {}
      BY <2>1, <1>3, <1>4, ConcatEmptySeq, WireWhos
    <3> HIDE DEF all, e
    <3> QED BY <3>1, <1>3
  <2>2. CASE enq # <<>>
    <3>1. enq = <<enq[1]>> /\ enq[1] \in Q /\ Whos(enq) = {Who(enq[1])}
      BY <2>2, WireWhos
    <3>2. Who(enq[1]) \notin Whos(rest) /\ all = rest \o <<enq[1]>>
      BY <3>1, <1>3, <1>4, <2>2
    <3>3. e
      BY <1>4, <2>2
    <3> HIDE DEF all, e
    <3> QED BY <3>1, <3>2, <3>3, <1>3, ArriveWhos
  <2> QED BY <2>1, <2>2
<1>6. Len(enq) = IF e THEN 1 ELSE 0
  BY <1>4, OptIsSeq
<1>7. out \in BOOLEAN /\ e \in BOOLEAN /\ (out => Len(s) # 0) /\ (e => Len(s) < 2) /\ Len(s) <= 2
  BY <1>2 DEF Queue
<1>8. rdy <=> Len(all) < 2
  <2>1. rdy = IF e = out THEN qu.rdy ELSE out \/ Len(s) < 1
    BY DEF FqNextRdy
  <2>2. qu.rdy <=> Len(s) < 2
    BY DEF Queue
  <2> DEFINE l == Len(s)
  <2>3. l \in Nat /\ l <= 2 /\ (e => l < 2) /\ (out => l # 0)
    BY <1>2, <1>7
  <2>4. Len(all) = l - (IF out THEN 1 ELSE 0) + (IF e THEN 1 ELSE 0)
    BY <1>3, <1>5
  <2> HIDE DEF rdy, all, e, out, l
  <2>5. rdy <=> IF e = out THEN l < 2 ELSE out \/ l < 1
    BY <2>1, <2>2 DEF l
  <2> QED BY <2>3, <2>4, <2>5, <1>7
<1>9. rdy \in BOOLEAN
  BY <1>2 DEF FqNextRdy
<1>10. n \in FqState(Q) /\ n.items = all /\ n.rdy = rdy
  <2> HIDE DEF all, rdy
  <2> QED BY <1>1, <1>5, <1>9 DEF FqState
<1>11. Len(all) <= Len(s) + Len(enq) /\ Len(all) <= 2
  <2> DEFINE l == Len(s)
  <2>1. l \in Nat /\ l <= 2 /\ (e => l < 2) /\ Len(all) = l - (IF out THEN 1 ELSE 0) + (IF e THEN 1 ELSE 0)
    BY <1>2, <1>3, <1>5, <1>7
  <2> HIDE DEF all, e, out, l
  <2>2. Len(all) <= l + (IF e THEN 1 ELSE 0) /\ Len(all) <= 2
    BY <2>1, <1>7
  <2> QED BY <2>2, <1>6 DEF l
<1> HIDE DEF all, rdy, rest, e, out
<1>12. Whos(n.items) = (Whos(s) \ HeadWho(qu, d)) \cup Whos(enq)
  BY <1>3, <1>5, <1>10
<1> QED BY <1>5, <1>8, <1>10, <1>11, <1>12 DEF Queue

\* The two steps before a queue and the queue, at an edge.
Fits(p, qu) == Len(p[1]) + Len(p[2]) + Len(qu.items) < 2

LEMMA PipeStep ==
  ASSUME NEW A, NEW Q, NEW p, NEW qu, Pipe(A, Q, p, qu), NEW d \in BOOLEAN,
         NEW ask \in Opt(A), ask # <<>> => Fits(p, qu),
         Whos(ask) \cap On(p, qu) = {},
         NEW enq \in Opt(Q), Whos(enq) = Whos(p[2]),
         NEW s, s = <<ask, p[1]>>, NEW n, n = FqNext(2, qu, enq, d)
  PROVE  Pipe(A, Q, s, n) /\ On(s, n) = (On(p, qu) \ HeadWho(qu, d)) \cup Whos(ask)
<1>1. /\ p[1] \in Opt(A) /\ p[2] \in Opt(A) /\ s \in [1 .. 2 -> Opt(A)]
      /\ s[1] = ask /\ s[2] = p[1]
  BY DEF Pipe
<1>2. /\ Len(p[1]) \in Nat /\ Len(p[2]) \in Nat /\ Len(ask) \in Nat /\ Len(enq) \in Nat /\ Len(qu.items) \in Nat
      /\ Len(enq) = Len(p[2]) /\ Len(ask) <= 1 /\ (ask = <<>> <=> Len(ask) = 0)
      /\ (enq = <<>> <=> Len(enq) = 0)
  <2>1. /\ Len(p[1]) \in Nat /\ Len(p[2]) \in Nat /\ Len(ask) \in Nat /\ Len(enq) \in Nat
        /\ Len(p[2]) <= 1 /\ Len(enq) <= 1 /\ Len(ask) <= 1
        /\ (p[2] = <<>> <=> Len(p[2]) = 0) /\ (enq = <<>> <=> Len(enq) = 0) /\ (ask = <<>> <=> Len(ask) = 0)
        /\ (p[2] = <<>> <=> Whos(p[2]) = {}) /\ (enq = <<>> <=> Whos(enq) = {})
    BY <1>1, WireWhos
  <2>2. Len(qu.items) \in Nat
    BY LenProperties DEF Pipe, FqState
  <2> QED BY <2>1, <2>2
<1> DEFINE l1 == Len(p[1])
           l2 == Len(p[2])
           l3 == Len(qu.items)
           l0 == Len(ask)
           l4 == Len(n.items)
<1>3. l1 + l2 + l3 <= 2 /\ (ask # <<>> => l1 + l2 + l3 < 2)
  BY DEF Pipe, Roomy, Fits
<1>4. l0 \in Nat /\ l1 \in Nat /\ l2 \in Nat /\ l3 \in Nat /\ l0 <= 1 /\ (ask = <<>> <=> l0 = 0)
  BY <1>2
<1>5. l3 <= 2 /\ (l2 # 0 => l3 < 2) /\ l0 + l1 + l2 + l3 <= 2
  <2> HIDE DEF l0, l1, l2, l3
  <2> QED BY <1>3, <1>4
<1>6. /\ Queue(Q, n)
      /\ Whos(n.items) = (Whos(qu.items) \ HeadWho(qu, d)) \cup Whos(p[2])
      /\ l4 <= l3 + l2
  <2>1. Queue(Q, qu)
    BY <1>5 DEF Queue, Pipe, Once, Roomy
  <2>2. enq # <<>> => Len(qu.items) < 2 /\ Whos(enq) \cap Whos(qu.items) = {}
    <3>1. enq # <<>> => l2 # 0
      BY <1>2
    <3>2. Whos(enq) \cap Whos(qu.items) = {}
      BY DEF Pipe, Once
    <3> QED BY <3>1, <3>2, <1>5
  <2>3. /\ Queue(Q, n)
        /\ Whos(n.items) = (Whos(qu.items) \ HeadWho(qu, d)) \cup Whos(enq)
        /\ Len(n.items) <= Len(qu.items) + Len(enq)
    <3> HIDE DEF l0, l1, l2, l3, l4
    <3> QED BY <2>1, <2>2, QueueStep
  <2> QED BY <2>3, <1>2
<1>7. HeadWho(qu, d) \subseteq Whos(qu.items)
  BY ShiftWhos DEF HeadWho, Pipe, Once, FqState
<1>8. Roomy(s, n)
  <2>1. l4 \in Nat /\ (n.rdy <=> Len(n.items) < 2)
    BY <1>6, LenProperties DEF Queue, FqState
  <2>2. l0 + l1 + l4 <= 2
    <3> HIDE DEF l0, l1, l2, l3, l4
    <3> QED BY <2>1, <1>4, <1>5, <1>6
  <2> QED BY <2>1, <2>2, <1>1 DEF Roomy
<1>9. Once(s, n) /\ On(s, n) = (On(p, qu) \ HeadWho(qu, d)) \cup Whos(ask)
  <2> DEFINE W1 == Whos(p[1])
             W2 == Whos(p[2])
             W3 == Whos(qu.items)
             W0 == Whos(ask)
             H == HeadWho(qu, d)
             W4 == Whos(n.items)
  <2>1. W1 \cap W2 = {} /\ (W1 \cup W2) \cap W3 = {}
    BY DEF Pipe, Once
  <2>2. W0 \cap (W1 \cup W2 \cup W3) = {} /\ W4 = (W3 \ H) \cup W2 /\ H \subseteq W3
    BY <1>6, <1>7 DEF On
  <2>3. W0 \cap W1 = {} /\ (W0 \cup W1) \cap W4 = {} /\ W0 \cup W1 \cup W4 = ((W1 \cup W2 \cup W3) \ H) \cup W0
    <3> HIDE DEF W0, W1, W2, W3, W4, H
    <3> QED BY <2>1, <2>2
  <2>4. Distinct(n.items)
    BY <1>6 DEF Queue
  <2> QED BY <2>3, <2>4, <1>1 DEF Once, On
<1> QED BY <1>1, <1>6, <1>8, <1>9 DEF Pipe, Queue

\* The reads on their way, one step on.
LEMMA LineStep ==
  ASSUME NEW A, NEW N \in Nat \ {0}, NEW p, Line(A, N, p), NEW ask \in Opt(A),
         Whos(ask) \cap LineOn(N, p) = {},
         NEW s, s = [k \in 1 .. N |-> IF k > 1 THEN p[k - 1] ELSE ask]
  PROVE  Line(A, N, s) /\ LineOn(N, s) = (LineOn(N, p) \ Whos(p[N])) \cup Whos(ask)
<1>1. /\ 1 \in 1 .. N /\ N \in 1 .. N /\ s[1] = ask
      /\ \A k \in 1 .. N : k # 1 => k - 1 \in 1 .. N /\ k - 1 # N /\ s[k] = p[k - 1]
      /\ \A k \in 1 .. N : k # N => k + 1 \in 1 .. N /\ k + 1 # 1 /\ s[k + 1] = p[k]
  OBVIOUS
<1>2. p \in [1 .. N -> Opt(A)] /\ \A k, l \in 1 .. N : Whos(p[k]) \cap Whos(p[l]) # {} => k = l
  BY DEF Line
<1>3. s \in [1 .. N -> Opt(A)]
  <2>1. \A k \in 1 .. N : s[k] \in Opt(A)
    BY <1>1, <1>2
  <2> QED BY <2>1
<1>4. \A k \in 1 .. N : Whos(p[k]) \cap Whos(ask) = {}
  BY DEF LineOn
<1>5. ASSUME NEW k \in 1 .. N, NEW l \in 1 .. N, Whos(s[k]) \cap Whos(s[l]) # {} PROVE k = l
  <2>1. CASE k = 1 \/ l = 1
    BY <2>1, <1>1, <1>4, <1>5
  <2>2. CASE k # 1 /\ l # 1
    <3>1. k - 1 = l - 1
      BY <2>2, <1>1, <1>2, <1>5
    <3> QED BY <3>1
  <2> QED BY <2>1, <2>2
<1>6. ASSUME NEW x PROVE x \in LineOn(N, s) <=> x \in (LineOn(N, p) \ Whos(p[N])) \cup Whos(ask)
  <2>1. ASSUME NEW k \in 1 .. N, x \in Whos(s[k]), k # 1 PROVE x \in LineOn(N, p) \ Whos(p[N])
    BY <2>1, <1>1, <1>2 DEF LineOn
  <2>2. ASSUME NEW k \in 1 .. N, x \in Whos(p[k]), x \notin Whos(p[N]) PROVE x \in LineOn(N, s)
    <3>1. k + 1 \in 1 .. N /\ s[k + 1] = p[k]
      BY <2>2, <1>1
    <3> QED BY <2>2, <3>1 DEF LineOn
  <2>3. x \in Whos(ask) => x \in LineOn(N, s)
    BY <1>1 DEF LineOn
  <2> QED BY <2>1, <2>2, <2>3, <1>1 DEF LineOn
<1> QED BY <1>3, <1>5, <1>6 DEF Line

-----------------------------------------------------------------------------
(* The arbiters: who is granted, and that there is room for it.            *)

LEMMA InPipeIs ==
  ASSUME NEW A, NEW p \in [1 .. 2 -> Opt(A)]
  PROVE  InPipe(p) = Len(p[1]) + Len(p[2])
<1> DEFINE S == {k \in 1 .. 2 : p[k] # <<>>}
<1>1. p[1] \in Opt(A) /\ p[2] \in Opt(A)
  OBVIOUS
<1>2. /\ Len(p[1]) = (IF p[1] # <<>> THEN 1 ELSE 0) /\ Len(p[2]) = (IF p[2] # <<>> THEN 1 ELSE 0)
  BY <1>1, OptIsSeq
<1>3. \A k : k \in S <=> (k = 1 /\ p[1] # <<>>) \/ (k = 2 /\ p[2] # <<>>)
  OBVIOUS
<1>4. /\ Cardinality({}) = 0 /\ Cardinality({1}) = 1 /\ Cardinality({2}) = 1 /\ Cardinality({1, 2}) = 2
  <2>1. Cardinality({1, 2}) = 2
    <3>1. 1 # 2
      OBVIOUS
    <3> QED BY <3>1, PairCard
  <2> QED BY <2>1, FS_EmptySet, FS_Singleton
<1>5. InPipe(p) = Cardinality(S)
  BY DEF InPipe
<1> HIDE DEF S
<1>6. CASE p[1] # <<>> /\ p[2] # <<>>
  <2>1. S = {1, 2}
    BY <1>3, <1>6
  <2>2. Len(p[1]) = 1 /\ Len(p[2]) = 1 /\ Cardinality(S) = 2
    BY <1>2, <1>4, <1>6, <2>1
  <2> QED BY <1>5, <2>2
<1>7. CASE p[1] # <<>> /\ p[2] = <<>>
  <2>1. S = {1}
    BY <1>3, <1>7
  <2>2. Len(p[1]) = 1 /\ Len(p[2]) = 0 /\ Cardinality(S) = 1
    BY <1>2, <1>4, <1>7, <2>1
  <2> QED BY <1>5, <2>2
<1>8. CASE p[1] = <<>> /\ p[2] # <<>>
  <2>1. S = {2}
    BY <1>3, <1>8
  <2>2. Len(p[1]) = 0 /\ Len(p[2]) = 1 /\ Cardinality(S) = 1
    BY <1>2, <1>4, <1>8, <2>1
  <2> QED BY <1>5, <2>2
<1>9. CASE p[1] = <<>> /\ p[2] = <<>>
  <2>1. S = {}
    BY <1>3, <1>9
  <2>2. Len(p[1]) = 0 /\ Len(p[2]) = 0 /\ Cardinality(S) = 0
    BY <1>2, <1>4, <1>9, <2>1
  <2> QED BY <1>5, <2>2
<1> QED BY <1>6, <1>7, <1>8, <1>9

LEMMA PeIn ==
  ASSUME NEW s \in SUBSET Beats
  PROVE  Pe(s) \in Beats /\ (s # {} => Pe(s) \in s)
BY DEF Pe, Beats

LEMMA CMsAreNat == CMs \subseteq Nat
BY DataAssumption DEF CMs

LEMMA PickIs ==
  ASSUME NEW S \in SUBSET CMs, NEW v \in Nat
  PROVE  Pick(S, v) = {} \/ \E m \in S : Pick(S, v) = {m}
<1>1. S \in SUBSET Nat /\ Critical(S) \in SUBSET Nat /\ Critical(S) \subseteq S
  BY CMsAreNat DEF Critical
<1>2. Critical(S) # {} => Min(Critical(S)) \in S
  BY <1>1, MinIsLeast
<1>3. S # {} => VipChosen(v, S) \in S
  BY <1>1, VipInRange
<1> QED BY <1>2, <1>3 DEF Pick

\* A grant asks for the beat b of machine m.
Granted(F, m) == F = {m} /\ m \in CMs
LEMMA Grants ==
  ASSUME RegTypes, OnTheWay
  PROVE  /\ \A m \in DbFire :
              /\ Granted(DbFire, m) /\ dc[m].sR # {}
              /\ dc[m].st = "Read" \/ (dc[m].st = "Repl" /\ m \in DsFire)
         /\ \A m \in DsFire :
              /\ Granted(DsFire, m) /\ dc[m].sV # {}
              /\ dc[m].st = "Save" \/ (dc[m].st = "Repl" /\ m \in DbFire)
              /\ Room(dsQ, dsD) /\ ChiFire = {}
         /\ \A m \in ChiFire :
              /\ Granted(ChiFire, m) /\ dc[m].sS # {} /\ dc[m].st = "Send" /\ Room(chiQ, chiD)
<1>1. /\ Repls \in SUBSET CMs /\ DbReqs \in SUBSET CMs /\ DsReqs \in SUBSET CMs /\ ChiReqs \in SUBSET CMs
      /\ vip.db \in Nat /\ vip.ds \in Nat /\ vip.chi \in Nat
  BY DEF Repls, DbReqs, DsReqs, ChiReqs, RegTypes
<1>2. Repls # {} => ReplSel \in Repls
  <2>1. Repls \in SUBSET Nat /\ Critical(Repls) \in SUBSET Nat /\ Critical(Repls) \subseteq Repls
    BY <1>1, CMsAreNat DEF Critical
  <2>2. (Critical(Repls) # {} => Min(Critical(Repls)) \in Repls) /\ (Repls # {} => Min(Repls) \in Repls)
    BY <2>1, MinIsLeast
  <2> QED BY <2>2 DEF ReplSel
<1>3. /\ \A m \in DbSel : DbSel = {m} /\ m \in DbReqs /\ (Repls # {} => m \in Repls)
      /\ \A m \in DsSel : DsSel = {m} /\ m \in DsReqs /\ (Repls # {} => m \in Repls)
  <2>1. CASE Repls # {}
    <3>1. DbSel = {ReplSel} /\ DsSel = {ReplSel} /\ ReplSel \in Repls
      BY <2>1, <1>2 DEF DbSel, DsSel
    <3> QED BY <3>1 DEF DbReqs, DsReqs
  <2>2. CASE Repls = {}
    <3>1. DbSel = Pick(DbReqs, vip.db) /\ DsSel = Pick(DsReqs, vip.ds)
      BY <2>2 DEF DbSel, DsSel
    <3>2. DbSel = {} \/ \E m \in DbReqs : DbSel = {m}
      BY <3>1, <1>1, PickIs
    <3>3. DsSel = {} \/ \E m \in DsReqs : DsSel = {m}
      BY <3>1, <1>1, PickIs
    <3> QED BY <2>2, <3>2, <3>3
  <2> QED BY <2>1, <2>2
<1>4. Repls # {} => DsSel = DbSel
  BY DEF DsSel, DbSel
<1>5. \A m \in ChiSel : ChiSel = {m} /\ m \in ChiReqs
  BY <1>1, PickIs DEF ChiSel
<1>6. \A m \in Repls : dc[m].st = "Repl" /\ dc[m].sR # {} /\ dc[m].sV # {}
  BY DEF Repls, IsRepl
<1>7. ASSUME NEW m \in DbFire
      PROVE  /\ Granted(DbFire, m) /\ dc[m].sR # {}
             /\ dc[m].st = "Read" \/ (dc[m].st = "Repl" /\ m \in DsFire)
  <2>1. m \in DbSel /\ DbFire = DbSel /\ DbRdy /\ (Repls # {} => DsRdy) /\ DbSel = {m} /\ m \in DbReqs
    BY <1>3 DEF DbFire
  <2>2. CASE Repls # {}
    BY <2>1, <2>2, <1>1, <1>3, <1>4, <1>6 DEF DsFire, Granted
  <2>3. CASE Repls = {}
    BY <2>1, <2>3, <1>1 DEF DbReqs, Granted
  <2> QED BY <2>2, <2>3
<1>8. ASSUME NEW m \in DsFire
      PROVE  /\ Granted(DsFire, m) /\ dc[m].sV # {}
             /\ dc[m].st = "Save" \/ (dc[m].st = "Repl" /\ m \in DbFire)
             /\ Room(dsQ, dsD) /\ ChiFire = {}
  <2>1. m \in DsSel /\ DsFire = DsSel /\ DsRdy /\ (Repls # {} => DbRdy) /\ DsSel = {m} /\ m \in DsReqs
    BY <1>3 DEF DsFire
  <2>2. Room(dsQ, dsD) /\ DsValid /\ ChiFire = {}
    BY <2>1 DEF DsRdy, DsValid, ChiFire, ChiRdy
  <2>3. CASE Repls # {}
    BY <2>1, <2>2, <2>3, <1>1, <1>3, <1>4, <1>6 DEF DbFire, Granted
  <2>4. CASE Repls = {}
    BY <2>1, <2>2, <2>4, <1>1 DEF DsReqs, Granted
  <2> QED BY <2>3, <2>4
<1>9. ASSUME NEW m \in ChiFire
      PROVE  Granted(ChiFire, m) /\ dc[m].sS # {} /\ dc[m].st = "Send" /\ Room(chiQ, chiD)
  <2>1. ChiRdy /\ ChiFire = ChiSel /\ m \in ChiSel
    BY DEF ChiFire
  <2> QED BY <2>1, <1>1, <1>5 DEF ChiRdy, ChiReqs, Granted
<1> QED BY <1>7, <1>8, <1>9

-----------------------------------------------------------------------------
(* The surroundings of an edge: what each machine hears.                   *)

Input(in) ==
  /\ in.rx \in RxChoice /\ in.task \in TaskChoice /\ in.clean \in CleanChoice
  /\ in.upd \in UpdChoice /\ in.req \in ReqChoice /\ in.txRdy \in BOOLEAN
  /\ \A x \in in.rx : in.task # <<>> => in.task[1].txn # x.txn
  /\ LET had == TxnIn(in.rx) \cup (IF in.task = <<>> THEN {} ELSE {in.task[1].txn})
     IN  /\ Apart(TxnIn(in.clean), had)
         /\ Apart({u.before : u \in in.upd}, had \cup TxnIn(in.clean))
         /\ Apart({u.next : u \in in.upd}, TxnIn(in.req))
Edge(in) == FlowInv /\ Input(in) /\ DataTick(Wires, in)

LEMMA NextIs ==
  ASSUME FlowInv, DataNext
  PROVE  \E in : Edge(in)
<1>1. PICK came \in RxChoice, task \in TaskChoice :
        /\ \A x \in came : task # <<>> => task[1].txn # x.txn
        /\ LET had == TxnIn(came) \cup (IF task = <<>> THEN {} ELSE {task[1].txn})
           IN  \E clean \in CleanChoice, upd \in UpdChoice, req \in ReqChoice, txRdy \in BOOLEAN :
                 /\ Apart(TxnIn(clean), had)
                 /\ Apart({u.before : u \in upd}, had \cup TxnIn(clean))
                 /\ Apart({u.next : u \in upd}, TxnIn(req))
                 /\ DataTick(Wires, [rx |-> came, task |-> task, clean |-> clean, upd |-> upd,
                                 req |-> req, txRdy |-> txRdy])
  BY Zenon DEF DataNext
<1> DEFINE had == TxnIn(came) \cup (IF task = <<>> THEN {} ELSE {task[1].txn})
<1>2. PICK clean \in CleanChoice, upd \in UpdChoice, req \in ReqChoice, txRdy \in BOOLEAN :
        /\ Apart(TxnIn(clean), had)
        /\ Apart({u.before : u \in upd}, had \cup TxnIn(clean))
        /\ Apart({u.next : u \in upd}, TxnIn(req))
        /\ DataTick(Wires, [rx |-> came, task |-> task, clean |-> clean, upd |-> upd,
                            req |-> req, txRdy |-> txRdy])
  BY <1>1, Zenon
<1> DEFINE i == [rx |-> came, task |-> task, clean |-> clean, upd |-> upd, req |-> req, txRdy |-> txRdy]
<1>3. /\ i.rx = came /\ i.task = task /\ i.clean = clean /\ i.upd = upd /\ i.req = req /\ i.txRdy = txRdy
      /\ DataTick(Wires, i)
  BY <1>2
<1> HIDE DEF i
<1>4. /\ i.rx \in RxChoice /\ i.task \in TaskChoice /\ i.clean \in CleanChoice
      /\ i.upd \in UpdChoice /\ i.req \in ReqChoice /\ i.txRdy \in BOOLEAN
      /\ \A x \in i.rx : i.task # <<>> => i.task[1].txn # x.txn
      /\ Apart(TxnIn(i.clean), TxnIn(i.rx) \cup (IF i.task = <<>> THEN {} ELSE {i.task[1].txn}))
      /\ Apart({u.before : u \in i.upd},
               (TxnIn(i.rx) \cup (IF i.task = <<>> THEN {} ELSE {i.task[1].txn})) \cup TxnIn(i.clean))
      /\ Apart({u.next : u \in i.upd}, TxnIn(i.req))
  BY <1>1, <1>2, <1>3, Zenon
<1>5. Input(i)
  BY <1>4, Zenon DEF Input
<1> QED BY <1>3, <1>5 DEF Edge

LEMMA TxnIs ==
  ASSUME RegTypes, OneMachine, NEW m \in CMs, Valid(m)
  PROVE  /\ dc[m].txn = <<TxnOf(m)>> /\ TxnOf(m) \in Txn /\ TxnOf(m) \notin Unused
         /\ \A n \in CMs : Valid(n) /\ dc[n].txn = <<TxnOf(m)>> => n = m
         /\ \A t \in Unused : dc[m].txn # <<t>>
<1>1. dc[m].txn \in Opt(Txn) /\ dc[m].txn # <<>>
  BY DEF RegTypes, CM, OneMachine
<1>2. PICK t \in Txn : dc[m].txn = <<t>>
  BY <1>1 DEF Opt
<1>3. TxnOf(m) = t
  BY <1>2 DEF TxnOf
<1>4. t \notin Unused
  BY <1>3 DEF Unused
<1>5. \A u \in Unused : <<u>> # <<t>>
  BY <1>4
<1> QED BY <1>2, <1>3, <1>4, <1>5 DEF OneMachine

LEMMA IdleIs ==
  ASSUME NEW m \in Idles
  PROVE  m \in CMs /\ dc[m].st = "Alloc" /\ Valid(m) /\ ~TaskHit(m)
BY DEF Idles, Idle, Valid

\* The inputs: none, or one of an idle machine or for a transaction unused.
Asks(in, m) == \E op \in Tasks, v \in SUBSET dc[m].vec :
                 in.task = <<[txn |-> TxnOf(m), op |-> op, tvec |-> v]>> /\ TaskOk(m, op, v)
Cleans(in, m) == \E v \in SUBSET dc[m].vec : in.clean = {[txn |-> TxnOf(m), vec |-> v]}
Renames(in, m) == \E t \in Unused : in.upd = {[before |-> TxnOf(m), next |-> t]}
Brings(in, m) == \E b \in dc[m].vec, f \in BOOLEAN : in.rx = {RxBeat(m, b, f)} /\ ~mask[dc[m].id[b]]
Begins(in) == \E t \in Unused, v \in SUBSET Beats :
                in.req = {[txn |-> t, vec |-> v, id |-> NewIds(v)]} /\ ~(Cardinality(FreeIds) < 2)

LEMMA PartIs == ASSUME NEW vec, NEW v \in Part(vec) PROVE v \in SUBSET vec
BY DEF Part

LEMMA InputIs ==
  ASSUME NEW in, Edge(in)
  PROVE  /\ in.rx = {} \/ \E m \in Idles : Brings(in, m)
         /\ in.task = <<>> \/ \E m \in Idles : Asks(in, m)
         /\ in.clean = {} \/ \E m \in Idles : Cleans(in, m)
         /\ in.upd = {} \/ \E m \in Idles : Renames(in, m)
         /\ in.req = {} \/ Begins(in)
<1>1. plan \in Plans /\ \A t \in Txn : plan.ops[t] \subseteq Tasks
  BY DataAssumption DEF Edge, FlowInv, RegTypes
<1>2. plan.vecs \subseteq SUBSET Beats /\ plan.rxFull \subseteq BOOLEAN
  BY <1>1, DataAssumption
<1>3. \A m \in Idles : TxnOf(m) \in Txn
  BY IdleIs, TxnIs DEF Edge, FlowInv
<1>4. in.rx = {} \/ \E m \in Idles : Brings(in, m)
  <2>1. in.rx \in RxChoice
    BY DEF Edge, Input
  <2>2. in.rx = {} \/ \E m \in Idles : in.rx \in {{RxBeat(m, b, f)} : b \in {c \in dc[m].vec : ~mask[dc[m].id[c]]},
                                     f \in plan.rxFull}
    BY <2>1 DEF RxChoice
  <2> QED BY <2>2, <1>2 DEF Brings
<1>5. in.task = <<>> \/ \E m \in Idles : Asks(in, m)
  <2>1. in.task \in TaskChoice
    BY DEF Edge, Input
  <2>2. in.task = <<>> \/ \E m \in Idles : \E p \in plan.ops[TxnOf(m)] \X Part(dc[m].vec) :
          TaskOk(m, p[1], p[2]) /\ in.task = <<[txn |-> TxnOf(m), op |-> p[1], tvec |-> p[2]]>>
    BY <2>1, ZenonT(60) DEF TaskChoice
  <2>3. \A m \in Idles : \A p \in plan.ops[TxnOf(m)] \X Part(dc[m].vec) : p[1] \in Tasks /\ p[2] \in SUBSET dc[m].vec
    BY <1>1, <1>3, PartIs
  <2> QED BY <2>2, <2>3 DEF Asks
<1>6. in.clean = {} \/ \E m \in Idles : Cleans(in, m)
  <2>1. in.clean \in CleanChoice
    BY DEF Edge, Input
  <2> QED BY <2>1, PartIs DEF CleanChoice, Cleans
<1>7. in.upd = {} \/ \E m \in Idles : Renames(in, m)
  <2>1. in.upd \in UpdChoice
    BY DEF Edge, Input
  <2> QED BY <2>1 DEF UpdChoice, Renames
<1>8. in.req = {} \/ Begins(in)
  <2>1. in.req \in ReqChoice
    BY DEF Edge, Input
  <2>2. in.req = {} \/ (~(Cardinality(FreeIds) < 2)
           /\ \E t \in Unused, v \in plan.vecs : in.req = {[txn |-> t, vec |-> v, id |-> NewIds(v)]})
    BY <2>1 DEF ReqChoice
  <2> QED BY <2>2, <1>2 DEF Begins
<1> QED BY <1>4, <1>5, <1>6, <1>7, <1>8

\* The new ids of a transaction are free and differ.
LEMMA NewIdsAre ==
  ASSUME NEW in, Edge(in), NEW vec \in SUBSET Beats, ~(Cardinality(FreeIds) < 2)
  PROVE  /\ NewIds(vec) \in [Beats -> Slots]
         /\ \A b \in vec : NewIds(vec)[b] \in FreeIds
         /\ \A b, c \in vec : NewIds(vec)[b] = NewIds(vec)[c] => b = c
<1> DEFINE lo == Min(FreeIds)
           hi == Min(FreeIds \ {lo})
<1>1. Slots \subseteq Nat /\ 0 \in Slots /\ IsFiniteSet(Slots) /\ FreeIds \subseteq Slots
  <2>1. NrBuf \in Nat \ {0}
    BY DataAssumption DEF Edge
  <2>2. IsFiniteSet(0 .. NrBuf - 1)
    <3>1. NrBuf - 1 \in Int
      BY <2>1
    <3> QED BY <3>1, FS_Interval
  <2> QED BY <2>1, <2>2 DEF Slots, FreeIds
<1>2. IsFiniteSet(FreeIds)
  BY <1>1, FS_Subset
<1>3. FreeIds # {} /\ FreeIds \ {lo} # {}
  <2>1. FreeIds # {}
    BY FS_EmptySet
  <2>2. ASSUME FreeIds \ {lo} = {} PROVE FALSE
    <3>1. FreeIds \subseteq {lo} /\ IsFiniteSet({lo}) /\ Cardinality({lo}) = 1
      BY <2>2, FS_Singleton
    <3>2. Cardinality(FreeIds) <= 1 /\ Cardinality(FreeIds) \in Nat
      <4> HIDE DEF lo
      <4> QED BY <3>1, <1>2, FS_Subset, FS_CardinalityType
    <3> QED BY <3>2
  <2> QED BY <2>1, <2>2
<1>4. lo \in FreeIds
  BY <1>1, <1>3, MinIsLeast
<1>5. hi \in FreeIds \ {lo}
  <2> DEFINE S == FreeIds \ {lo}
  <2>1. S \in SUBSET Nat /\ S # {}
    BY <1>1, <1>3
  <2> HIDE DEF S
  <2>2. Min(S) \in S
    BY <2>1, MinIsLeast
  <2> QED BY <2>2 DEF S
<1>6. NewIds(vec) = [b \in Beats |-> IF b \notin vec THEN 0 ELSE IF b = 0 \/ 0 \notin vec THEN lo ELSE hi]
  BY DEF NewIds
<1> HIDE DEF lo, hi
<1> QED BY <1>1, <1>4, <1>5, <1>6 DEF Beats

-----------------------------------------------------------------------------
(* The machines at an edge.                                                *)

LEMMA WiresAre == Wires.db = DbFire /\ Wires.ds = DsFire /\ Wires.chi = ChiFire /\ Wires.free = FreeIds
BY DEF Wires

\* The gate of the clock is closed only when no machine has anything to do.
LEMMA DcNext ==
  ASSUME NEW in, Edge(in)
  PROVE  dc' = [m \in CMs |-> NextCM(in, Wires, m)]
<1>1. dc' = IF CmAny(in) THEN [m \in CMs |-> NextCM(in, Wires, m)] ELSE dc
  BY DEF Edge, DataTick
<1>2. CASE CmAny(in)
  BY <1>1, <1>2
<1>3. CASE ~CmAny(in)
  <2>1. \A m \in CMs : ~Valid(m) /\ ~AllocHit(in, m)
    BY <1>3 DEF CmAny, AllocHit
  <2>2. \A m \in CMs : NextCM(in, Wires, m) = dc[m]
    BY <2>1 DEF NextCM
  <2>3. dc \in [CMs -> CM]
    BY DEF Edge, FlowInv, RegTypes
  <2> QED BY <1>1, <1>3, <2>2, <2>3
<1> QED BY <1>2, <1>3

LEMMA FreeSelIs ==
  ASSUME NEW in, Edge(in), NEW m \in FreeSel
  PROVE  m \in CMs /\ FreeSel = {m} /\ dc[m].st = "Free"
<1>1. Clients("Free") \in SUBSET Nat /\ Clients("Free") # {}
  BY CMsAreNat DEF Clients, FreeSel, Edge
<1>2. Min(Clients("Free")) \in Clients("Free")
  BY <1>1, MinIsLeast
<1> QED BY <1>1, <1>2 DEF FreeSel, Clients

\* The three ways of a machine: it is taken, stays free or works on.
Begun(in, m) ==
  \E t \in Unused, v \in SUBSET Beats :
    /\ in.req = {[txn |-> t, vec |-> v, id |-> NewIds(v)]} /\ ~(Cardinality(FreeIds) < 2)
    /\ dc'[m] = [st |-> "Alloc", crit |-> FALSE, txn |-> <<t>>, vec |-> v, op |-> {}, tvec |-> {},
                 id |-> NewIds(v), sR |-> {}, sS |-> {}, sV |-> {}, wR |-> {}, wS |-> {}, wV |-> {}]
Ways(in, m) ==
  \/ ~Valid(m) /\ FreeSel = {m} /\ Begun(in, m)
  \/ ~Valid(m) /\ dc'[m] = FreeCM /\ dc[m] = FreeCM
  \/ Valid(m) /\ dc'[m] = IF Busy(in, Wires, m).st = "Free" THEN FreeCM ELSE Busy(in, Wires, m)

LEMMA WaysAre ==
  ASSUME NEW in, Edge(in), NEW m \in CMs
  PROVE  Ways(in, m)
<1>1. dc'[m] = NextCM(in, Wires, m)
  BY DcNext
<1>2. CASE AllocHit(in, m)
  <2>1. in.req # {} /\ m \in FreeSel
    BY <1>2 DEF AllocHit
  <2>2. dc[m].st = "Free" /\ FreeSel = {m}
    BY <2>1, FreeSelIs
  <2>3. PICK t \in Unused, v \in SUBSET Beats :
          in.req = {[txn |-> t, vec |-> v, id |-> NewIds(v)]} /\ ~(Cardinality(FreeIds) < 2)
    BY <2>1, InputIs DEF Begins
  <2> DEFINE qu == [txn |-> t, vec |-> v, id |-> NewIds(v)]
  <2>4. (CHOOSE r \in in.req : TRUE) = qu
    BY <2>3
  <2>5. dc'[m] = LET r == CHOOSE r \in in.req : TRUE
                 IN  [FreeCM EXCEPT !.st = "Alloc", !.txn = <<r.txn>>, !.vec = r.vec, !.id = r.id]
    BY <1>1, <1>2 DEF NextCM
  <2>6. dc'[m] = [FreeCM EXCEPT !.st = "Alloc", !.txn = <<qu.txn>>, !.vec = qu.vec, !.id = qu.id]
    <3> HIDE DEF qu
    <3> QED BY <2>4, <2>5
  <2>7. qu.txn = t /\ qu.vec = v /\ qu.id = NewIds(v)
    OBVIOUS
  <2>8. dc'[m] = [st |-> "Alloc", crit |-> FALSE, txn |-> <<t>>, vec |-> v, op |-> {}, tvec |-> {},
                 id |-> NewIds(v), sR |-> {}, sS |-> {}, sV |-> {}, wR |-> {}, wS |-> {}, wV |-> {}]
    <3> HIDE DEF qu
    <3> QED BY <2>6, <2>7, ZenonT(60) DEF FreeCM
  <2> HIDE DEF qu
  <2> QED BY <2>2, <2>3, <2>8 DEF Ways, Begun, Valid
<1>3. CASE ~AllocHit(in, m) /\ ~Valid(m)
  <2>1. dc'[m] = dc[m]
    BY <1>1, <1>3 DEF NextCM
  <2>2. dc[m] = FreeCM
    BY <1>3 DEF Edge, FlowInv, OneMachine
  <2> QED BY <1>3, <2>1, <2>2 DEF Ways
<1>4. CASE ~AllocHit(in, m) /\ Valid(m)
  BY <1>1, <1>4, Zenon DEF NextCM, Ways
<1> QED BY <1>2, <1>3, <1>4

LEMMA Hears ==
  ASSUME NEW in, Edge(in), NEW m \in CMs, Valid(m)
  PROVE  /\ TaskHit(m) => taskD[1] \in TaskRec /\ dc[m].st = "Alloc" /\ taskD[1].tvec \subseteq dc[m].vec
         /\ CleanHit(in, m) => Idle(m) /\ (CHOOSE c \in in.clean : TRUE).vec \in SUBSET dc[m].vec
         /\ \/ NextTxn(in, m) = dc[m].txn /\ ~Renames(in, m)
            \/ /\ Idle(m)
               /\ \E t \in Unused : in.upd = {[before |-> TxnOf(m), next |-> t]} /\ NextTxn(in, m) = <<t>>
<1>0. RegTypes /\ OneMachine /\ TaskFits
  BY DEF Edge, FlowInv
<1>1. dc[m].txn = <<TxnOf(m)>> /\ \A n \in CMs : Valid(n) /\ dc[n].txn = <<TxnOf(m)>> => n = m
  BY <1>0, TxnIs
<1>2. ASSUME NEW n \in CMs, Valid(n), TxnOf(n) = TxnOf(m) PROVE n = m
  BY <1>0, <1>1, <1>2, TxnIs
<1>3. TaskHit(m) => taskD[1] \in TaskRec /\ dc[m].st = "Alloc" /\ taskD[1].tvec \subseteq dc[m].vec
  <2> SUFFICES ASSUME TaskHit(m)
               PROVE  taskD[1] \in TaskRec /\ dc[m].st = "Alloc" /\ taskD[1].tvec \subseteq dc[m].vec
    OBVIOUS
  <2>1. taskD # <<>> /\ dc[m].txn = <<taskD[1].txn>>
    BY DEF TaskHit
  <2>2. taskD[1] \in TaskRec
    BY <1>0, <2>1 DEF RegTypes, Opt
  <2>3. PICK n \in CMs : dc[n].st = "Alloc" /\ dc[n].txn = <<taskD[1].txn>> /\ taskD[1].tvec \subseteq dc[n].vec
    BY <1>0, <2>1 DEF TaskFits
  <2>4. n = m
    BY <2>1, <2>3, <1>1 DEF Valid
  <2> QED BY <2>2, <2>3, <2>4
<1>4. CleanHit(in, m) => Idle(m) /\ (CHOOSE c \in in.clean : TRUE).vec \in SUBSET dc[m].vec
  <2> SUFFICES ASSUME CleanHit(in, m)
               PROVE  Idle(m) /\ (CHOOSE c \in in.clean : TRUE).vec \in SUBSET dc[m].vec
    OBVIOUS
  <2>1. PICK c \in in.clean : dc[m].txn = <<c.txn>>
    BY DEF CleanHit
  <2>2. PICK n \in Idles : Cleans(in, n)
    BY <2>1, InputIs
  <2>3. PICK v \in SUBSET dc[n].vec : in.clean = {[txn |-> TxnOf(n), vec |-> v]}
    BY <2>2 DEF Cleans
  <2>4. c = [txn |-> TxnOf(n), vec |-> v] /\ c = CHOOSE d \in in.clean : TRUE
    BY <2>1, <2>3
  <2>5. c.txn = TxnOf(n) /\ c.vec = v
    BY <2>4
  <2>6. TxnOf(n) = TxnOf(m)
    BY <1>1, <2>1, <2>5
  <2>7. n = m
    BY <1>2, <2>2, <2>6, IdleIs
  <2> QED BY <2>2, <2>4, <2>5, <2>7 DEF Idles
<1>5. \/ NextTxn(in, m) = dc[m].txn /\ ~Renames(in, m)
      \/ /\ Idle(m)
         /\ \E t \in Unused : in.upd = {[before |-> TxnOf(m), next |-> t]} /\ NextTxn(in, m) = <<t>>
  <2>1. CASE ~\E u \in in.upd : dc[m].txn = <<u.before>>
    <3>1. NextTxn(in, m) = dc[m].txn
      BY <2>1 DEF NextTxn
    <3>2. ASSUME Renames(in, m) PROVE FALSE
      <4>1. PICK t \in Unused : in.upd = {[before |-> TxnOf(m), next |-> t]}
        BY <3>2 DEF Renames
      <4>2. [before |-> TxnOf(m), next |-> t] \in in.upd /\ [before |-> TxnOf(m), next |-> t].before = TxnOf(m)
        BY <4>1
      <4> QED BY <2>1, <4>2, <1>1
    <3> QED BY <3>1, <3>2
  <2>2. CASE \E u \in in.upd : dc[m].txn = <<u.before>>
    <3>1. PICK u \in in.upd : dc[m].txn = <<u.before>>
      BY <2>2
    <3>2. PICK n \in Idles : Renames(in, n)
      BY <3>1, InputIs
    <3>3. PICK t \in Unused : in.upd = {[before |-> TxnOf(n), next |-> t]}
      BY <3>2 DEF Renames
    <3>4. u = [before |-> TxnOf(n), next |-> t] /\ u = CHOOSE d \in in.upd : TRUE
      BY <3>1, <3>3
    <3>5. u.before = TxnOf(n) /\ u.next = t
      BY <3>4
    <3>6. TxnOf(n) = TxnOf(m)
      BY <1>1, <3>1, <3>5
    <3>7. n = m
      BY <1>2, <3>2, <3>6, IdleIs
    <3>8. NextTxn(in, m) = <<t>>
      BY <2>2, <3>4, <3>5 DEF NextTxn
    <3> QED BY <3>2, <3>3, <3>7, <3>8 DEF Idles
  <2> QED BY <2>1, <2>2
<1> QED BY <1>3, <1>4, <1>5

-----------------------------------------------------------------------------
(* The beats on their way at an edge.                                      *)

RdAsked  == {<<m, DbBeat(m)>> : m \in DbFire}
ChiAsked == {<<m, ChiBeat(m)>> : m \in ChiFire}
DsAsked  == {<<m, DsBeat(m)>> : m \in DsFire}

LEMMA OneAsk ==
  ASSUME NEW A, NEW S, S = {} \/ \E x \in A : S = {x},
         NEW o, o = IF S = {} THEN <<>> ELSE <<CHOOSE a \in S : TRUE>>
  PROVE  o \in Opt(A) /\ Whos(o) = {Who(x) : x \in S} /\ (o # <<>> <=> S # {})
<1>1. CASE S = {}
  BY <1>1, WireWhos DEF Opt
<1>2. ASSUME NEW x \in A, S = {x} PROVE o \in Opt(A) /\ Whos(o) = {Who(x)} /\ o # <<>>
  <2>1. o = <<x>> /\ o \in Opt(A) /\ o # <<>> /\ o[1] = x
    BY <1>2 DEF Opt
  <2> QED BY <2>1, WireWhos
<1> QED BY <1>1, <1>2

LEMMA AskBeats ==
  ASSUME NEW in, Edge(in)
  PROVE  /\ \A m \in DbFire : m \in CMs /\ Valid(m) /\ DbBeat(m) \in Beats /\ DbBeat(m) \in dc[m].sR
         /\ \A m \in ChiFire : m \in CMs /\ Valid(m) /\ ChiBeat(m) \in Beats /\ ChiBeat(m) \in dc[m].sS
         /\ \A m \in DsFire : m \in CMs /\ Valid(m) /\ DsBeat(m) \in Beats /\ DsBeat(m) \in dc[m].sV
<1>1. RegTypes /\ OnTheWay
  BY DEF Edge, FlowInv
<1>2. \A m \in CMs : dc[m].sR \in SUBSET Beats /\ dc[m].sS \in SUBSET Beats /\ dc[m].sV \in SUBSET Beats
  BY <1>1 DEF RegTypes, CM
<1>3. \A m \in DbFire : m \in CMs /\ Valid(m) /\ dc[m].sR # {}
  BY <1>1, Grants DEF Granted, Valid
<1>4. \A m \in ChiFire : m \in CMs /\ Valid(m) /\ dc[m].sS # {}
  BY <1>1, Grants DEF Granted, Valid
<1>5. \A m \in DsFire : m \in CMs /\ Valid(m) /\ dc[m].sV # {}
  BY <1>1, Grants DEF Granted, Valid
<1> QED BY <1>2, <1>3, <1>4, <1>5, PeIn DEF DbBeat, ChiBeat, DsBeat

\* The requests of an edge.
LEMMA AsksAre ==
  ASSUME NEW in, Edge(in)
  PROVE  /\ \E o \in Opt(RdItem) : /\ Whos(o) = RdAsked /\ (o # <<>> <=> DbFire # {})
                                   /\ rdPipe' = [k \in 1 .. Latency + 1 |-> IF k > 1 THEN rdPipe[k - 1] ELSE o]
         /\ \E o \in Opt(ChiAsk) : /\ Whos(o) = ChiAsked /\ (o # <<>> <=> ChiFire # {})
                                   /\ chiD' = <<o, chiD[1]>>
         /\ \E o \in Opt(DsAsk) : /\ Whos(o) = DsAsked /\ (o # <<>> <=> DsFire # {})
                                  /\ dsD' = <<o, dsD[1]>>
<1>0. RegTypes /\ OnTheWay /\ OneMachine /\ DataTick(Wires, in)
  BY DEF Edge, FlowInv
<1>1. \A m \in CMs : dc[m].id \in [Beats -> Slots]
  BY <1>0 DEF RegTypes, CM
<1>2. \A m \in CMs : Valid(m) => dc[m].txn[1] \in Txn
  BY <1>0, TxnIs DEF TxnOf
<1>3. \E o \in Opt(RdItem) : /\ Whos(o) = RdAsked /\ (o # <<>> <=> DbFire # {})
                             /\ rdPipe' = [k \in 1 .. Latency + 1 |-> IF k > 1 THEN rdPipe[k - 1] ELSE o]
  <2> DEFINE S == ReadReq(Wires)
             o == IF S = {} THEN <<>> ELSE <<CHOOSE r \in S : TRUE>>
             It(m) == [m |-> m, beat |-> DbBeat(m), id |-> dc[m].id[DbBeat(m)],
                       atOnce |-> AtOnce(dc[m].op), data |-> Held(dc[m].txn[1], DbBeat(m))]
  <2>1. S = {It(m) : m \in DbFire}
    BY WiresAre DEF ReadReq
  <2>2. ASSUME NEW m \in DbFire PROVE It(m) \in RdItem /\ S = {It(m)} /\ Who(It(m)) = <<m, DbBeat(m)>>
    <3>1. m \in CMs /\ Valid(m) /\ DbBeat(m) \in Beats
      BY AskBeats
    <3>2. Held(dc[m].txn[1], DbBeat(m)) \in Bit
      BY <1>0, <1>2, <3>1 DEF Held, Bit, RegTypes
    <3>3. AtOnce(dc[m].op) \in BOOLEAN
      BY DEF AtOnce, Sends
    <3>4. DbFire = {m}
      BY <1>0, Grants DEF Granted
    <3>5. It(m) \in RdItem
      BY <1>1, <3>1, <3>2, <3>3 DEF RdItem
    <3>6. Who(It(m)) = <<m, DbBeat(m)>>
      BY DEF Who
    <3> HIDE DEF It
    <3> QED BY <2>1, <3>4, <3>5, <3>6
  <2>3. (S = {} <=> DbFire = {}) /\ (S = {} \/ \E x \in RdItem : S = {x}) /\ {Who(x) : x \in S} = RdAsked
    <3> HIDE DEF It
    <3> QED BY <2>1, <2>2 DEF RdAsked
  <2>4. rdPipe' = [k \in 1 .. Latency + 1 |-> IF k > 1 THEN rdPipe[k - 1] ELSE o]
    <3>1. rdPipe' = NextRdPipe(Wires)
      BY <1>0 DEF DataTick
    <3> DEFINE c == IF Wires.db = {} THEN <<>> ELSE <<CHOOSE r \in ReadReq(Wires) : TRUE>>
    <3>2. c = o
      BY <2>3, WiresAre
    <3>3. NextRdPipe(Wires) = [k \in 1 .. Latency + 1 |-> IF k > 1 THEN rdPipe[k - 1] ELSE c]
      BY DEF NextRdPipe
    <3> HIDE DEF o, c
    <3> QED BY <3>1, <3>2, <3>3
  <2>5. o \in Opt(RdItem) /\ Whos(o) = {Who(x) : x \in S} /\ (o # <<>> <=> S # {})
    <3> HIDE DEF S
    <3> QED BY <2>3, OneAsk
  <2> HIDE DEF S, o
  <2> QED BY <2>3, <2>4, <2>5
<1>4. \E o \in Opt(ChiAsk) : Whos(o) = ChiAsked /\ (o # <<>> <=> ChiFire # {}) /\ chiD' = <<o, chiD[1]>>
  <2> DEFINE S == AskChi(Wires)
             o == IF S = {} THEN <<>> ELSE <<CHOOSE a \in S : TRUE>>
             It(m) == [m |-> m, beat |-> ChiBeat(m), id |-> dc[m].id[ChiBeat(m)]]
  <2>1. S = {It(m) : m \in ChiFire}
    BY WiresAre DEF AskChi
  <2>2. ASSUME NEW m \in ChiFire PROVE It(m) \in ChiAsk /\ S = {It(m)} /\ Who(It(m)) = <<m, ChiBeat(m)>>
    <3>1. m \in CMs /\ ChiBeat(m) \in Beats /\ ChiFire = {m}
      BY <1>0, AskBeats, Grants DEF Granted
    <3>2. It(m) \in ChiAsk /\ Who(It(m)) = <<m, ChiBeat(m)>>
      BY <1>1, <3>1 DEF ChiAsk, Who
    <3> HIDE DEF It
    <3> QED BY <2>1, <3>1, <3>2
  <2>3. (S = {} <=> ChiFire = {}) /\ (S = {} \/ \E x \in ChiAsk : S = {x}) /\ {Who(x) : x \in S} = ChiAsked
    <3> HIDE DEF It
    <3> QED BY <2>1, <2>2 DEF ChiAsked
  <2>4. chiD' = <<o, chiD[1]>>
    BY <1>0 DEF DataTick, Shift
  <2>5. o \in Opt(ChiAsk) /\ Whos(o) = {Who(x) : x \in S} /\ (o # <<>> <=> S # {})
    <3> HIDE DEF S
    <3> QED BY <2>3, OneAsk
  <2> HIDE DEF S, o
  <2> QED BY <2>3, <2>4, <2>5
<1>5. \E o \in Opt(DsAsk) : Whos(o) = DsAsked /\ (o # <<>> <=> DsFire # {}) /\ dsD' = <<o, dsD[1]>>
  <2> DEFINE S == AskDs(Wires)
             o == IF S = {} THEN <<>> ELSE <<CHOOSE a \in S : TRUE>>
             It(m) == [m |-> m, beat |-> DsBeat(m), id |-> dc[m].id[DsBeat(m)], line |-> dc[m].txn[1]]
  <2>1. S = {It(m) : m \in DsFire}
    BY WiresAre DEF AskDs
  <2>2. ASSUME NEW m \in DsFire PROVE It(m) \in DsAsk /\ S = {It(m)} /\ Who(It(m)) = <<m, DsBeat(m)>>
    <3>1. m \in CMs /\ Valid(m) /\ DsBeat(m) \in Beats /\ DsFire = {m}
      BY <1>0, AskBeats, Grants DEF Granted
    <3>2. It(m) \in DsAsk /\ Who(It(m)) = <<m, DsBeat(m)>>
      BY <1>1, <1>2, <3>1 DEF DsAsk, Who
    <3> HIDE DEF It
    <3> QED BY <2>1, <3>1, <3>2
  <2>3. (S = {} <=> DsFire = {}) /\ (S = {} \/ \E x \in DsAsk : S = {x}) /\ {Who(x) : x \in S} = DsAsked
    <3> HIDE DEF It
    <3> QED BY <2>1, <2>2 DEF DsAsked
  <2>4. dsD' = <<o, dsD[1]>>
    BY <1>0 DEF DataTick, Shift
  <2>5. o \in Opt(DsAsk) /\ Whos(o) = {Who(x) : x \in S} /\ (o # <<>> <=> S # {})
    <3> HIDE DEF S
    <3> QED BY <2>3, OneAsk
  <2> HIDE DEF S, o
  <2> QED BY <2>3, <2>4, <2>5
<1> QED BY <1>3, <1>4, <1>5

\* What the two readers of the buffer put into their queues.
LEMMA EnqsAre ==
  ASSUME NEW in, Edge(in)
  PROVE  /\ EnqChi \in Opt(ChiItem) /\ Whos(EnqChi) = Whos(chiD[2]) /\ (EnqChi # <<>> <=> chiD[2] # <<>>)
         /\ EnqDs \in Opt(DsItem) /\ Whos(EnqDs) = Whos(dsD[2]) /\ (EnqDs # <<>> <=> dsD[2] # <<>>)
<1>1. /\ chiD[2] \in Opt(ChiAsk) /\ dsD[2] \in Opt(DsAsk) /\ (chiD[2] = <<>> \/ dsD[2] = <<>>)
      /\ buf \in [Slots -> Bit]
  BY DEF Edge, FlowInv, OnTheWay, Pipe, RegTypes
<1>2. CASE chiD[2] # <<>>
  <2>1. chiD[2][1] \in ChiAsk /\ Whos(chiD[2]) = {Who(chiD[2][1])} /\ dsD[2] = <<>> /\ Whos(dsD[2]) = {}
    BY <1>1, <1>2, WireWhos
  <2>2. buf[PortId] \in Bit
    BY <1>1, <2>1 DEF PortId, ChiAsk
  <2> DEFINE x == [m |-> chiD[2][1].m, beat |-> chiD[2][1].beat, data |-> buf[PortId]]
  <2>3. EnqChi = <<x>> /\ x \in ChiItem /\ Who(x) = Who(chiD[2][1])
    BY <1>2, <2>1, <2>2 DEF EnqChi, ChiItem, ChiAsk, Who
  <2>4. EnqDs = <<>> /\ EnqDs \in Opt(DsItem) /\ Whos(EnqDs) = {}
    BY <2>1, WireWhos DEF EnqDs, Opt
  <2>5. EnqChi \in Opt(ChiItem) /\ Whos(EnqChi) = {Who(x)} /\ EnqChi # <<>>
    <3> HIDE DEF x
    <3>1. <<x>> \in Opt(ChiItem) /\ <<x>> # <<>> /\ <<x>>[1] = x
      BY <2>3 DEF Opt
    <3> QED BY <2>3, <3>1, WireWhos
  <2> QED BY <1>2, <2>1, <2>3, <2>4, <2>5
<1>3. CASE chiD[2] = <<>> /\ dsD[2] # <<>>
  <2>1. dsD[2][1] \in DsAsk /\ Whos(dsD[2]) = {Who(dsD[2][1])} /\ Whos(chiD[2]) = {}
    BY <1>1, <1>3, WireWhos
  <2>2. buf[PortId] \in Bit
    BY <1>1, <1>3, <2>1 DEF PortId, DsAsk
  <2> DEFINE x == [m |-> dsD[2][1].m, beat |-> dsD[2][1].beat, line |-> dsD[2][1].line, data |-> buf[PortId]]
  <2>3. EnqDs = <<x>> /\ x \in DsItem /\ Who(x) = Who(dsD[2][1])
    BY <1>3, <2>1, <2>2 DEF EnqDs, DsItem, DsAsk, Who
  <2>4. EnqChi = <<>> /\ EnqChi \in Opt(ChiItem) /\ Whos(EnqChi) = {}
    BY <1>3, WireWhos DEF EnqChi, Opt
  <2>5. EnqDs \in Opt(DsItem) /\ Whos(EnqDs) = {Who(x)} /\ EnqDs # <<>>
    <3> HIDE DEF x
    <3>1. <<x>> \in Opt(DsItem) /\ <<x>> # <<>> /\ <<x>>[1] = x
      BY <2>3 DEF Opt
    <3> QED BY <2>3, <3>1, WireWhos
  <2> QED BY <1>3, <2>1, <2>3, <2>4, <2>5
<1>4. CASE chiD[2] = <<>> /\ dsD[2] = <<>>
  BY <1>4 DEF EnqChi, EnqDs, Opt
<1> QED BY <1>2, <1>3, <1>4

\* The notices of an edge: what has arrived.
RdDone     == Whos(DsResp)
ChiDone(in) == HeadWho(chiQ, in.txRdy)
DsDone     == HeadWho(dsQ, WriDsFire # {})
OutDone(in) == ChiDone(in) \cup (IF chiQ.items = <<>> /\ DsToChi /\ in.txRdy THEN RdDone ELSE {})

LEMMA OnTheWayStep ==
  ASSUME NEW in, Edge(in)
  PROVE  /\ OnTheWay'
         /\ RdOn' = (RdOn \ RdDone) \cup RdAsked
         /\ ChiOn' = (ChiOn \ ChiDone(in)) \cup ChiAsked
         /\ DsOn' = (DsOn \ DsDone) \cup DsAsked
<1>0. RegTypes /\ OnTheWay /\ Stages /\ DataTick(Wires, in) /\ in.txRdy \in BOOLEAN
  BY DEF Edge, FlowInv, Input
<1>1. /\ Pipe(ChiAsk, ChiItem, chiD, chiQ) /\ Pipe(DsAsk, DsItem, dsD, dsQ)
      /\ Line(RdItem, Latency + 1, rdPipe)
      /\ \A k \in 1 .. 2 : chiD[k] = <<>> \/ dsD[k] = <<>>
      /\ chiD \in [1 .. 2 -> Opt(ChiAsk)] /\ dsD \in [1 .. 2 -> Opt(DsAsk)]
  BY <1>0 DEF OnTheWay, Pipe
<1>2. \A m \in CMs : Ledger(dc[m], BeatsOn(RdOn, m), BeatsOn(ChiOn, m), BeatsOn(DsOn, m))
  BY <1>0 DEF Stages
<1>3. RdAsked \cap RdOn = {} /\ ChiAsked \cap ChiOn = {} /\ DsAsked \cap DsOn = {}
  <2>1. \A m \in CMs, b \in Beats : /\ b \in dc[m].sR => <<m, b>> \notin RdOn
                                    /\ b \in dc[m].sS => <<m, b>> \notin ChiOn
                                    /\ b \in dc[m].sV => <<m, b>> \notin DsOn
    BY <1>2 DEF Ledger, BeatsOn
  <2> QED BY <2>1, AskBeats DEF RdAsked, ChiAsked, DsAsked
<1>4. Line(RdItem, Latency + 1, rdPipe') /\ RdOn' = (RdOn \ RdDone) \cup RdAsked
  <2>1. PICK o \in Opt(RdItem) : /\ Whos(o) = RdAsked
          /\ rdPipe' = [k \in 1 .. Latency + 1 |-> IF k > 1 THEN rdPipe[k - 1] ELSE o]
    BY AsksAre
  <2>2. Latency + 1 \in Nat \ {0}
    BY DataAssumption
  <2> DEFINE N == Latency + 1
  <2>3. Line(RdItem, N, rdPipe') /\ LineOn(N, rdPipe') = (LineOn(N, rdPipe) \ Whos(rdPipe[N])) \cup Whos(o)
    <3>1. Whos(o) \cap LineOn(N, rdPipe) = {} /\ Line(RdItem, N, rdPipe)
          /\ rdPipe' = [k \in 1 .. N |-> IF k > 1 THEN rdPipe[k - 1] ELSE o] /\ N \in Nat \ {0}
      BY <1>1, <1>3, <2>1, <2>2 DEF RdOn
    <3> HIDE DEF N
    <3> QED BY <3>1, LineStep
  <2> QED BY <2>1, <2>3 DEF RdOn, RdDone, DsResp
<1>5. Pipe(ChiAsk, ChiItem, chiD', chiQ') /\ ChiOn' = (ChiOn \ ChiDone(in)) \cup ChiAsked
  <2>1. PICK o \in Opt(ChiAsk) : Whos(o) = ChiAsked /\ (o # <<>> <=> ChiFire # {}) /\ chiD' = <<o, chiD[1]>>
    BY AsksAre
  <2>2. chiQ' = FqNext(2, chiQ, EnqChi, in.txRdy)
    BY <1>0 DEF DataTick
  <2>3. o # <<>> => Fits(chiD, chiQ)
    <3> SUFFICES ASSUME o # <<>> PROVE Fits(chiD, chiQ)
      OBVIOUS
    <3>1. Room(chiQ, chiD)
      BY <2>1, <1>0, Grants
    <3>2. 2 - Len(chiQ.items) > Len(chiD[1]) + Len(chiD[2])
      BY <3>1, <1>1, InPipeIs DEF Room
    <3>3. Len(chiD[1]) \in Nat /\ Len(chiD[2]) \in Nat /\ Len(chiQ.items) \in Nat
      BY <1>1, WireWhos, LenProperties DEF Pipe, FqState
    <3> DEFINE x == Len(chiD[1])
               y == Len(chiD[2])
               z == Len(chiQ.items)
    <3>4. x \in Nat /\ y \in Nat /\ z \in Nat /\ 2 - z > x + y
      BY <3>2, <3>3
    <3>5. x + y + z < 2
      <4> HIDE DEF x, y, z
      <4> QED BY <3>4
    <3> QED BY <3>5 DEF Fits
  <2>4. EnqChi \in Opt(ChiItem) /\ Whos(EnqChi) = Whos(chiD[2])
    BY EnqsAre
  <2>5. Whos(o) \cap On(chiD, chiQ) = {}
    BY <1>3, <2>1 DEF ChiOn
  <2>6. Pipe(ChiAsk, ChiItem, chiD', chiQ')
        /\ On(chiD', chiQ') = (On(chiD, chiQ) \ HeadWho(chiQ, in.txRdy)) \cup Whos(o)
    BY <1>0, <1>1, <2>1, <2>2, <2>3, <2>4, <2>5, PipeStep
  <2> QED BY <2>1, <2>6 DEF ChiOn, ChiDone
<1>6. Pipe(DsAsk, DsItem, dsD', dsQ') /\ DsOn' = (DsOn \ DsDone) \cup DsAsked
  <2>1. PICK o \in Opt(DsAsk) : Whos(o) = DsAsked /\ (o # <<>> <=> DsFire # {}) /\ dsD' = <<o, dsD[1]>>
    BY AsksAre
  <2>2. dsQ' = FqNext(2, dsQ, EnqDs, WriDsFire # {})
    BY <1>0 DEF DataTick
  <2>3. o # <<>> => Fits(dsD, dsQ)
    <3> SUFFICES ASSUME o # <<>> PROVE Fits(dsD, dsQ)
      OBVIOUS
    <3>1. Room(dsQ, dsD)
      BY <2>1, <1>0, Grants
    <3>2. 2 - Len(dsQ.items) > Len(dsD[1]) + Len(dsD[2])
      BY <3>1, <1>1, InPipeIs DEF Room
    <3>3. Len(dsD[1]) \in Nat /\ Len(dsD[2]) \in Nat /\ Len(dsQ.items) \in Nat
      BY <1>1, WireWhos, LenProperties DEF Pipe, FqState
    <3> DEFINE x == Len(dsD[1])
               y == Len(dsD[2])
               z == Len(dsQ.items)
    <3>4. x \in Nat /\ y \in Nat /\ z \in Nat /\ 2 - z > x + y
      BY <3>2, <3>3
    <3>5. x + y + z < 2
      <4> HIDE DEF x, y, z
      <4> QED BY <3>4
    <3> QED BY <3>5 DEF Fits
  <2>4. EnqDs \in Opt(DsItem) /\ Whos(EnqDs) = Whos(dsD[2])
    BY EnqsAre
  <2>5. Whos(o) \cap On(dsD, dsQ) = {}
    BY <1>3, <2>1 DEF DsOn
  <2>6. Pipe(DsAsk, DsItem, dsD', dsQ')
        /\ On(dsD', dsQ') = (On(dsD, dsQ) \ HeadWho(dsQ, WriDsFire # {})) \cup Whos(o)
    <3> DEFINE d == WriDsFire # {}
    <3>1. d \in BOOLEAN
      OBVIOUS
    <3> HIDE DEF d
    <3>2. dsQ' = FqNext(2, dsQ, EnqDs, d)
      BY <2>2 DEF d
    <3>3. On(dsD', dsQ') = (On(dsD, dsQ) \ HeadWho(dsQ, d)) \cup Whos(o) /\ Pipe(DsAsk, DsItem, dsD', dsQ')
      BY <1>1, <2>1, <2>3, <2>4, <2>5, <3>1, <3>2, PipeStep
    <3> QED BY <3>3 DEF d
  <2> QED BY <2>1, <2>6 DEF DsOn, DsDone
<1>7. \A k \in 1 .. 2 : chiD'[k] = <<>> \/ dsD'[k] = <<>>
  <2>1. PICK o \in Opt(ChiAsk) : (o # <<>> <=> ChiFire # {}) /\ chiD' = <<o, chiD[1]>>
    BY AsksAre
  <2>2. PICK p \in Opt(DsAsk) : (p # <<>> <=> DsFire # {}) /\ dsD' = <<p, dsD[1]>>
    BY AsksAre
  <2>3. o = <<>> \/ p = <<>>
    BY <2>1, <2>2, <1>0, Grants
  <2>4. /\ chiD'[1] = o /\ chiD'[2] = chiD[1] /\ dsD'[1] = p /\ dsD'[2] = dsD[1]
        /\ \A k \in 1 .. 2 : k = 1 \/ k = 2
    BY <2>1, <2>2
  <2> QED BY <1>1, <2>3, <2>4
<1> QED BY <1>4, <1>5, <1>6, <1>7 DEF OnTheWay

LEMMA NoticesAre ==
  ASSUME NEW in, Edge(in), NEW m \in CMs
  PROVE  /\ {b \in Beats : DsWriDB(m, b)} = BeatsOn(RdDone, m)
         /\ {b \in Beats : TxDone(in, m, b)} = BeatsOn(OutDone(in), m)
         /\ {b \in Beats : DbWriDS(m, b)} = BeatsOn(DsDone, m)
         /\ RdDone \subseteq RdOn /\ ChiDone(in) \subseteq ChiOn /\ DsDone \subseteq DsOn
<1>0. OnTheWay /\ in.txRdy \in BOOLEAN
  BY DEF Edge, FlowInv, Input
<1>1. DsResp \in Opt(RdItem) /\ RdDone \subseteq RdOn
  <2>1. Latency + 1 \in 1 .. Latency + 1
    BY DataAssumption
  <2> QED BY <1>0, <2>1 DEF OnTheWay, Line, DsResp, RdDone, RdOn, LineOn
<1>2. ASSUME NEW b \in Beats PROVE DsWriDB(m, b) <=> <<m, b>> \in RdDone
  BY <1>1, WireWhos DEF DsWriDB, RdDone, Who
<1>3. chiQ.items # <<>> => Head(chiQ.items) \in ChiItem /\ Who(Head(chiQ.items)) \in Whos(chiQ.items)
  BY <1>0, ShiftWhos DEF OnTheWay, Pipe, Once, FqState
<1>4. dsQ.items # <<>> => Head(dsQ.items) \in DsItem /\ Who(Head(dsQ.items)) \in Whos(dsQ.items)
  BY <1>0, ShiftWhos DEF OnTheWay, Pipe, Once, FqState
<1>5. ChiDone(in) \subseteq ChiOn /\ DsDone \subseteq DsOn
  BY <1>3, <1>4 DEF ChiDone, DsDone, HeadWho, ChiOn, DsOn, On
<1>6. ASSUME NEW b \in Beats PROVE TxDone(in, m, b) <=> <<m, b>> \in OutDone(in)
  <2>1. CASE chiQ.items # <<>>
    <3> DEFINE h == Head(chiQ.items)
    <3>1. ToChi = <<h>> /\ ToChi # <<>> /\ ToChi[1] = h
      BY <2>1 DEF ToChi
    <3>2. TxDat = [m |-> h.m, beat |-> h.beat, data |-> h.data] /\ TxValid
      BY <3>1 DEF TxDat, TxValid
    <3>3. TxDone(in, m, b) <=> in.txRdy /\ h.m = m /\ h.beat = b
      BY <3>2 DEF TxDone, TxFire
    <3>4. OutDone(in) = IF in.txRdy THEN {Who(h)} ELSE {}
      BY <2>1 DEF OutDone, ChiDone, HeadWho
    <3> HIDE DEF h
    <3> QED BY <3>3, <3>4 DEF Who
  <2>2. CASE chiQ.items = <<>>
    <3>1. ToChi = <<>> /\ ChiDone(in) = {}
      BY <2>2 DEF ToChi, ChiDone, HeadWho
    <3>2. CASE DsToChi
      <4>1. DsResp # <<>>
        BY <3>2 DEF DsToChi
      <4>2. RdDone = {Who(DsResp[1])}
        BY <1>1, <4>1, WireWhos DEF RdDone
      <4>3. TxDat = [m |-> DsResp[1].m, beat |-> DsResp[1].beat, data |-> DsResp[1].data] /\ TxValid
        BY <3>1, <3>2 DEF TxDat, TxValid
      <4>4. TxDone(in, m, b) <=> in.txRdy /\ DsResp[1].m = m /\ DsResp[1].beat = b
        BY <4>3 DEF TxDone, TxFire
      <4>5. OutDone(in) = IF in.txRdy THEN {Who(DsResp[1])} ELSE {}
        BY <2>2, <3>1, <3>2, <4>2 DEF OutDone
      <4> QED BY <4>4, <4>5 DEF Who
    <3>3. CASE ~DsToChi
      BY <2>2, <3>1, <3>3 DEF OutDone, TxDone, TxFire, TxValid
    <3> QED BY <3>2, <3>3
  <2> QED BY <2>1, <2>2
<1>7. ASSUME NEW b \in Beats PROVE DbWriDS(m, b) <=> <<m, b>> \in DsDone
  <2>1. CASE dsQ.items # <<>>
    <3> DEFINE h == Head(dsQ.items)
    <3>1. WriDs = {h}
      BY <2>1 DEF WriDs
    <3>2. DbWriDS(m, b) <=> WriDsFire # {} /\ h.m = m /\ h.beat = b
      BY <3>1 DEF DbWriDS, WriDsFire
    <3>3. DsDone = IF WriDsFire # {} THEN {Who(h)} ELSE {}
      BY <2>1 DEF DsDone, HeadWho
    <3> HIDE DEF h
    <3> QED BY <3>2, <3>3 DEF Who
  <2>2. CASE dsQ.items = <<>>
    BY <2>2 DEF WriDs, WriDsFire, DbWriDS, DsDone, HeadWho
  <2> QED BY <2>1, <2>2
<1> QED BY <1>1, <1>2, <1>5, <1>6, <1>7 DEF BeatsOn

-----------------------------------------------------------------------------
(* A machine with a task at an edge: some beats are asked for (a), some    *)
(* have come (c), one may go from storage to the output at once (dir).     *)

Rest(r, wV) == IF "save" \in r.op /\ wV # {} THEN "Save" ELSE "Resp"
Onward(r, wR, wS, wV) ==
  IF r.st = "Repl" THEN IF wR # {} \/ wV # {} THEN "Repl" ELSE IF wS # {} THEN "Send" ELSE "Resp"
  ELSE IF r.st = "Read" THEN IF wR # {} THEN "Read" ELSE IF "send" \in r.op /\ wS # {} THEN "Send" ELSE Rest(r, wV)
  ELSE IF r.st = "Send" THEN IF wS # {} THEN "Send" ELSE Rest(r, wV)
  ELSE IF wV # {} THEN "Save" ELSE "Resp"

LEMMA OpIs ==
  ASSUME NEW op \in Tasks
  PROVE  /\ "repl" \in op => op = {"repl"}
         /\ "read" \in op => "repl" \notin op
         /\ Sends(op) <=> op = {"repl"} \/ "send" \in op
         /\ Saves(op) <=> op = {"repl"} \/ "save" \in op
         /\ Reads(op) <=> op = {"repl"} \/ "read" \in op
         /\ op = {"repl"} => "read" \notin op /\ "send" \notin op /\ "save" \notin op
BY DEF Tasks, Sends, Saves, Reads

LEMMA Works ==
  ASSUME NEW r, NEW n, NEW R, NEW S, NEW V,
         NEW cR \in SUBSET R, NEW cS \in SUBSET S, NEW cV \in SUBSET V, NEW dir \in SUBSET cR,
         NEW aR \in SUBSET r.sR, NEW aS \in SUBSET r.sS, NEW aV \in SUBSET r.sV,
         Stage(r), Ledger(r, R, S, V), r.st \in Moves,
         aR # {} => r.st \in {"Read", "Repl"}, aS # {} => r.st = "Send",
         aV # {} => r.st \in {"Save", "Repl"}, r.st = "Repl" => aR = aV,
         n.op = r.op, n.tvec = r.tvec, n.vec = r.vec,
         n.sR = r.sR \ (aR \cup cR), n.sS = r.sS \ (aS \cup (cS \cup dir)), n.sV = r.sV \ (aV \cup cV),
         n.wR = r.wR \ cR, n.wS = r.wS \ (cS \cup dir), n.wV = r.wV \ cV,
         n.st = Onward(r, n.wR, n.wS, n.wV)
  PROVE  Stage(n) /\ Ledger(n, (R \ cR) \cup aR, (S \ cS) \cup aS, (V \ cV) \cup aV)
<1>1. /\ r.wR = r.sR \cup R /\ r.sR \cap R = {}
      /\ r.wS = r.sS \cup S /\ r.sS \cap S = {}
      /\ r.wV = r.sV \cup V /\ r.sV \cap V = {}
      /\ (S # {} => r.st = "Send") /\ (V # {} => r.st \in {"Repl", "Save"})
  BY DEF Ledger
<1>2. /\ r.op \in Tasks /\ r.tvec \subseteq r.vec
      /\ r.st = "Repl" => r.op = {"repl"} /\ r.sR = r.sV
      /\ r.st = "Read" => "read" \in r.op
      /\ r.st = "Send" => r.wR = {} /\ (r.op = {"repl"} => r.wV = {}) /\ Sends(r.op)
      /\ r.st = "Save" => r.wR = {} /\ r.wS = {} /\ "save" \in r.op
      /\ r.wS # {} => Sends(r.op)
      /\ r.wV # {} => Saves(r.op)
      /\ AtOnce(r.op) => r.wR \subseteq r.wS
      /\ r.wR \cup r.wS \cup r.wV \subseteq r.tvec
  BY DEF Stage
<1>3. /\ n.wR \subseteq r.wR /\ n.wS \subseteq r.wS /\ n.wV \subseteq r.wV
  OBVIOUS
<1>4. r.st = "Send" => R = {} /\ dir = {} /\ aR = {} /\ aV = {}
  BY <1>1, <1>2
<1>5. r.st # "Send" => S = {} /\ cS = {} /\ aS = {}
  BY <1>1
<1>6. n.wR = n.sR \cup ((R \ cR) \cup aR) /\ n.sR \cap ((R \ cR) \cup aR) = {}
  BY <1>1
<1>7. n.wV = n.sV \cup ((V \ cV) \cup aV) /\ n.sV \cap ((V \ cV) \cup aV) = {}
  BY <1>1
<1>8. n.wS = n.sS \cup ((S \ cS) \cup aS) /\ n.sS \cap ((S \ cS) \cup aS) = {}
  <2>1. CASE r.st = "Send"
    BY <2>1, <1>1, <1>4
  <2>2. CASE r.st # "Send"
    BY <2>2, <1>1, <1>5
  <2> QED BY <2>1, <2>2
<1>9. AtOnce(n.op) => n.wR \subseteq n.wS
  <2>1. CASE r.st = "Send"
    BY <2>1, <1>2, <1>3
  <2>2. CASE r.st # "Send"
    BY <2>2, <1>2, <1>5
  <2> QED BY <2>1, <2>2
<1>10. n.wR \cup n.wS \cup n.wV \subseteq n.tvec /\ (n.wS # {} => Sends(n.op)) /\ (n.wV # {} => Saves(n.op))
  BY <1>2, <1>3
<1>11. r.st = "Repl" => n.sR = n.sV
  BY <1>1, <1>2
<1>12. /\ "repl" \in r.op => r.op = {"repl"}
       /\ Sends(r.op) <=> r.op = {"repl"} \/ "send" \in r.op
       /\ Saves(r.op) <=> r.op = {"repl"} \/ "save" \in r.op
       /\ r.op = {"repl"} => "read" \notin r.op /\ "send" \notin r.op /\ "save" \notin r.op
  BY <1>2, OpIs
<1>13. /\ n.st \in Moves \cup {"Resp"}
       /\ n.st \notin Moves => n.wR = {} /\ n.wS = {} /\ n.wV = {}
       /\ n.st = "Repl" => r.st = "Repl"
       /\ n.st = "Read" => "read" \in n.op
       /\ n.st = "Send" => n.wR = {} /\ (n.op = {"repl"} => n.wV = {}) /\ Sends(n.op)
       /\ n.st = "Save" => n.wR = {} /\ n.wS = {} /\ "save" \in n.op
       /\ r.st = "Send" /\ n.wS # {} => n.st = "Send"
       /\ r.st \in {"Repl", "Save"} /\ n.wV # {} => n.st = r.st
  <2>1. CASE r.st = "Repl"
    BY <2>1, <1>2, <1>12 DEF Onward, Moves
  <2>2. CASE r.st = "Read"
    BY <2>2, <1>2, <1>3, <1>12 DEF Onward, Rest, Moves
  <2>3. CASE r.st = "Send"
    BY <2>3, <1>2, <1>3, <1>12 DEF Onward, Rest, Moves
  <2>4. CASE r.st = "Save"
    BY <2>4, <1>2, <1>3, <1>12 DEF Onward, Moves
  <2> QED BY <2>1, <2>2, <2>3, <2>4 DEF Moves
<1>14. Stage(n)
  BY <1>2, <1>9, <1>10, <1>11, <1>13 DEF Stage
<1>15. ((S \ cS) \cup aS # {} => n.st = "Send") /\ ((V \ cV) \cup aV # {} => n.st \in {"Repl", "Save"})
  <2>1. (S \ cS) \cup aS # {} => r.st = "Send" /\ n.wS # {}
    BY <1>1, <1>8
  <2>2. (V \ cV) \cup aV # {} => r.st \in {"Repl", "Save"} /\ n.wV # {}
    BY <1>1, <1>7
  <2> QED BY <2>1, <2>2, <1>13
<1> QED BY <1>6, <1>7, <1>8, <1>14, <1>15 DEF Ledger

LEMMA AskedOn ==
  ASSUME NEW in, Edge(in), NEW m \in CMs
  PROVE  /\ BeatsOn(RdAsked, m) = Asked(Wires.db, m, DbBeat(m))
         /\ BeatsOn(ChiAsked, m) = Asked(Wires.chi, m, ChiBeat(m))
         /\ BeatsOn(DsAsked, m) = Asked(Wires.ds, m, DsBeat(m))
<1>1. /\ \A qu \in DbFire : DbBeat(qu) \in Beats
      /\ \A qu \in ChiFire : ChiBeat(qu) \in Beats
      /\ \A qu \in DsFire : DsBeat(qu) \in Beats
  BY AskBeats
<1>2. BeatsOn(RdAsked, m) = Asked(DbFire, m, DbBeat(m))
  BY <1>1 DEF BeatsOn, RdAsked, Asked
<1>3. BeatsOn(ChiAsked, m) = Asked(ChiFire, m, ChiBeat(m))
  BY <1>1 DEF BeatsOn, ChiAsked, Asked
<1>4. BeatsOn(DsAsked, m) = Asked(DsFire, m, DsBeat(m))
  BY <1>1 DEF BeatsOn, DsAsked, Asked
<1> QED BY <1>2, <1>3, <1>4, WiresAre

\* The registers of a machine that is not free, one by one.
TheOp(m) == IF TaskHit(m) THEN taskD[1].op ELSE {}
Becomes(in, m, n) ==
  /\ n.st = NextState(in, m, n.wR, n.wS, n.wV, n.vec)
  /\ n.crit = NextCrit(Wires, m) /\ n.txn = NextTxn(in, m) /\ n.id = dc[m].id
  /\ n.vec = IF ~CleanHit(in, m) /\ RelFire(m) THEN dc[m].vec \ dc[m].tvec ELSE dc[m].vec
  /\ n.op = IF TaskHit(m) THEN taskD[1].op ELSE dc[m].op
  /\ n.tvec = IF CleanHit(in, m) THEN (CHOOSE c \in in.clean : TRUE).vec
              ELSE IF TaskHit(m) THEN taskD[1].tvec ELSE dc[m].tvec
  /\ n.sR = ToAsk(TaskHit(m) /\ Reads(TheOp(m)), dc[m].sR, BeatsOn(RdAsked, m), BeatsOn(RdDone, m))
  /\ n.sS = ToAsk(TaskHit(m) /\ Sends(TheOp(m)), dc[m].sS, BeatsOn(ChiAsked, m), BeatsOn(OutDone(in), m))
  /\ n.sV = ToAsk(TaskHit(m) /\ Saves(TheOp(m)), dc[m].sV, BeatsOn(DsAsked, m), BeatsOn(DsDone, m))
  /\ n.wR = ToDone(TaskHit(m) /\ Reads(TheOp(m)), dc[m].wR, BeatsOn(RdDone, m))
  /\ n.wS = ToDone(TaskHit(m) /\ Sends(TheOp(m)), dc[m].wS, BeatsOn(OutDone(in), m))
  /\ n.wV = ToDone(TaskHit(m) /\ Saves(TheOp(m)), dc[m].wV, BeatsOn(DsDone, m))
  /\ n = [st |-> n.st, crit |-> n.crit, txn |-> n.txn, vec |-> n.vec, op |-> n.op, tvec |-> n.tvec,
          id |-> n.id, sR |-> n.sR, sS |-> n.sS, sV |-> n.sV, wR |-> n.wR, wS |-> n.wS, wV |-> n.wV]

LEMMA BusyIs ==
  ASSUME NEW in, Edge(in), NEW m \in CMs, NEW n, n = Busy(in, Wires, m)
  PROVE  Becomes(in, m, n)
<1> DEFINE hit == TaskHit(m)
           op == TheOp(m)
           dR == {b \in Beats : DsWriDB(m, b)}
           dS == {b \in Beats : TxDone(in, m, b)}
           dV == {b \in Beats : DbWriDS(m, b)}
           wR == ToDone(hit /\ Reads(op), dc[m].wR, dR)
           wS == ToDone(hit /\ Sends(op), dc[m].wS, dS)
           wV == ToDone(hit /\ Saves(op), dc[m].wV, dV)
           vec == IF ~CleanHit(in, m) /\ RelFire(m) THEN dc[m].vec \ dc[m].tvec ELSE dc[m].vec
           st == NextState(in, m, wR, wS, wV, vec)
           o2 == IF hit THEN taskD[1].op ELSE dc[m].op
           t2 == IF CleanHit(in, m) THEN (CHOOSE c \in in.clean : TRUE).vec
                 ELSE IF hit THEN taskD[1].tvec ELSE dc[m].tvec
           sR == ToAsk(hit /\ Reads(op), dc[m].sR, Asked(Wires.db, m, DbBeat(m)), dR)
           sS == ToAsk(hit /\ Sends(op), dc[m].sS, Asked(Wires.chi, m, ChiBeat(m)), dS)
           sV == ToAsk(hit /\ Saves(op), dc[m].sV, Asked(Wires.ds, m, DsBeat(m)), dV)
           crit == NextCrit(Wires, m)
           txn == NextTxn(in, m)
           id == dc[m].id
<1>1. n = [st |-> st, crit |-> crit, txn |-> txn, vec |-> vec, op |-> o2, tvec |-> t2, id |-> id,
           sR |-> sR, sS |-> sS, sV |-> sV, wR |-> wR, wS |-> wS, wV |-> wV]
  BY Zenon DEF Busy, TheOp
<1>2. dR = BeatsOn(RdDone, m) /\ dS = BeatsOn(OutDone(in), m) /\ dV = BeatsOn(DsDone, m)
  BY NoticesAre
<1>3. /\ Asked(Wires.db, m, DbBeat(m)) = BeatsOn(RdAsked, m)
      /\ Asked(Wires.chi, m, ChiBeat(m)) = BeatsOn(ChiAsked, m)
      /\ Asked(Wires.ds, m, DsBeat(m)) = BeatsOn(DsAsked, m)
  BY AskedOn
<1>4. /\ sR = ToAsk(hit /\ Reads(op), dc[m].sR, BeatsOn(RdAsked, m), BeatsOn(RdDone, m))
      /\ sS = ToAsk(hit /\ Sends(op), dc[m].sS, BeatsOn(ChiAsked, m), BeatsOn(OutDone(in), m))
      /\ sV = ToAsk(hit /\ Saves(op), dc[m].sV, BeatsOn(DsAsked, m), BeatsOn(DsDone, m))
      /\ wR = ToDone(hit /\ Reads(op), dc[m].wR, BeatsOn(RdDone, m))
      /\ wS = ToDone(hit /\ Sends(op), dc[m].wS, BeatsOn(OutDone(in), m))
      /\ wV = ToDone(hit /\ Saves(op), dc[m].wV, BeatsOn(DsDone, m))
  BY <1>2, <1>3, Zenon
<1>5. st = NextState(in, m, wR, wS, wV, vec) /\ crit = NextCrit(Wires, m) /\ txn = NextTxn(in, m) /\ id = dc[m].id
      /\ vec = (IF ~CleanHit(in, m) /\ RelFire(m) THEN dc[m].vec \ dc[m].tvec ELSE dc[m].vec)
      /\ o2 = (IF TaskHit(m) THEN taskD[1].op ELSE dc[m].op)
      /\ t2 = IF CleanHit(in, m) THEN (CHOOSE c \in in.clean : TRUE).vec
                 ELSE IF TaskHit(m) THEN taskD[1].tvec ELSE dc[m].tvec
  BY Zenon
<1> HIDE DEF st, crit, txn, vec, o2, t2, id, sR, sS, sV, wR, wS, wV, op
<1>6. /\ n.st = st /\ n.crit = crit /\ n.txn = txn /\ n.vec = vec /\ n.op = o2 /\ n.tvec = t2 /\ n.id = id
      /\ n.sR = sR /\ n.sS = sS /\ n.sV = sV /\ n.wR = wR /\ n.wS = wS /\ n.wV = wV
  BY <1>1
<1> USE DEF op
<1> QED BY <1>1, <1>4, <1>5, <1>6, Zenon DEF Becomes

LEMMA StateIs ==
  ASSUME NEW in, Edge(in), NEW m \in CMs, NEW n, n = Busy(in, Wires, m), Valid(m)
  PROVE  /\ dc[m].st \in Moves => n.st = Onward(dc[m], n.wR, n.wS, n.wV)
         /\ dc[m].st = "Alloc" => n.st = AfterAlloc(in, m)
         /\ dc[m].st = "Resp" => n.st \in {"Alloc", "Resp"}
         /\ dc[m].st = "Clean" => n.st \in {"Clean", "Alloc", "Free"}
<1>1. n.st = NextState(in, m, n.wR, n.wS, n.wV, n.vec)
  <2>1. Becomes(in, m, n)
    BY BusyIs
  <2> QED BY <2>1, Zenon DEF Becomes
<1>2. CASE dc[m].st = "Repl"
  BY <1>1, <1>2 DEF NextState, AfterRepl, Onward, Moves
<1>3. CASE dc[m].st = "Read"
  BY <1>1, <1>3 DEF NextState, Onward, Rest, Moves
<1>4. CASE dc[m].st = "Send"
  BY <1>1, <1>4 DEF NextState, Onward, Rest, Moves
<1>5. CASE dc[m].st = "Save"
  BY <1>1, <1>5 DEF NextState, Onward, Moves
<1>6. CASE dc[m].st = "Alloc"
  BY <1>1, <1>6 DEF NextState, Moves
<1>7. CASE dc[m].st = "Resp"
  BY <1>1, <1>7 DEF NextState, Moves
<1>8. CASE dc[m].st = "Clean"
  BY <1>1, <1>8 DEF NextState, Moves
<1> QED BY <1>2, <1>3, <1>4, <1>5, <1>6, <1>7, <1>8 DEF Moves

LEMMA OnIs ==
  ASSUME NEW in, Edge(in), NEW m \in CMs
  PROVE  /\ BeatsOn(RdOn', m) = (BeatsOn(RdOn, m) \ BeatsOn(RdDone, m)) \cup BeatsOn(RdAsked, m)
         /\ BeatsOn(ChiOn', m) = (BeatsOn(ChiOn, m) \ BeatsOn(ChiDone(in), m)) \cup BeatsOn(ChiAsked, m)
         /\ BeatsOn(DsOn', m) = (BeatsOn(DsOn, m) \ BeatsOn(DsDone, m)) \cup BeatsOn(DsAsked, m)
         /\ BeatsOn(RdDone, m) \subseteq BeatsOn(RdOn, m) /\ BeatsOn(ChiDone(in), m) \subseteq BeatsOn(ChiOn, m)
         /\ BeatsOn(DsDone, m) \subseteq BeatsOn(DsOn, m)
         /\ \E dir \in SUBSET BeatsOn(RdDone, m) : BeatsOn(OutDone(in), m) = BeatsOn(ChiDone(in), m) \cup dir
<1>3. /\ RdOn' = (RdOn \ RdDone) \cup RdAsked
      /\ ChiOn' = (ChiOn \ ChiDone(in)) \cup ChiAsked
      /\ DsOn' = (DsOn \ DsDone) \cup DsAsked
  BY OnTheWayStep
<1>4. RdDone \subseteq RdOn /\ ChiDone(in) \subseteq ChiOn /\ DsDone \subseteq DsOn
  BY NoticesAre
<1>5. \E dir \in SUBSET BeatsOn(RdDone, m) : BeatsOn(OutDone(in), m) = BeatsOn(ChiDone(in), m) \cup dir
  <2> DEFINE d == IF chiQ.items = <<>> /\ DsToChi /\ in.txRdy THEN RdDone ELSE {}
  <2>1. OutDone(in) = ChiDone(in) \cup d /\ d \subseteq RdDone
    BY DEF OutDone
  <2> HIDE DEF d
  <2>2. BeatsOn(OutDone(in), m) = BeatsOn(ChiDone(in), m) \cup BeatsOn(d, m) /\ BeatsOn(d, m) \subseteq BeatsOn(RdDone, m)
    BY <2>1 DEF BeatsOn
  <2> QED BY <2>2
<1>6. BeatsOn(RdOn', m) = (BeatsOn(RdOn, m) \ BeatsOn(RdDone, m)) \cup BeatsOn(RdAsked, m)
  BY <1>3 DEF BeatsOn
<1>7. BeatsOn(ChiOn', m) = (BeatsOn(ChiOn, m) \ BeatsOn(ChiDone(in), m)) \cup BeatsOn(ChiAsked, m)
  BY <1>3 DEF BeatsOn
<1>8. BeatsOn(DsOn', m) = (BeatsOn(DsOn, m) \ BeatsOn(DsDone, m)) \cup BeatsOn(DsAsked, m)
  BY <1>3 DEF BeatsOn
<1>9. /\ BeatsOn(RdDone, m) \subseteq BeatsOn(RdOn, m) /\ BeatsOn(ChiDone(in), m) \subseteq BeatsOn(ChiOn, m)
      /\ BeatsOn(DsDone, m) \subseteq BeatsOn(DsOn, m)
  BY <1>4 DEF BeatsOn
<1> QED BY <1>5, <1>6, <1>7, <1>8, <1>9

\* Who is asked for what, by machine.
LEMMA AskedBy ==
  ASSUME NEW in, Edge(in), NEW m \in CMs
  PROVE  /\ BeatsOn(RdAsked, m) \subseteq dc[m].sR /\ (BeatsOn(RdAsked, m) # {} => dc[m].st \in {"Read", "Repl"})
         /\ BeatsOn(ChiAsked, m) \subseteq dc[m].sS /\ (BeatsOn(ChiAsked, m) # {} => dc[m].st = "Send")
         /\ BeatsOn(DsAsked, m) \subseteq dc[m].sV /\ (BeatsOn(DsAsked, m) # {} => dc[m].st \in {"Save", "Repl"})
         /\ dc[m].st = "Repl" => BeatsOn(RdAsked, m) = BeatsOn(DsAsked, m)
<1>0. RegTypes /\ OnTheWay /\ Stages
  BY DEF Edge, FlowInv
<1>1. /\ BeatsOn(RdAsked, m) = Asked(DbFire, m, DbBeat(m))
      /\ BeatsOn(ChiAsked, m) = Asked(ChiFire, m, ChiBeat(m))
      /\ BeatsOn(DsAsked, m) = Asked(DsFire, m, DsBeat(m))
  BY AskedOn, WiresAre
<1>2. /\ m \in DbFire => /\ DbBeat(m) \in dc[m].sR
                         /\ dc[m].st = "Read" \/ (dc[m].st = "Repl" /\ m \in DsFire)
      /\ m \in DsFire => /\ DsBeat(m) \in dc[m].sV
                         /\ dc[m].st = "Save" \/ (dc[m].st = "Repl" /\ m \in DbFire)
      /\ m \in ChiFire => ChiBeat(m) \in dc[m].sS /\ dc[m].st = "Send"
  BY <1>0, Grants, AskBeats
<1>3. dc[m].st = "Repl" => DbBeat(m) = DsBeat(m)
  BY <1>0 DEF Stages, Stage, DbBeat, DsBeat
<1> QED BY <1>1, <1>2, <1>3 DEF Asked

\* A machine without a task has nothing on its way, before and after.
LEMMA QuietStep ==
  ASSUME NEW in, Edge(in), NEW m \in CMs, dc[m].st \notin Moves
  PROVE  /\ dc[m].wR = {} /\ dc[m].wS = {} /\ dc[m].wV = {}
         /\ dc[m].sR = {} /\ dc[m].sS = {} /\ dc[m].sV = {}
         /\ BeatsOn(RdDone, m) = {} /\ BeatsOn(OutDone(in), m) = {} /\ BeatsOn(DsDone, m) = {}
         /\ BeatsOn(RdAsked, m) = {} /\ BeatsOn(ChiAsked, m) = {} /\ BeatsOn(DsAsked, m) = {}
         /\ BeatsOn(RdOn', m) = {} /\ BeatsOn(ChiOn', m) = {} /\ BeatsOn(DsOn', m) = {}
<1>1. /\ dc[m].wR = {} /\ dc[m].wS = {} /\ dc[m].wV = {}
      /\ Ledger(dc[m], BeatsOn(RdOn, m), BeatsOn(ChiOn, m), BeatsOn(DsOn, m))
  BY DEF Edge, FlowInv, Stages, Stage
<1>2. /\ dc[m].sR = {} /\ dc[m].sS = {} /\ dc[m].sV = {}
      /\ BeatsOn(RdOn, m) = {} /\ BeatsOn(ChiOn, m) = {} /\ BeatsOn(DsOn, m) = {}
  BY <1>1 DEF Ledger
<1>3. BeatsOn(RdAsked, m) = {} /\ BeatsOn(ChiAsked, m) = {} /\ BeatsOn(DsAsked, m) = {}
  BY <1>2, AskedBy
<1>4. /\ BeatsOn(RdDone, m) = {} /\ BeatsOn(ChiDone(in), m) = {} /\ BeatsOn(DsDone, m) = {}
      /\ BeatsOn(OutDone(in), m) = {}
  BY <1>2, OnIs
<1> QED BY <1>1, <1>2, <1>3, <1>4, OnIs

Empty(n) == n.sR = {} /\ n.sS = {} /\ n.sV = {} /\ n.wR = {} /\ n.wS = {} /\ n.wV = {}
LEMMA EmptyStage ==
  ASSUME NEW n, Empty(n), n.st \notin Moves, n.st = "Resp" => n.op \in Tasks /\ n.tvec \subseteq n.vec
  PROVE  Stage(n) /\ Ledger(n, {}, {}, {})
BY DEF Empty, Stage, Ledger, Moves

\* A task begins.
LEMMA BeginStage ==
  ASSUME NEW n, NEW op \in Tasks, NEW v, n.op = op, n.tvec = v, v \subseteq n.vec,
         n.sR = IF Reads(op) THEN v ELSE {}, n.wR = n.sR,
         n.sS = IF Sends(op) THEN v ELSE {}, n.wS = n.sS,
         n.sV = IF Saves(op) THEN v ELSE {}, n.wV = n.sV,
         n.st = IF "repl" \in op THEN "Repl" ELSE IF "read" \in op THEN "Read"
                ELSE IF "send" \in op THEN "Send" ELSE "Save"
  PROVE  Stage(n) /\ Ledger(n, {}, {}, {})
<1>1. /\ "repl" \in op => op = {"repl"}
      /\ "read" \in op => "repl" \notin op
      /\ Sends(op) <=> op = {"repl"} \/ "send" \in op
      /\ Saves(op) <=> op = {"repl"} \/ "save" \in op
      /\ Reads(op) <=> op = {"repl"} \/ "read" \in op
      /\ op = {"repl"} => "read" \notin op /\ "send" \notin op /\ "save" \notin op
  BY OpIs
<1>2. "read" \in op \/ "send" \in op \/ "save" \in op \/ op = {"repl"}
  BY DEF Tasks
<1>3. AtOnce(op) => Sends(op)
  BY DEF AtOnce
<1>4. n.st \in Moves
  BY DEF Moves
<1>5. Ledger(n, {}, {}, {})
  BY DEF Ledger
<1>6. /\ n.st = "Repl" => n.op = {"repl"} /\ n.sR = n.sV
      /\ n.st = "Read" => "read" \in n.op
      /\ n.st = "Send" => n.wR = {} /\ (n.op = {"repl"} => n.wV = {}) /\ Sends(n.op)
      /\ n.st = "Save" => n.wR = {} /\ n.wS = {} /\ "save" \in n.op
  BY <1>1, <1>2
<1>7. AtOnce(n.op) => n.wR \subseteq n.wS
  BY <1>3
<1> QED BY <1>4, <1>5, <1>6, <1>7 DEF Stage

LEMMA StagesStep ==
  ASSUME NEW in, Edge(in), NEW m \in CMs
  PROVE  /\ Stage(dc'[m])
         /\ Ledger(dc'[m], BeatsOn(RdOn', m), BeatsOn(ChiOn', m), BeatsOn(DsOn', m))
<1> DEFINE r == dc[m]
           n == dc'[m]
           x == Busy(in, Wires, m)
<1>0. Stage(r) /\ Ledger(r, BeatsOn(RdOn, m), BeatsOn(ChiOn, m), BeatsOn(DsOn, m)) /\ r \in CM
  BY DEF Edge, FlowInv, Stages, RegTypes
<1>1. CASE r.st \notin Moves /\ Empty(n) /\ n.st \notin Moves /\ (n.st = "Resp" => n.op \in Tasks /\ n.tvec \subseteq n.vec)
  <2>1. BeatsOn(RdOn', m) = {} /\ BeatsOn(ChiOn', m) = {} /\ BeatsOn(DsOn', m) = {}
    BY <1>1, QuietStep
  <2>2. Stage(n) /\ Ledger(n, {}, {}, {})
    <3> HIDE DEF n
    <3> QED BY <1>1, EmptyStage
  <2> QED BY <2>1, <2>2
<1>2. CASE ~Valid(m) /\ Begun(in, m)
  <2>1. r.st \notin Moves
    BY <1>2 DEF Valid, Moves
  <2>2. Empty(n) /\ n.st \notin Moves /\ n.st # "Resp"
    BY <1>2 DEF Begun, Empty, Moves
  <2> HIDE DEF n, r
  <2> QED BY <2>1, <2>2, <1>1
<1>3. CASE ~Valid(m) /\ dc'[m] = FreeCM
  <2>1. r.st \notin Moves
    BY <1>3 DEF Valid, Moves
  <2>2. Empty(n) /\ n.st \notin Moves /\ n.st # "Resp"
    BY <1>3 DEF FreeCM, Empty, Moves
  <2> HIDE DEF n, r
  <2> QED BY <2>1, <2>2, <1>1
<1>4. CASE Valid(m) /\ dc'[m] = IF x.st = "Free" THEN FreeCM ELSE x
  <2>0. Becomes(in, m, x)
    BY BusyIs
  <2>1. CASE r.st \in Moves
    <3>1. ~TaskHit(m) /\ ~CleanHit(in, m) /\ ~RelFire(m)
      BY <2>1, <1>4, Hears DEF Idle, RelFire, Moves
    <3>2. /\ x.op = r.op /\ x.tvec = r.tvec /\ x.vec = r.vec
          /\ x.sR = r.sR \ (BeatsOn(RdAsked, m) \cup BeatsOn(RdDone, m))
          /\ x.sS = r.sS \ (BeatsOn(ChiAsked, m) \cup BeatsOn(OutDone(in), m))
          /\ x.sV = r.sV \ (BeatsOn(DsAsked, m) \cup BeatsOn(DsDone, m))
          /\ x.wR = r.wR \ BeatsOn(RdDone, m)
          /\ x.wS = r.wS \ BeatsOn(OutDone(in), m)
          /\ x.wV = r.wV \ BeatsOn(DsDone, m)
      <4> HIDE DEF x
      <4> QED BY <2>0, <3>1 DEF Becomes, ToAsk, ToDone
    <3>3. x.st = Onward(r, x.wR, x.wS, x.wV)
      BY <2>1, <1>4, StateIs
    <3>4. x.st # "Free"
      <4> HIDE DEF x
      <4> QED BY <3>3 DEF Onward, Rest
    <3>5. n = x
      BY <1>4, <3>4
    <3>6. PICK dir \in SUBSET BeatsOn(RdDone, m) : BeatsOn(OutDone(in), m) = BeatsOn(ChiDone(in), m) \cup dir
      BY OnIs
    <3>7. Stage(x) /\ Ledger(x, (BeatsOn(RdOn, m) \ BeatsOn(RdDone, m)) \cup BeatsOn(RdAsked, m),
                                (BeatsOn(ChiOn, m) \ BeatsOn(ChiDone(in), m)) \cup BeatsOn(ChiAsked, m),
                                (BeatsOn(DsOn, m) \ BeatsOn(DsDone, m)) \cup BeatsOn(DsAsked, m))
      <4> DEFINE R == BeatsOn(RdOn, m)
                 S == BeatsOn(ChiOn, m)
                 V == BeatsOn(DsOn, m)
                 cR == BeatsOn(RdDone, m)
                 cS == BeatsOn(ChiDone(in), m)
                 cV == BeatsOn(DsDone, m)
                 aR == BeatsOn(RdAsked, m)
                 aS == BeatsOn(ChiAsked, m)
                 aV == BeatsOn(DsAsked, m)
      <4>1. cR \in SUBSET R /\ cS \in SUBSET S /\ cV \in SUBSET V /\ dir \in SUBSET cR
        BY <3>6, OnIs
      <4>2. /\ aR \in SUBSET r.sR /\ aS \in SUBSET r.sS /\ aV \in SUBSET r.sV
            /\ aR # {} => r.st \in {"Read", "Repl"}
            /\ aS # {} => r.st = "Send"
            /\ aV # {} => r.st \in {"Save", "Repl"}
            /\ r.st = "Repl" => aR = aV
        BY AskedBy
      <4>3. Stage(r) /\ Ledger(r, R, S, V) /\ r.st \in Moves
        BY <1>0, <2>1
      <4>4. /\ x.op = r.op /\ x.tvec = r.tvec /\ x.vec = r.vec
            /\ x.sR = r.sR \ (aR \cup cR) /\ x.sS = r.sS \ (aS \cup (cS \cup dir)) /\ x.sV = r.sV \ (aV \cup cV)
            /\ x.wR = r.wR \ cR /\ x.wS = r.wS \ (cS \cup dir) /\ x.wV = r.wV \ cV
            /\ x.st = Onward(r, x.wR, x.wS, x.wV)
        BY <3>2, <3>3, <3>6, Zenon
      <4> HIDE DEF x, r, R, S, V, cR, cS, cV, aR, aS, aV
      <4>5. Stage(x) /\ Ledger(x, (R \ cR) \cup aR, (S \ cS) \cup aS, (V \ cV) \cup aV)
        BY <4>1, <4>2, <4>3, <4>4, Works, ZenonT(60)
      <4> QED BY <4>5 DEF R, S, V, cR, cS, cV, aR, aS, aV
    <3>8. Stage(n) /\ Ledger(n, BeatsOn(RdOn', m), BeatsOn(ChiOn', m), BeatsOn(DsOn', m))
      <4> HIDE DEF x, n
      <4> QED BY <3>5, <3>7, OnIs
    <3> QED BY <3>8
  <2>2. CASE TaskHit(m)
    <3>0. /\ r.st = "Alloc" /\ taskD[1] \in TaskRec /\ taskD[1].tvec \subseteq r.vec /\ r.st \notin Moves
          /\ ~CleanHit(in, m) /\ ~RelFire(m)
      BY <2>2, <1>4, Hears DEF Idle, RelFire, Moves
    <3> DEFINE op == taskD[1].op
               v == taskD[1].tvec
    <3>1. op \in Tasks
      BY <3>0 DEF TaskRec
    <3>2. TheOp(m) = op
      BY <2>2 DEF TheOp
    <3>3. /\ x.op = op /\ x.tvec = v /\ x.vec = r.vec
          /\ x.sR = (IF Reads(op) THEN v ELSE {}) /\ x.wR = (IF Reads(op) THEN v ELSE {})
          /\ x.sS = (IF Sends(op) THEN v ELSE {}) /\ x.wS = (IF Sends(op) THEN v ELSE {})
          /\ x.sV = (IF Saves(op) THEN v ELSE {}) /\ x.wV = (IF Saves(op) THEN v ELSE {})
      <4>1. /\ r.sR = {} /\ r.sS = {} /\ r.sV = {} /\ r.wR = {} /\ r.wS = {} /\ r.wV = {}
        BY <3>0, QuietStep
      <4>2. /\ x.op = op /\ x.tvec = v /\ x.vec = r.vec
        <5> HIDE DEF x
        <5> QED BY <2>0, <2>2, <3>0 DEF Becomes
      <4>3. /\ x.sR = ToAsk(TaskHit(m) /\ Reads(TheOp(m)), dc[m].sR, BeatsOn(RdAsked, m), BeatsOn(RdDone, m))
            /\ x.sS = ToAsk(TaskHit(m) /\ Sends(TheOp(m)), dc[m].sS, BeatsOn(ChiAsked, m), BeatsOn(OutDone(in), m))
            /\ x.sV = ToAsk(TaskHit(m) /\ Saves(TheOp(m)), dc[m].sV, BeatsOn(DsAsked, m), BeatsOn(DsDone, m))
            /\ x.wR = ToDone(TaskHit(m) /\ Reads(TheOp(m)), dc[m].wR, BeatsOn(RdDone, m))
            /\ x.wS = ToDone(TaskHit(m) /\ Sends(TheOp(m)), dc[m].wS, BeatsOn(OutDone(in), m))
            /\ x.wV = ToDone(TaskHit(m) /\ Saves(TheOp(m)), dc[m].wV, BeatsOn(DsDone, m))
        <5> HIDE DEF x
        <5> QED BY <2>0, Zenon DEF Becomes
      <4> HIDE DEF x
      <4> QED BY <2>2, <3>2, <4>1, <4>2, <4>3 DEF ToAsk, ToDone
    <3>4. x.st = IF "repl" \in op THEN "Repl" ELSE IF "read" \in op THEN "Read"
                 ELSE IF "send" \in op THEN "Send" ELSE "Save"
      <4>1. x.st = AfterAlloc(in, m)
        BY <3>0, <1>4, StateIs
      <4> QED BY <2>2, <4>1 DEF AfterAlloc
    <3>5. n = x
      <4>1. x.st # "Free"
        <5> HIDE DEF x, op
        <5> QED BY <3>4
      <4> QED BY <1>4, <4>1
    <3>6. Stage(x) /\ Ledger(x, {}, {}, {})
      <4>1. op \in Tasks /\ v \subseteq x.vec
        BY <3>0, <3>1, <3>3
      <4>2. x.wR = x.sR /\ x.wS = x.sS /\ x.wV = x.sV
        BY <3>3
      <4> HIDE DEF x, op, v
      <4> QED BY <3>3, <3>4, <4>1, <4>2, BeginStage
    <3>7. BeatsOn(RdOn', m) = {} /\ BeatsOn(ChiOn', m) = {} /\ BeatsOn(DsOn', m) = {}
      BY <3>0, QuietStep
    <3>8. Stage(n) /\ Ledger(n, {}, {}, {})
      <4> HIDE DEF x, n
      <4> QED BY <3>5, <3>6
    <3> QED BY <3>7, <3>8
  <2>3. CASE r.st \notin Moves /\ ~TaskHit(m)
    <3>1. Empty(x)
      <4>1. /\ r.sR = {} /\ r.sS = {} /\ r.sV = {} /\ r.wR = {} /\ r.wS = {} /\ r.wV = {}
        BY <2>3, QuietStep
      <4> HIDE DEF x
      <4> QED BY <2>0, <2>3, <4>1 DEF Becomes, ToAsk, ToDone, Empty
    <3>2. r.st \in {"Alloc", "Resp", "Clean"}
      BY <1>0, <1>4, <2>3 DEF CM, Valid, Moves
    <3>3. x.st \in {"Alloc", "Resp", "Clean", "Free"} /\ (x.st = "Resp" => r.st = "Resp")
      <4>1. /\ r.st = "Alloc" => x.st = AfterAlloc(in, m)
            /\ r.st = "Resp" => x.st \in {"Alloc", "Resp"}
            /\ r.st = "Clean" => x.st \in {"Clean", "Alloc", "Free"}
        BY <1>4, StateIs
      <4> HIDE DEF x
      <4> QED BY <2>3, <3>2, <4>1 DEF AfterAlloc
    <3>4. x.st = "Resp" => x.op \in Tasks /\ x.tvec \subseteq x.vec
      <4> SUFFICES ASSUME x.st = "Resp" PROVE x.op \in Tasks /\ x.tvec \subseteq x.vec
        OBVIOUS
      <4>1. r.st = "Resp"
        BY <3>3
      <4>2. ~CleanHit(in, m) /\ ~RelFire(m)
        BY <4>1, <1>4, Hears DEF Idle, RelFire
      <4>3. x.op = r.op /\ x.tvec = r.tvec /\ x.vec = r.vec
        <5> HIDE DEF x
        <5> QED BY <2>0, <2>3, <4>2 DEF Becomes
      <4> HIDE DEF x
      <4> QED BY <1>0, <4>1, <4>3 DEF Stage
    <3>5. Empty(n) /\ n.st \notin Moves /\ (n.st = "Resp" => n.op \in Tasks /\ n.tvec \subseteq n.vec)
      <4>1. Empty(FreeCM) /\ FreeCM.st = "Free"
        BY DEF FreeCM, Empty
      <4>2. n = IF x.st = "Free" THEN FreeCM ELSE x
        BY <1>4
      <4> HIDE DEF x, n
      <4> QED BY <3>1, <3>3, <3>4, <4>1, <4>2 DEF Moves
    <3> HIDE DEF x, n, r
    <3> QED BY <2>3, <3>5, <1>1
  <2> QED BY <2>1, <2>2, <2>3
<1> QED BY <1>2, <1>3, <1>4, WaysAre DEF Ways

-----------------------------------------------------------------------------
(* The registers keep their types, and each transaction its one machine.   *)

LEMMA OpTypes ==
  ASSUME NEW op \in Tasks
  PROVE  op \in SUBSET {"repl", "read", "send", "save", "merge"}
BY DEF Tasks

LEMMA FreeCMType == FreeCM \in CM
<1>1. 0 \in Slots
  BY DataAssumption DEF Slots
<1>2. [b \in Beats |-> 0] \in [Beats -> Slots]
  BY <1>1
<1>3. <<>> \in Opt(Txn)
  BY DEF Opt
<1> QED BY <1>2, <1>3 DEF FreeCM, CM

LEMMA BusyType ==
  ASSUME NEW in, Edge(in), NEW m \in CMs, Valid(m), NEW n, n = Busy(in, Wires, m)
  PROVE  n \in CM
<1>0. Becomes(in, m, n) /\ dc[m] \in CM /\ OneMachine /\ RegTypes /\ plan \in Plans
  BY BusyIs DEF Edge, FlowInv, RegTypes
<1>1. /\ dc[m].crit \in BOOLEAN /\ dc[m].txn \in Opt(Txn) /\ dc[m].vec \in SUBSET Beats
      /\ dc[m].op \in SUBSET {"repl", "read", "send", "save", "merge"} /\ dc[m].tvec \in SUBSET Beats
      /\ dc[m].id \in [Beats -> Slots]
      /\ dc[m].sR \in SUBSET Beats /\ dc[m].sS \in SUBSET Beats /\ dc[m].sV \in SUBSET Beats
      /\ dc[m].wR \in SUBSET Beats /\ dc[m].wS \in SUBSET Beats /\ dc[m].wV \in SUBSET Beats
      /\ dc[m].st \in {"Free", "Alloc", "Repl", "Read", "Send", "Save", "Resp", "Clean"}
  BY <1>0 DEF CM
<1>2. /\ TaskHit(m) => taskD[1].op \in Tasks /\ taskD[1].tvec \in SUBSET Beats
      /\ CleanHit(in, m) => (CHOOSE c \in in.clean : TRUE).vec \in SUBSET Beats
  <2>1. TaskHit(m) => taskD[1] \in TaskRec
    BY Hears
  <2>2. CleanHit(in, m) => (CHOOSE c \in in.clean : TRUE).vec \in SUBSET dc[m].vec
    BY Hears
  <2> QED BY <1>1, <2>1, <2>2 DEF TaskRec
<1>3. n.crit \in BOOLEAN
  <2>1. n.crit = NextCrit(Wires, m)
    BY <1>0 DEF Becomes
  <2>2. \A s : More(s) \in BOOLEAN
    BY DEF More
  <2>3. NextCrit(Wires, m) \in BOOLEAN
    BY <1>1, <2>2 DEF NextCrit
  <2> QED BY <2>1, <2>3
<1>4. n.txn \in Opt(Txn)
  <2>1. NextTxn(in, m) = dc[m].txn \/ \E t \in Unused : NextTxn(in, m) = <<t>>
    <3>1. \/ NextTxn(in, m) = dc[m].txn /\ ~Renames(in, m)
          \/ /\ Idle(m)
             /\ \E t \in Unused : in.upd = {[before |-> TxnOf(m), next |-> t]} /\ NextTxn(in, m) = <<t>>
      BY Hears
    <3> QED BY <3>1, Zenon
  <2> QED BY <1>0, <1>1, <2>1 DEF Becomes, Opt, Unused
<1>5. n.op \in SUBSET {"repl", "read", "send", "save", "merge"}
  BY <1>0, <1>1, <1>2, OpTypes DEF Becomes
<1>6. n.vec \in SUBSET Beats /\ n.tvec \in SUBSET Beats /\ n.id \in [Beats -> Slots]
  BY <1>0, <1>1, <1>2 DEF Becomes
<1>7. /\ n.sR \in SUBSET Beats /\ n.sS \in SUBSET Beats /\ n.sV \in SUBSET Beats
      /\ n.wR \in SUBSET Beats /\ n.wS \in SUBSET Beats /\ n.wV \in SUBSET Beats
  BY <1>0, <1>1, <1>2 DEF Becomes, ToAsk, ToDone
<1>8. n.st \in {"Free", "Alloc", "Repl", "Read", "Send", "Save", "Resp", "Clean"}
  <2>1. /\ dc[m].st \in Moves => n.st = Onward(dc[m], n.wR, n.wS, n.wV)
        /\ dc[m].st = "Alloc" => n.st = AfterAlloc(in, m)
        /\ dc[m].st = "Resp" => n.st \in {"Alloc", "Resp"}
        /\ dc[m].st = "Clean" => n.st \in {"Clean", "Alloc", "Free"}
    BY StateIs
  <2>2. CASE dc[m].st \in Moves
    BY <2>1, <2>2 DEF Onward, Rest
  <2>3. CASE dc[m].st = "Alloc"
    BY <2>1, <2>3 DEF AfterAlloc
  <2> QED BY <1>1, <2>1, <2>2, <2>3 DEF Valid, Moves
<1>9. n = [st |-> n.st, crit |-> n.crit, txn |-> n.txn, vec |-> n.vec, op |-> n.op, tvec |-> n.tvec,
           id |-> n.id, sR |-> n.sR, sS |-> n.sS, sV |-> n.sV, wR |-> n.wR, wS |-> n.wS, wV |-> n.wV]
  BY <1>0 DEF Becomes
<1> DEFINE st == n.st
           crit == n.crit
           txn == n.txn
           vec == n.vec
           op == n.op
           tvec == n.tvec
           id == n.id
           sR == n.sR
           sS == n.sS
           sV == n.sV
           wR == n.wR
           wS == n.wS
           wV == n.wV
<1>10. [st |-> st, crit |-> crit, txn |-> txn, vec |-> vec, op |-> op, tvec |-> tvec,
        id |-> id, sR |-> sR, sS |-> sS, sV |-> sV, wR |-> wR, wS |-> wS, wV |-> wV] \in CM
  <2> HIDE DEF st, crit, txn, vec, op, tvec, id, sR, sS, sV, wR, wS, wV
  <2> USE DEF st, crit, txn, vec, op, tvec, id, sR, sS, sV, wR, wS, wV
  <2> QED BY <1>3, <1>4, <1>5, <1>6, <1>7, <1>8 DEF CM
<1> QED BY <1>9, <1>10

LEMMA DcType ==
  ASSUME NEW in, Edge(in)
  PROVE  dc' \in [CMs -> CM]
<1>1. ASSUME NEW m \in CMs PROVE NextCM(in, Wires, m) \in CM
  <2>0. dc'[m] = NextCM(in, Wires, m)
    BY DcNext
  <2>1. CASE Begun(in, m)
    <3>1. PICK t \in Unused, v \in SUBSET Beats :
            /\ ~(Cardinality(FreeIds) < 2)
            /\ dc'[m] = [st |-> "Alloc", crit |-> FALSE, txn |-> <<t>>, vec |-> v, op |-> {}, tvec |-> {},
                         id |-> NewIds(v), sR |-> {}, sS |-> {}, sV |-> {}, wR |-> {}, wS |-> {}, wV |-> {}]
      BY <2>1 DEF Begun
    <3>2. NewIds(v) \in [Beats -> Slots]
      BY <3>1, NewIdsAre
    <3>3. <<t>> \in Opt(Txn)
      BY DEF Unused, Opt
    <3> QED BY <2>0, <3>1, <3>2, <3>3 DEF CM
  <2>2. CASE dc'[m] = FreeCM
    BY <2>0, <2>2, FreeCMType DEF Edge
  <2>3. CASE Valid(m) /\ dc'[m] = Busy(in, Wires, m)
    BY <2>0, <2>3, BusyType
  <2> QED BY <2>1, <2>2, <2>3, WaysAre DEF Ways
<1> QED BY <1>1, DcNext

\* The slot that a beat of the network goes to is that of its machine.
LEMMA RxIs ==
  ASSUME NEW in, Edge(in), NEW x \in in.rx
  PROVE  \E m \in Idles : \E b \in dc[m].vec, f \in BOOLEAN :
           /\ in.rx = {x} /\ x = RxBeat(m, b, f) /\ RxId(x) = dc[m].id[b] /\ ~mask[dc[m].id[b]] /\ b \in Beats
<1>0. RegTypes /\ OneMachine
  BY DEF Edge, FlowInv
<1>0a. PICK m \in Idles : Brings(in, m)
  BY InputIs
<1>1. PICK b \in dc[m].vec, f \in BOOLEAN : in.rx = {RxBeat(m, b, f)} /\ ~mask[dc[m].id[b]]
  BY <1>0a DEF Brings
<1>2. x = RxBeat(m, b, f) /\ x.txn = TxnOf(m) /\ x.beat = b
  BY <1>1 DEF RxBeat
<1>3. Of(TxnOf(m)) = {m}
  BY <1>0, IdleIs, TxnIs DEF Of
<1>4. Min({m}) = m
  <2>1. {m} \in SUBSET Nat /\ {m} # {}
    BY <1>0, IdleIs, CMsAreNat
  <2> QED BY <2>1, MinIsLeast
<1>5. b \in Beats
  BY <1>0, IdleIs DEF RegTypes, CM
<1>6. RxId(x) = dc[m].id[b]
  BY <1>2, <1>3, <1>4 DEF RxId
<1> QED BY <1>1, <1>2, <1>5, <1>6

LEMMA RegTypesStep ==
  ASSUME NEW in, Edge(in)
  PROVE  RegTypes'
<1>0. RegTypes /\ OneMachine /\ OnTheWay /\ DataTick(Wires, in)
  BY DEF Edge, FlowInv
<1>1. watch' \in Beats /\ plan' \in Plans /\ dc' \in [CMs -> CM]
  BY <1>0, DcType DEF RegTypes, DataTick
<1>2. /\ dsQ.items # <<>> => Head(dsQ.items) \in DsItem
      /\ DsResp \in Opt(RdItem)
  <2>1. Latency + 1 \in 1 .. Latency + 1
    BY DataAssumption
  <2> QED BY <1>0, <2>1, ShiftWhos DEF OnTheWay, Pipe, Once, FqState, Line, DsResp
<1>3. \A w \in WriDsFire : w \in DsItem
  BY <1>2 DEF WriDsFire, WriDs
<1>4. mem' \in [Txn -> Bit]
  <2>1. \A t \in Txn : NextMem(t) \in Bit
    <3>1. WriDsFire # {} => (CHOOSE w \in WriDsFire : TRUE).data \in Bit
      BY <1>3 DEF DsItem
    <3>2. 0 \in Bit /\ \A t \in Txn : mem[t] \in Bit
      BY <1>0 DEF RegTypes, Bit
    <3> QED BY <3>1, <3>2 DEF NextMem
  <2> QED BY <1>0, <2>1 DEF DataTick
<1>5. taskD' \in Opt(TaskRec)
  <2>1. taskD' = in.task
    BY <1>0 DEF DataTick
  <2>2. CASE in.task = <<>>
    BY <2>1, <2>2 DEF Opt
  <2>3. ASSUME NEW m \in Idles, Asks(in, m) PROVE in.task \in Opt(TaskRec)
    <3>1. PICK op \in Tasks, v \in SUBSET dc[m].vec :
            in.task = <<[txn |-> TxnOf(m), op |-> op, tvec |-> v]>>
      BY <2>3 DEF Asks
    <3>2. TxnOf(m) \in Txn /\ v \in SUBSET Beats
      BY <1>0, IdleIs, TxnIs DEF RegTypes, CM
    <3>3. [txn |-> TxnOf(m), op |-> op, tvec |-> v] \in TaskRec
      BY <3>2 DEF TaskRec
    <3> QED BY <3>1, <3>3 DEF Opt
  <2> QED BY <2>1, <2>2, <2>3, InputIs
<1>6. vip' \in [resp : Nat, rel : Nat, db : Nat, ds : Nat, chi : Nat]
  <2>1. /\ vip.resp \in Nat /\ vip.rel \in Nat /\ vip.db \in Nat /\ vip.ds \in Nat /\ vip.chi \in Nat
    BY <1>0 DEF RegTypes
  <2>2. /\ Clients("Resp") \in SUBSET Nat /\ Clients("Clean") \in SUBSET Nat
        /\ DbReqs \in SUBSET Nat /\ DsReqs \in SUBSET Nat /\ ChiReqs \in SUBSET Nat
    BY <1>0, CMsAreNat DEF Clients, DbReqs, DsReqs, ChiReqs, Repls
  <2>3. \A V \in SUBSET Nat, v \in Nat : \A rdy : VipNext(v, V, rdy) \in Nat
    BY VipInRange
  <2>4. vip' = Wires.vip
    BY <1>0 DEF DataTick
  <2>5. /\ VipNext(vip.resp, Clients("Resp"), TRUE) \in Nat
        /\ VipNext(vip.rel, Clients("Clean"), TRUE) \in Nat
        /\ VipNext(vip.db, DbReqs, DbRdy) \in Nat
        /\ VipNext(vip.ds, DsReqs, DsRdy) \in Nat
        /\ VipNext(vip.chi, ChiReqs, ChiRdy) \in Nat
    BY <2>1, <2>2, <2>3
  <2> QED BY <2>4, <2>5 DEF Wires
<1>7. buf' \in [Slots -> Bit]
  <2>1. 0 \in Bit /\ (wr # <<>> => wr[1].data \in Bit) /\ \A i \in Slots : buf[i] \in Bit
    BY <1>0 DEF RegTypes, Bit, Opt
  <2>2. \A i \in Slots : NextBuf(Wires, i) \in Bit
    BY <2>1 DEF NextBuf
  <2> QED BY <1>0, <2>2 DEF DataTick
<1>8. wr' \in Opt([id : Slots, data : Bit])
  <2>1. wr' = NextWr(in) /\ <<>> \in Opt([id : Slots, data : Bit])
    BY <1>0 DEF DataTick, Opt
  <2>2. CASE DsResp # <<>>
    <3>1. DsResp[1].id \in Slots /\ DsResp[1].data \in Bit
      BY <1>2, <2>2 DEF Opt, RdItem
    <3>2. [id |-> DsResp[1].id, data |-> DsResp[1].data] \in [id : Slots, data : Bit]
      BY <3>1
    <3> QED BY <2>1, <2>2, <3>2 DEF NextWr, Opt
  <2>3. CASE DsResp = <<>> /\ in.rx # {}
    <3> DEFINE x == CHOOSE y \in in.rx : TRUE
    <3>1. x \in in.rx
      BY <2>3
    <3>2a. PICK m \in Idles : \E b \in dc[m].vec, f \in BOOLEAN :
             x = RxBeat(m, b, f) /\ RxId(x) = dc[m].id[b] /\ b \in Beats
      <4> HIDE DEF x
      <4> QED BY <3>1, RxIs
    <3>2. PICK b \in dc[m].vec, f \in BOOLEAN :
            x = RxBeat(m, b, f) /\ RxId(x) = dc[m].id[b] /\ b \in Beats
      BY <3>2a
    <3>3. TxnOf(m) \in Txn /\ m \in CMs
      BY <1>0, IdleIs, TxnIs
    <3>3a. dc[m].id \in [Beats -> Slots] /\ mem[TxnOf(m)] \in Bit
      BY <1>0, <3>3 DEF RegTypes, CM
    <3>3b. RxBeat(m, b, f).data \in Bit
      BY <3>3a DEF RxBeat, Bit
    <3>4. RxId(x) \in Slots /\ x.data \in Bit
      <4> HIDE DEF x
      <4> QED BY <3>2, <3>3a, <3>3b
    <3>5. [id |-> RxId(x), data |-> x.data] \in [id : Slots, data : Bit]
      <4> HIDE DEF x
      <4> QED BY <3>4
    <3>6. NextWr(in) = <<>> \/ NextWr(in) = <<[id |-> RxId(x), data |-> x.data]>>
      BY <2>3 DEF NextWr
    <3> QED BY <2>1, <3>5, <3>6 DEF Opt
  <2>4. CASE DsResp = <<>> /\ in.rx = {}
    BY <2>1, <2>4 DEF NextWr
  <2> QED BY <2>2, <2>3, <2>4
<1>9. busy' \subseteq Beats
  <2>1. \A m \in DbFire : DbBeat(m) \in Beats
    BY AskBeats
  <2>2. \A w \in WriDsFire : w.beat \in Beats
    BY <1>3 DEF DsItem
  <2> QED BY <1>0, <2>1, <2>2, WiresAre DEF DataTick, NextBusy
<1> QED BY <1>1, <1>4, <1>5, <1>6, <1>7, <1>8, <1>9 DEF RegTypes

\* The transaction that a machine works for after an edge: one that begins,
\* the one it had, or one that takes over from it.
Names(in, m, t) ==
  \/ ~Valid(m) /\ FreeSel = {m} /\ t \in Unused /\ t \in TxnIn(in.req)
  \/ Valid(m) /\ dc[m].txn = <<t>>
  \/ m \in Idles /\ t \in Unused /\ in.upd = {[before |-> TxnOf(m), next |-> t]}

LEMMA TxnStep ==
  ASSUME NEW in, Edge(in), NEW m \in CMs
  PROVE  dc'[m] = FreeCM \/ (dc'[m].st # "Free" /\ \E t \in Txn : dc'[m].txn = <<t>> /\ Names(in, m, t))
<1>0. RegTypes /\ OneMachine
  BY DEF Edge, FlowInv
<1>1. CASE ~Valid(m) /\ FreeSel = {m} /\ Begun(in, m)
  <2>1. PICK t \in Unused, v \in SUBSET Beats :
          /\ in.req = {[txn |-> t, vec |-> v, id |-> NewIds(v)]}
          /\ dc'[m] = [st |-> "Alloc", crit |-> FALSE, txn |-> <<t>>, vec |-> v, op |-> {}, tvec |-> {},
                       id |-> NewIds(v), sR |-> {}, sS |-> {}, sV |-> {}, wR |-> {}, wS |-> {}, wV |-> {}]
    BY <1>1 DEF Begun
  <2>2. dc'[m].st # "Free" /\ dc'[m].txn = <<t>>
    BY <2>1
  <2>3. t \in TxnIn(in.req) /\ t \in Txn
    BY <2>1 DEF TxnIn, Unused
  <2> QED BY <1>1, <2>2, <2>3 DEF Names
<1>2. CASE Valid(m) /\ dc'[m] = IF Busy(in, Wires, m).st = "Free" THEN FreeCM ELSE Busy(in, Wires, m)
  <2> DEFINE n == Busy(in, Wires, m)
  <2>1. CASE n.st = "Free"
    BY <1>2, <2>1
  <2>2. CASE n.st # "Free"
    <3>1. dc'[m] = n /\ dc'[m].st # "Free"
      BY <1>2, <2>2
    <3>2. n.txn = NextTxn(in, m)
      <4>1. Becomes(in, m, n)
        BY BusyIs
      <4> HIDE DEF n
      <4> QED BY <4>1 DEF Becomes
    <3>3. \/ NextTxn(in, m) = dc[m].txn /\ ~Renames(in, m)
          \/ /\ Idle(m)
             /\ \E t \in Unused : in.upd = {[before |-> TxnOf(m), next |-> t]} /\ NextTxn(in, m) = <<t>>
      BY <1>2, Hears
    <3> HIDE DEF n
    <3>4. CASE NextTxn(in, m) = dc[m].txn
      <4>1. dc[m].txn = <<TxnOf(m)>> /\ TxnOf(m) \in Txn
        BY <1>0, <1>2, TxnIs
      <4>2. dc'[m].txn = <<TxnOf(m)>> /\ Names(in, m, TxnOf(m))
        BY <1>2, <3>1, <3>2, <3>4, <4>1 DEF Names
      <4> QED BY <3>1, <4>1, <4>2
    <3>5. ASSUME NEW t \in Unused, Idle(m), in.upd = {[before |-> TxnOf(m), next |-> t]}, NextTxn(in, m) = <<t>>
          PROVE  \E u \in Txn : dc'[m].txn = <<u>> /\ Names(in, m, u)
      <4>1. t \in Txn /\ m \in Idles
        BY <3>5 DEF Unused, Idles
      <4> QED BY <3>1, <3>2, <3>5, <4>1 DEF Names
    <3> QED BY <3>1, <3>3, <3>4, <3>5
  <2> QED BY <2>1, <2>2
<1> QED BY <1>1, <1>2, WaysAre DEF Ways

LEMMA NamesOnce ==
  ASSUME NEW in, Edge(in), NEW m \in CMs, NEW n \in CMs, NEW t \in Txn, Names(in, m, t), Names(in, n, t)
  PROVE  m = n
<1>0. RegTypes /\ OneMachine /\ Apart({u.next : u \in in.upd}, TxnIn(in.req))
  BY DEF Edge, FlowInv, Input
<1>1. \A k \in CMs : Valid(k) /\ dc[k].txn = <<t>> => t \notin Unused
  <2> SUFFICES ASSUME NEW k \in CMs, Valid(k), dc[k].txn = <<t>> PROVE t \notin Unused
    OBVIOUS
  <2>1. dc[k].txn = <<TxnOf(k)>> /\ TxnOf(k) \notin Unused
    BY <1>0, TxnIs
  <2>2. TxnOf(k) = t
    BY <2>1
  <2> QED BY <2>1, <2>2
<1>2. \A k \in CMs : in.upd = {[before |-> TxnOf(k), next |-> t]} => t \notin TxnIn(in.req)
  <2> SUFFICES ASSUME NEW k \in CMs, in.upd = {[before |-> TxnOf(k), next |-> t]}
               PROVE  t \notin TxnIn(in.req)
    OBVIOUS
  <2>1. [before |-> TxnOf(k), next |-> t] \in in.upd /\ [before |-> TxnOf(k), next |-> t].next = t
    OBVIOUS
  <2>2. t \in {u.next : u \in in.upd}
    BY <2>1
  <2> QED BY <1>0, <2>2 DEF Apart
<1>3. CASE m \in Idles /\ n \in Idles
        /\ in.upd = {[before |-> TxnOf(m), next |-> t]} /\ in.upd = {[before |-> TxnOf(n), next |-> t]}
  <2>1. [before |-> TxnOf(m), next |-> t] = [before |-> TxnOf(n), next |-> t]
    BY <1>3
  <2>2. TxnOf(m) = TxnOf(n)
    <3> DEFINE a == TxnOf(m)
               b == TxnOf(n)
    <3>1. [before |-> a, next |-> t] = [before |-> b, next |-> t]
      BY <2>1
    <3>2. a = b
      <4> HIDE DEF a, b
      <4> QED BY <3>1
    <3> QED BY <3>2
  <2>3. Valid(m) /\ Valid(n)
    BY <1>3, IdleIs
  <2>4. /\ dc[n].txn = <<TxnOf(n)>> /\ \A k \in CMs : Valid(k) /\ dc[k].txn = <<TxnOf(m)>> => k = m
    BY <1>0, <2>3, TxnIs
  <2> QED BY <2>2, <2>3, <2>4
<1>4. CASE Valid(m) /\ Valid(n) /\ dc[m].txn = <<t>> /\ dc[n].txn = <<t>>
  BY <1>0, <1>4 DEF OneMachine
<1>5. CASE FreeSel = {m} /\ FreeSel = {n}
  BY <1>5
<1> QED BY <1>1, <1>2, <1>3, <1>4, <1>5 DEF Names

LEMMA OneMachineStep ==
  ASSUME NEW in, Edge(in)
  PROVE  OneMachine'
<1>1. FreeCM.st = "Free"
  BY DEF FreeCM
<1>2. ASSUME NEW m \in CMs
      PROVE  /\ dc'[m].st # "Free" => dc'[m].txn # <<>>
             /\ dc'[m].st = "Free" => dc'[m] = FreeCM
  BY <1>1, TxnStep
<1>3. ASSUME NEW m \in CMs, NEW n \in CMs, dc'[m].st # "Free", dc'[n].st # "Free", dc'[m].txn = dc'[n].txn
      PROVE  m = n
  <2>1. PICK t \in Txn : dc'[m].txn = <<t>> /\ Names(in, m, t)
    BY <1>1, <1>3, TxnStep
  <2>2. PICK u \in Txn : dc'[n].txn = <<u>> /\ Names(in, n, u)
    BY <1>1, <1>3, TxnStep
  <2>3. <<t>> = <<u>>
    BY <1>3, <2>1, <2>2
  <2>4. t = u
    BY <2>3
  <2> QED BY <2>1, <2>2, <2>4, NamesOnce
<1> QED BY <1>2, <1>3 DEF OneMachine, Valid

\* A task that comes finds its machine where it was.
LEMMA TaskLands ==
  ASSUME NEW in, Edge(in), NEW m \in Idles, NEW op \in Tasks, NEW v \in SUBSET dc[m].vec,
         in.task = <<[txn |-> TxnOf(m), op |-> op, tvec |-> v]>>
  PROVE  /\ m \in CMs /\ dc[m].st = "Alloc" /\ dc[m].txn = <<TxnOf(m)>>
         /\ in.task # <<>> /\ in.task[1].txn = TxnOf(m) /\ in.task[1].op = op /\ in.task[1].tvec = v
         /\ dc'[m].st = "Alloc" /\ dc'[m].txn = dc[m].txn /\ dc'[m].vec = dc[m].vec /\ dc'[m].id = dc[m].id
<1>0. RegTypes /\ OneMachine /\ Input(in)
  BY DEF Edge, FlowInv
<1>3. in.task # <<>> /\ in.task[1].txn = TxnOf(m) /\ in.task[1].op = op /\ in.task[1].tvec = v
  OBVIOUS
<1>4. m \in CMs /\ dc[m].st = "Alloc" /\ Valid(m) /\ ~TaskHit(m) /\ dc[m].txn = <<TxnOf(m)>>
  BY <1>0, IdleIs, TxnIs
<1> DEFINE had == TxnIn(in.rx) \cup (IF in.task = <<>> THEN {} ELSE {in.task[1].txn})
<1>5. TxnOf(m) \in had /\ Apart(TxnIn(in.clean), had) /\ Apart({u.before : u \in in.upd}, had \cup TxnIn(in.clean))
  BY <1>0, <1>3 DEF Input
<1>6. ~CleanHit(in, m)
  <2> SUFFICES ASSUME NEW c \in in.clean, dc[m].txn = <<c.txn>> PROVE FALSE
    BY DEF CleanHit
  <2>1. c.txn = TxnOf(m) /\ c.txn \in TxnIn(in.clean)
    BY <1>4 DEF TxnIn
  <2> QED BY <1>5, <2>1 DEF Apart
<1>7. ~Renames(in, m)
  <2> SUFFICES ASSUME NEW t \in Unused, in.upd = {[before |-> TxnOf(m), next |-> t]} PROVE FALSE
    BY DEF Renames
  <2>1. [before |-> TxnOf(m), next |-> t] \in in.upd /\ [before |-> TxnOf(m), next |-> t].before = TxnOf(m)
    OBVIOUS
  <2>2. TxnOf(m) \in {u.before : u \in in.upd}
    BY <2>1
  <2> QED BY <1>5, <2>2 DEF Apart
<1> DEFINE n == Busy(in, Wires, m)
<1>8. Becomes(in, m, n) /\ n.st = AfterAlloc(in, m)
  BY <1>4, BusyIs, StateIs
<1>9. n.st = "Alloc"
  BY <1>4, <1>6, <1>8 DEF AfterAlloc
<1>10. n.txn = dc[m].txn
  <2>1. n.txn = NextTxn(in, m)
    BY <1>8 DEF Becomes
  <2>2. \/ NextTxn(in, m) = dc[m].txn
        \/ Renames(in, m)
    <3>1. \/ NextTxn(in, m) = dc[m].txn /\ ~Renames(in, m)
          \/ /\ Idle(m)
             /\ \E t \in Unused : in.upd = {[before |-> TxnOf(m), next |-> t]} /\ NextTxn(in, m) = <<t>>
      BY <1>4, Hears
    <3> HIDE DEF n
    <3> QED BY <3>1, Zenon DEF Renames
  <2> QED BY <1>4, <1>7, <2>1, <2>2
<1>11. n.vec = dc[m].vec /\ n.id = dc[m].id
  BY <1>4, <1>8 DEF Becomes, RelFire
<1>12. dc'[m] = n
  <2>1. dc'[m] = IF n.st = "Free" THEN FreeCM ELSE n
    BY <1>4, WaysAre DEF Ways
  <2> QED BY <1>9, <2>1
<1> HIDE DEF n
<1> QED BY <1>3, <1>4, <1>9, <1>10, <1>11, <1>12

LEMMA TaskFitsStep ==
  ASSUME NEW in, Edge(in)
  PROVE  TaskFits'
<1>0. taskD' = in.task
  BY DEF Edge, DataTick
<1> SUFFICES ASSUME in.task # <<>>
             PROVE  \E m \in CMs : dc'[m].st = "Alloc" /\ dc'[m].txn = <<in.task[1].txn>>
                                   /\ in.task[1].tvec \subseteq dc'[m].vec
  BY <1>0 DEF TaskFits
<1>1. PICK m \in Idles : Asks(in, m)
  BY InputIs
<1>2. PICK op \in Tasks, v \in SUBSET dc[m].vec : in.task = <<[txn |-> TxnOf(m), op |-> op, tvec |-> v]>>
  BY <1>1 DEF Asks
<1> QED BY <1>2, TaskLands
-----------------------------------------------------------------------------
(* The invariant holds from the start, and of every edge.                  *)

LEMMA FlowStep ==
  ASSUME FlowInv, [DataNext]_dataVars
  PROVE  FlowInv'
<1>1. CASE DataNext
  <2>1. PICK in : Edge(in)
    BY <1>1, NextIs
  <2>2. RegTypes' /\ OneMachine' /\ TaskFits' /\ OnTheWay'
    BY <2>1, RegTypesStep, OneMachineStep, TaskFitsStep, OnTheWayStep
  <2>3. Stages'
    BY <2>1, StagesStep DEF Stages
  <2> QED BY <2>2, <2>3 DEF FlowInv
<1>2. CASE UNCHANGED dataVars
  <2>1. /\ watch' = watch /\ plan' = plan /\ dc' = dc /\ taskD' = taskD /\ vip' = vip /\ buf' = buf
        /\ wr' = wr /\ chiD' = chiD /\ dsD' = dsD /\ chiQ' = chiQ /\ dsQ' = dsQ /\ mem' = mem
        /\ busy' = busy /\ rdPipe' = rdPipe
    BY <1>2 DEF dataVars, dataRegs
  <2>2. RegTypes'
    BY <2>1 DEF FlowInv, RegTypes
  <2>3. OneMachine' /\ TaskFits'
    BY <2>1 DEF FlowInv, OneMachine, TaskFits, Valid
  <2>4. RdOn' = RdOn /\ ChiOn' = ChiOn /\ DsOn' = DsOn
    BY <2>1 DEF RdOn, ChiOn, DsOn
  <2>5. Stages'
    BY <2>1, <2>4 DEF FlowInv, Stages
  <2>6. OnTheWay'
    BY <2>1 DEF FlowInv, OnTheWay
  <2> QED BY <2>2, <2>3, <2>5, <2>6 DEF FlowInv
<1> QED BY <1>1, <1>2

LEMMA FlowInit ==
  ASSUME DataInit
  PROVE  FlowInv
<1>1. /\ watch \in Beats /\ plan \in Plans /\ dc = [m \in CMs |-> FreeCM] /\ taskD = <<>>
      /\ vip = [resp |-> 0, rel |-> 0, db |-> 0, ds |-> 0, chi |-> 0]
      /\ buf = [i \in Slots |-> 0] /\ wr = <<>> /\ chiD = << <<>>, <<>> >> /\ dsD = << <<>>, <<>> >>
      /\ chiQ = FqEmpty /\ dsQ = FqEmpty /\ mem = [t \in Txn |-> 0] /\ busy = {} /\ rdPipe = Nothing
  BY DEF DataInit
<1>2. \A m \in CMs : dc[m] = FreeCM
  BY <1>1
<1>3. RegTypes
  <2>1. dc \in [CMs -> CM]
    BY <1>1, FreeCMType
  <2>2. taskD \in Opt(TaskRec) /\ wr \in Opt([id : Slots, data : Bit])
    BY <1>1 DEF Opt
  <2>3. buf \in [Slots -> Bit] /\ mem \in [Txn -> Bit]
    BY <1>1 DEF Bit
  <2>4. vip \in [resp : Nat, rel : Nat, db : Nat, ds : Nat, chi : Nat]
    BY <1>1
  <2> QED BY <1>1, <2>1, <2>2, <2>3, <2>4 DEF RegTypes
<1>4. OneMachine
  <2>1. FreeCM.st = "Free"
    BY DEF FreeCM
  <2> QED BY <1>2, <2>1 DEF OneMachine, Valid
<1>5. TaskFits
  BY <1>1 DEF TaskFits
<1>6. Whos(<<>>) = {} /\ Len(<<>>) = 0 /\ <<>> \in Opt(RdItem) /\ <<>> \in Opt(ChiAsk) /\ <<>> \in Opt(DsAsk)
      /\ Distinct(<<>>) /\ <<>> \in Seq(ChiItem) /\ <<>> \in Seq(DsItem)
  <2>1. <<>> \in Opt(RdItem) /\ <<>> \in Opt(ChiAsk) /\ <<>> \in Opt(DsAsk)
    BY DEF Opt
  <2>2. Len(<<>>) = 0 /\ <<>> \in Seq(ChiItem) /\ <<>> \in Seq(DsItem)
    OBVIOUS
  <2>3. Whos(<<>>) = {}
    BY <2>1, WireWhos
  <2>4. Distinct(<<>>)
    BY <2>2 DEF Distinct
  <2> QED BY <2>1, <2>2, <2>3, <2>4
<1>7. /\ chiD[1] = <<>> /\ chiD[2] = <<>> /\ dsD[1] = <<>> /\ dsD[2] = <<>>
      /\ chiQ.items = <<>> /\ dsQ.items = <<>> /\ chiQ.rdy = TRUE /\ dsQ.rdy = TRUE
      /\ chiD \in [1 .. 2 -> Opt(ChiAsk)] /\ dsD \in [1 .. 2 -> Opt(DsAsk)]
      /\ chiQ \in FqState(ChiItem) /\ dsQ \in FqState(DsItem)
  BY <1>1, <1>6 DEF FqEmpty, FqState
<1>8. rdPipe \in [1 .. Latency + 1 -> Opt(RdItem)] /\ \A k \in 1 .. Latency + 1 : rdPipe[k] = <<>>
  BY <1>1, <1>6 DEF Nothing
<1>9. OnTheWay
  <2>1. Pipe(ChiAsk, ChiItem, chiD, chiQ) /\ Pipe(DsAsk, DsItem, dsD, dsQ)
    BY <1>6, <1>7 DEF Pipe, Once, Roomy
  <2>2. Line(RdItem, Latency + 1, rdPipe)
    BY <1>6, <1>8 DEF Line
  <2>3. \A k \in 1 .. 2 : chiD[k] = <<>> \/ dsD[k] = <<>>
    BY <1>7
  <2> QED BY <2>1, <2>2, <2>3 DEF OnTheWay
<1>10. Stages
  <2>1. RdOn = {}
    BY <1>6, <1>8 DEF RdOn, LineOn
  <2>2. ChiOn = {} /\ DsOn = {}
    BY <1>6, <1>7 DEF ChiOn, DsOn, On
  <2>3. \A m \in CMs : BeatsOn(RdOn, m) = {} /\ BeatsOn(ChiOn, m) = {} /\ BeatsOn(DsOn, m) = {}
    BY <2>1, <2>2 DEF BeatsOn
  <2>4. Stage(FreeCM) /\ Ledger(FreeCM, {}, {}, {})
    BY EmptyStage DEF Empty, FreeCM, Moves
  <2> QED BY <1>2, <2>3, <2>4 DEF Stages
<1> QED BY <1>3, <1>4, <1>5, <1>9, <1>10 DEF FlowInv

-----------------------------------------------------------------------------
(* What the registers hold is what is on its way.                          *)

LEMMA MovingIs ==
  ASSUME NEW A, NEW N \in Nat, NEW p \in [1 .. N -> Opt(A)], \A x \in A : x.beat \in Beats, NEW m
  PROVE  BeatsIn(Moving(p), m) = BeatsOn(LineOn(N, p), m)
<1>1. ASSUME NEW k \in 1 .. N
      PROVE  /\ p[k] = <<>> => Whos(p[k]) = {}
             /\ p[k] # <<>> => p[k][1].beat \in Beats /\ Whos(p[k]) = {<<p[k][1].m, p[k][1].beat>>}
  BY WireWhos DEF Who
<1>2. DOMAIN p = 1 .. N
  OBVIOUS
<1>3. Moving(p) = {p[k][1] : k \in {j \in 1 .. N : p[j] # <<>>}}
  BY <1>2 DEF Moving
<1>4. ASSUME NEW b \in BeatsIn(Moving(p), m) PROVE b \in BeatsOn(LineOn(N, p), m)
  <2>1. PICK k \in 1 .. N : p[k] # <<>> /\ p[k][1].m = m /\ p[k][1].beat = b
    BY <1>3, <1>4 DEF BeatsIn
  <2>2. <<m, b>> \in Whos(p[k]) /\ b \in Beats
    BY <1>1, <2>1
  <2> QED BY <2>2 DEF BeatsOn, LineOn
<1>5. ASSUME NEW b \in BeatsOn(LineOn(N, p), m) PROVE b \in BeatsIn(Moving(p), m)
  <2>1. PICK k \in 1 .. N : <<m, b>> \in Whos(p[k])
    BY <1>5 DEF BeatsOn, LineOn
  <2>2. p[k] # <<>> /\ p[k][1].m = m /\ p[k][1].beat = b
    BY <1>1, <2>1
  <2>3. p[k][1] \in Moving(p)
    BY <1>3, <2>2
  <2> QED BY <2>2, <2>3 DEF BeatsIn
<1> QED BY <1>4, <1>5

LEMMA QueuedIs ==
  ASSUME NEW A, NEW s \in Seq(A), NEW qu, qu.items = s, \A x \in A : x.beat \in Beats, NEW m
  PROVE  BeatsIn(Queued(qu), m) = BeatsOn(Whos(s), m)
<1>1. \A i \in 1 .. Len(s) : s[i] \in A
  BY LenProperties
<1>2. Queued(qu) = {s[i] : i \in 1 .. Len(s)}
  BY DEF Queued
<1>3. Whos(s) = {<<s[i].m, s[i].beat>> : i \in 1 .. Len(s)}
  BY DEF Whos, Who
<1>4. ASSUME NEW b \in BeatsIn(Queued(qu), m) PROVE b \in BeatsOn(Whos(s), m)
  <2>1. PICK i \in 1 .. Len(s) : s[i].m = m /\ s[i].beat = b
    BY <1>2, <1>4 DEF BeatsIn
  <2> QED BY <1>1, <1>3, <2>1 DEF BeatsOn
<1>5. ASSUME NEW b \in BeatsOn(Whos(s), m) PROVE b \in BeatsIn(Queued(qu), m)
  <2>1. PICK i \in 1 .. Len(s) : s[i].m = m /\ s[i].beat = b
    BY <1>3, <1>5 DEF BeatsOn
  <2>2. s[i] \in Queued(qu)
    BY <1>2
  <2> QED BY <2>1, <2>2 DEF BeatsIn
<1> QED BY <1>4, <1>5

\* A beat on the way of a reader of the buffer: in its pipe or in its queue.
LEMMA PipeHolds ==
  ASSUME NEW A, NEW Q, NEW p, NEW qu, Pipe(A, Q, p, qu), NEW m,
         \A x \in A : x.beat \in Beats, \A x \in Q : x.beat \in Beats
  PROVE  /\ BeatsIn(Moving(p) \cup Queued(qu), m) = BeatsOn(On(p, qu), m)
         /\ p[2] # <<>> => qu.rdy /\ Len(qu.items) < 2
         /\ Len(qu.items) <= 2
<1>1. p \in [1 .. 2 -> Opt(A)] /\ qu.items \in Seq(Q)
  BY DEF Pipe, FqState
<1>2. BeatsIn(Moving(p), m) = BeatsOn(LineOn(2, p), m)
  <2>1. \A N \in Nat : p \in [1 .. N -> Opt(A)] => BeatsIn(Moving(p), m) = BeatsOn(LineOn(N, p), m)
    BY MovingIs
  <2> QED BY <1>1, <2>1
<1>3. BeatsIn(Queued(qu), m) = BeatsOn(Whos(qu.items), m)
  BY <1>1, QueuedIs
<1>4. LineOn(2, p) = Whos(p[1]) \cup Whos(p[2])
  <2>1. 1 .. 2 = {1, 2}
    OBVIOUS
  <2> QED BY <2>1 DEF LineOn
<1>5. BeatsIn(Moving(p) \cup Queued(qu), m) = BeatsIn(Moving(p), m) \cup BeatsIn(Queued(qu), m)
  BY DEF BeatsIn
<1>6. BeatsOn(On(p, qu), m) = BeatsOn(Whos(p[1]) \cup Whos(p[2]), m) \cup BeatsOn(Whos(qu.items), m)
  BY DEF BeatsOn, On
<1>7. (p[2] # <<>> => qu.rdy /\ Len(qu.items) < 2) /\ Len(qu.items) <= 2
  <2> DEFINE x == Len(p[1])
             y == Len(p[2])
             z == Len(qu.items)
  <2>1. x \in Nat /\ y \in Nat /\ z \in Nat /\ (p[2] = <<>> <=> y = 0)
    <3>1. p[1] \in Opt(A) /\ p[2] \in Opt(A)
      BY <1>1
    <3> QED BY <1>1, <3>1, WireWhos, LenProperties
  <2>2. x + y + z <= 2 /\ (qu.rdy <=> z < 2)
    BY DEF Pipe, Roomy
  <2>3. (p[2] # <<>> => z < 2) /\ z <= 2
    <3> HIDE DEF x, y, z
    <3> QED BY <2>1, <2>2
  <2> QED BY <2>2, <2>3
<1> QED BY <1>2, <1>3, <1>4, <1>5, <1>6, <1>7

LEMMA FlowIsData ==
  ASSUME FlowInv
  PROVE  DataInv
<1>0. RegTypes /\ OnTheWay /\ Stages
  BY DEF FlowInv
<1>1. /\ \A x \in RdItem : x.beat \in Beats
      /\ \A x \in ChiAsk : x.beat \in Beats
      /\ \A x \in DsAsk : x.beat \in Beats
      /\ \A x \in ChiItem : x.beat \in Beats
      /\ \A x \in DsItem : x.beat \in Beats
  BY DEF RdItem, ChiAsk, DsAsk, ChiItem, DsItem
<1>2. ASSUME NEW m
      PROVE  /\ ToNet(m) = BeatsOn(ChiOn, m)
             /\ chiD[2] # <<>> => chiQ.rdy /\ Len(chiQ.items) < 2
             /\ Len(chiQ.items) <= 2
  BY <1>0, <1>1, PipeHolds DEF OnTheWay, ToNet, ChiOn
<1>3. ASSUME NEW m
      PROVE  /\ ToDs(m) = BeatsOn(DsOn, m)
             /\ dsD[2] # <<>> => dsQ.rdy /\ Len(dsQ.items) < 2
             /\ Len(dsQ.items) <= 2
  BY <1>0, <1>1, PipeHolds DEF OnTheWay, ToDs, DsOn
<1>4. ASSUME NEW m PROVE FromDs(m) = BeatsOn(RdOn, m)
  <2>1. Latency + 1 \in Nat /\ rdPipe \in [1 .. Latency + 1 -> Opt(RdItem)]
    BY <1>0, DataAssumption DEF OnTheWay, Line
  <2> QED BY <1>1, <2>1, MovingIs DEF FromDs, RdOn
<1>5. DataTypeOK
  BY <1>0, <1>2, <1>3 DEF DataTypeOK, RegTypes
<1>6. QueuesHaveRoom
  <2>1. (EnqChi # <<>> => chiD[2] # <<>>) /\ (EnqDs # <<>> => dsD[2] # <<>>)
    BY DEF EnqChi, EnqDs
  <2>2. chiD[2] = <<>> \/ dsD[2] = <<>>
    BY <1>0 DEF OnTheWay
  <2> QED BY <1>2, <1>3, <2>1, <2>2 DEF QueuesHaveRoom
<1>7. Accounted
  <2>1. ASSUME NEW m \in CMs
        PROVE  /\ Stage(dc[m])
               /\ Ledger(dc[m], FromDs(m), ToNet(m), ToDs(m))
    BY <1>0, <1>2, <1>3, <1>4 DEF Stages
  <2> QED BY <2>1 DEF Accounted, Stage, Ledger, Moves
<1> QED BY <1>5, <1>6, <1>7 DEF DataInv

-----------------------------------------------------------------------------
(* No beat is dropped or taken twice: a machine of the data block (DataCM, *)
(* datacm.cpp) awaits exactly the beats that it has yet to ask for or that *)
(* are on their way, and the queues that feed storage and the output have  *)
(* room for what comes, though nobody looks at their enq_rdy.              *)
THEOREM DataIsSafe == DataSpec => []DataInv
<1>1. DataInit => FlowInv
  BY FlowInit
<1>2. FlowInv /\ [DataNext]_dataVars => FlowInv'
  BY FlowStep
<1>3. FlowInv => DataInv
  BY FlowIsData
<1> QED BY <1>1, <1>2, <1>3, PTL DEF DataSpec
-----------------------------------------------------------------------------
(* Where the data end up: the second invariant, for the watched beat.      *)

Sits(m, b) == dc[m].id[b]
LineOf(m)  == mem[TxnOf(m)]

\* A machine with a task, or done with it, in which the watched beat is.
Watched(r) == r.st \in Moves \cup {"Resp"} /\ watch \in r.tvec

\* What the slot is to have when v has been read: what came before stays.
Comes(r, g, mk, now, v) == g.out = IF "repl" \notin r.op /\ mk THEN now ELSE v
ReadData(m, v) == Comes(dc[m], goal[m], mask[Sits(m, watch)], BufNow(Sits(m, watch)), v)

\* A slot belongs to one beat of one machine.
OneHolder ==
  \A m, n \in CMs : \A b \in dc[m].vec, c \in dc[n].vec : Sits(m, b) = Sits(n, c) => m = n /\ b = c

SlotTypes == mask \in [Slots -> BOOLEAN] /\ replVec \in [Slots -> BOOLEAN]

\* A task finds the slots as TaskOk has seen them an edge ago.
Ready(op, i) == ~replVec[i] /\ (op = {"read", "send"} => ~mask[i])
SlotsFit ==
  taskD # <<>> =>
    \A m \in CMs : Valid(m) /\ dc[m].txn = <<taskD[1].txn>> =>
      \A b \in taskD[1].tvec : Ready(taskD[1].op, Sits(m, b))

\* Slot and line of a machine: what is still to be read, was read, was saved.
Fills(r, g, rv, mk, now, line, b) ==
  /\ rv => "repl" \in r.op
  /\ "repl" \in r.op /\ b \in r.wR \ r.sR => rv
  /\ r.op = {"read", "send"} /\ b \in r.wR => ~mk
  /\ b \in r.sR => Comes(r, g, mk, now, line)
  /\ b \notin r.wR => now = g.out
  /\ "repl" \in r.op /\ b \in r.wR => now = g.saved
  /\ "repl" \notin r.op => g.saved = g.out
  /\ Saves(r.op) /\ b \notin r.wV => line = g.saved
ContentOf(m) ==
  Fills(dc[m], goal[m], replVec[Sits(m, watch)], mask[Sits(m, watch)], BufNow(Sits(m, watch)), LineOf(m), watch)
Contents == \A m \in CMs : Watched(dc[m]) => ContentOf(m)

\* What is on its way.
RdRight(x) ==
  /\ x.id = Sits(x.m, x.beat) /\ x.atOnce = AtOnce(dc[x.m].op)
  /\ x.beat = watch => ReadData(x.m, x.data)
Shown(k, i) == IF k = 1 THEN BufNow(i) ELSE buf[i]
ChiRight(k, x) ==
  x.id = Sits(x.m, x.beat) /\ (x.beat = watch => goal[x.m].out = Shown(k, x.id))
DsRight(k, x) ==
  /\ x.id = Sits(x.m, x.beat) /\ dc[x.m].txn = <<x.line>>
  /\ x.beat = watch => goal[x.m].saved = Shown(k, x.id)
OutRight(x) == x.beat = watch => x.data = goal[x.m].out
InRight(x)  == dc[x.m].txn = <<x.line>> /\ (x.beat = watch => x.data = goal[x.m].saved)
Carried ==
  /\ \A k \in 1 .. Latency + 1 : rdPipe[k] # <<>> => RdRight(rdPipe[k][1])
  /\ \A k \in 1 .. 2 : chiD[k] # <<>> => ChiRight(k, chiD[k][1])
  /\ \A k \in 1 .. 2 : dsD[k] # <<>> => DsRight(k, dsD[k][1])
  /\ \A i \in 1 .. Len(chiQ.items) : OutRight(chiQ.items[i])
  /\ \A i \in 1 .. Len(dsQ.items) : InRight(dsQ.items[i])

RightInv == SlotTypes /\ OneHolder /\ SlotsFit /\ Contents /\ Carried
Right(in) == Edge(in) /\ RightInv
\* What is on its way belongs to a machine at work on it.
LEMMA OnTyped ==
  ASSUME OnTheWay
  PROVE  RdOn \subseteq CMs \X Beats /\ ChiOn \subseteq CMs \X Beats /\ DsOn \subseteq CMs \X Beats
<1>1. /\ \A x \in RdItem : Who(x) \in CMs \X Beats
      /\ \A x \in ChiAsk : Who(x) \in CMs \X Beats
      /\ \A x \in DsAsk : Who(x) \in CMs \X Beats
      /\ \A x \in ChiItem : Who(x) \in CMs \X Beats
      /\ \A x \in DsItem : Who(x) \in CMs \X Beats
  BY DEF RdItem, ChiAsk, DsAsk, ChiItem, DsItem, Who
<1>2. ASSUME NEW A, \A x \in A : Who(x) \in CMs \X Beats, NEW s \in Seq(A)
      PROVE  Whos(s) \subseteq CMs \X Beats
  <2>1. \A k \in 1 .. Len(s) : s[k] \in A
    BY LenProperties
  <2> QED BY <1>2, <2>1 DEF Whos
<1>3. ASSUME NEW A, \A x \in A : Who(x) \in CMs \X Beats, NEW o \in Opt(A)
      PROVE  Whos(o) \subseteq CMs \X Beats
  BY <1>2, <1>3, OptIsSeq
<1>4. RdOn \subseteq CMs \X Beats
  <2>1. \A k \in 1 .. Latency + 1 : rdPipe[k] \in Opt(RdItem)
    BY DEF OnTheWay, Line
  <2> QED BY <1>1, <1>3, <2>1 DEF RdOn, LineOn
<1>5. ChiOn \subseteq CMs \X Beats
  <2>1. chiD[1] \in Opt(ChiAsk) /\ chiD[2] \in Opt(ChiAsk) /\ chiQ.items \in Seq(ChiItem)
    BY DEF OnTheWay, Pipe, FqState
  <2> QED BY <1>1, <1>2, <1>3, <2>1 DEF ChiOn, On
<1>6. DsOn \subseteq CMs \X Beats
  <2>1. dsD[1] \in Opt(DsAsk) /\ dsD[2] \in Opt(DsAsk) /\ dsQ.items \in Seq(DsItem)
    BY DEF OnTheWay, Pipe, FqState
  <2> QED BY <1>1, <1>2, <1>3, <2>1 DEF DsOn, On
<1> QED BY <1>4, <1>5, <1>6

LEMMA HeldBy ==
  ASSUME FlowInv, NEW m, NEW b, <<m, b>> \in RdOn \cup ChiOn \cup DsOn
  PROVE  /\ m \in CMs /\ b \in Beats /\ dc[m].st \in Moves /\ b \in dc[m].tvec /\ b \in dc[m].vec
         /\ <<m, b>> \in RdOn => b \in dc[m].wR /\ b \notin dc[m].sR
         /\ <<m, b>> \in ChiOn => b \in dc[m].wS
         /\ <<m, b>> \in DsOn => b \in dc[m].wV /\ b \notin dc[m].sV
<1>1. m \in CMs /\ b \in Beats
  BY OnTyped DEF FlowInv
<1>2. Stage(dc[m]) /\ Ledger(dc[m], BeatsOn(RdOn, m), BeatsOn(ChiOn, m), BeatsOn(DsOn, m))
  BY <1>1 DEF FlowInv, Stages
<1>3. /\ <<m, b>> \in RdOn => b \in dc[m].wR /\ b \notin dc[m].sR
      /\ <<m, b>> \in ChiOn => b \in dc[m].wS
      /\ <<m, b>> \in DsOn => b \in dc[m].wV /\ b \notin dc[m].sV
  BY <1>1, <1>2 DEF Ledger, BeatsOn
<1>4. dc[m].st \in Moves
  BY <1>2, <1>3 DEF Stage
<1>5. b \in dc[m].tvec /\ dc[m].tvec \subseteq dc[m].vec
  BY <1>2, <1>3, <1>4 DEF Stage
<1> QED BY <1>1, <1>3, <1>4, <1>5

\* A machine that goes on with its task, or waits to answer, and one that begins.
Keeps(m) ==
  /\ dc[m].st \in Moves \cup {"Resp"} /\ Valid(m) /\ m \notin Idles
  /\ dc'[m].op = dc[m].op /\ dc'[m].tvec = dc[m].tvec /\ dc'[m].vec = dc[m].vec
  /\ dc'[m].id = dc[m].id /\ dc'[m].txn = dc[m].txn
  /\ dc'[m].sR = dc[m].sR \ (BeatsOn(RdAsked, m) \cup BeatsOn(RdDone, m))
  /\ dc'[m].wR = dc[m].wR \ BeatsOn(RdDone, m)
  /\ dc'[m].wV = dc[m].wV \ BeatsOn(DsDone, m)
  /\ goal'[m] = goal[m]
Starts(m) ==
  /\ TaskHit(m) /\ dc[m].st = "Alloc" /\ m \notin Idles
  /\ taskD[1] \in TaskRec /\ taskD[1].tvec \subseteq dc[m].vec
  /\ dc'[m].op = taskD[1].op /\ dc'[m].tvec = taskD[1].tvec /\ dc'[m].vec = dc[m].vec
  /\ dc'[m].id = dc[m].id /\ dc'[m].txn = dc[m].txn
  /\ dc'[m].sR = dc'[m].wR
  /\ dc'[m].wR = (IF Reads(taskD[1].op) THEN taskD[1].tvec ELSE {})
  /\ dc'[m].wV = (IF Saves(taskD[1].op) THEN taskD[1].tvec ELSE {})
  /\ watch \in taskD[1].tvec => goal'[m] = Goal(m)

LEMMA BusyWay ==
  ASSUME NEW in, Edge(in), NEW m \in CMs, dc'[m].st \in Moves \cup {"Resp"}, Valid(m)
  PROVE  dc'[m] = Busy(in, Wires, m)
<1>1. dc'[m] = IF Busy(in, Wires, m).st = "Free" THEN FreeCM ELSE Busy(in, Wires, m)
  BY WaysAre DEF Ways
<1>2. FreeCM.st = "Free"
  BY DEF FreeCM
<1> QED BY <1>1, <1>2 DEF Moves

LEMMA MoverKeeps ==
  ASSUME NEW in, Edge(in), NEW m \in CMs, dc[m].st \in Moves \cup {"Resp"},
         dc[m].st = "Resp" => dc'[m].st \in Moves \cup {"Resp"}
  PROVE  Keeps(m) /\ dc'[m].st \in Moves \cup {"Resp"}
<1> DEFINE n == Busy(in, Wires, m)
<1>1. Valid(m) /\ dc[m].st # "Alloc" /\ dc[m].st # "Clean"
  BY DEF Valid, Moves
<1>2. /\ ~TaskHit(m) /\ ~CleanHit(in, m) /\ ~RelFire(m) /\ NextTxn(in, m) = dc[m].txn /\ m \notin Idles
  BY <1>1, Hears DEF Idle, RelFire, Idles
<1>3. Becomes(in, m, n)
  BY BusyIs
<1>4. n.st \in Moves \cup {"Resp"} /\ dc'[m] = n
  <2>1. CASE dc[m].st \in Moves
    <3>1. n.st = Onward(dc[m], n.wR, n.wS, n.wV)
      BY <1>1, <2>1, StateIs
    <3>2. n.st \in Moves \cup {"Resp"} /\ n.st # "Free"
      <4> HIDE DEF n
      <4> QED BY <3>1 DEF Onward, Rest, Moves
    <3>3. dc'[m] = IF n.st = "Free" THEN FreeCM ELSE n
      BY <1>1, WaysAre DEF Ways
    <3> QED BY <3>2, <3>3
  <2>2. CASE dc[m].st = "Resp"
    BY <1>1, <2>2, BusyWay
  <2> QED BY <2>1, <2>2
<1>5. ~RespFire(m)
  <2> SUFFICES ASSUME RespFire(m) PROVE FALSE
    OBVIOUS
  <2>1. dc[m].st = "Resp"
    BY DEF RespFire
  <2>2. n.st = NextState(in, m, n.wR, n.wS, n.wV, n.vec)
    BY <1>3, Zenon DEF Becomes
  <2>3. n.st = "Alloc"
    BY <2>1, <2>2 DEF NextState
  <2> QED BY <1>4, <2>3 DEF Moves
<1>6. goal'[m] = goal[m]
  <2>1. goal'[m] = NextGoal(m)
    BY DEF Edge, DataTick
  <2> QED BY <1>2, <1>5, <2>1 DEF NextGoal
<1>7. /\ n.op = dc[m].op /\ n.tvec = dc[m].tvec /\ n.vec = dc[m].vec /\ n.id = dc[m].id /\ n.txn = dc[m].txn
      /\ n.sR = dc[m].sR \ (BeatsOn(RdAsked, m) \cup BeatsOn(RdDone, m))
      /\ n.wR = dc[m].wR \ BeatsOn(RdDone, m)
      /\ n.wV = dc[m].wV \ BeatsOn(DsDone, m)
  <2> HIDE DEF n
  <2> QED BY <1>2, <1>3 DEF Becomes, ToAsk, ToDone
<1> HIDE DEF n
<1> QED BY <1>1, <1>2, <1>4, <1>6, <1>7 DEF Keeps

LEMMA TaskStarts ==
  ASSUME NEW in, Edge(in), NEW m \in CMs, dc[m].st \notin Moves \cup {"Resp"}, dc'[m].st \in Moves \cup {"Resp"}
  PROVE  Starts(m)
<1> DEFINE n == Busy(in, Wires, m)
           op == taskD[1].op
           v == taskD[1].tvec
<1>1. Valid(m)
  <2> SUFFICES ASSUME ~Valid(m) PROVE FALSE
    OBVIOUS
  <2>1. dc'[m] = FreeCM \/ Begun(in, m)
    BY WaysAre DEF Ways
  <2>2. FreeCM.st = "Free"
    BY DEF FreeCM
  <2>3. Begun(in, m) => dc'[m].st = "Alloc"
    BY DEF Begun
  <2> QED BY <2>1, <2>2, <2>3 DEF Moves
<1>2. dc'[m] = n /\ Becomes(in, m, n)
  BY <1>1, BusyWay, BusyIs
<1>3. dc[m].st = "Alloc" /\ TaskHit(m)
  <2>1. dc[m].st \in {"Alloc", "Clean"}
    BY <1>1 DEF Valid, Edge, FlowInv, RegTypes, CM, Moves
  <2>2. /\ dc[m].st = "Alloc" => n.st = AfterAlloc(in, m)
        /\ dc[m].st = "Clean" => n.st \in {"Clean", "Alloc", "Free"}
    BY <1>1, StateIs
  <2> HIDE DEF n
  <2>3. dc[m].st = "Alloc"
    BY <1>2, <2>1, <2>2 DEF Moves
  <2>4. AfterAlloc(in, m) \in Moves \cup {"Resp"}
    BY <1>2, <2>2, <2>3
  <2>5. ~TaskHit(m) => AfterAlloc(in, m) \in {"Clean", "Alloc"}
    BY DEF AfterAlloc
  <2> QED BY <2>3, <2>4, <2>5 DEF Moves
<1>4. /\ taskD[1] \in TaskRec /\ taskD[1].tvec \subseteq dc[m].vec
      /\ ~CleanHit(in, m) /\ ~RelFire(m) /\ NextTxn(in, m) = dc[m].txn /\ m \notin Idles
  BY <1>1, <1>3, Hears DEF Idle, RelFire, Idles
<1>5. TheOp(m) = op
  BY <1>3 DEF TheOp
<1>6. /\ dc[m].sR = {} /\ dc[m].wR = {} /\ dc[m].wV = {} /\ BeatsOn(RdDone, m) = {} /\ BeatsOn(DsDone, m) = {}
      /\ BeatsOn(RdAsked, m) = {}
  BY QuietStep
<1>7. /\ n.op = op /\ n.tvec = v /\ n.vec = dc[m].vec /\ n.id = dc[m].id /\ n.txn = dc[m].txn
      /\ n.sR = n.wR
      /\ n.wR = (IF Reads(op) THEN v ELSE {})
      /\ n.wV = (IF Saves(op) THEN v ELSE {})
  <2>1. /\ n.sR = ToAsk(TaskHit(m) /\ Reads(TheOp(m)), dc[m].sR, BeatsOn(RdAsked, m), BeatsOn(RdDone, m))
        /\ n.wR = ToDone(TaskHit(m) /\ Reads(TheOp(m)), dc[m].wR, BeatsOn(RdDone, m))
        /\ n.wV = ToDone(TaskHit(m) /\ Saves(TheOp(m)), dc[m].wV, BeatsOn(DsDone, m))
    <3> HIDE DEF n
    <3> QED BY <1>2, Zenon DEF Becomes
  <2>2. /\ n.op = op /\ n.tvec = v /\ n.vec = dc[m].vec /\ n.id = dc[m].id /\ n.txn = dc[m].txn
    <3> HIDE DEF n
    <3> QED BY <1>2, <1>3, <1>4 DEF Becomes
  <2> HIDE DEF n
  <2> QED BY <1>3, <1>5, <1>6, <2>1, <2>2 DEF ToAsk, ToDone
<1>8. watch \in v => goal'[m] = Goal(m)
  <2>1. goal'[m] = NextGoal(m)
    BY DEF Edge, DataTick
  <2> QED BY <1>3, <2>1 DEF NextGoal
<1> HIDE DEF n
<1> QED BY <1>2, <1>3, <1>4, <1>7, <1>8 DEF Starts

-----------------------------------------------------------------------------
(* The slots and the lines at an edge.                                     *)

LEMMA SlotIs ==
  ASSUME RegTypes, NEW m \in CMs, NEW b \in dc[m].vec
  PROVE  b \in Beats /\ Sits(m, b) \in Slots /\ Sits(m, b) \notin FreeIds
<1>1. dc[m].vec \in SUBSET Beats /\ dc[m].id \in [Beats -> Slots]
  BY DEF RegTypes, CM
<1> QED BY <1>1 DEF Sits, FreeIds

\* A slot in use is not handed out, and only its holder writes it.
LEMMA NotCleaned ==
  ASSUME NEW in, Edge(in), NEW m \in CMs, NEW b \in dc[m].vec
  PROVE  Sits(m, b) \notin Cleaned(in)
<1>0. Sits(m, b) \notin FreeIds
  BY SlotIs DEF Edge, FlowInv
<1>1. CASE in.req = {}
  BY <1>1 DEF Cleaned
<1>2. CASE Begins(in)
  <2>1. PICK t \in Unused, v \in SUBSET Beats :
          in.req = {[txn |-> t, vec |-> v, id |-> NewIds(v)]} /\ ~(Cardinality(FreeIds) < 2)
    BY <1>2 DEF Begins
  <2>2. \A c \in v : NewIds(v)[c] \in FreeIds
    BY <2>1, NewIdsAre
  <2>3. \A r \in in.req : r.vec = v /\ r.id = NewIds(v)
    BY <2>1
  <2>4. UNION {{r.id[c] : c \in r.vec} : r \in in.req} \subseteq FreeIds
    BY <2>2, <2>3
  <2> QED BY <1>0, <2>4 DEF Cleaned
<1> QED BY <1>1, <1>2, InputIs

LEMMA RxElse ==
  ASSUME NEW in, Right(in), NEW m \in CMs, NEW b \in dc[m].vec, NEW x \in in.rx,
         m \notin Idles \/ (in.task # <<>> /\ <<in.task[1].txn>> = dc[m].txn)
  PROVE  RxId(x) # Sits(m, b)
<1>1. PICK n \in Idles : \E c \in dc[n].vec, f \in BOOLEAN : x = RxBeat(n, c, f) /\ RxId(x) = dc[n].id[c]
  BY RxIs DEF Right
<1>2. PICK c \in dc[n].vec, f \in BOOLEAN : x = RxBeat(n, c, f) /\ RxId(x) = dc[n].id[c]
  BY <1>1
<1> SUFFICES ASSUME RxId(x) = Sits(m, b) PROVE FALSE
  OBVIOUS
<1>3. n = m
  <2>1. n \in CMs /\ Sits(n, c) = Sits(m, b)
    BY <1>2, IdleIs DEF Sits
  <2> QED BY <2>1 DEF Right, RightInv, OneHolder
<1>4. x.txn = TxnOf(m) /\ dc[m].txn = <<TxnOf(m)>>
  <2>1. Valid(n) /\ RegTypes /\ OneMachine
    BY IdleIs DEF Right, Edge, FlowInv
  <2> QED BY <1>2, <1>3, <2>1, TxnIs DEF RxBeat
<1>5. in.task # <<>> /\ in.task[1].txn = x.txn
  <2>1. <<in.task[1].txn>> = <<TxnOf(m)>> /\ in.task # <<>>
    BY <1>3, <1>4
  <2>2. in.task[1].txn = TxnOf(m)
    BY <2>1
  <2> QED BY <1>4, <2>1, <2>2
<1>6. \A y \in in.rx : in.task # <<>> => in.task[1].txn # y.txn
  BY DEF Right, Edge, Input
<1> QED BY <1>5, <1>6

LEMMA RespIs ==
  ASSUME FlowInv, RightInv, DsResp # <<>>
  PROVE  /\ DsResp[1] \in RdItem /\ RdRight(DsResp[1]) /\ RdDone = {Who(DsResp[1])} /\ RdDone \subseteq RdOn
         /\ \A m \in CMs : \A b \in dc[m].vec : DsResp[1].id = Sits(m, b) => <<m, b>> \in RdDone
<1>1. Latency + 1 \in 1 .. Latency + 1
  BY DataAssumption
<1>2. DsResp \in Opt(RdItem) /\ RdDone \subseteq RdOn
  BY <1>1 DEF FlowInv, OnTheWay, Line, DsResp, RdDone, RdOn, LineOn
<1>3. DsResp[1] \in RdItem /\ RdDone = {Who(DsResp[1])}
  BY <1>2, WireWhos DEF RdDone
<1>4. RdRight(DsResp[1])
  BY <1>1 DEF RightInv, Carried, DsResp
<1>5. ASSUME NEW m \in CMs, NEW b \in dc[m].vec, DsResp[1].id = Sits(m, b) PROVE <<m, b>> \in RdDone
  <2> DEFINE n == DsResp[1].m
             c == DsResp[1].beat
  <2>1. <<n, c>> \in RdDone /\ Sits(n, c) = Sits(m, b)
    BY <1>3, <1>4, <1>5 DEF RdRight, Who
  <2>2. n \in CMs /\ c \in dc[n].vec
    BY <1>2, <2>1, HeldBy
  <2> HIDE DEF n, c
  <2>3. n = m /\ c = b
    BY <2>1, <2>2 DEF RightInv, OneHolder
  <2> QED BY <2>1, <2>3
<1> QED BY <1>2, <1>3, <1>4, <1>5

LEMMA ReplStep ==
  ASSUME NEW in, Right(in), NEW m \in CMs, NEW b \in dc[m].vec
  PROVE  replVec'[Sits(m, b)] <=> replVec[Sits(m, b)] \/ (IsRepl(m) /\ <<m, b>> \in DsAsked)
<1> DEFINE i == Sits(m, b)
<1>1. i \in Slots /\ i \notin Cleaned(in)
  BY SlotIs, NotCleaned DEF Right, Edge, FlowInv
<1>2. replVec' = [j \in Slots |-> NextReplVec(in, Wires, j)]
  BY DEF Right, Edge, DataTick
<1>3. replVec'[i] <=> (\E n \in DsFire : IsRepl(n) /\ Sits(n, DsBeat(n)) = i) \/ replVec[i]
  BY <1>1, <1>2, WiresAre DEF NextReplVec, Sits
<1>4. ASSUME NEW n \in DsFire, Sits(n, DsBeat(n)) = i PROVE n = m /\ DsBeat(n) = b
  <2>1. n \in CMs /\ DsBeat(n) \in dc[n].sV
    BY AskBeats DEF Right
  <2>2. Stage(dc[n]) /\ Ledger(dc[n], BeatsOn(RdOn, n), BeatsOn(ChiOn, n), BeatsOn(DsOn, n))
    BY <2>1 DEF Right, Edge, FlowInv, Stages
  <2>3. DsBeat(n) \in dc[n].vec
    BY <2>1, <2>2 DEF Stage, Ledger
  <2> QED BY <1>4, <2>1, <2>3 DEF Right, RightInv, OneHolder
<1>5. <<m, b>> \in DsAsked <=> m \in DsFire /\ DsBeat(m) = b
  BY DEF DsAsked
<1> HIDE DEF i
<1>6. (\E n \in DsFire : IsRepl(n) /\ Sits(n, DsBeat(n)) = i) <=> IsRepl(m) /\ <<m, b>> \in DsAsked
  BY <1>4, <1>5 DEF i
<1> QED BY <1>3, <1>6 DEF i

\* What the slot of a beat has after an edge.
NowNext(i) == IF wr' # <<>> /\ wr'[1].id = i THEN wr'[1].data ELSE buf'[i]
LEMMA SlotStep ==
  ASSUME NEW in, Right(in), NEW m \in CMs, NEW b \in dc[m].vec, NEW i, i = Sits(m, b),
         m \notin Idles \/ (in.task # <<>> /\ <<in.task[1].txn>> = dc[m].txn)
  PROVE  /\ i \in Slots /\ buf'[i] = BufNow(i)
         /\ <<m, b>> \notin RdDone => mask'[i] = mask[i] /\ NowNext(i) = BufNow(i)
         /\ <<m, b>> \in RdDone =>
              /\ DsResp # <<>> /\ RdRight(DsResp[1]) /\ DsResp[1].m = m /\ DsResp[1].beat = b
              /\ NowNext(i) = IF replVec[i] \/ ~mask[i] THEN DsResp[1].data ELSE BufNow(i)
<1>1. i \in Slots /\ i \notin FreeIds /\ i \notin Cleaned(in) /\ FlowInv /\ RightInv
  BY SlotIs, NotCleaned DEF Right, Edge, FlowInv
<1>2. /\ buf' = [j \in Slots |-> NextBuf(Wires, j)] /\ mask' = [j \in Slots |-> NextMask(in, Wires, j)]
      /\ wr' = NextWr(in)
  BY DEF Right, Edge, DataTick
<1>3. buf'[i] = BufNow(i)
  <2>1. buf'[i] = NextBuf(Wires, i)
    BY <1>1, <1>2
  <2> QED BY <1>1, <2>1, WiresAre DEF NextBuf, BufNow
<1>4. \A x \in in.rx : RxId(x) # i
  BY RxElse
<1>5. mask'[i] = NextMask(in, Wires, i) /\ mask[i] \in BOOLEAN
  BY <1>1, <1>2 DEF RightInv, SlotTypes
<1>6. CASE <<m, b>> \notin RdDone
  <2>1. DsResp # <<>> => DsResp[1].id # i
    BY <1>1, <1>6, RespIs
  <2>2. mask'[i] = mask[i]
    BY <1>1, <1>4, <1>5, <2>1 DEF NextMask
  <2>3. wr' # <<>> => wr'[1].id # i
    <3>1. CASE DsResp # <<>>
      BY <1>2, <2>1, <3>1 DEF NextWr
    <3>2. CASE DsResp = <<>> /\ in.rx # {}
      <4> DEFINE x == CHOOSE y \in in.rx : TRUE
      <4>1. x \in in.rx
        BY <3>2
      <4>2. wr' = <<>> \/ wr' = <<[id |-> RxId(x), data |-> x.data]>>
        BY <1>2, <3>2 DEF NextWr
      <4> HIDE DEF x
      <4>3. wr' # <<>> => wr'[1].id = RxId(x)
        BY <4>2
      <4> QED BY <1>4, <4>1, <4>3
    <3>3. CASE DsResp = <<>> /\ in.rx = {}
      BY <1>2, <3>3 DEF NextWr
    <3> QED BY <3>1, <3>2, <3>3
  <2> QED BY <1>1, <1>3, <1>6, <2>2, <2>3 DEF NowNext
<1>7. CASE <<m, b>> \in RdDone
  <2>1. DsResp # <<>>
    <3>1. <<>> \in Opt(RdItem)
      BY DEF Opt
    <3> QED BY <1>7, <3>1, WireWhos DEF RdDone
  <2>2. RdRight(DsResp[1]) /\ RdDone = {Who(DsResp[1])}
    BY <1>1, <2>1, RespIs
  <2>3. DsResp[1].m = m /\ DsResp[1].beat = b
    BY <1>7, <2>2 DEF Who
  <2>4. DsResp[1].id = i
    BY <2>2, <2>3 DEF RdRight
  <2>5. wr' = IF replVec[i] \/ ~mask[i] THEN <<[id |-> i, data |-> DsResp[1].data]>> ELSE <<>>
    BY <1>2, <2>1, <2>4 DEF NextWr
  <2>6. NowNext(i) = IF replVec[i] \/ ~mask[i] THEN DsResp[1].data ELSE BufNow(i)
    <3>1. CASE replVec[i] \/ ~mask[i]
      <4>1. wr' # <<>> /\ wr'[1].id = i /\ wr'[1].data = DsResp[1].data
        BY <2>5, <3>1
      <4> QED BY <3>1, <4>1 DEF NowNext
    <3>2. CASE ~(replVec[i] \/ ~mask[i])
      BY <1>3, <2>5, <3>2 DEF NowNext
    <3> QED BY <3>1, <3>2
  <2> QED BY <1>1, <1>3, <1>7, <2>1, <2>2, <2>3, <2>6
<1> QED BY <1>6, <1>7

\* A line changes when its machine's beat is written, to what was to be saved.
LEMMA MemStep ==
  ASSUME NEW in, Right(in), NEW m \in CMs, Valid(m)
  PROVE  /\ <<m, watch>> \in DsDone => mem'[TxnOf(m)] = goal[m].saved
         /\ <<m, watch>> \notin DsDone => mem'[TxnOf(m)] = mem[TxnOf(m)]
<1>0. RegTypes /\ OneMachine /\ OnTheWay /\ FlowInv
  BY DEF Right, Edge, FlowInv
<1>1. /\ TxnOf(m) \in Txn /\ dc[m].txn = <<TxnOf(m)>>
      /\ \A n \in CMs : Valid(n) /\ dc[n].txn = <<TxnOf(m)>> => n = m
  BY <1>0, TxnIs
<1> DEFINE t == TxnOf(m)
           h == Head(dsQ.items)
<1>2. mem'[t] = IF \E w \in WriDsFire : w.line = t /\ w.beat = watch
                THEN (CHOOSE w \in WriDsFire : TRUE).data
                ELSE IF Of(t) = {} THEN 0 ELSE mem[t]
  BY <1>1 DEF Right, Edge, DataTick, NextMem
<1>3. Of(t) # {}
  BY <1>1 DEF Of
<1>4. CASE WriDsFire # {}
  <2>1. dsQ.items # <<>> /\ WriDsFire = {h}
    BY <1>4 DEF WriDsFire, WriDs
  <2>2. DsDone = {Who(h)}
    BY <1>4, <2>1 DEF DsDone, HeadWho
  <2>3. h \in DsItem /\ InRight(h)
    <3>1. dsQ.items \in Seq(DsItem)
      BY <1>0 DEF OnTheWay, Pipe, FqState
    <3>2. 1 \in 1 .. Len(dsQ.items) /\ h = dsQ.items[1] /\ h \in DsItem
      BY <2>1, <3>1, HeadTailProperties, EmptySeq
    <3>3. \A i \in 1 .. Len(dsQ.items) : InRight(dsQ.items[i])
      BY DEF Right, RightInv, Carried
    <3> QED BY <3>2, <3>3
  <2>4. <<h.m, h.beat>> \in DsOn
    BY <2>2, NoticesAre, DataAssumption DEF Right, Who
  <2>5. h.m \in CMs /\ Valid(h.m) /\ dc[h.m].txn = <<h.line>>
    BY <1>0, <2>3, <2>4, HeldBy DEF InRight, Valid, Moves
  <2>6. h.line = t <=> h.m = m
    <3>1. h.m = m => <<h.line>> = <<t>>
      BY <1>1, <2>5
    <3>2. h.line = t => h.m = m
      BY <1>1, <2>5
    <3> HIDE DEF h, t
    <3>3. <<h.line>> = <<t>> => h.line = t
      OBVIOUS
    <3> QED BY <3>1, <3>2, <3>3
  <2>7. <<m, watch>> \in DsDone <=> h.line = t /\ h.beat = watch
    <3> HIDE DEF h, t
    <3> QED BY <2>2, <2>6 DEF Who
  <2>8. (CHOOSE w \in WriDsFire : TRUE) = h
    BY <2>1
  <2>9. mem'[t] = IF h.line = t /\ h.beat = watch THEN h.data ELSE mem[t]
    <3> HIDE DEF h, t
    <3> QED BY <1>2, <1>3, <2>1, <2>8
  <2>10. h.line = t /\ h.beat = watch => h.data = goal[m].saved
    BY <2>3, <2>6 DEF InRight
  <2> HIDE DEF h, t
  <2> QED BY <2>7, <2>9, <2>10 DEF t
<1>5. CASE WriDsFire = {}
  <2>1. DsDone = {}
    BY <1>5 DEF DsDone, HeadWho
  <2> QED BY <1>2, <1>3, <1>5, <2>1
<1> QED BY <1>4, <1>5

-----------------------------------------------------------------------------
(* Slots and lines are right after an edge.                                *)

Kept(r, n, g, b, rv, rp, rv2, mk, mk2, now, now2, line, line2, data, cR, aR, cV) ==
  /\ Fills(r, g, rv, mk, now, line, b)
  /\ n.op = r.op /\ n.wR = r.wR \ cR /\ n.sR = r.sR \ (aR \cup cR) /\ n.wV = r.wV \ cV
  /\ rv \in BOOLEAN /\ rv2 \in BOOLEAN /\ rp \in BOOLEAN
  /\ rv2 <=> rv \/ rp
  /\ rp => "repl" \in r.op
  /\ "repl" \in r.op /\ b \in aR => rp
  /\ b \notin cR => mk2 = mk /\ now2 = now
  /\ b \in cR => /\ b \in r.wR /\ b \notin r.sR /\ Comes(r, g, mk, now, data)
                 /\ now2 = IF rv \/ ~mk THEN data ELSE now
  /\ b \in cV => line2 = g.saved /\ b \notin r.sR
  /\ b \notin cV => line2 = line
LEMMA FillsKeep ==
  ASSUME NEW r, NEW n, NEW g, NEW b, NEW rv, NEW rp, NEW rv2, NEW mk, NEW mk2, NEW now, NEW now2,
         NEW line, NEW line2, NEW data, NEW cR, NEW aR, NEW cV,
         Kept(r, n, g, b, rv, rp, rv2, mk, mk2, now, now2, line, line2, data, cR, aR, cV)
  PROVE  Fills(n, g, rv2, mk2, now2, line2, b)
<1> USE DEF Kept
<1>1. /\ rv => "repl" \in r.op
      /\ "repl" \in r.op /\ b \in r.wR \ r.sR => rv
      /\ r.op = {"read", "send"} /\ b \in r.wR => ~mk
      /\ b \in r.sR => Comes(r, g, mk, now, line)
      /\ b \notin r.wR => now = g.out
      /\ "repl" \in r.op /\ b \in r.wR => now = g.saved
      /\ "repl" \notin r.op => g.saved = g.out
      /\ Saves(r.op) /\ b \notin r.wV => line = g.saved
  BY DEF Fills
<1>2. /\ rv2 => "repl" \in n.op
      /\ "repl" \in n.op /\ b \in n.wR \ n.sR => rv2
      /\ n.op = {"read", "send"} /\ b \in n.wR => ~mk2
      /\ "repl" \in n.op /\ b \in n.wR => now2 = g.saved
      /\ "repl" \notin n.op => g.saved = g.out
  BY <1>1
<1>3. b \in n.sR => Comes(n, g, mk2, now2, line2)
  BY <1>1 DEF Comes
<1>4. b \notin n.wR => now2 = g.out
  BY <1>1 DEF Comes
<1>5. Saves(n.op) /\ b \notin n.wV => line2 = g.saved
  BY <1>1
<1> QED BY <1>2, <1>3, <1>4, <1>5 DEF Fills

\* What is on its way to storage is not still to be read.
LEMMA SavedLater ==
  ASSUME FlowInv, NEW m \in CMs, NEW b \in dc[m].sR
  PROVE  <<m, b>> \notin DsOn /\ <<m, b>> \notin RdOn
<1>1. Stage(dc[m]) /\ Ledger(dc[m], BeatsOn(RdOn, m), BeatsOn(ChiOn, m), BeatsOn(DsOn, m)) /\ b \in Beats
  BY DEF FlowInv, Stages, RegTypes, CM
<1>2. /\ dc[m].wR = dc[m].sR \cup BeatsOn(RdOn, m) /\ dc[m].sR \cap BeatsOn(RdOn, m) = {}
      /\ dc[m].sV \cap BeatsOn(DsOn, m) = {}
      /\ BeatsOn(DsOn, m) # {} => dc[m].st \in {"Repl", "Save"}
      /\ dc[m].st = "Repl" => dc[m].sR = dc[m].sV
      /\ dc[m].st = "Save" => dc[m].wR = {}
  BY <1>1 DEF Ledger, Stage
<1>3. b \notin BeatsOn(DsOn, m) /\ b \notin BeatsOn(RdOn, m)
  BY <1>2
<1> QED BY <1>1, <1>3 DEF BeatsOn

LEMMA AskedRepl ==
  ASSUME NEW in, Edge(in), NEW m \in CMs, NEW b \in Beats
  PROVE  /\ IsRepl(m) => "repl" \in dc[m].op
         /\ dc[m].st \in Moves \cup {"Resp"} /\ "repl" \in dc[m].op /\ b \in BeatsOn(RdAsked, m)
              => IsRepl(m) /\ <<m, b>> \in DsAsked
<1>0. Stage(dc[m])
  BY DEF Edge, FlowInv, Stages
<1>1. IsRepl(m) => "repl" \in dc[m].op
  BY <1>0 DEF IsRepl, Stage
<1>2. ASSUME dc[m].st \in Moves \cup {"Resp"}, "repl" \in dc[m].op, b \in BeatsOn(RdAsked, m)
      PROVE  IsRepl(m) /\ <<m, b>> \in DsAsked
  <2>1. dc[m].op \in Tasks
    BY <1>0, <1>2 DEF Stage
  <2>2. dc[m].st = "Repl"
    <3>1. dc[m].st \in {"Read", "Repl"}
      BY <1>2, AskedBy
    <3>2. dc[m].st = "Read" => "read" \in dc[m].op
      BY <1>0 DEF Stage
    <3>3. "read" \in dc[m].op => "repl" \notin dc[m].op
      BY <2>1, OpIs
    <3> QED BY <1>2, <3>1, <3>2, <3>3
  <2>3. BeatsOn(RdAsked, m) = BeatsOn(DsAsked, m) /\ BeatsOn(RdAsked, m) \subseteq dc[m].sR
    BY <2>2, AskedBy
  <2>4. dc[m].sR = dc[m].sV
    BY <1>0, <2>2 DEF Stage
  <2> QED BY <1>2, <2>2, <2>3, <2>4 DEF IsRepl, BeatsOn
<1> QED BY <1>1, <1>2

LEMMA ContentKeeps ==
  ASSUME NEW in, Right(in), NEW m \in CMs, Keeps(m), Watched(dc[m])
  PROVE  ContentOf(m)'
<1>0. FlowInv /\ RightInv /\ Edge(in) /\ RegTypes
  BY DEF Right, Edge, FlowInv
<1> DEFINE b == watch
           i == Sits(m, watch)
<1>1. b \in dc[m].vec /\ b \in Beats /\ i \in Slots /\ watch' = watch
  <2>1. Stage(dc[m])
    BY <1>0 DEF FlowInv, Stages
  <2>2. b \in dc[m].vec
    BY <2>1 DEF Watched, Stage
  <2> QED BY <1>0, <2>2, SlotIs DEF Edge, DataTick
<1> DEFINE r == dc[m]
           n == dc'[m]
           g == goal[m]
           rv == replVec[i]
           rp == IsRepl(m) /\ <<m, b>> \in DsAsked
           rv2 == replVec'[i]
           mk == mask[i]
           mk2 == mask'[i]
           now == BufNow(i)
           now2 == NowNext(i)
           line == mem[TxnOf(m)]
           line2 == mem'[TxnOf(m)]
           data == DsResp[1].data
           cR == BeatsOn(RdDone, m)
           aR == BeatsOn(RdAsked, m)
           cV == BeatsOn(DsDone, m)
<1>2. Fills(r, g, rv, mk, now, line, b)
  BY <1>0 DEF RightInv, Contents, ContentOf, LineOf
<1>3. /\ r.st \in Moves \cup {"Resp"} /\ Valid(m) /\ m \notin Idles
      /\ n.op = r.op /\ n.wR = r.wR \ cR /\ n.sR = r.sR \ (aR \cup cR) /\ n.wV = r.wV \ cV
      /\ n.id = r.id /\ n.txn = r.txn /\ goal'[m] = g
  BY DEF Keeps
<1>4. (rv2 <=> rv \/ rp) /\ rv \in BOOLEAN /\ rp \in BOOLEAN /\ rv2 \in BOOLEAN
  <2>1. rv2 <=> rv \/ rp
    BY <1>1, ReplStep
  <2>2. rv \in BOOLEAN
    BY <1>0, <1>1 DEF RightInv, SlotTypes
  <2>3. rv2 \in BOOLEAN
    <3>1. replVec' = [j \in Slots |-> NextReplVec(in, Wires, j)]
      BY <1>0 DEF Edge, DataTick
    <3> QED BY <1>1, <3>1 DEF NextReplVec
  <2>4. rp \in BOOLEAN
    OBVIOUS
  <2> QED BY <2>1, <2>2, <2>3, <2>4
<1>5. (rp => "repl" \in r.op) /\ ("repl" \in r.op /\ b \in aR => rp)
  BY <1>0, <1>1, <1>3, AskedRepl
<1>6. /\ b \in cR <=> <<m, b>> \in RdDone
      /\ b \in cV <=> <<m, b>> \in DsDone
      /\ RdDone \subseteq RdOn /\ DsDone \subseteq DsOn
  BY <1>0, <1>1, NoticesAre DEF BeatsOn
<1>7. /\ b \notin cR => mk2 = mk /\ now2 = now
      /\ b \in cR => /\ RdRight(DsResp[1]) /\ DsResp[1].m = m /\ DsResp[1].beat = b
                     /\ now2 = IF rv \/ ~mk THEN data ELSE now
  BY <1>1, <1>3, <1>6, SlotStep
<1>8. b \in cR => b \in r.wR /\ b \notin r.sR /\ Comes(r, g, mk, now, data)
  <2>1. b \in cR => b \in r.wR /\ b \notin r.sR
    BY <1>0, <1>6, HeldBy
  <2>2. b \in cR => Comes(r, g, mk, now, data)
    BY <1>7 DEF RdRight, ReadData
  <2> QED BY <2>1, <2>2
<1>9. (b \in cV => line2 = g.saved /\ b \notin r.sR) /\ (b \notin cV => line2 = line)
  <2>1. b \in cV => b \notin r.sR
    BY <1>0, <1>6, SavedLater
  <2>2. (b \in cV => line2 = g.saved) /\ (b \notin cV => line2 = line)
    BY <1>3, <1>6, MemStep
  <2> QED BY <2>1, <2>2
<1>10. Fills(n, g, rv2, mk2, now2, line2, b)
  <2> HIDE DEF b, i, r, n, g, rv, rp, rv2, mk, mk2, now, now2, line, line2, data, cR, aR, cV
  <2>1. Kept(r, n, g, b, rv, rp, rv2, mk, mk2, now, now2, line, line2, data, cR, aR, cV)
    BY <1>2, <1>3, <1>4, <1>5, <1>7, <1>8, <1>9, Zenon DEF Kept
  <2> QED BY <2>1, FillsKeep
<1>11. dc'[m].id[watch'] = i /\ dc'[m].txn[1] = TxnOf(m) /\ goal'[m] = g
  BY <1>1, <1>3 DEF Sits, TxnOf
<1> QED BY <1>1, <1>10, <1>11 DEF ContentOf, LineOf, TxnOf, Sits, BufNow, NowNext

\* A task begins: the slots are as it needs them.
LEMMA ContentStarts ==
  ASSUME NEW in, Right(in), NEW m \in CMs, Starts(m), watch \in taskD[1].tvec
  PROVE  ContentOf(m)'
<1>0. FlowInv /\ RightInv /\ Edge(in) /\ RegTypes /\ OneMachine
  BY DEF Right, Edge, FlowInv
<1> DEFINE b == watch
           i == Sits(m, watch)
           op == taskD[1].op
           v == taskD[1].tvec
           n == dc'[m]
           g == goal'[m]
           t == TxnOf(m)
<1>1. /\ TaskHit(m) /\ dc[m].st = "Alloc" /\ m \notin Idles /\ op \in Tasks /\ b \in dc[m].vec
      /\ n.op = op /\ n.sR = n.wR /\ n.wR = (IF Reads(op) THEN v ELSE {}) /\ n.wV = (IF Saves(op) THEN v ELSE {})
      /\ n.id = dc[m].id /\ n.txn = dc[m].txn /\ g = Goal(m)
  BY DEF Starts, TaskRec
<1>2. Valid(m) /\ dc[m].st \notin Moves /\ b \in Beats /\ i \in Slots /\ watch' = watch
  BY <1>0, <1>1, SlotIs DEF Valid, Moves, Edge, DataTick
<1>3. taskD[1].txn = t
  <2>1. dc[m].txn = <<t>> /\ dc[m].txn = <<taskD[1].txn>>
    BY <1>0, <1>1, <1>2, TxnIs DEF TaskHit
  <2>2. <<t>> = <<taskD[1].txn>>
    BY <2>1
  <2> HIDE DEF t
  <2> QED BY <2>2
<1>4. Ready(op, i)
  BY <1>0, <1>1, <1>2 DEF RightInv, SlotsFit, TaskHit
<1>5. /\ BeatsOn(RdDone, m) = {} /\ BeatsOn(DsDone, m) = {} /\ BeatsOn(DsAsked, m) = {}
  BY <1>0, <1>2, QuietStep
<1>6. <<m, b>> \notin RdDone /\ <<m, b>> \notin DsDone /\ <<m, b>> \notin DsAsked
  BY <1>2, <1>5 DEF BeatsOn
<1>7. mask'[i] = mask[i] /\ NowNext(i) = BufNow(i)
  BY <1>1, <1>6, SlotStep
<1>8. ~replVec'[i]
  BY <1>1, <1>4, <1>6, ReplStep DEF Ready
<1>9. mem'[t] = mem[t]
  BY <1>2, <1>6, MemStep
<1>10. /\ g.out = IF Reads(op) /\ ("repl" \in op \/ ~mask[i]) THEN mem[t] ELSE BufNow(i)
       /\ g.saved = IF "repl" \in op THEN BufNow(i) ELSE g.out
  BY <1>1, <1>3 DEF Goal, Sits
<1>11. op = {"read", "send"} => ~mask[i]
  BY <1>4 DEF Ready
<1>12. Fills(n, g, replVec'[i], mask'[i], NowNext(i), mem'[t], b)
  <2> DEFINE rv == replVec'[i]
             mk == mask'[i]
             now == NowNext(i)
             line == mem'[t]
  <2>1. /\ g.out = IF Reads(op) /\ ("repl" \in op \/ ~mk) THEN line ELSE now
        /\ g.saved = IF "repl" \in op THEN now ELSE g.out
        /\ ~rv /\ (op = {"read", "send"} => ~mk) /\ b \in v
    BY <1>7, <1>8, <1>9, <1>10, <1>11
  <2>2. ("repl" \in op => Reads(op)) /\ Reads(op) \in BOOLEAN /\ Saves(op) \in BOOLEAN
    BY DEF Reads, Saves
  <2> HIDE DEF rv, mk, now, line, b, i, op, v, n, g, t
  <2>3. n.op = op /\ (b \in n.wR <=> Reads(op)) /\ (b \in n.sR <=> Reads(op)) /\ (b \in n.wV <=> Saves(op))
        /\ n.wR \ n.sR = {}
    BY <1>1, <2>1
  <2>4. b \in n.sR => Comes(n, g, mk, now, line)
    BY <2>1, <2>2, <2>3 DEF Comes
  <2>5. b \notin n.wR => now = g.out
    BY <2>1, <2>2, <2>3
  <2>6. ("repl" \in n.op /\ b \in n.wR => now = g.saved) /\ ("repl" \notin n.op => g.saved = g.out)
    BY <2>1, <2>3
  <2>7. Saves(n.op) => b \in n.wV
    BY <2>3
  <2>8. Fills(n, g, rv, mk, now, line, b)
    BY <2>1, <2>3, <2>4, <2>5, <2>6, <2>7 DEF Fills
  <2> QED BY <2>8 DEF rv, mk, now, line
<1>13. dc'[m].id[watch'] = i /\ dc'[m].txn[1] = t
  BY <1>1, <1>2 DEF Sits, TxnOf
<1> QED BY <1>2, <1>12, <1>13 DEF ContentOf, LineOf, TxnOf, Sits, BufNow, NowNext

LEMMA ContentsStep ==
  ASSUME NEW in, Right(in)
  PROVE  Contents'
<1>0. Edge(in) /\ watch' = watch /\ RightInv
  BY DEF Right, Edge, DataTick
<1>1. ASSUME NEW m \in CMs, dc'[m].st \in Moves \cup {"Resp"}, watch \in dc'[m].tvec
      PROVE  ContentOf(m)'
  <2>1. CASE dc[m].st \in Moves \cup {"Resp"}
    <3>1. Keeps(m)
      BY <1>0, <1>1, <2>1, MoverKeeps
    <3>2. Watched(dc[m])
      BY <1>1, <2>1, <3>1 DEF Watched, Keeps
    <3> QED BY <3>1, <3>2, ContentKeeps
  <2>2. CASE dc[m].st \notin Moves \cup {"Resp"}
    <3>1. Starts(m)
      BY <1>0, <1>1, <2>2, TaskStarts
    <3>2. watch \in taskD[1].tvec
      BY <1>1, <3>1 DEF Starts
    <3> QED BY <3>1, <3>2, ContentStarts
  <2> QED BY <2>1, <2>2
<1> QED BY <1>0, <1>1 DEF Contents, Watched

-----------------------------------------------------------------------------
(* What is on its way is right after an edge.                              *)

LEMMA FqItems ==
  ASSUME NEW Q, NEW qu \in FqState(Q), NEW enq \in Opt(Q), NEW d \in BOOLEAN,
         NEW n, n = FqNext(2, qu, enq, d), NEW i \in 1 .. Len(n.items)
  PROVE  (enq # <<>> /\ n.items[i] = enq[1]) \/ \E j \in 1 .. Len(qu.items) : n.items[i] = qu.items[j]
<1> DEFINE s == qu.items
           e == enq # <<>> /\ qu.rdy
           out == s # <<>> /\ d
           rest == IF out THEN Tail(s) ELSE s
           more == IF e THEN enq ELSE <<>>
<1>1. n.items = rest \o more
  BY DEF FqNext
<1>2. s \in Seq(Q) /\ enq \in Seq(Q) /\ more \in Seq(Q) /\ (e => Len(more) = 1 /\ more[1] = enq[1]) /\ (~e => Len(more) = 0)
  BY OptIsSeq DEF FqState
<1>3. rest \in Seq(Q) /\ \A k \in 1 .. Len(rest) : \E j \in 1 .. Len(s) : rest[k] = s[j]
  <2>1. CASE out
    <3>1. /\ Tail(s) \in Seq(Q) /\ Len(s) \in Nat /\ Len(Tail(s)) = Len(s) - 1
          /\ \A k \in 1 .. Len(Tail(s)) : Tail(s)[k] = s[k + 1]
      BY <2>1, <1>2, HeadTailProperties, EmptySeq, LenProperties
    <3> DEFINE t == Tail(s)
               l == Len(s)
    <3>2. \A k \in 1 .. Len(t) : k + 1 \in 1 .. l
      <4> HIDE DEF t, l
      <4>1. l \in Nat /\ Len(t) = l - 1
        BY <3>1 DEF t, l
      <4> QED BY <4>1
    <3>3. \A k \in 1 .. Len(t) : \E j \in 1 .. l : t[k] = s[j]
      <4> HIDE DEF t, l
      <4>1. \A k \in 1 .. Len(t) : t[k] = s[k + 1]
        BY <3>1 DEF t
      <4> QED BY <4>1, <3>2
    <3> QED BY <2>1, <3>1, <3>3
  <2>2. CASE ~out
    BY <2>2, <1>2
  <2> QED BY <2>1, <2>2
<1> HIDE DEF s, rest, more, e
<1>4. /\ Len(rest) \in Nat /\ Len(more) \in Nat /\ Len(n.items) = Len(rest) + Len(more)
      /\ \A k \in 1 .. Len(rest) : n.items[k] = rest[k]
      /\ \A k \in 1 .. Len(more) : n.items[Len(rest) + k] = more[k]
  <2> DEFINE a == Len(rest)
             c == Len(more)
             all == n.items
  <2>1. a \in Nat /\ c \in Nat /\ all = rest \o more
    BY <1>1, <1>2, <1>3, LenProperties
  <2>2. Len(rest \o more) = a + c
        /\ \A k \in 1 .. a + c : (rest \o more)[k] = IF k <= a THEN rest[k] ELSE more[k - a]
    BY <1>2, <1>3, ConcatProperties
  <2>3. \A k \in 1 .. a + c : all[k] = IF k <= a THEN rest[k] ELSE more[k - a]
    BY <2>1, <2>2
  <2>4. /\ \A k \in 1 .. a : all[k] = rest[k]
        /\ \A k \in 1 .. c : all[a + k] = more[k]
    <3> HIDE DEF a, c, all
    <3>1. \A k \in 1 .. a : k \in 1 .. a + c /\ k <= a
      BY <2>1
    <3>2. \A k \in 1 .. c : a + k \in 1 .. a + c /\ ~(a + k <= a) /\ (a + k) - a = k
      BY <2>1
    <3>3. \A k \in 1 .. c : all[a + k] = more[(a + k) - a]
      BY <2>3, <3>2
    <3> QED BY <2>3, <3>1, <3>2, <3>3
  <2> QED BY <2>1, <2>2, <2>4
<1>5. CASE i \in 1 .. Len(rest)
  BY <1>3, <1>4, <1>5 DEF s
<1>6. CASE i \notin 1 .. Len(rest)
  <2>1. Len(more) # 0
    BY <1>4, <1>6
  <2>2. e /\ Len(more) = 1 /\ more[1] = enq[1]
    BY <1>2, <2>1
  <2>3. i = Len(rest) + 1
    BY <1>4, <1>6, <2>2
  <2>4. n.items[i] = enq[1]
    BY <1>4, <2>2, <2>3
  <2> QED BY <2>2, <2>4 DEF e
<1> QED BY <1>5, <1>6

\* A beat on its way: its machine goes on, its slot stays.
Goes(m, b) ==
  /\ m \in CMs /\ b \in Beats /\ Keeps(m) /\ b \in dc[m].vec /\ dc[m].st \in Moves
  /\ Sits(m, b)' = Sits(m, b) /\ watch' = watch /\ goal'[m] = goal[m]
  /\ buf'[Sits(m, b)] = BufNow(Sits(m, b))
  /\ <<m, b>> \notin RdDone => mask'[Sits(m, b)] = mask[Sits(m, b)] /\ NowNext(Sits(m, b)) = BufNow(Sits(m, b))
LEMMA GoesOn ==
  ASSUME NEW in, Right(in), NEW m \in CMs, NEW b \in dc[m].tvec, dc[m].st \in Moves
  PROVE  Goes(m, b)
<1>0. Edge(in) /\ FlowInv /\ watch' = watch /\ RegTypes
  BY DEF Right, Edge, DataTick, FlowInv
<1>1. Keeps(m)
  BY <1>0, MoverKeeps DEF Moves
<1>2. b \in dc[m].vec /\ b \in Beats
  <2>1. Stage(dc[m])
    BY <1>0 DEF FlowInv, Stages
  <2>2. b \in dc[m].vec
    BY <2>1 DEF Stage
  <2> QED BY <1>0, <2>2, SlotIs
<1>3. m \notin Idles /\ goal'[m] = goal[m] /\ Sits(m, b)' = Sits(m, b)
  BY <1>1 DEF Keeps, Sits
<1>4. /\ buf'[Sits(m, b)] = BufNow(Sits(m, b))
      /\ <<m, b>> \notin RdDone => mask'[Sits(m, b)] = mask[Sits(m, b)] /\ NowNext(Sits(m, b)) = BufNow(Sits(m, b))
  BY <1>2, <1>3, SlotStep
<1> QED BY <1>0, <1>1, <1>2, <1>3, <1>4 DEF Goes

LEMMA HeldGoes ==
  ASSUME NEW in, Right(in), NEW m, NEW b, <<m, b>> \in RdOn \cup ChiOn \cup DsOn
  PROVE  Goes(m, b)
<1>1. m \in CMs /\ b \in dc[m].tvec /\ dc[m].st \in Moves
  BY HeldBy DEF Right, Edge
<1> QED BY <1>1, GoesOn

\* A read goes on to the slots.
LEMMA RdKeeps ==
  ASSUME NEW in, Right(in), NEW x, RdRight(x), <<x.m, x.beat>> \in RdOn, <<x.m, x.beat>> \notin RdDone
  PROVE  RdRight(x)'
<1>1. Goes(x.m, x.beat)
  BY HeldGoes
<1>2. dc'[x.m].op = dc[x.m].op /\ watch' = watch /\ goal'[x.m] = goal[x.m]
  BY <1>1 DEF Goes, Keeps
<1>3. x.id = Sits(x.m, x.beat)' /\ x.atOnce = AtOnce(dc'[x.m].op)
  BY <1>1, <1>2 DEF RdRight, Goes
<1>4. ASSUME x.beat = watch PROVE ReadData(x.m, x.data)'
  <2> DEFINE i == Sits(x.m, x.beat)
             m == x.m
  <2>1. dc'[m].id[watch'] = i /\ mask'[i] = mask[i] /\ NowNext(i) = BufNow(i)
    BY <1>1, <1>2, <1>4 DEF Goes, Sits
  <2>2. Comes(dc[m], goal[m], mask[i], BufNow(i), x.data)
    BY <1>4 DEF RdRight, ReadData
  <2>3. Comes(dc'[m], goal'[m], mask'[i], NowNext(i), x.data)
    BY <1>2, <2>1, <2>2 DEF Comes
  <2> QED BY <2>1, <2>3 DEF ReadData, Sits, BufNow, NowNext
<1> QED BY <1>2, <1>3, <1>4 DEF RdRight

\* A request to a reader of the buffer is in its second step, and what is
\* queued stays as it is.
LEMMA ChiKeeps ==
  ASSUME NEW in, Right(in), NEW x, ChiRight(1, x), <<x.m, x.beat>> \in ChiOn
  PROVE  ChiRight(2, x)'
<1>1. Goes(x.m, x.beat)
  BY HeldGoes
<1> QED BY <1>1 DEF Goes, ChiRight, Shown

LEMMA DsKeeps ==
  ASSUME NEW in, Right(in), NEW x, DsRight(1, x), <<x.m, x.beat>> \in DsOn
  PROVE  DsRight(2, x)'
<1>1. Goes(x.m, x.beat)
  BY HeldGoes
<1>2. dc'[x.m].txn = dc[x.m].txn
  BY <1>1 DEF Goes, Keeps
<1> QED BY <1>1, <1>2 DEF Goes, DsRight, Shown

LEMMA OutKeeps ==
  ASSUME NEW in, Right(in), NEW x, OutRight(x), <<x.m, x.beat>> \in ChiOn
  PROVE  OutRight(x)'
<1>1. Goes(x.m, x.beat)
  BY HeldGoes
<1> QED BY <1>1 DEF Goes, OutRight

LEMMA InKeeps ==
  ASSUME NEW in, Right(in), NEW x, InRight(x), <<x.m, x.beat>> \in DsOn
  PROVE  InRight(x)'
<1>1. Goes(x.m, x.beat)
  BY HeldGoes
<1>2. dc'[x.m].txn = dc[x.m].txn
  BY <1>1 DEF Goes, Keeps
<1> QED BY <1>1, <1>2 DEF Goes, InRight

\* The new requests.
LEMMA NewRd ==
  ASSUME NEW in, Right(in), NEW x, rdPipe'[1] = <<x>>
  PROVE  RdRight(x)'
<1>0. Edge(in) /\ FlowInv /\ RightInv /\ RegTypes /\ OneMachine
  BY DEF Right, Edge, FlowInv
<1> DEFINE It(m) == [m |-> m, beat |-> DbBeat(m), id |-> dc[m].id[DbBeat(m)],
                     atOnce |-> AtOnce(dc[m].op), data |-> Held(dc[m].txn[1], DbBeat(m))]
           S == {It(m) : m \in DbFire}
<1>1. DbFire # {} /\ rdPipe'[1] = <<CHOOSE r \in S : TRUE>>
  <2>1. ReadReq(Wires) = S /\ Wires.db = DbFire
    BY WiresAre DEF ReadReq
  <2>2. 1 \in 1 .. Latency + 1 /\ ~(1 > 1)
    BY DataAssumption
  <2>3. rdPipe' = NextRdPipe(Wires)
    BY <1>0 DEF Edge, DataTick
  <2> DEFINE o == IF Wires.db = {} THEN <<>> ELSE <<CHOOSE r \in ReadReq(Wires) : TRUE>>
  <2>4. rdPipe'[1] = o
    <3>1. NextRdPipe(Wires) = [k \in 1 .. Latency + 1 |-> IF k > 1 THEN rdPipe[k - 1] ELSE o]
      BY DEF NextRdPipe
    <3> HIDE DEF o
    <3> QED BY <2>2, <2>3, <3>1
  <2> HIDE DEF S
  <2> QED BY <2>1, <2>4
<1>2. PICK m \in DbFire : x = It(m)
  <2>1. S # {}
    BY <1>1
  <2>2. (CHOOSE r \in S : TRUE) \in S
    <3> HIDE DEF S
    <3> QED BY <2>1
  <2>3. x = CHOOSE r \in S : TRUE
    <3> HIDE DEF S
    <3> QED BY <1>1
  <2> HIDE DEF It
  <2> QED BY <2>2, <2>3
<1> DEFINE b == x.beat
<1>2a. b = DbBeat(m)
  BY <1>2
<1>3. m \in CMs /\ Valid(m) /\ b \in Beats /\ b \in dc[m].sR
  BY <1>0, <1>2a, AskBeats
<1>4. dc[m].st \in Moves /\ b \in dc[m].tvec
  <2>1. Stage(dc[m]) /\ Ledger(dc[m], BeatsOn(RdOn, m), BeatsOn(ChiOn, m), BeatsOn(DsOn, m))
    BY <1>0, <1>3 DEF FlowInv, Stages
  <2> QED BY <1>3, <2>1 DEF Stage, Ledger
<1>5. Goes(m, b) /\ <<m, b>> \notin RdDone
  <2>1. <<m, b>> \notin RdOn /\ RdDone \subseteq RdOn
    BY <1>0, <1>3, SavedLater, NoticesAre
  <2> QED BY <1>3, <1>4, <2>1, GoesOn
<1>6. x.m = m /\ x.beat = b /\ x.id = Sits(m, b) /\ x.atOnce = AtOnce(dc[m].op) /\ x.data = Held(TxnOf(m), b)
  BY <1>2, <1>2a DEF Sits, TxnOf
<1> HIDE DEF b
<1>7. dc'[m].op = dc[m].op /\ goal'[m] = goal[m] /\ watch' = watch /\ Sits(m, b)' = Sits(m, b)
  BY <1>5 DEF Goes, Keeps
<1>8. ASSUME b = watch PROVE ReadData(m, x.data)'
  <2> DEFINE i == Sits(m, b)
  <2>1. dc'[m].id[watch'] = i /\ mask'[i] = mask[i] /\ NowNext(i) = BufNow(i)
    BY <1>5, <1>7, <1>8 DEF Goes, Sits
  <2>2. Watched(dc[m])
    BY <1>4, <1>8 DEF Watched
  <2>3. ContentOf(m)
    BY <1>0, <1>3, <2>2 DEF RightInv, Contents
  <2>4. Comes(dc[m], goal[m], mask[i], BufNow(i), mem[TxnOf(m)])
    BY <1>3, <1>8, <2>3 DEF ContentOf, Fills, LineOf
  <2>5. x.data = mem[TxnOf(m)]
    BY <1>6, <1>8 DEF Held
  <2>6. Comes(dc'[m], goal'[m], mask'[i], NowNext(i), x.data)
    BY <1>7, <2>1, <2>4, <2>5 DEF Comes
  <2> QED BY <2>1, <2>6 DEF ReadData, Sits, BufNow, NowNext
<1> QED
  <2>1. x.id = Sits(x.m, x.beat)' /\ x.atOnce = AtOnce(dc'[x.m].op)
    BY <1>6, <1>7
  <2>2. x.beat = watch' => ReadData(x.m, x.data)'
    BY <1>6, <1>7, <1>8
  <2> QED BY <2>1, <2>2 DEF RdRight

LEMMA NewChi ==
  ASSUME NEW in, Right(in), NEW x, chiD'[1] = <<x>>
  PROVE  ChiRight(1, x)'
<1>0. Edge(in) /\ FlowInv /\ RightInv /\ RegTypes /\ OneMachine
  BY DEF Right, Edge, FlowInv
<1> DEFINE It(m) == [m |-> m, beat |-> ChiBeat(m), id |-> dc[m].id[ChiBeat(m)]]
           S == {It(m) : m \in ChiFire}
<1>1. chiD'[1] = <<CHOOSE a \in S : TRUE>> /\ S # {}
  <2>1. chiD' = Shift(chiD, AskChi(Wires)) /\ AskChi(Wires) = S
    BY <1>0, WiresAre DEF Edge, DataTick, AskChi
  <2> HIDE DEF S
  <2> QED BY <2>1 DEF Shift
<1>2. PICK m \in ChiFire : x = It(m)
  <2>1. (CHOOSE a \in S : TRUE) \in S /\ x = CHOOSE a \in S : TRUE
    <3> HIDE DEF S
    <3> QED BY <1>1
  <2> HIDE DEF It
  <2> QED BY <2>1
<1> DEFINE b == x.beat
<1>2a. b = ChiBeat(m)
  BY <1>2
<1>3. m \in CMs /\ Valid(m) /\ b \in Beats /\ b \in dc[m].sS /\ dc[m].st = "Send"
  BY <1>0, <1>2a, AskBeats, Grants DEF FlowInv
<1>4. dc[m].st \in Moves /\ b \in dc[m].tvec /\ dc[m].wR = {}
  <2>1. Stage(dc[m]) /\ Ledger(dc[m], BeatsOn(RdOn, m), BeatsOn(ChiOn, m), BeatsOn(DsOn, m))
    BY <1>0, <1>3 DEF FlowInv, Stages
  <2> QED BY <1>3, <2>1 DEF Stage, Ledger, Moves
<1>5. Goes(m, b) /\ <<m, b>> \notin RdDone
  <2>1. <<m, b>> \notin RdDone
    BY <1>0, <1>3, <1>4, NoticesAre, HeldBy
  <2> QED BY <1>3, <1>4, <2>1, GoesOn
<1>6. x.m = m /\ x.beat = b /\ x.id = Sits(m, b)
  BY <1>2, <1>2a DEF Sits
<1> HIDE DEF b
<1>7. ASSUME b = watch PROVE goal[m].out = BufNow(Sits(m, b))
  <2>1. ContentOf(m)
    BY <1>0, <1>3, <1>4, <1>7 DEF RightInv, Contents, Watched
  <2> QED BY <1>4, <1>7, <2>1 DEF ContentOf, Fills
<1> QED
  <2>1. x.id = Sits(x.m, x.beat)'
    BY <1>5, <1>6 DEF Goes
  <2>2. x.beat = watch' => goal'[x.m].out = NowNext(x.id)
    BY <1>5, <1>6, <1>7 DEF Goes
  <2> QED BY <2>1, <2>2 DEF ChiRight, Shown, NowNext, BufNow

LEMMA NewDs ==
  ASSUME NEW in, Right(in), NEW x, dsD'[1] = <<x>>
  PROVE  DsRight(1, x)'
<1>0. Edge(in) /\ FlowInv /\ RightInv /\ RegTypes /\ OneMachine
  BY DEF Right, Edge, FlowInv
<1> DEFINE It(m) == [m |-> m, beat |-> DsBeat(m), id |-> dc[m].id[DsBeat(m)], line |-> dc[m].txn[1]]
           S == {It(m) : m \in DsFire}
<1>1. dsD'[1] = <<CHOOSE a \in S : TRUE>> /\ S # {}
  <2>1. dsD' = Shift(dsD, AskDs(Wires)) /\ AskDs(Wires) = S
    BY <1>0, WiresAre DEF Edge, DataTick, AskDs
  <2> HIDE DEF S
  <2> QED BY <2>1 DEF Shift
<1>2. PICK m \in DsFire : x = It(m)
  <2>1. (CHOOSE a \in S : TRUE) \in S /\ x = CHOOSE a \in S : TRUE
    <3> HIDE DEF S
    <3> QED BY <1>1
  <2> HIDE DEF It
  <2> QED BY <2>1
<1> DEFINE b == x.beat
<1>2a. b = DsBeat(m)
  BY <1>2
<1>3. /\ m \in CMs /\ Valid(m) /\ b \in Beats /\ b \in dc[m].sV
      /\ dc[m].st = "Save" \/ dc[m].st = "Repl"
  BY <1>0, <1>2a, AskBeats, Grants DEF FlowInv
<1>4. /\ dc[m].st \in Moves /\ b \in dc[m].tvec
      /\ dc[m].st = "Save" => dc[m].wR = {} /\ "repl" \notin dc[m].op
      /\ dc[m].st = "Repl" => "repl" \in dc[m].op /\ b \in dc[m].sR /\ b \in dc[m].wR
  <2>1. Stage(dc[m]) /\ Ledger(dc[m], BeatsOn(RdOn, m), BeatsOn(ChiOn, m), BeatsOn(DsOn, m))
    BY <1>0, <1>3 DEF FlowInv, Stages
  <2>2. dc[m].st \in Moves /\ b \in dc[m].tvec /\ dc[m].op \in Tasks
    BY <1>3, <2>1 DEF Stage, Ledger, Moves
  <2>3. dc[m].st = "Save" => dc[m].wR = {} /\ "save" \in dc[m].op
    BY <2>1 DEF Stage
  <2>4. dc[m].st = "Repl" => "repl" \in dc[m].op /\ b \in dc[m].sR /\ b \in dc[m].wR
    BY <1>3, <2>1 DEF Stage, Ledger
  <2> QED BY <2>2, <2>3, <2>4, OpIs
<1>5. Goes(m, b) /\ <<m, b>> \notin RdDone
  <2>1. <<m, b>> \notin RdDone
    <3>1. <<m, b>> \in RdDone => b \in dc[m].wR /\ b \notin dc[m].sR
      BY <1>0, <1>3, NoticesAre, HeldBy
    <3> QED BY <1>3, <1>4, <3>1
  <2> QED BY <1>3, <1>4, <2>1, GoesOn
<1>6. x.m = m /\ x.beat = b /\ x.id = Sits(m, b) /\ x.line = TxnOf(m)
  BY <1>2, <1>2a DEF Sits, TxnOf
<1> HIDE DEF b
<1>7. ASSUME b = watch PROVE goal[m].saved = BufNow(Sits(m, b))
  <2>1. ContentOf(m)
    BY <1>0, <1>3, <1>4, <1>7 DEF RightInv, Contents, Watched
  <2> QED BY <1>3, <1>4, <1>7, <2>1 DEF ContentOf, Fills
<1> QED
  <2>1. x.id = Sits(x.m, x.beat)'
    BY <1>5, <1>6 DEF Goes
  <2>2. x.beat = watch' => goal'[x.m].saved = NowNext(x.id)
    BY <1>5, <1>6, <1>7 DEF Goes
  <2>3. dc'[x.m].txn = <<x.line>>
    <3>1. dc[m].txn = <<TxnOf(m)>> /\ dc'[m].txn = dc[m].txn
      BY <1>0, <1>3, <1>5, TxnIs DEF Goes, Keeps
    <3> QED BY <1>6, <3>1
  <2> QED BY <2>1, <2>2, <2>3 DEF DsRight, Shown, NowNext, BufNow

LEMMA OnIn ==
  ASSUME OnTheWay
  PROVE  /\ \A k \in 1 .. Latency + 1 : rdPipe[k] # <<>> =>
              /\ rdPipe[k] = <<rdPipe[k][1]>> /\ <<rdPipe[k][1].m, rdPipe[k][1].beat>> \in RdOn
              /\ k # Latency + 1 => <<rdPipe[k][1].m, rdPipe[k][1].beat>> \notin RdDone
         /\ \A k \in 1 .. 2 : chiD[k] # <<>> =>
              chiD[k] = <<chiD[k][1]>> /\ <<chiD[k][1].m, chiD[k][1].beat>> \in ChiOn
         /\ \A k \in 1 .. 2 : dsD[k] # <<>> =>
              dsD[k] = <<dsD[k][1]>> /\ <<dsD[k][1].m, dsD[k][1].beat>> \in DsOn
         /\ \A j \in 1 .. Len(chiQ.items) : <<chiQ.items[j].m, chiQ.items[j].beat>> \in ChiOn
         /\ \A j \in 1 .. Len(dsQ.items) : <<dsQ.items[j].m, dsQ.items[j].beat>> \in DsOn
<1>1. ASSUME NEW k \in 1 .. Latency + 1, rdPipe[k] # <<>>
      PROVE  /\ rdPipe[k] = <<rdPipe[k][1]>> /\ <<rdPipe[k][1].m, rdPipe[k][1].beat>> \in RdOn
             /\ k # Latency + 1 => <<rdPipe[k][1].m, rdPipe[k][1].beat>> \notin RdDone
  <2> DEFINE N == Latency + 1
             w == <<rdPipe[k][1].m, rdPipe[k][1].beat>>
  <2>1. /\ rdPipe[k] \in Opt(RdItem) /\ N \in 1 .. N
        /\ Whos(rdPipe[k]) \cap Whos(rdPipe[N]) # {} => k = N
    BY DataAssumption DEF OnTheWay, Line
  <2>2. rdPipe[k] = <<rdPipe[k][1]>> /\ w \in Whos(rdPipe[k])
    BY <1>1, <2>1, WireWhos DEF Who
  <2>3. w \in RdOn
    BY <2>2 DEF RdOn, LineOn
  <2>4. w \in RdDone => k = N
    BY <2>1, <2>2 DEF RdDone, DsResp
  <2> QED BY <2>2, <2>3, <2>4
<1>2. ASSUME NEW k \in 1 .. 2, chiD[k] # <<>>
      PROVE  chiD[k] = <<chiD[k][1]>> /\ <<chiD[k][1].m, chiD[k][1].beat>> \in ChiOn
  <2>1. chiD[k] \in Opt(ChiAsk) /\ (k = 1 \/ k = 2)
    BY DEF OnTheWay, Pipe
  <2>2. chiD[k] = <<chiD[k][1]>> /\ Who(chiD[k][1]) \in Whos(chiD[k])
    BY <1>2, <2>1, WireWhos
  <2> QED BY <2>1, <2>2 DEF ChiOn, On, Who
<1>3. ASSUME NEW k \in 1 .. 2, dsD[k] # <<>>
      PROVE  dsD[k] = <<dsD[k][1]>> /\ <<dsD[k][1].m, dsD[k][1].beat>> \in DsOn
  <2>1. dsD[k] \in Opt(DsAsk) /\ (k = 1 \/ k = 2)
    BY DEF OnTheWay, Pipe
  <2>2. dsD[k] = <<dsD[k][1]>> /\ Who(dsD[k][1]) \in Whos(dsD[k])
    BY <1>3, <2>1, WireWhos
  <2> QED BY <2>1, <2>2 DEF DsOn, On, Who
<1>4. \A j \in 1 .. Len(chiQ.items) : <<chiQ.items[j].m, chiQ.items[j].beat>> \in ChiOn
  BY DEF ChiOn, On, Whos, Who
<1>5. \A j \in 1 .. Len(dsQ.items) : <<dsQ.items[j].m, dsQ.items[j].beat>> \in DsOn
  BY DEF DsOn, On, Whos, Who
<1> QED BY <1>1, <1>2, <1>3, <1>4, <1>5

LEMMA RdCarried ==
  ASSUME NEW in, Right(in), NEW k \in 1 .. Latency + 1, rdPipe'[k] # <<>>
  PROVE  rdPipe'[k] = <<rdPipe'[k][1]>> /\ \A x : rdPipe'[k] = <<x>> => RdRight(x)'
<1>0. Edge(in) /\ OnTheWay /\ RightInv /\ OnTheWay'
  BY OnTheWayStep DEF Right, Edge, FlowInv
<1>1. rdPipe'[k] = <<rdPipe'[k][1]>>
  <2>1. rdPipe'[k] \in Opt(RdItem)
    BY <1>0 DEF OnTheWay, Line
  <2> QED BY <2>1, WireWhos
<1>2. ASSUME NEW x, rdPipe'[k] = <<x>> PROVE RdRight(x)'
  <2>1. CASE k = 1
    BY <1>2, <2>1, NewRd
  <2>2. CASE k # 1
    <3>1. k - 1 \in 1 .. Latency + 1 /\ k - 1 # Latency + 1 /\ k > 1
      BY <2>2, DataAssumption
    <3>2. rdPipe'[k] = rdPipe[k - 1]
      BY <1>0, <3>1 DEF Edge, DataTick, NextRdPipe
    <3>3. rdPipe[k - 1] = <<x>> /\ rdPipe[k - 1] # <<>> /\ rdPipe[k - 1][1] = x
      BY <1>2, <3>2
    <3>4. /\ <<x.m, x.beat>> \in RdOn /\ <<x.m, x.beat>> \notin RdDone /\ RdRight(x)
      BY <1>0, <3>1, <3>3, OnIn DEF RightInv, Carried
    <3> QED BY <3>4, RdKeeps
  <2> QED BY <2>1, <2>2
<1> QED BY <1>1, <1>2

LEMMA AskCarried ==
  ASSUME NEW in, Right(in), NEW k \in 1 .. 2
  PROVE  /\ chiD'[k] # <<>> => chiD'[k] = <<chiD'[k][1]>> /\ \A x : chiD'[k] = <<x>> => ChiRight(k, x)'
         /\ dsD'[k] # <<>> => dsD'[k] = <<dsD'[k][1]>> /\ \A x : dsD'[k] = <<x>> => DsRight(k, x)'
<1>0. Edge(in) /\ OnTheWay /\ RightInv /\ OnTheWay' /\ (k = 1 \/ k = 2)
  BY OnTheWayStep DEF Right, Edge, FlowInv
<1>1. /\ chiD'[k] # <<>> => chiD'[k] = <<chiD'[k][1]>>
      /\ dsD'[k] # <<>> => dsD'[k] = <<dsD'[k][1]>>
  <2>1. chiD'[k] \in Opt(ChiAsk) /\ dsD'[k] \in Opt(DsAsk)
    BY <1>0 DEF OnTheWay, Pipe
  <2> QED BY <2>1, WireWhos
<1>2. ASSUME NEW x, chiD'[k] = <<x>> PROVE ChiRight(k, x)'
  <2>1. CASE k = 1
    BY <1>2, <2>1, NewChi
  <2>2. CASE k = 2
    <3>1. chiD[1] = <<x>>
      BY <1>0, <1>2, <2>2 DEF Edge, DataTick, Shift
    <3>2. chiD[1] # <<>> /\ chiD[1][1] = x /\ 1 \in 1 .. 2
      BY <3>1
    <3>3. <<x.m, x.beat>> \in ChiOn /\ ChiRight(1, x)
      BY <1>0, <3>2, OnIn DEF RightInv, Carried
    <3> QED BY <2>2, <3>3, ChiKeeps
  <2> QED BY <1>0, <2>1, <2>2
<1>3. ASSUME NEW x, dsD'[k] = <<x>> PROVE DsRight(k, x)'
  <2>1. CASE k = 1
    BY <1>3, <2>1, NewDs
  <2>2. CASE k = 2
    <3>1. dsD[1] = <<x>>
      BY <1>0, <1>3, <2>2 DEF Edge, DataTick, Shift
    <3>2. dsD[1] # <<>> /\ dsD[1][1] = x /\ 1 \in 1 .. 2
      BY <3>1
    <3>3. <<x.m, x.beat>> \in DsOn /\ DsRight(1, x)
      BY <1>0, <3>2, OnIn DEF RightInv, Carried
    <3> QED BY <2>2, <3>3, DsKeeps
  <2> QED BY <1>0, <2>1, <2>2
<1> QED BY <1>1, <1>2, <1>3

\* What the readers put into their queues is what the slot had.
LEMMA EnqRight ==
  ASSUME FlowInv, RightInv
  PROVE  /\ EnqChi # <<>> => OutRight(EnqChi[1]) /\ <<EnqChi[1].m, EnqChi[1].beat>> \in ChiOn
         /\ EnqDs # <<>> => InRight(EnqDs[1]) /\ <<EnqDs[1].m, EnqDs[1].beat>> \in DsOn
<1>0. OnTheWay /\ 2 \in 1 .. 2
  BY DEF FlowInv
<1>1. ASSUME EnqChi # <<>> PROVE OutRight(EnqChi[1]) /\ <<EnqChi[1].m, EnqChi[1].beat>> \in ChiOn
  <2>1. chiD[2] # <<>>
    BY <1>1 DEF EnqChi
  <2> DEFINE y == chiD[2][1]
             e == EnqChi[1]
  <2>2. dsD[2] = <<>> /\ <<y.m, y.beat>> \in ChiOn /\ ChiRight(2, y)
    BY <1>0, <2>1, OnIn DEF OnTheWay, RightInv, Carried
  <2>3. e.m = y.m /\ e.beat = y.beat /\ e.data = buf[y.id]
    BY <2>1, <2>2 DEF EnqChi, PortId
  <2> HIDE DEF e, y
  <2>4. OutRight(e) /\ <<e.m, e.beat>> \in ChiOn
    BY <2>2, <2>3 DEF OutRight, ChiRight, Shown
  <2> QED BY <2>4 DEF e
<1>2. ASSUME EnqDs # <<>> PROVE InRight(EnqDs[1]) /\ <<EnqDs[1].m, EnqDs[1].beat>> \in DsOn
  <2>1. dsD[2] # <<>>
    BY <1>2 DEF EnqDs
  <2> DEFINE y == dsD[2][1]
             e == EnqDs[1]
  <2>2. <<y.m, y.beat>> \in DsOn /\ DsRight(2, y)
    BY <1>0, <2>1, OnIn DEF RightInv, Carried
  <2>3. e.m = y.m /\ e.beat = y.beat /\ e.line = y.line /\ e.data = buf[y.id]
    BY <2>1 DEF EnqDs, PortId
  <2> HIDE DEF e, y
  <2>4. InRight(e) /\ <<e.m, e.beat>> \in DsOn
    BY <2>2, <2>3 DEF InRight, DsRight, Shown
  <2> QED BY <2>4 DEF e
<1> QED BY <1>1, <1>2

LEMMA QueueCarried ==
  ASSUME NEW in, Right(in)
  PROVE  /\ \A i \in 1 .. Len(chiQ'.items) : \A x : x = chiQ'.items[i] => OutRight(x)'
         /\ \A i \in 1 .. Len(dsQ'.items) : \A x : x = dsQ'.items[i] => InRight(x)'
<1>0. Edge(in) /\ FlowInv /\ OnTheWay /\ RightInv
  BY DEF Right, Edge, FlowInv
<1>1. /\ chiQ' = FqNext(2, chiQ, EnqChi, in.txRdy) /\ dsQ' = FqNext(2, dsQ, EnqDs, WriDsFire # {})
      /\ chiQ \in FqState(ChiItem) /\ dsQ \in FqState(DsItem) /\ in.txRdy \in BOOLEAN
      /\ EnqChi \in Opt(ChiItem) /\ EnqDs \in Opt(DsItem)
  BY <1>0, EnqsAre DEF Edge, DataTick, OnTheWay, Pipe, Input
<1>2. ASSUME NEW i \in 1 .. Len(chiQ'.items), NEW x, x = chiQ'.items[i] PROVE OutRight(x)'
  <2>1. (EnqChi # <<>> /\ chiQ'.items[i] = EnqChi[1]) \/ \E j \in 1 .. Len(chiQ.items) : chiQ'.items[i] = chiQ.items[j]
    BY <1>1, FqItems
  <2>2. OutRight(x) /\ <<x.m, x.beat>> \in ChiOn
    <3>1. CASE EnqChi # <<>> /\ x = EnqChi[1]
      BY <1>0, <3>1, EnqRight
    <3>2. ASSUME NEW j \in 1 .. Len(chiQ.items), x = chiQ.items[j] PROVE OutRight(x) /\ <<x.m, x.beat>> \in ChiOn
      BY <1>0, <3>2, OnIn DEF RightInv, Carried
    <3> QED BY <1>2, <2>1, <3>1, <3>2
  <2> QED BY <2>2, OutKeeps
<1>3. ASSUME NEW i \in 1 .. Len(dsQ'.items), NEW x, x = dsQ'.items[i] PROVE InRight(x)'
  <2>1. (EnqDs # <<>> /\ dsQ'.items[i] = EnqDs[1]) \/ \E j \in 1 .. Len(dsQ.items) : dsQ'.items[i] = dsQ.items[j]
    <3> DEFINE d == WriDsFire # {}
    <3>1. d \in BOOLEAN /\ dsQ' = FqNext(2, dsQ, EnqDs, d)
      BY <1>1
    <3> HIDE DEF d
    <3> QED BY <1>1, <3>1, FqItems
  <2>2. InRight(x) /\ <<x.m, x.beat>> \in DsOn
    <3>1. CASE EnqDs # <<>> /\ x = EnqDs[1]
      BY <1>0, <3>1, EnqRight
    <3>2. ASSUME NEW j \in 1 .. Len(dsQ.items), x = dsQ.items[j] PROVE InRight(x) /\ <<x.m, x.beat>> \in DsOn
      BY <1>0, <3>2, OnIn DEF RightInv, Carried
    <3> QED BY <1>3, <2>1, <3>1, <3>2
  <2> QED BY <2>2, InKeeps
<1> QED BY <1>2, <1>3

LEMMA CarriedStep ==
  ASSUME NEW in, Right(in)
  PROVE  Carried'
<1>1. \A k \in 1 .. Latency + 1 : rdPipe'[k] # <<>> => RdRight(rdPipe[k][1])'
  BY RdCarried
<1>2. \A k \in 1 .. 2 : chiD'[k] # <<>> => ChiRight(k, chiD[k][1])'
  BY AskCarried
<1>3. \A k \in 1 .. 2 : dsD'[k] # <<>> => DsRight(k, dsD[k][1])'
  BY AskCarried
<1>4. \A i \in 1 .. Len(chiQ'.items) : OutRight(chiQ.items[i])'
  BY QueueCarried
<1>5. \A i \in 1 .. Len(dsQ'.items) : InRight(dsQ.items[i])'
  BY QueueCarried
<1> QED BY <1>1, <1>2, <1>3, <1>4, <1>5 DEF Carried

-----------------------------------------------------------------------------
(* Who holds a slot, and what the next task finds, after an edge.          *)

LEMMA SlotTypesStep ==
  ASSUME NEW in, Right(in)
  PROVE  SlotTypes'
<1>1. /\ mask' = [i \in Slots |-> NextMask(in, Wires, i)] /\ replVec' = [i \in Slots |-> NextReplVec(in, Wires, i)]
      /\ mask \in [Slots -> BOOLEAN]
  BY DEF Right, Edge, DataTick, RightInv, SlotTypes
<1>2. \A i \in Slots : NextMask(in, Wires, i) \in BOOLEAN /\ NextReplVec(in, Wires, i) \in BOOLEAN
  BY <1>1 DEF NextMask, NextReplVec
<1> QED BY <1>1, <1>2 DEF SlotTypes

\* The beats of a machine after an edge: those it had, or new ones of its own.
Holds(in, m) ==
  \/ Valid(m) /\ dc'[m].vec \subseteq dc[m].vec /\ dc'[m].id = dc[m].id
  \/ /\ FreeSel = {m}
     /\ \A b \in dc'[m].vec : dc'[m].id[b] \in FreeIds
     /\ \A b, c \in dc'[m].vec : dc'[m].id[b] = dc'[m].id[c] => b = c
  \/ dc'[m].vec = {}

LEMMA HoldsStep ==
  ASSUME NEW in, Edge(in), NEW m \in CMs
  PROVE  Holds(in, m)
<1>1. CASE ~Valid(m) /\ FreeSel = {m} /\ Begun(in, m)
  <2>1. PICK t \in Unused, v \in SUBSET Beats :
          /\ in.req = {[txn |-> t, vec |-> v, id |-> NewIds(v)]}
          /\ dc'[m] = [st |-> "Alloc", crit |-> FALSE, txn |-> <<t>>, vec |-> v, op |-> {}, tvec |-> {},
                       id |-> NewIds(v), sR |-> {}, sS |-> {}, sV |-> {}, wR |-> {}, wS |-> {}, wV |-> {}]
    BY <1>1 DEF Begun
  <2>2. dc'[m].vec = v /\ dc'[m].id = NewIds(v)
    BY <2>1
  <2>3. ~(Cardinality(FreeIds) < 2)
    <3>1. in.req # {}
      BY <2>1
    <3> QED BY <3>1, InputIs DEF Begins
  <2>4. /\ \A b \in v : NewIds(v)[b] \in FreeIds
        /\ \A b, c \in v : NewIds(v)[b] = NewIds(v)[c] => b = c
    BY <2>3, NewIdsAre
  <2> QED BY <1>1, <2>2, <2>4 DEF Holds
<1>2. CASE Valid(m) /\ dc'[m] = IF Busy(in, Wires, m).st = "Free" THEN FreeCM ELSE Busy(in, Wires, m)
  <2> DEFINE n == Busy(in, Wires, m)
  <2>1. n.vec \subseteq dc[m].vec /\ n.id = dc[m].id
    <3>1. Becomes(in, m, n)
      BY BusyIs
    <3> HIDE DEF n
    <3> QED BY <3>1 DEF Becomes
  <2>2. FreeCM.vec = {}
    BY DEF FreeCM
  <2>3. dc'[m] = FreeCM \/ dc'[m] = n
    BY <1>2
  <2> HIDE DEF n
  <2> QED BY <1>2, <2>1, <2>2, <2>3 DEF Holds
<1>3. CASE ~Valid(m) /\ dc'[m] = FreeCM
  BY <1>3 DEF Holds, FreeCM
<1> QED BY <1>1, <1>2, <1>3, WaysAre DEF Ways

LEMMA OneHolderStep ==
  ASSUME NEW in, Right(in)
  PROVE  OneHolder'
<1>0. Edge(in) /\ RegTypes /\ OneHolder
  BY DEF Right, Edge, FlowInv, RightInv
<1>1. ASSUME NEW m \in CMs, NEW n \in CMs, NEW b \in dc'[m].vec, NEW c \in dc'[n].vec,
             dc'[m].id[b] = dc'[n].id[c]
      PROVE  m = n /\ b = c
  <2>1. Holds(in, m) /\ Holds(in, n)
    BY <1>0, HoldsStep
  <2> DEFINE Old(k, a) == Valid(k) /\ a \in dc[k].vec /\ dc'[k].id[a] = Sits(k, a)
             New(k) == /\ FreeSel = {k}
                       /\ \A a \in dc'[k].vec : dc'[k].id[a] \in FreeIds
                       /\ \A a, d \in dc'[k].vec : dc'[k].id[a] = dc'[k].id[d] => a = d
  <2>2. (Old(m, b) \/ New(m)) /\ (Old(n, c) \/ New(n))
    BY <1>1, <2>1 DEF Holds, Sits
  <2>3. /\ Old(m, b) => Sits(m, b) \notin FreeIds
        /\ Old(n, c) => Sits(n, c) \notin FreeIds
    BY <1>0, SlotIs
  <2>4. CASE Old(m, b) /\ Old(n, c)
    <3>1. b \in dc[m].vec /\ c \in dc[n].vec /\ Sits(m, b) = Sits(n, c)
      BY <1>1, <2>4
    <3> QED BY <1>0, <3>1 DEF OneHolder
  <2>5. CASE Old(m, b) /\ New(n)
    BY <1>1, <2>3, <2>5
  <2>6. CASE New(m) /\ Old(n, c)
    BY <1>1, <2>3, <2>6
  <2>7. CASE New(m) /\ New(n)
    BY <1>1, <2>7
  <2> HIDE DEF Old, New
  <2> QED BY <2>2, <2>4, <2>5, <2>6, <2>7
<1> QED BY <1>1 DEF OneHolder, Sits

LEMMA SlotsFitStep ==
  ASSUME NEW in, Right(in)
  PROVE  SlotsFit'
<1>0. Edge(in) /\ RegTypes /\ taskD' = in.task /\ OneMachine'
  BY OneMachineStep DEF Right, Edge, FlowInv, DataTick
<1> SUFFICES ASSUME in.task # <<>>, NEW k \in CMs, dc'[k].st # "Free", dc'[k].txn = <<in.task[1].txn>>,
                    NEW b \in in.task[1].tvec
             PROVE  ~replVec'[dc'[k].id[b]] /\ (in.task[1].op = {"read", "send"} => ~mask'[dc'[k].id[b]])
  BY <1>0 DEF SlotsFit, Valid, Ready, Sits
<1>1. PICK m \in Idles : Asks(in, m)
  BY <1>0, InputIs
<1>2. PICK op \in Tasks, v \in SUBSET dc[m].vec :
        in.task = <<[txn |-> TxnOf(m), op |-> op, tvec |-> v]>> /\ TaskOk(m, op, v)
  BY <1>1 DEF Asks
<1>3. /\ m \in CMs /\ dc[m].st = "Alloc" /\ dc[m].txn = <<TxnOf(m)>>
      /\ in.task[1].txn = TxnOf(m) /\ in.task[1].op = op /\ in.task[1].tvec = v
      /\ dc'[m].st = "Alloc" /\ dc'[m].txn = dc[m].txn /\ dc'[m].id = dc[m].id
  BY <1>0, <1>2, TaskLands
<1>4. k = m
  <2>1. dc'[m].st # "Free" /\ dc'[m].txn = dc'[k].txn
    BY <1>3
  <2> QED BY <1>0, <1>3, <2>1 DEF OneMachine, Valid
<1> DEFINE i == Sits(m, b)
<1>5. b \in v /\ b \in dc[m].vec /\ b \in Beats
  BY <1>0, <1>3, SlotIs
<1>6. ~replVec[i] /\ (op = {"read", "send"} => ~mask[i])
  BY <1>2, <1>5 DEF TaskOk, Sits
<1>7. <<m, b>> \notin RdDone /\ ~IsRepl(m)
  <2>1. BeatsOn(RdDone, m) = {}
    BY <1>0, <1>3, QuietStep DEF Moves
  <2> QED BY <1>3, <1>5, <2>1 DEF BeatsOn, IsRepl
<1>8. in.task # <<>> /\ <<in.task[1].txn>> = dc[m].txn
  BY <1>3
<1>9. mask'[i] = mask[i]
  BY <1>3, <1>5, <1>7, <1>8, SlotStep
<1>10. replVec'[i] <=> replVec[i]
  BY <1>3, <1>5, <1>7, ReplStep
<1> QED BY <1>3, <1>4, <1>6, <1>9, <1>10 DEF Sits

LEMMA RightStep ==
  ASSUME FlowInv, RightInv, [DataNext]_dataVars
  PROVE  RightInv'
<1>1. CASE DataNext
  <2>1. PICK in : Right(in)
    BY <1>1, NextIs DEF Right
  <2> QED BY <2>1, SlotTypesStep, OneHolderStep, SlotsFitStep, ContentsStep, CarriedStep DEF RightInv
<1>2. CASE UNCHANGED dataVars
  <2>1. /\ watch' = watch /\ dc' = dc /\ taskD' = taskD /\ buf' = buf /\ mask' = mask /\ replVec' = replVec
        /\ wr' = wr /\ chiD' = chiD /\ dsD' = dsD /\ chiQ' = chiQ /\ dsQ' = dsQ /\ mem' = mem
        /\ rdPipe' = rdPipe /\ goal' = goal
    BY <1>2 DEF dataVars, dataRegs
  <2>2. SlotTypes' /\ OneHolder' /\ SlotsFit'
    BY <2>1 DEF RightInv, SlotTypes, OneHolder, SlotsFit, Sits, Valid, Ready
  <2>3. Contents'
    BY <2>1 DEF RightInv, Contents, Watched, ContentOf, Sits, LineOf, TxnOf, BufNow
  <2>4. /\ \A x : RdRight(x)' = RdRight(x) /\ OutRight(x)' = OutRight(x) /\ InRight(x)' = InRight(x)
        /\ \A k, x : ChiRight(k, x)' = ChiRight(k, x) /\ DsRight(k, x)' = DsRight(k, x)
    BY <2>1 DEF RdRight, OutRight, InRight, ChiRight, DsRight, Sits, ReadData, BufNow, Shown
  <2>5. Carried'
    BY <2>1, <2>4 DEF RightInv, Carried
  <2> QED BY <2>2, <2>3, <2>5 DEF RightInv
<1> QED BY <1>1, <1>2

LEMMA RightInit ==
  ASSUME DataInit
  PROVE  RightInv
<1>1. /\ dc = [m \in CMs |-> FreeCM] /\ taskD = <<>>
      /\ mask = [i \in Slots |-> FALSE] /\ replVec = [i \in Slots |-> FALSE]
      /\ chiD = << <<>>, <<>> >> /\ dsD = << <<>>, <<>> >>
      /\ chiQ = FqEmpty /\ dsQ = FqEmpty /\ rdPipe = Nothing
  BY DEF DataInit
<1>2. \A m \in CMs : dc[m].st = "Free" /\ dc[m].vec = {}
  BY <1>1 DEF FreeCM
<1>3. SlotTypes /\ OneHolder /\ SlotsFit /\ Contents
  BY <1>1, <1>2 DEF SlotTypes, OneHolder, SlotsFit, Contents, Watched, Moves
<1>4. /\ \A k \in 1 .. Latency + 1 : rdPipe[k] = <<>>
      /\ \A k \in 1 .. 2 : chiD[k] = <<>> /\ dsD[k] = <<>>
      /\ Len(chiQ.items) = 0 /\ Len(dsQ.items) = 0
  BY <1>1 DEF Nothing, FqEmpty
<1>5. Carried
  BY <1>4 DEF Carried
<1> QED BY <1>3, <1>5 DEF RightInv

\* What storage answers and the output takes at once is what is to be sent.
LEMMA AtOnceRight ==
  ASSUME FlowInv, RightInv, NEW x, <<x.m, x.beat>> \in RdOn, RdRight(x), x.atOnce
  PROVE  x.beat \in dc[x.m].wS /\ (x.beat = watch => x.data = goal[x.m].out)
<1> DEFINE m == x.m
           b == x.beat
           r == dc[m]
<1>1. m \in CMs /\ r.st \in Moves /\ b \in r.tvec /\ b \in r.wR /\ AtOnce(r.op)
  BY HeldBy DEF RdRight
<1>2. Stage(r) /\ r.op \in Tasks
  BY <1>1 DEF FlowInv, Stages, Stage
<1>3. b \in r.wS
  BY <1>1, <1>2 DEF Stage
<1>4. "repl" \in r.op \/ r.op = {"read", "send"}
  <2>1. r.st \in {"Repl", "Read"}
    BY <1>1, <1>2 DEF Stage, Moves
  <2>2. r.st = "Repl" => r.op = {"repl"}
    BY <1>2 DEF Stage
  <2>3. r.st = "Read" => "read" \in r.op
    BY <1>2 DEF Stage
  <2> HIDE DEF r
  <2>4. "read" \in r.op => "send" \in r.op /\ "merge" \notin r.op
    BY <1>1, <1>2, OpIs DEF AtOnce
  <2>5. "read" \in r.op /\ "send" \in r.op /\ "merge" \notin r.op => r.op = {"read", "send"}
    BY <1>2 DEF Tasks
  <2> QED BY <2>1, <2>2, <2>3, <2>4, <2>5
<1>5. ASSUME b = watch PROVE x.data = goal[m].out
  <2>1. Comes(r, goal[m], mask[Sits(m, b)], BufNow(Sits(m, b)), x.data)
    BY <1>5 DEF RdRight, ReadData
  <2>2. ContentOf(m)
    BY <1>1, <1>5 DEF RightInv, Contents, Watched
  <2>3. r.op = {"read", "send"} => ~mask[Sits(m, b)]
    BY <1>1, <1>5, <2>2 DEF ContentOf, Fills
  <2> HIDE DEF m, b, r
  <2> QED BY <1>4, <2>1, <2>3 DEF Comes
<1> QED BY <1>3, <1>5

LEMMA RightIs ==
  ASSUME FlowInv, RightInv
  PROVE  RightData
<1>0. OnTheWay
  BY DEF FlowInv
<1>1. ASSUME TxValid
      PROVE  TxDat.beat \in dc[TxDat.m].wS /\ (TxDat.beat = watch => TxDat.data = goal[TxDat.m].out)
  <2>1. CASE chiQ.items # <<>>
    <3> DEFINE h == Head(chiQ.items)
    <3>1. 1 \in 1 .. Len(chiQ.items) /\ h = chiQ.items[1]
      <4>1. chiQ.items \in Seq(ChiItem)
        BY <1>0 DEF OnTheWay, Pipe, FqState
      <4> QED BY <2>1, <4>1, HeadTailProperties, EmptySeq
    <3>2. <<h.m, h.beat>> \in ChiOn /\ OutRight(h)
      BY <1>0, <3>1, OnIn DEF RightInv, Carried
    <3>3. TxDat.m = h.m /\ TxDat.beat = h.beat /\ TxDat.data = h.data
      BY <2>1 DEF TxDat, ToChi
    <3> HIDE DEF h
    <3>4. h.beat \in dc[h.m].wS
      BY <3>2, HeldBy
    <3> QED BY <3>2, <3>3, <3>4 DEF OutRight
  <2>2. CASE chiQ.items = <<>>
    <3> DEFINE x == DsResp[1]
    <3>1. DsResp # <<>> /\ x.atOnce
      BY <1>1, <2>2 DEF TxValid, ToChi, DsToChi
    <3>2. RdRight(x) /\ <<x.m, x.beat>> \in RdOn
      BY <3>1, RespIs DEF Who
    <3>3. TxDat.m = x.m /\ TxDat.beat = x.beat /\ TxDat.data = x.data
      BY <2>2 DEF TxDat, ToChi
    <3> HIDE DEF x
    <3> QED BY <3>1, <3>2, <3>3, AtOnceRight
  <2> QED BY <2>1, <2>2
<1>2. ASSUME NEW m \in Clients("Resp"), watch \in dc[m].tvec
      PROVE  /\ Saves(dc[m].op) => mem[dc[m].txn[1]] = goal[m].saved
             /\ Reads(dc[m].op) => BufNow(dc[m].id[watch]) = goal[m].out
  <2>1. m \in CMs /\ dc[m].st = "Resp"
    BY DEF Clients
  <2>2. dc[m].wR = {} /\ dc[m].wV = {}
    BY <2>1 DEF FlowInv, Stages, Stage, Moves
  <2>3. ContentOf(m)
    BY <1>2, <2>1 DEF RightInv, Contents, Watched
  <2> QED BY <2>2, <2>3 DEF ContentOf, Fills, Sits, LineOf, TxnOf
<1> QED BY <1>1, <1>2 DEF RightData

-----------------------------------------------------------------------------
(* The data end up where they are to: whatever the order in which storage, *)
(* network and output take part (DataBuffer and its masks, data.h; DataCM, *)
(* datacm.cpp), a flit at the output is awaited by its machine and has the *)
(* data of its task, and when a task is answered its line has what was to  *)
(* be saved and its slot what was to be read.                              *)
THEOREM DataIsRight == DataSpec => []RightData
<1>1. DataInit => FlowInv /\ RightInv
  BY FlowInit, RightInit
<1>2. FlowInv /\ RightInv /\ [DataNext]_dataVars => FlowInv' /\ RightInv'
  BY FlowStep, RightStep
<1>3. FlowInv /\ RightInv => RightData
  BY RightIs
<1> QED BY <1>1, <1>2, <1>3, PTL DEF DataSpec

-----------------------------------------------------------------------------
(***************************************************************************)
(* The socket channel for any flits and any number of tokens.              *)
(*                                                                         *)
(* Credits is inductive together with the types: every edge moves a token  *)
(* from one of the six places to the next.  Since the queue is as deep as  *)
(* there are tokens, it has room for whatever arrives, and the channel is  *)
(* the concatenation of the queue and the two registers.                   *)
(***************************************************************************)
PdcInv == PdcTypeOK /\ Credits

LEMMA OneIs ==
  ASSUME NEW b \in BOOLEAN
  PROVE  One(b) \in Nat /\ One(b) <= 1 /\ (b => One(b) = 1) /\ (~b => One(b) = 0)
BY DEF One

\* The places a token can be in hold at most one each, except tokens and q.
LEMMA Counts ==
  ASSUME PdcTypeOK
  PROVE  /\ tx.tokens \in Nat /\ Len(q) \in Nat
         /\ q \in Seq(Flit) /\ tx.txd \in Seq(Flit) /\ rx.rxd \in Seq(Flit)
         /\ Len(tx.txd) \in Nat /\ Len(tx.txd) <= 1
         /\ Len(rx.rxd) \in Nat /\ Len(rx.rxd) <= 1
         /\ One(tx.rxg) \in Nat /\ One(tx.rxg) <= 1
         /\ One(rx.txg) \in Nat /\ One(rx.txg) <= 1
         /\ (rx.rxd # <<>> => Len(rx.rxd) = 1) /\ (q = <<>> => Len(q) = 0)
<1>1. /\ tx.tokens \in 0 .. Tokens /\ tx.txd \in Opt(Flit) /\ rx.rxd \in Opt(Flit)
      /\ tx.rxg \in BOOLEAN /\ rx.txg \in BOOLEAN /\ q \in Seq(Flit)
  BY DEF PdcTypeOK
<1>2. tx.tokens \in Nat
  BY <1>1, PdcAssumption
<1>3. Len(q) \in Nat /\ (q = <<>> => Len(q) = 0)
  BY <1>1, LenProperties, EmptySeq
<1>4. tx.txd \in Seq(Flit) /\ Len(tx.txd) \in Nat /\ Len(tx.txd) <= 1
  BY <1>1, OptIsSeq
<1>5. /\ rx.rxd \in Seq(Flit) /\ Len(rx.rxd) \in Nat /\ Len(rx.rxd) <= 1
      /\ (rx.rxd # <<>> => Len(rx.rxd) = 1)
  BY <1>1, OptIsSeq
<1> QED BY <1>1, <1>2, <1>3, <1>4, <1>5, OneIs

\* Room for whatever is in the receive register.
LEMMA RoomForArrival ==
  ASSUME PdcInv
  PROVE  rx.rxd # <<>> => Len(q) < Tokens
BY Counts, PdcAssumption DEF PdcInv, Credits

\* Closed gates skip no change: every register a gate guards is either
\* rewritten with its own value or cleared when it is clear.
LEMMA PdcGates ==
  ASSUME PdcTypeOK
  PROVE  PdcGatesLoseNothing
<1>1. ASSUME NEW enq \in Opt(Flit), ~TxAny(enq) PROVE NextTx(enq) = tx
  BY <1>1 DEF PdcTypeOK, TxAny, NextTx, NextTokens
<1>2. ASSUME NEW deqRdy \in BOOLEAN, ~RxAny(deqRdy) PROVE NextRx(deqRdy) = rx
  BY <1>2 DEF PdcTypeOK, RxAny, NextRx
<1> QED BY <1>1, <1>2 DEF PdcGatesLoseNothing

\* One edge, field by field, with the gates out of the way.
LEMMA PdcEdge ==
  ASSUME PdcInv, NEW enq \in Opt(Flit), NEW deqRdy \in BOOLEAN,
         PdcTick(enq, deqRdy)
  PROVE  /\ tx'.tokens = NextTokens(enq) /\ tx'.rxg = rx.txg /\ tx'.txd = sent'
         /\ tx' = [tokens |-> tx'.tokens, rxg |-> tx'.rxg, txd |-> tx'.txd]
         /\ rx' = [rxd |-> tx.txd, txg |-> (got' # <<>>)]
         /\ sent' \in Opt(Flit) /\ got' \in Opt(Flit)
         /\ EnqFire(enq) <=> sent' # <<>>
         /\ q' \in Seq(Flit) /\ got' \o q' = q \o rx.rxd
         /\ Len(q') = Len(q) + Len(rx.rxd) - Len(got')
<1>1. tx' = NextTx(enq) /\ rx' = NextRx(deqRdy)
  BY PdcGates DEF PdcInv, PdcTick, PdcGatesLoseNothing
<1>2. /\ sent' = IF EnqFire(enq) THEN enq ELSE <<>>
      /\ got' = Given(RxQ, q, rx.rxd, deqRdy)
      /\ q' = QNext(RxQ, q, rx.rxd, deqRdy)
  BY DEF PdcTick, DeqFire
<1>3. Taken(RxQ, q, rx.rxd, deqRdy) = rx.rxd
  BY RoomForArrival DEF Taken, EnqRdy, RxQ
<1>4. /\ RxQ.n \in Nat \ {0} /\ q \in Seq(Flit) /\ Len(q) <= RxQ.n
      /\ rx.rxd \in Opt(Flit)
  BY PdcAssumption DEF RxQ, PdcInv, PdcTypeOK, Opt
<1>5. /\ got' \in Opt(Flit)
      /\ q' \in Seq(Flit) /\ got' \o q' = q \o rx.rxd
      /\ Len(q') = Len(q) + Len(rx.rxd) - Len(got')
  <2> DEFINE T == Taken(RxQ, q, rx.rxd, deqRdy)
             G == Given(RxQ, q, rx.rxd, deqRdy)
             X == QNext(RxQ, q, rx.rxd, deqRdy)
  <2>1. G \in Opt(Flit) /\ X \in Seq(Flit) /\ G \o X = q \o T /\ Len(X) = Len(q) + Len(T) - Len(G)
    BY <1>4, QTypes, QConserves, QLen
  <2> QED BY <2>1, <1>2, <1>3
<1> QED BY <1>1, <1>2, <1>5 DEF NextTx, NextRx, DeqFire, Opt, EnqFire

LEMMA PdcInvInit ==
  ASSUME PdcInit
  PROVE  PdcInv
BY PdcAssumption, EmptySeq DEF PdcInit, PdcInv, PdcTypeOK, Credits, Opt, One

LEMMA PdcInvNext ==
  ASSUME PdcInv, [PdcNext]_pdcVars
  PROVE  PdcInv'
<1>1. CASE UNCHANGED pdcVars
  BY <1>1 DEF PdcInv, PdcTypeOK, Credits, pdcVars
<1>2. CASE PdcNext
  <2>1. PICK enq \in Opt(Flit), deqRdy \in BOOLEAN : PdcTick(enq, deqRdy)
    BY <1>2 DEF PdcNext
  <2>2. PdcTypeOK /\ Credits
    BY DEF PdcInv
  <2>3. /\ tx'.tokens = NextTokens(enq) /\ tx'.rxg = rx.txg /\ tx'.txd = sent'
        /\ tx' = [tokens |-> tx'.tokens, rxg |-> tx'.rxg, txd |-> tx'.txd]
        /\ rx' = [rxd |-> tx.txd, txg |-> (got' # <<>>)]
        /\ sent' \in Opt(Flit) /\ got' \in Opt(Flit)
        /\ EnqFire(enq) <=> sent' # <<>>
        /\ q' \in Seq(Flit)
        /\ Len(q') = Len(q) + Len(rx.rxd) - Len(got')
    BY <2>1, PdcEdge
  <2>4. /\ sent' \in Seq(Flit) /\ Len(sent') \in Nat /\ Len(sent') <= 1
        /\ (sent' = <<>> => Len(sent') = 0) /\ (sent' # <<>> => Len(sent') = 1)
    BY <2>3, OptIsSeq
  <2>5. /\ got' \in Seq(Flit) /\ Len(got') \in Nat /\ Len(got') <= 1
        /\ (got' = <<>> => Len(got') = 0) /\ (got' # <<>> => Len(got') = 1)
    BY <2>3, OptIsSeq
  <2>6. One(got' # <<>>) = Len(got')
    BY <2>5 DEF One
  <2>7. NextTokens(enq) = tx.tokens - Len(sent') + One(tx.rxg) /\ NextTokens(enq) \in Nat
    <3>1. EnqFire(enq) => tx.tokens # 0
      BY DEF EnqFire
    <3>2. tx.tokens \in Nat /\ tx.rxg \in BOOLEAN
      BY <2>2, Counts DEF PdcTypeOK
    <3> QED BY <3>1, <3>2, <2>3, <2>4 DEF NextTokens, One
  <2>8. Len(q') \in Nat
    BY <2>3, LenProperties
  <2>9. NextTokens(enq) + Len(sent') + Len(tx.txd) + Len(q') + Len(got') + One(rx.txg)
          = Tokens
    <3> DEFINE lt == Len(tx.txd)
               lr == Len(rx.rxd)
               lq == Len(q)
               ot == One(rx.txg)
               or == One(tx.rxg)
               la == Len(sent')
               lo == Len(got')
               n  == NextTokens(enq)
    <3>1. /\ lt \in Nat /\ lr \in Nat /\ lq \in Nat /\ ot \in Nat /\ or \in Nat
          /\ tx.tokens \in Nat /\ tx.tokens + lt + lr + lq + ot + or = Tokens
      BY <2>2, Counts DEF Credits
    <3>2. la \in Nat /\ lo \in Nat /\ n = tx.tokens - la + or
      BY <2>4, <2>5, <2>7
    <3>4. Len(q') = lq + lr - lo
      BY <2>3
    <3> HIDE DEF lt, lr, lq, ot, or, la, lo, n
    <3>3. n + la + lt + (lq + lr - lo) + lo + ot = Tokens
      BY <3>1, <3>2, PdcAssumption
    <3> QED BY <3>3, <3>4 DEF lt, ot, la, lo, n
  <2>10. tx'.tokens + Len(tx'.txd) + Len(rx'.rxd) + Len(q') + One(rx'.txg)
          + One(tx'.rxg) = Tokens
    BY <2>3, <2>6, <2>9
  <2>11. tx'.tokens \in 0 .. Tokens /\ Len(q') <= Tokens
    <3> DEFINE lt == Len(tx.txd)
               ot == One(rx.txg)
               la == Len(sent')
               lo == Len(got')
               lq == Len(q')
               n  == NextTokens(enq)
    <3>1. lt \in Nat /\ ot \in Nat /\ la \in Nat /\ lo \in Nat /\ lq \in Nat /\ n \in Nat
      BY <2>2, <2>4, <2>5, <2>7, <2>8, Counts
    <3>2. n + la + lt + lq + lo + ot = Tokens
      BY <2>9
    <3>3. n = tx'.tokens
      BY <2>3
    <3> HIDE DEF lt, ot, la, lo, lq, n
    <3>4. n \in 0 .. Tokens /\ lq <= Tokens
      BY <3>1, <3>2, PdcAssumption
    <3> QED BY <3>3, <3>4 DEF lq
  <2>12. tx' \in [tokens : 0 .. Tokens, rxg : BOOLEAN, txd : Opt(Flit)]
    BY <2>2, <2>3, <2>11 DEF PdcTypeOK
  <2>13. rx' \in [rxd : Opt(Flit), txg : BOOLEAN]
    BY <2>2, <2>3 DEF PdcTypeOK
  <2> QED BY <2>3, <2>10, <2>11, <2>12, <2>13 DEF PdcInv, PdcTypeOK, Credits
<1> QED BY <1>1, <1>2 DEF PdcNext

\* The types and the place of every token, in every reachable state.
THEOREM PdcInvariant == PdcSpec => []PdcInv
<1>1. PdcInit => PdcInv
  BY PdcInvInit
<1>2. PdcInv /\ [PdcNext]_pdcVars => PdcInv'
  BY PdcInvNext
<1> QED BY <1>1, <1>2, PTL DEF PdcSpec

\* No token is lost or invented, for any number of tokens.
THEOREM PdcCredits == PdcSpec => []Credits
<1>1. PdcInv => Credits
  BY DEF PdcInv
<1> QED BY <1>1, PdcInvariant, PTL

\* The receive queue has room for every flit that arrives.
THEOREM PdcNeverRefuses == PdcSpec => []NeverRefused
<1>1. PdcInv => NeverRefused
  BY RoomForArrival DEF NeverRefused, EnqRdy, RxQ
<1> QED BY <1>1, PdcInvariant, PTL

\* Five tokens cover the round trip: with at least five, the sender waits only
\* while a flit the reader has not taken lies in the queue.
THEOREM PdcFullRate == PdcSpec => []StallsBehindReader
<1>1. ASSUME PdcInv, Tokens >= 5, tx.tokens = 0 PROVE q # <<>>
  <2> DEFINE lt == Len(tx.txd)
             lr == Len(rx.rxd)
             lq == Len(q)
             ot == One(rx.txg)
             or == One(tx.rxg)
  <2>1. /\ lt \in Nat /\ lr \in Nat /\ lq \in Nat /\ ot \in Nat /\ or \in Nat
        /\ lt <= 1 /\ lr <= 1 /\ ot <= 1 /\ or <= 1
        /\ tx.tokens + lt + lr + lq + ot + or = Tokens /\ (q = <<>> => lq = 0)
    BY <1>1, Counts DEF PdcInv, Credits
  <2> HIDE DEF lt, lr, lq, ot, or
  <2>2. lq # 0
    BY <1>1, <2>1, PdcAssumption
  <2> QED BY <2>1, <2>2
<1>2. PdcInv => StallsBehindReader
  BY <1>1 DEF StallsBehindReader
<1> QED BY <1>2, PdcInvariant, PTL

\* In every reachable state a closed static gate skips no change.
THEOREM PdcGatesSound == PdcSpec => []PdcGatesLoseNothing
<1>1. PdcInv => PdcGatesLoseNothing
  BY PdcGates DEF PdcInv
<1> QED BY <1>1, PdcInvariant, PTL

\* The three together, as the runs check them.
THEOREM PdcIsSafe == PdcSpec => []PdcSafe
<1>1. NeverRefused /\ StallsBehindReader /\ PdcGatesLoseNothing => PdcSafe
  BY DEF PdcSafe
<1> QED BY <1>1, PdcNeverRefuses, PdcFullRate, PdcGatesSound, PTL

FlitsOK == Flits \in Seq(Flit) /\ Len(Flits) <= Tokens

\* The contents fit the tokens.
LEMMA FlitsFit ==
  ASSUME PdcInv
  PROVE  FlitsOK
<1>1. tx.tokens \in Nat /\ tx.txd \in Opt(Flit) /\ rx.rxd \in Opt(Flit) /\ q \in Seq(Flit)
  BY DEF PdcInv, PdcTypeOK
<1>2. tx.txd \in Seq(Flit) /\ rx.rxd \in Seq(Flit)
  BY <1>1, OptIsSeq
<1>4. q \o rx.rxd \in Seq(Flit) /\ Len(q \o rx.rxd) = Len(q) + Len(rx.rxd)
  BY <1>1, <1>2, ConcatProperties
<1>5. Flits \in Seq(Flit) /\ Len(Flits) = Len(q) + Len(rx.rxd) + Len(tx.txd)
  BY <1>2, <1>4, ConcatProperties DEF Flits
<1>6. Len(q) + Len(rx.rxd) + Len(tx.txd) <= Tokens
  <2> DEFINE lt == Len(tx.txd)
             lr == Len(rx.rxd)
             lq == Len(q)
             ot == One(rx.txg)
             or == One(tx.rxg)
  <2>1. /\ lt \in Nat /\ lr \in Nat /\ lq \in Nat /\ ot \in Nat /\ or \in Nat
        /\ tx.tokens \in Nat /\ tx.tokens + lt + lr + lq + ot + or = Tokens
    BY Counts DEF PdcInv, Credits
  <2> HIDE DEF lt, lr, lq, ot, or
  <2>2. lq + lr + lt <= Tokens
    BY <2>1, PdcAssumption
  <2> QED BY <2>2 DEF lq, lr, lt
<1> QED BY <1>5, <1>6 DEF FlitsOK

\* The socket channel implements a channel of capacity Tokens: what was
\* accepted comes out in order, once, and nothing else does.
THEOREM PdcIsChannel == PdcSpec => LinkIsChannel
<1>1. PdcInit => LinkChan!ChanInit
  <2> SUFFICES ASSUME PdcInit PROVE LinkChan!ChanInit
    OBVIOUS
  <2>1. <<>> \in Seq(Flit)
    BY EmptySeq
  <2>2. Flits = (<<>> \o <<>>) \o <<>>
    BY DEF PdcInit, Flits
  <2>3. Flits = <<>>
    BY <2>1, <2>2, ConcatEmptySeq
  <2> QED BY <2>3 DEF PdcInit, LinkChan!ChanInit
<1>2. ASSUME PdcInv, FlitsOK', [PdcNext]_pdcVars
      PROVE  [LinkChan!ChanNext]_<<Flits, sent, got>>
  <2>1. CASE UNCHANGED pdcVars
    BY <2>1 DEF pdcVars, Flits
  <2>2. CASE PdcNext
    <3>1. PICK enq \in Opt(Flit), deqRdy \in BOOLEAN : PdcTick(enq, deqRdy)
      BY <2>2 DEF PdcNext
    <3>2. /\ tx'.txd = sent' /\ rx'.rxd = tx.txd
          /\ sent' \in Opt(Flit) /\ got' \in Opt(Flit)
          /\ q' \in Seq(Flit) /\ got' \o q' = q \o rx.rxd
      BY <1>2, <3>1, PdcEdge
    <3>3. /\ sent' \in Seq(Flit) /\ Len(sent') <= 1
          /\ got' \in Seq(Flit) /\ Len(got') <= 1
      BY <3>2, OptIsSeq
    <3>4. tx.txd \in Seq(Flit) /\ rx.rxd \in Seq(Flit) /\ q \in Seq(Flit)
      <4>1. tx.txd \in Opt(Flit) /\ rx.rxd \in Opt(Flit) /\ q \in Seq(Flit)
        BY <1>2 DEF PdcInv, PdcTypeOK
      <4> QED BY <4>1, OptIsSeq
    <3>11. \A u \in Seq(Flit), v \in Seq(Flit), w \in Seq(Flit) : (u \o v) \o w = u \o (v \o w)
      BY ConcatAssociative
    <3>5. q' \o tx.txd \in Seq(Flit) /\ q \o rx.rxd \in Seq(Flit)
      BY <3>2, <3>4, ConcatProperties
    <3>6. got' \o ((q' \o tx.txd) \o sent') = (got' \o (q' \o tx.txd)) \o sent'
      BY <3>3, <3>5, <3>11
    <3>7. got' \o (q' \o tx.txd) = (got' \o q') \o tx.txd
      BY <3>2, <3>3, <3>4, <3>11, ZenonT(30)
    <3>8. Flits' = (q' \o tx.txd) \o sent' /\ Flits = (q \o rx.rxd) \o tx.txd
      BY <3>2 DEF Flits
    <3>9. got' \o Flits' = Flits \o sent'
      BY <3>2, <3>6, <3>7, <3>8
    <3>10. Len(Flits') <= Tokens
      BY <1>2 DEF FlitsOK
    <3> QED BY <3>3, <3>9, <3>10 DEF LinkChan!ChanNext
  <2> QED BY <1>2, <2>1, <2>2
<1>3. PdcInv /\ FlitsOK' /\ [PdcNext]_pdcVars => [LinkChan!ChanNext]_<<Flits, sent, got>>
  BY <1>2
<1>4. PdcInv => FlitsOK
  BY FlitsFit
<1> QED BY <1>1, <1>3, <1>4, PdcInvariant, PTL DEF PdcSpec, LinkIsChannel, LinkChan!ChanSpec
=============================================================================
