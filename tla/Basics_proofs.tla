---------------------------- MODULE Basics_proofs ----------------------------
(***************************************************************************)
(* Facts about what the components share, for values of any size: the      *)
(* priority encoder (Min of a set of indices), the VIP arbiter, what one   *)
(* edge does to the queue of module Fifo, and sequences and sets counted.  *)
(***************************************************************************)
EXTENDS VipArb, Fifo, FiniteSetTheorems, WellFoundedInduction, SequenceTheorems, TLAPS

\* The priority encoder returns a member of the vector it encodes.
LEMMA MinIsLeast ==
  ASSUME NEW S \in SUBSET Nat, S # {}
  PROVE  Min(S) \in S /\ \A y \in S : Min(S) <= y
<1> DEFINE T == {0 .. x : x \in S}
           F == FiniteSubsetsOf(Nat)
           R == StrictSubsetOrdering(Nat)
<1>1. ASSUME NEW x \in S PROVE 0 .. x \in F
  <2>1. IsFiniteSet(0 .. x)
    BY FS_Interval
  <2> QED BY <2>1 DEF FiniteSubsetsOf
<1>2. T \subseteq F /\ T # {}
  BY <1>1
<1>3. IsWellFoundedOn(R, F)
  BY FS_StrictSubsetOrderingWellFounded
<1>4. \E I \in T : \A J \in T : ~(<<J, I>> \in R)
  <2> HIDE DEF T, R, F
  <2> QED BY <1>2, <1>3, WFMin
<1>5. PICK x \in S : \A J \in T : ~(<<J, 0 .. x>> \in R)
  BY <1>4
<1>6. ASSUME NEW y \in S PROVE x <= y
  <2>1. SUFFICES ASSUME y < x PROVE FALSE
    OBVIOUS
  <2>2. 0 .. y \subseteq 0 .. x /\ 0 .. y # 0 .. x
    BY <2>1
  <2>3. <<0 .. y, 0 .. x>> \in R
    BY <2>2 DEF StrictSubsetOrdering
  <2> QED BY <2>3, <1>5
<1> QED BY <1>6 DEF Min

\* The VIP arbiter chooses a port that asks, and its pointer stays or moves on
\* to a port that asks.
LEMMA VipInRange ==
  ASSUME NEW V \in SUBSET Nat, NEW v \in Nat, NEW rdy
  PROVE  /\ VipNext(v, V, rdy) \in V \cup {v}
         /\ V # {} => VipChosen(v, V) \in V
<1> DEFINE others == V \ {v}
           above  == {i \in others : i > v}
<1>1. others \in SUBSET Nat /\ above \in SUBSET Nat
  OBVIOUS
<1>2. above # {} => Min(above) \in above
  BY <1>1, MinIsLeast
<1>3. others # {} => Min(others) \in others
  BY <1>1, MinIsLeast
<1>4. V # {} => Min(V) \in V
  BY MinIsLeast
<1> QED BY <1>2, <1>3, <1>4 DEF VipNext, VipChosen

-----------------------------------------------------------------------------
(* The queue of Fifo, of any kind and contents.                            *)

\* A sequence of at most one item, the form of a Valid<T> wire.
LEMMA OptIsSeq ==
  ASSUME NEW S, NEW x \in Opt(S)
  PROVE  /\ x \in Seq(S) /\ Len(x) \in Nat /\ Len(x) <= 1
         /\ x = <<>> => Len(x) = 0
         /\ x # <<>> => Len(x) = 1
<1>1. CASE x = <<>>
  BY <1>1, EmptySeq
<1>2. CASE \E f \in S : x = <<f>>
  BY <1>2
<1> QED BY <1>1, <1>2 DEF Opt

\* Taking the head off a sequence of sequences is taking it off the first.
LEMMA HeadTailSplit ==
  ASSUME NEW S, NEW s \in Seq(S), s # <<>>, NEW t \in Seq(S)
  PROVE  <<Head(s)>> \o Tail(s \o t) = s \o t
<1>1. s \o t \in Seq(S) /\ s \o t # <<>> /\ Head(s \o t) = Head(s)
  BY ConcatProperties, EmptySeq
<1> QED BY <1>1, HeadTailProperties, ConcatProperties, SeqEqual

\* What passes the ports and what stays has the right type.
LEMMA QTypes ==
  ASSUME NEW S, NEW c, c.n \in Nat \ {0}, NEW q \in Seq(S), Len(q) <= c.n,
         NEW enq \in Opt(S), NEW deqRdy \in BOOLEAN
  PROVE  /\ Taken(c, q, enq, deqRdy) \in Opt(S)
         /\ Given(c, q, enq, deqRdy) \in Opt(S)
         /\ QNext(c, q, enq, deqRdy) \in Seq(S)
<1>1. Taken(c, q, enq, deqRdy) \in Opt(S)
  BY DEF Taken, Opt
<1>2. Given(c, q, enq, deqRdy) \in Opt(S)
  BY HeadTailProperties DEF Given, Deq, Opt
<1>3. Taken(c, q, enq, deqRdy) \in Seq(S)
  BY <1>1, OptIsSeq
<1>4. CASE Given(c, q, enq, deqRdy) = <<>>
  BY <1>1, <1>2, <1>3, <1>4, ConcatProperties DEF QNext
<1>5. CASE Given(c, q, enq, deqRdy) # <<>>
  <2>1. q \o Taken(c, q, enq, deqRdy) \in Seq(S)
    BY <1>3, ConcatProperties
  <2>2. q \o Taken(c, q, enq, deqRdy) # <<>>
    <3>1. q # <<>> \/ Taken(c, q, enq, deqRdy) # <<>>
      BY <1>5 DEF Given, Deq, Taken, EnqRdy
    <3> QED BY <3>1, <1>3, ConcatProperties, EmptySeq
  <2> QED BY <1>1, <1>2, <1>5, <2>1, <2>2, HeadTailProperties DEF QNext
<1> QED BY <1>1, <1>2, <1>4, <1>5

\* What is handed over, followed by what stays, is what was there, followed
\* by what was taken.
LEMMA QConserves ==
  ASSUME NEW S, NEW c, c.n \in Nat \ {0}, NEW q \in Seq(S), Len(q) <= c.n,
         NEW enq \in Opt(S), NEW deqRdy \in BOOLEAN
  PROVE  Given(c, q, enq, deqRdy) \o QNext(c, q, enq, deqRdy)
           = q \o Taken(c, q, enq, deqRdy)
<1> DEFINE next  == QNext(c, q, enq, deqRdy)
           taken == Taken(c, q, enq, deqRdy)
           given == Given(c, q, enq, deqRdy)
<1>0. taken \in Opt(S) /\ given \in Opt(S)
  BY QTypes
<1>1. taken \in Opt(S) /\ taken \in Seq(S)
  BY <1>0, OptIsSeq
<1>2. given \in Opt(S) /\ given \in Seq(S)
  BY <1>0, OptIsSeq
<1>3. CASE given = <<>>
  <2>1. next = q \o taken
    BY <1>3 DEF QNext
  <2> QED BY <2>1, <1>1, <1>2, <1>3, ConcatProperties, ConcatEmptySeq
<1>4. CASE given # <<>> /\ q # <<>>
  <2>1. given = <<Head(q)>> /\ next = Tail(q \o taken)
    BY <1>4 DEF QNext, Given, Deq
  <2>2. q \o taken \in Seq(S) /\ Len(q \o taken) = Len(q) + Len(taken) /\ q \o taken # <<>>
    BY <1>1, <1>4, ConcatProperties, EmptySeq
  <2> QED BY <2>1, <2>2, <1>1, <1>2, <1>4, HeadTailSplit, HeadTailProperties
<1>5. CASE given # <<>> /\ q = <<>>
  <2>1. given = enq /\ taken = enq /\ next = Tail(q \o enq)
    BY <1>5 DEF QNext, Given, Deq, Taken, EnqRdy
  <2>2. PICK f \in S : enq = <<f>>
    BY <2>1, <1>5 DEF Opt
  <2>3. q \o enq = <<f>> /\ Tail(<<f>>) = <<>>
    BY <2>2, <1>5, ConcatEmptySeq
  <2> QED BY <2>1, <2>2, <2>3, <1>1, <1>2, <1>5, ConcatEmptySeq
<1> QED BY <1>1, <1>2, <1>3, <1>4, <1>5

\* The length moves by what was taken and what was handed over.
LEMMA QLen ==
  ASSUME NEW S, NEW c, c.n \in Nat \ {0}, NEW q \in Seq(S), Len(q) <= c.n,
         NEW enq \in Opt(S), NEW deqRdy \in BOOLEAN
  PROVE  Len(QNext(c, q, enq, deqRdy))
           = Len(q) + Len(Taken(c, q, enq, deqRdy)) - Len(Given(c, q, enq, deqRdy))
<1> DEFINE next  == QNext(c, q, enq, deqRdy)
           taken == Taken(c, q, enq, deqRdy)
           given == Given(c, q, enq, deqRdy)
<1>0. taken \in Opt(S) /\ given \in Opt(S) /\ next \in Seq(S)
  BY QTypes
<1>1. taken \in Seq(S) /\ given \in Seq(S)
  BY <1>0, OptIsSeq
<1>2. given \o next = q \o taken
  BY QConserves
<1>3. Len(given \o next) = Len(given) + Len(next) /\ Len(q \o taken) = Len(q) + Len(taken)
  BY <1>0, <1>1, ConcatProperties
<1>4. Len(given) \in Nat /\ Len(next) \in Nat /\ Len(q) \in Nat /\ Len(taken) \in Nat
  BY <1>0, <1>1, LenProperties
<1>5. Len(given) + Len(next) = Len(q) + Len(taken)
  BY <1>2, <1>3
<1> QED
  <2> DEFINE g == Len(given)
             m == Len(next)
             k == Len(q)
             t == Len(taken)
  <2>1. g \in Nat /\ m \in Nat /\ k \in Nat /\ t \in Nat /\ g + m = k + t
    BY <1>4, <1>5
  <2>2. m = k + t - g
    <3> HIDE DEF g, m, k, t
    <3> QED BY <2>1
  <2> QED BY <2>2

\* Taking the head off commutes with putting something behind.
LEMMA TailConcat ==
  ASSUME NEW S, NEW q \in Seq(S), q # <<>>, NEW t \in Seq(S)
  PROVE  Tail(q \o t) = Tail(q) \o t
<1>1. /\ q \o t \in Seq(S) /\ q \o t # <<>> /\ Len(q \o t) = Len(q) + Len(t)
      /\ Len(q) \in Nat \ {0} /\ Len(t) \in Nat
  <2>1. Len(q) \in Nat \ {0} /\ Len(t) \in Nat /\ Len(q \o t) = Len(q) + Len(t) /\ q \o t \in Seq(S)
    BY EmptySeq, LenProperties, ConcatProperties
  <2>2. Len(q \o t) # 0
    BY <2>1
  <2> QED BY <2>1, <2>2, EmptySeq
<1>2. /\ Tail(q) \in Seq(S) /\ Len(Tail(q)) = Len(q) - 1
      /\ \A i \in 1 .. Len(Tail(q)) : Tail(q)[i] = q[i + 1]
  BY HeadTailProperties
<1>3. /\ Tail(q \o t) \in Seq(S) /\ Len(Tail(q \o t)) = Len(q \o t) - 1
      /\ \A i \in 1 .. Len(Tail(q \o t)) : Tail(q \o t)[i] = (q \o t)[i + 1]
  BY <1>1, HeadTailProperties
<1>4. /\ Tail(q) \o t \in Seq(S) /\ Len(Tail(q) \o t) = Len(Tail(q)) + Len(t)
      /\ \A i \in 1 .. Len(Tail(q)) + Len(t) :
           (Tail(q) \o t)[i] = IF i <= Len(Tail(q)) THEN Tail(q)[i] ELSE t[i - Len(Tail(q))]
  BY <1>2, ConcatProperties
<1>5. \A i \in 1 .. Len(q) + Len(t) : (q \o t)[i] = IF i <= Len(q) THEN q[i] ELSE t[i - Len(q)]
  BY ConcatProperties
<1>6. Len(Tail(q \o t)) = Len(Tail(q) \o t)
  BY <1>1, <1>2, <1>3, <1>4
<1>7. ASSUME NEW i \in 1 .. Len(Tail(q \o t)) PROVE Tail(q \o t)[i] = (Tail(q) \o t)[i]
  <2>1. i + 1 \in 1 .. Len(q) + Len(t) /\ i \in 1 .. Len(Tail(q)) + Len(t)
    BY <1>1, <1>2, <1>3
  <2>2. Tail(q \o t)[i] = IF i + 1 <= Len(q) THEN q[i + 1] ELSE t[(i + 1) - Len(q)]
    BY <2>1, <1>3, <1>5
  <2>3. (Tail(q) \o t)[i] = IF i <= Len(Tail(q)) THEN Tail(q)[i] ELSE t[i - Len(Tail(q))]
    BY <2>1, <1>4
  <2>4. CASE i + 1 <= Len(q)
    <3>1. i \in 1 .. Len(Tail(q))
      BY <2>1, <2>4, <1>1, <1>2
    <3> QED BY <3>1, <2>2, <2>3, <2>4, <1>2
  <2>5. CASE ~(i + 1 <= Len(q))
    <3>1. ~(i <= Len(Tail(q))) /\ i - Len(Tail(q)) = (i + 1) - Len(q)
      BY <2>1, <2>5, <1>1, <1>2
    <3> QED BY <3>1, <2>2, <2>3, <2>5
  <2> QED BY <2>4, <2>5
<1> QED BY <1>3, <1>4, <1>6, <1>7, SeqEqual
-----------------------------------------------------------------------------
(* Sequences without repetition.                                           *)

LEMMA EmptyRange == Range(<<>>) = {} /\ IsInjective(<<>>) /\ Len(<<>>) = 0
BY DEF Range, IsInjective

LEMMA OneRange ==
  ASSUME NEW S, NEW x \in S
  PROVE  /\ <<x>> \in Seq(S) /\ Range(<<x>>) = {x} /\ IsInjective(<<x>>)
         /\ Len(<<x>>) = 1 /\ <<x>> # <<>> /\ <<x>> \in Opt(S)
<1>1. <<x>> \in Seq(S) /\ Len(<<x>>) = 1 /\ <<x>>[1] = x /\ DOMAIN <<x>> = {1}
  OBVIOUS
<1>2. Range(<<x>>) = {x} /\ IsInjective(<<x>>)
  BY <1>1 DEF Range, IsInjective
<1> QED BY <1>1, <1>2 DEF Opt

LEMMA RangeIs ==
  ASSUME NEW S, NEW s \in Seq(S)
  PROVE  /\ Range(s) = {s[i] : i \in 1 .. Len(s)} /\ Range(s) \subseteq S
         /\ IsInjective(s) <=> \A i, j \in 1 .. Len(s) : s[i] = s[j] => i = j
<1>1. DOMAIN s = 1 .. Len(s) /\ s \in [1 .. Len(s) -> S]
  BY LenProperties
<1> QED BY <1>1 DEF Range, IsInjective

\* What a shift leaves behind.
LEMMA TailRange ==
  ASSUME NEW S, NEW s \in Seq(S), s # <<>>, IsInjective(s)
  PROVE  /\ Tail(s) \in Seq(S) /\ Len(Tail(s)) = Len(s) - 1
         /\ Head(s) \in Range(s) /\ IsInjective(Tail(s))
         /\ Range(Tail(s)) = Range(s) \ {Head(s)}
<1> DEFINE t == Tail(s)
<1>1. /\ Len(s) \in Nat \ {0} /\ t \in Seq(S) /\ Len(t) = Len(s) - 1
      /\ \A i \in 1 .. Len(t) : t[i] = s[i + 1]
  BY HeadTailProperties, EmptySeq
<1>2. Head(s) = s[1]
  BY <1>1
<1>3. \A i, j \in 1 .. Len(s) : s[i] = s[j] => i = j
  BY RangeIs
<1>4. IsInjective(t)
  <2>1. ASSUME NEW i \in 1 .. Len(t), NEW j \in 1 .. Len(t), t[i] = t[j] PROVE i = j
    <3>1. i + 1 \in 1 .. Len(s) /\ j + 1 \in 1 .. Len(s) /\ s[i + 1] = s[j + 1]
      BY <1>1, <2>1
    <3> QED BY <3>1, <1>3
  <2> QED BY <2>1, <1>1, RangeIs
<1>5. Range(t) = Range(s) \ {Head(s)}
  <2> HIDE DEF t
  <2>1. Range(t) = {t[i] : i \in 1 .. Len(t)} /\ Range(s) = {s[i] : i \in 1 .. Len(s)}
    BY <1>1, RangeIs
  <2>2. ASSUME NEW i \in 1 .. Len(t) PROVE t[i] \in Range(s) /\ t[i] # s[1]
    <3>1. i + 1 \in 1 .. Len(s) /\ 1 \in 1 .. Len(s) /\ i + 1 # 1 /\ t[i] = s[i + 1]
      BY <1>1
    <3> QED BY <3>1, <2>1, <1>3
  <2>3. ASSUME NEW i \in 1 .. Len(s), s[i] # s[1] PROVE s[i] \in Range(t)
    <3>1. i - 1 \in 1 .. Len(t) /\ (i - 1) + 1 = i
      BY <1>1, <2>3
    <3>2. t[i - 1] = s[i]
      BY <1>1, <3>1
    <3> QED BY <2>1, <3>1, <3>2
  <2> QED BY <1>2, <2>1, <2>2, <2>3
<1>6. Head(s) \in Range(s)
  BY <1>1, <1>2, RangeIs
<1> QED BY <1>1, <1>4, <1>5, <1>6

\* What an arrival adds.
LEMMA AppendRange ==
  ASSUME NEW S, NEW s \in Seq(S), NEW x \in S, IsInjective(s), x \notin Range(s)
  PROVE  /\ s \o <<x>> \in Seq(S) /\ Len(s \o <<x>>) = Len(s) + 1
         /\ IsInjective(s \o <<x>>) /\ Range(s \o <<x>>) = Range(s) \cup {x}
<1> DEFINE t == s \o <<x>>
<1>1. /\ t \in Seq(S) /\ Len(s) \in Nat /\ Len(t) = Len(s) + 1
      /\ \A i \in 1 .. Len(s) : t[i] = s[i]
      /\ t[Len(s) + 1] = x
  <2>1. <<x>> \in Seq(S) /\ Len(<<x>>) = 1 /\ <<x>>[1] = x /\ Len(s) \in Nat
    BY LenProperties
  <2> QED BY <2>1, ConcatProperties
<1> HIDE DEF t
<1>2. \A i, j \in 1 .. Len(s) : s[i] = s[j] => i = j
  BY RangeIs
<1>3. \A i \in 1 .. Len(s) : s[i] # x
  BY RangeIs
<1>4. Range(t) = {t[i] : i \in 1 .. Len(t)} /\ Range(s) = {s[i] : i \in 1 .. Len(s)}
  BY <1>1, RangeIs
<1>5. \A i \in 1 .. Len(t) : i \in 1 .. Len(s) \/ i = Len(s) + 1
  BY <1>1
<1>6. 1 .. Len(s) \subseteq 1 .. Len(t) /\ Len(s) + 1 \in 1 .. Len(t)
  BY <1>1
<1>7. Range(t) = Range(s) \cup {x}
  BY <1>1, <1>4, <1>5, <1>6
<1>8. \A i, j \in 1 .. Len(t) : t[i] = t[j] => i = j
  BY <1>1, <1>2, <1>3, <1>5
<1>9. IsInjective(t)
  BY <1>1, <1>8, RangeIs
<1> QED BY <1>1, <1>7, <1>9 DEF t

\* A sequence without repetition has as many elements as places.
LEMMA RangeCard ==
  ASSUME NEW S, NEW s \in Seq(S), IsInjective(s)
  PROVE  IsFiniteSet(Range(s)) /\ Cardinality(Range(s)) = Len(s)
<1>1. Len(s) \in Nat /\ s \in [1 .. Len(s) -> S] /\ DOMAIN s = 1 .. Len(s)
  BY LenProperties
<1>2. s \in [1 .. Len(s) -> Range(s)] /\ \A y \in Range(s) : \E i \in 1 .. Len(s) : s[i] = y
  BY <1>1, RangeIs
<1>3. s \in Bijection(1 .. Len(s), Range(s))
  BY <1>2 DEF Bijection, Injection, Surjection
<1>4. ExistsBijection(1 .. Len(s), Range(s))
  BY <1>3 DEF ExistsBijection
<1>5. IsFiniteSet(1 .. Len(s)) /\ Cardinality(1 .. Len(s)) = Len(s)
  BY <1>1, FS_Interval
<1> QED BY <1>4, <1>5, FS_Bijection

\* A queue without flow and pipe that has room for what comes: who is in it.
HeadOf(q, deqRdy) == IF deqRdy /\ q # <<>> THEN {Head(q)} ELSE {}

Moved(S, c, q, enq, deqRdy, n) ==
  /\ n \in Seq(S) /\ Len(n) <= c.n /\ IsInjective(n)
  /\ Range(n) = (Range(q) \ HeadOf(q, deqRdy)) \cup Range(enq)

LEMMA QueueSet ==
  ASSUME NEW S, NEW c, c.n \in Nat \ {0}, c.flow = FALSE, c.pipe = FALSE,
         NEW q \in Seq(S), Len(q) <= c.n, IsInjective(q),
         NEW enq \in Opt(S), enq # <<>> => Len(q) < c.n, Range(enq) \cap Range(q) = {},
         NEW deqRdy \in BOOLEAN, NEW n, n = QNext(c, q, enq, deqRdy)
  PROVE  Moved(S, c, q, enq, deqRdy, n)
<1> DEFINE d == deqRdy /\ q # <<>>
           rest == IF d THEN Tail(q) ELSE q
<1>1. /\ rest \in Seq(S) /\ IsInjective(rest) /\ Len(rest) \in Nat
      /\ Range(rest) = Range(q) \ HeadOf(q, deqRdy)
      /\ Len(rest) = Len(q) - (IF d THEN 1 ELSE 0)
  <2>1. CASE d
    BY <2>1, TailRange, LenProperties DEF HeadOf
  <2>2. CASE ~d
    BY <2>2, LenProperties DEF HeadOf
  <2> QED BY <2>1, <2>2
<1>2. n = rest \o enq
  <2>1. enq \in Seq(S) /\ Taken(c, q, enq, deqRdy) = enq
    BY OptIsSeq DEF Taken, EnqRdy
  <2>2. Given(c, q, enq, deqRdy) # <<>> <=> d
    <3>1. <<Head(q)>> # <<>>
      OBVIOUS
    <3> QED BY <3>1 DEF Given, Deq
  <2>3. d => Tail(q \o enq) = Tail(q) \o enq
    BY <2>1, TailConcat
  <2> QED BY <2>1, <2>2, <2>3 DEF QNext
<1> HIDE DEF rest
<1>3. CASE enq = <<>>
  <2>1. n = rest
    BY <1>1, <1>2, <1>3, ConcatEmptySeq
  <2>2. Len(rest) <= c.n
    BY <1>1, LenProperties
  <2> QED BY <1>1, <1>3, <2>1, <2>2, EmptyRange DEF Moved
<1>4. CASE enq # <<>>
  <2>1. PICK x \in S : enq = <<x>>
    BY <1>4 DEF Opt
  <2>2. Range(enq) = {x}
    BY <2>1, OneRange
  <2>3. x \notin Range(rest)
    BY <1>1, <2>2
  <2>4. /\ n \in Seq(S) /\ Len(n) = Len(rest) + 1 /\ IsInjective(n)
        /\ Range(n) = Range(rest) \cup {x}
    BY <1>1, <1>2, <2>1, <2>3, AppendRange
  <2>5. Len(n) <= c.n
    BY <1>1, <1>4, <2>4, LenProperties
  <2> QED BY <1>1, <2>2, <2>4, <2>5 DEF Moved
<1> QED BY <1>3, <1>4 DEF Moved

\* A sequence without repetition is no longer than the set it is taken from.
LEMMA InjectiveFits ==
  ASSUME NEW S, IsFiniteSet(S), NEW q \in Seq(S), IsInjective(q)
  PROVE  Len(q) <= Cardinality(S)
<1>1. Range(q) \in SUBSET S
  BY RangeIs
<1> QED BY <1>1, RangeCard, FS_Subset

\* A stage of one item that takes the next while it hands over the last.
StageStep(c, q, enq, r) ==
  /\ EnqRdy(c, q, r) <=> q = <<>> \/ r
  /\ QNext(c, q, enq, r) = IF enq # <<>> /\ EnqRdy(c, q, r) THEN enq ELSE IF r THEN <<>> ELSE q

LEMMA StageNext ==
  ASSUME NEW S, NEW q \in Opt(S), NEW enq \in Opt(S), NEW r \in BOOLEAN, NEW c,
         c.n = 1, c.flow = FALSE, c.pipe = TRUE
  PROVE  StageStep(c, q, enq, r)
<1>1. Len(q) < 1 <=> q = <<>>
  BY OptIsSeq
<1>2. EnqRdy(c, q, r) <=> q = <<>> \/ r
  BY <1>1 DEF EnqRdy
<1> DEFINE t == IF enq # <<>> /\ EnqRdy(c, q, r) THEN enq ELSE <<>>
<1>3. Taken(c, q, enq, r) = t
  BY DEF Taken
<1>4. q = <<>> \/ \E x \in S : q = <<x>>
  BY DEF Opt
<1>5. t = <<>> \/ \E x \in S : t = <<x>>
  BY DEF Opt
<1>6. t = <<>> <=> ~(enq # <<>> /\ EnqRdy(c, q, r))
  OBVIOUS
<1>7. t # <<>> => t = enq
  OBVIOUS
<1> HIDE DEF t
<1>8. CASE q = <<>>
  <2>1. Given(c, q, enq, r) = <<>>
    BY <1>8 DEF Given, Deq
  <2>2. q \o t = t
    BY <1>5, <1>8
  <2> QED BY <1>2, <1>3, <1>6, <1>7, <1>8, <2>1, <2>2 DEF QNext, StageStep
<1>9. ASSUME NEW x \in S, q = <<x>> PROVE QNext(c, q, enq, r) = IF t # <<>> THEN t ELSE IF r THEN <<>> ELSE q
  <2>1. q # <<>> /\ <<Head(q)>> # <<>>
    BY <1>9
  <2>2. Given(c, q, enq, r) = IF r THEN <<Head(q)>> ELSE <<>>
    BY <2>1 DEF Given, Deq
  <2>3. CASE t = <<>>
    <3>1. q \o t = q /\ Tail(q) = <<>>
      BY <1>9, <2>3
    <3> QED BY <1>3, <2>1, <2>2, <2>3, <3>1 DEF QNext
  <2>4. ASSUME NEW y \in S, t = <<y>> PROVE QNext(c, q, enq, r) = t
    <3>1. Tail(q \o t) = t
      <4>1. q \in Seq(S) /\ t \in Seq(S) /\ Tail(q) = <<>>
        BY <1>9, <2>4
      <4>2. Tail(q \o t) = Tail(q) \o t
        BY <2>1, <4>1, TailConcat
      <4> QED BY <4>1, <4>2, ConcatEmptySeq
    <3>2. r
      BY <1>2, <1>6, <2>1, <2>4
    <3> QED BY <1>3, <2>1, <2>2, <2>4, <3>1, <3>2 DEF QNext
  <2> QED BY <1>5, <2>3, <2>4
<1> QED BY <1>2, <1>4, <1>6, <1>7, <1>8, <1>9 DEF StageStep

\* Counting two sets without a common element, and two things.
LEMMA DisjointCard ==
  ASSUME NEW S, NEW T, IsFiniteSet(S), IsFiniteSet(T), S \cap T = {}
  PROVE  /\ IsFiniteSet(S \cup T) /\ Cardinality(S) \in Nat /\ Cardinality(T) \in Nat
         /\ Cardinality(S \cup T) = Cardinality(S) + Cardinality(T)
<1>1. IsFiniteSet(S \cup T)
      /\ Cardinality(S \cup T) = Cardinality(S) + Cardinality(T) - Cardinality(S \cap T)
  BY FS_Union
<1>2. Cardinality(S \cap T) = 0
  BY FS_EmptySet
<1>3. Cardinality(S) \in Nat /\ Cardinality(T) \in Nat
  BY FS_CardinalityType
<1> QED BY <1>1, <1>2, <1>3

LEMMA PairCard ==
  ASSUME NEW x, NEW y, x # y
  PROVE  Cardinality({x, y}) = 2
<1>1. IsFiniteSet({x}) /\ Cardinality({x}) = 1
  BY FS_Singleton
<1>2. y \notin {x} /\ {x} \cup {y} = {x, y}
  OBVIOUS
<1>3. Cardinality({x} \cup {y}) = 1 + 1
  BY <1>1, <1>2, FS_AddElement
<1> QED BY <1>2, <1>3

=============================================================================
