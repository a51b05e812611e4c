------------------------------ MODULE RingChan ------------------------------
(***************************************************************************)
(* One channel of the ring (model/ring/ring_chan.h, ring.h, ring.cpp): N   *)
(* stops, two opposite lanes.  A lane moves one place with every clock and *)
(* never waits, so what cannot leave it goes round again.  A flit enters   *)
(* only a place that is empty or just being emptied; a stop that has       *)
(* waited too long marks a passing place as reserved for it.  A flit       *)
(* leaves into the eject buffer of its lane; the last room of a buffer is  *)
(* kept for the transaction the VIP table has elected among the refused.   *)
(*                                                                         *)
(* One step is one clock edge with the inputs in: offer, what the senders  *)
(* hold out, and rdy, the readers that take a flit.  The flits of a job go *)
(* one after the other, for ever; sent, which is not in the code, holds    *)
(* the flits that were accepted and not handed over.  Registers whose      *)
(* valid bit is down have no value here; upd_rel is one of them.           *)
(***************************************************************************)
EXTENDS Integers, FiniteSets, Fifo

CONSTANTS
  N,             \* stops (10)
  Flit,          \* what travels
  Src, Tgt,      \* from stop to stop
  Port,          \* 0; 0 or 1 at a stop with two sources (HRQ of the HF)
  Job,           \* flits of a job are not under way together
  Tag,           \* source, transaction, target: ebTag
  EjD,           \* depth of an eject buffer (5 or 3)
  TimerMax       \* refusals before a reservation (8)

Stops == 0 .. N - 1
Dirs == {0, 1}

ASSUME RingAssumption ==
  /\ N \in Nat /\ N > 2 /\ EjD \in Nat /\ EjD > 1 /\ TimerMax \in Nat \ {0}
  /\ Src \in [Flit -> Stops] /\ Tgt \in [Flit -> Stops] /\ Port \in [Flit -> Dirs]
  /\ \A f \in Flit : Src[f] # Tgt[f] /\ f \in DOMAIN Tag \cap DOMAIN Job

VARIABLES st, sent
ringVars == <<st, sent>>

InjStops == {Src[f] : f \in Flit}
EjStops == {Tgt[f] : f \in Flit}
Taps == InjStops \cup EjStops
Dual == {Src[f] : f \in {g \in Flit : Port[g] = 1}}
Tags == {Tag[f] : f \in Flit}

InjQ == [n |-> 2, flow |-> FALSE, pipe |-> FALSE]
Ipipe == [n |-> 1, flow |-> FALSE, pipe |-> TRUE]
Oq == [n |-> EjD - 1, flow |-> FALSE, pipe |-> FALSE]

\* dirMasks: the nearer half of the other stops is reached in lane 0.
Half(i) == IF i % 2 = 1 THEN N \div 2 ELSE (N - 1) \div 2
Lane(i, t) == IF (t - i) % N <= Half(i) THEN 0 ELSE 1

\* What comes in from the neighbour in lane d.
Rx(i, d) == st[IF d = 0 THEN ((i + N) - 1) % N ELSE (i + 1) % N].dir[d].slot

NoSlot == [flit |-> <<>>, rsvd |-> <<>>]
NoVip == [tab |-> [k \in Stops |-> <<>>], ptr |-> 0]
EmptyEb == [ipipe |-> <<>>, oq |-> <<>>, empties |-> EjD, upd |-> <<>>, vip |-> NoVip]
EmptyStop ==
  [dir |-> [d \in Dirs |-> [slot |-> NoSlot, state |-> "normal", counter |-> 0]],
   injq |-> <<>>, eb |-> [d \in Dirs |-> EmptyEb], earb |-> 0, injarb |-> 0]

RingInit == st = [i \in Stops |-> EmptyStop] /\ sent = {}

-----------------------------------------------------------------------------
(* The table of refused transactions.                                      *)

VipSel(v) == v.tab[v.ptr]
VipUsed(v) == {k \in Stops : v.tab[k] # <<>>}
VipDangling(v) == VipSel(v) = <<>> /\ VipUsed(v) # {}

VipPtrStays(v) == v.ptr  \* faulty variant
VipPtr(v) ==
  IF VipDangling(v)
  THEN CHOOSE k \in VipUsed(v) : \A j \in VipUsed(v) : (k - v.ptr) % N <= (j - v.ptr) % N
  ELSE v.ptr

VipEnters(v, u) == ~u.rel /\ \A k \in Stops : v.tab[k] # <<u.tag>>
VipTabKeeps(v, u) ==  \* faulty variant: a released entry stays
  [k \in Stops |->
     IF VipEnters(v, u) /\ v.tab[k] = <<>> /\ \A j \in 0 .. k - 1 : v.tab[j] # <<>> THEN <<u.tag>>
     ELSE v.tab[k]]
VipTab(v, u) ==
  [k \in Stops |->
     IF VipEnters(v, u) /\ v.tab[k] = <<>> /\ \A j \in 0 .. k - 1 : v.tab[j] # <<>> THEN <<u.tag>>
     ELSE IF u.rel /\ v.tab[k] = <<u.tag>> THEN <<>> ELSE v.tab[k]]

VipAfter(v, upd) ==
  [tab |-> IF upd = <<>> THEN v.tab ELSE VipTab(v, upd[1]), ptr |-> VipPtr(v)]

(* The arbiter of two: whoever was not last.                               *)
RrChosen(valid, lg) == IF valid[1 - lg] THEN 1 - lg ELSE IF valid[lg] THEN lg ELSE 1
RrRdy(valid, lg, k) == lg # k \/ ~valid[1 - k]

-----------------------------------------------------------------------------
(* Leaving the lane.                                                       *)

EjectVld(i, d) == i \in Taps /\ Rx(i, d).flit # <<>> /\ Tgt[Rx(i, d).flit[1]] = i
Allow(i, d) ==
  st[i].eb[d].empties # 1 \/ VipSel(st[i].eb[d].vip) = <<Tag[Rx(i, d).flit[1]]>>
EbEnqRdy(i, d) == st[i].eb[d].empties > 0 /\ Allow(i, d)
EjectFire(i, d) == EjectVld(i, d) /\ EbEnqRdy(i, d)

\* The count of free rooms is not looked at here.
IpipeEnqAll(i, d) == IF EjectVld(i, d) THEN Rx(i, d).flit ELSE <<>>  \* faulty variant
IpipeEnq(i, d) == IF EjectVld(i, d) /\ Allow(i, d) THEN Rx(i, d).flit ELSE <<>>
OqEnqRdy(i, d) == EnqRdy(Oq, st[i].eb[d].oq, FALSE)
IpipeFire(i, d) == Taken(Ipipe, st[i].eb[d].ipipe, IpipeEnq(i, d), OqEnqRdy(i, d)) # <<>>

OqVld(i) == [d \in Dirs |-> st[i].eb[d].oq # <<>>]
EarbRdy(i, d, in) == i \in EjStops \cap in.rdy /\ RrRdy(OqVld(i), st[i].earb, d)
EbDeqFire(i, d, in) == OqVld(i)[d] /\ EarbRdy(i, d, in)
TxFire(i, in) == i \in EjStops \cap in.rdy /\ \E d \in Dirs : OqVld(i)[d]

(* Entering the lane.                                                      *)

Offered(i, p, in) == {f \in in.offer : Src[f] = i /\ Port[f] = p}
SrcVld(i, in) == [p \in Dirs |-> Offered(i, p, in) # {}]
InjChosen(i, in) == IF i \in Dual THEN RrChosen(SrcVld(i, in), st[i].injarb) ELSE 0
InjEnq(i, in) ==
  LET o == Offered(i, InjChosen(i, in), in) IN IF o = {} THEN <<>> ELSE <<CHOOSE f \in o : TRUE>>
InjEnqRdy(i) == EnqRdy(InjQ, st[i].injq, FALSE)
SrcRdy(i, p, in) == InjEnqRdy(i) /\ (i \in Dual => RrRdy(SrcVld(i, in), st[i].injarb, p))

\* inj_vld_dir, inj_rdy_dir, inj_fire
InjVld(i, d) == st[i].injq # <<>> /\ Lane(i, Tgt[Head(st[i].injq)]) = d
EmptySlot(i, d) == Rx(i, d).flit = <<>> \/ EjectFire(i, d)
AvailAnyMark(i, d) == st[i].dir[d].state # "wait" \/ Rx(i, d).rsvd # <<>>  \* faulty variant
Avail(i, d) ==
  IF Rx(i, d).rsvd # <<>> THEN Rx(i, d).rsvd = <<i>> ELSE st[i].dir[d].state # "wait"
InjRdy(i, d) == EmptySlot(i, d) /\ Avail(i, d)
InjFire(i, d) == InjVld(i, d) /\ InjRdy(i, d)

-----------------------------------------------------------------------------
(* chanNext                                                                *)

NextCounter(i, d, fire) ==
  LET s == st[i].dir[d]
  IN  IF fire THEN 0
      ELSE IF InjVld(i, d) /\ s.state = "normal" /\ s.counter < TimerMax THEN s.counter + 1
      ELSE s.counter

\* A full counter turns to "reserve" also in the cycle an injection clears it.
NextState(i, d, fire) ==
  LET s == st[i].dir[d]
  IN  CASE s.state = "normal" -> IF s.counter = TimerMax THEN "reserve" ELSE "normal"
        [] s.state # "normal" /\ fire -> "normal"
        [] s.state = "reserve" /\ ~fire /\ Rx(i, d).rsvd # <<>> -> "reserve"
        [] OTHER -> "wait"

NextSlot(i, d, fire) ==
  [flit |-> IF fire THEN <<Head(st[i].injq)>>
            ELSE IF EjectFire(i, d) THEN <<>> ELSE Rx(i, d).flit,
   rsvd |-> IF fire THEN <<>>
            ELSE IF Rx(i, d).rsvd # <<>> THEN Rx(i, d).rsvd
            ELSE IF st[i].dir[d].state = "reserve" THEN <<i>> ELSE <<>>]

NextEb(i, d, in) ==
  LET e == st[i].eb[d]
      in1 == IF IpipeFire(i, d) THEN 1 ELSE 0
      out1 == IF EbDeqFire(i, d, in) THEN 1 ELSE 0
  IN  [ipipe |-> QNext(Ipipe, e.ipipe, IpipeEnq(i, d), OqEnqRdy(i, d)),
       oq |-> QNext(Oq, e.oq, e.ipipe, EarbRdy(i, d, in)),
       empties |-> (e.empties - in1) + out1,
       upd |-> IF EjectVld(i, d)
               THEN <<[rel |-> EbEnqRdy(i, d), tag |-> Tag[Rx(i, d).flit[1]]]>> ELSE <<>>,
       vip |-> VipAfter(e.vip, e.upd)]

NextDir(i, d, fire) ==
  [slot |-> NextSlot(i, d, fire), state |-> NextState(i, d, fire),
   counter |-> NextCounter(i, d, fire)]

NextStop(i, in) ==
  [dir |-> [d \in Dirs |-> NextDir(i, d, InjFire(i, d))],
   injq |-> QNext(InjQ, st[i].injq, InjEnq(i, in), \E d \in Dirs : InjFire(i, d)),
   eb |-> [d \in Dirs |-> NextEb(i, d, in)],
   earb |-> IF TxFire(i, in) THEN RrChosen(OqVld(i), st[i].earb) ELSE st[i].earb,
   injarb |-> IF i \in Dual /\ InjEnq(i, in) # <<>> /\ InjEnqRdy(i)
              THEN InjChosen(i, in) ELSE st[i].injarb]

\* chanActive: the static gate of a stop.
LaneActive(i, d) ==
  \/ Rx(i, d) # NoSlot \/ st[i].dir[d] # EmptyStop.dir[d] \/ EjectVld(i, d)
  \/ st[i].eb[d].upd # <<>> \/ st[i].eb[d].empties # EjD \/ VipDangling(st[i].eb[d].vip)
ActiveNoDangling(i, in) ==  \* faulty variant
  \/ InjEnq(i, in) # <<>> \/ st[i].injq # <<>>
  \/ \E d \in Dirs : \/ Rx(i, d) # NoSlot \/ st[i].dir[d] # EmptyStop.dir[d]
                     \/ st[i].eb[d].upd # <<>> \/ st[i].eb[d].empties # EjD
Active(i, in) ==
  InjEnq(i, in) # <<>> \/ st[i].injq # <<>> \/ \E d \in Dirs : LaneActive(i, d)

\* What a reader takes.
TxFlit(i) == Head(st[i].eb[RrChosen(OqVld(i), st[i].earb)].oq)

RingTick(in) ==
  /\ st' = [i \in Stops |-> IF Active(i, in) THEN NextStop(i, in) ELSE st[i]]
  /\ sent' = (sent \cup {f \in in.offer : SrcRdy(Src[f], Port[f], in)})
                \ {TxFlit(i) : i \in {j \in EjStops : TxFire(j, in)}}

\* The senders hold out at most one flit each.  An offer to a full queue and a
\* reader at an empty one change nothing: they are not tried.
Offers ==
  {o \in SUBSET {f \in Flit : Len(st[Src[f]].injq) < InjQ.n} :
     /\ \A f \in o, g \in sent : Job[f] # Job[g]
     /\ \A f, g \in o : Job[f] = Job[g] \/ (Src[f] = Src[g] /\ Port[f] = Port[g]) => f = g}
Filled == {i \in EjStops : \E d \in Dirs : OqVld(i)[d]}

RingNext == \E offer \in Offers, rdy \in SUBSET Filled : RingTick([offer |-> offer, rdy |-> rdy])
RingSpec == RingInit /\ [][RingNext]_ringVars

\* The clock runs while a flit is under way outside the queues of the readers,
\* and a reader with something to take takes it now and then.
Resting ==
  \A f \in sent : \E d \in Dirs :
    LET oq == st[Tgt[f]].eb[d].oq IN \E k \in DOMAIN oq : oq[k] = f
HandsOver(i) == \E f \in sent : Tgt[f] = i /\ f \notin sent'
RingFairSpec ==
  /\ RingSpec
  /\ []<>Resting \/ []<><<TRUE>>_ringVars
  /\ \A i \in EjStops : []<>(i \notin Filled) \/ []<><<HandsOver(i)>>_ringVars

-----------------------------------------------------------------------------
InLane(i, d, f) == st[i].dir[d].slot.flit = <<f>>

\* The places that hold a flit of a kind.
Where(f) ==
  {p \in {"injq"} \X Stops \X {0} \X (1 .. 2) :
     p[4] \in DOMAIN st[p[2]].injq /\ st[p[2]].injq[p[4]] = f}
  \cup {p \in {"lane"} \X Stops \X Dirs \X {1} : InLane(p[2], p[3], f)}
  \cup {p \in {"ipipe"} \X Stops \X Dirs \X {1} : st[p[2]].eb[p[3]].ipipe = <<f>>}
  \cup {p \in {"oq"} \X Stops \X Dirs \X (1 .. EjD) :
          p[4] \in DOMAIN st[p[2]].eb[p[3]].oq /\ st[p[2]].eb[p[3]].oq[p[4]] = f}

(* The registers keep their types.                                         *)
RingTypeOK ==
  \A i \in Stops :
    /\ \A d \in Dirs :
         /\ st[i].dir[d] \in [slot : [flit : Opt(Flit), rsvd : Opt(Stops)],
                             state : {"normal", "reserve", "wait"}, counter : 0 .. TimerMax]
         /\ st[i].eb[d].empties \in 0 .. EjD
         /\ st[i].eb[d].upd \in Opt([rel : BOOLEAN, tag : Tags])
         /\ st[i].eb[d].vip \in [tab : [Stops -> Opt(Tags)], ptr : Stops]
    /\ Len(st[i].injq) <= 2 /\ st[i].earb \in Dirs /\ st[i].injarb \in Dirs

(* The eject side agrees with itself: the lane lets go of a flit, which    *)
(* looks at the count of free rooms, exactly when the buffer takes it,     *)
(* which looks at its two queues (eject_fire, ipipe_enq_fire).             *)
EjectAgrees ==
  \A i \in Taps, d \in Dirs :
    /\ EjectFire(i, d) = IpipeFire(i, d)
    /\ st[i].eb[d].empties + Len(st[i].eb[d].ipipe) + Len(st[i].eb[d].oq) = EjD

(* Every flit accepted and not handed over is in exactly one place, and    *)
(* only the buffers of its target hold it once it has left the lane.       *)
NothingLost ==
  /\ EjectAgrees
  /\ \A f \in Flit : Cardinality(Where(f)) = IF f \in sent THEN 1 ELSE 0
  /\ \A f \in Flit : \A p \in Where(f) : p[1] \in {"ipipe", "oq"} => p[2] = Tgt[f]

(* A stop that waits for its reservation has exactly one on the lane, and  *)
(* nobody else has any: marks are neither lost, overwritten nor left over  *)
(* (InjectReserved, WaitSlot, rsvd_payload).                               *)
OneMarkEach ==
  \A i \in Stops, d \in Dirs :
    Cardinality({j \in Stops : st[j].dir[d].slot.rsvd = <<i>>})
      = IF st[i].dir[d].state = "wait" THEN 1 ELSE 0

(* The VIP table names only transactions with a flit still going round to  *)
(* this stop in this lane, each once, and always has room for the next     *)
(* refused one: nobody is elected who will not come.                       *)
Rounding(i, d, t) == \E j \in Stops, f \in Flit : InLane(j, d, f) /\ Tgt[f] = i /\ Tag[f] = t
Leaving(e, t) == e.upd = <<[rel |-> TRUE, tag |-> t]>>
VipNamesTravellers ==
  \A i \in Taps, d \in Dirs :
    LET e == st[i].eb[d]
    IN  /\ \A k \in VipUsed(e.vip) :
             /\ Rounding(i, d, e.vip.tab[k][1]) \/ Leaving(e, e.vip.tab[k][1])
             /\ \A j \in VipUsed(e.vip) : e.vip.tab[j] = e.vip.tab[k] => j = k
        /\ e.upd # <<>> /\ VipEnters(e.vip, e.upd[1]) => VipUsed(e.vip) # Stops

(* What docs/zhujiang-primer.md:569 says of the mark: when it comes home,  *)
(* the place is still empty and the flit boards.  It is not so: the mark   *)
(* is put on the next place, empty or not, and a flit in it that its       *)
(* buffer refuses comes round with it.                                     *)
MarkComesHomeEmpty ==
  \A i \in Stops, d \in Dirs : Rx(i, d).rsvd = <<i>> => InjRdy(i, d)

(* A closed gate skips no change of a stop, the registers that change by   *)
(* themselves included.                                                    *)
RingGateLosesNothing ==
  \A i \in Stops, rdy \in SUBSET EjStops :
    LET quiet == [offer |-> {}, rdy |-> rdy]
    IN  ~Active(i, quiet) => NextStop(i, quiet) = st[i]

(* What every state has: one mark for each stop that waits for one, an     *)
(* exact VIP table, gates that may be closed.                              *)
RingInv == RingTypeOK /\ OneMarkEach /\ VipNamesTravellers /\ RingGateLosesNothing

(* Every flit that was accepted is handed over, whatever the others send:  *)
(* neither the lane (reservation) nor the buffer (VIP room) starves it.    *)
EveryFlitArrives == \A f \in Flit : f \in sent ~> f \notin sent
=============================================================================
