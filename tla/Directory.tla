----------------------------- MODULE Directory -----------------------------
(***************************************************************************)
(* One directory of a bank (DirectoryBase, model/dj/directory.h): the      *)
(* snoop filter or the LLC directory.  A request enters at d0 and goes     *)
(* through d1 .. d4, one stage per edge:                                   *)
(*   read   of a transaction: which way has the line, or would take it     *)
(*   write  to a known way: a hit, or a direct allocation (snoop filter)   *)
(*   repl   a write without a way: reads, chooses a victim, and at d4      *)
(*          answers with it and writes the new line in its place           *)
(*   ghost  that write, on its way through the stages behind d0            *)
(*                                                                         *)
(* The way a transaction has hit or allocated is locked, the invalid way   *)
(* it was promised is reserved, until the transaction unlocks.             *)
(*                                                                         *)
(* The memories answer with what they hold at d0 (Sram), so a stage        *)
(* carries its row; the tag of an invalid entry is nobody's business.  The *)
(* way PLRU names is any way (in.pick); ReplTree has the tree and how its  *)
(* state is forwarded.  The memories have been swept.                      *)
(***************************************************************************)
EXTENDS Integers, Sequences, FiniteSetsExt, Fifo

CONSTANTS
  Line,    \* lines of this directory
  DirSet,  \* sets
  SetOf,   \* the set of a line
  Ways,    \* 0 .. 15 in the code, more than there are slots
  Hn       \* PoS slots with a lock (14 of the 16 per set for the snoop filter, 15 for LLC);
           \* the PoS set is part of the directory set, so these are the slots of one

ASSUME DirAssumption ==
  /\ SetOf \in [Line -> DirSet]
  /\ Ways \in SUBSET Nat /\ 0 \in Ways /\ IsFiniteSet(Ways)
  /\ IsFiniteSet(Hn) /\ Cardinality(Hn) <= Cardinality(Ways)

VARIABLES
  sf,      \* kHasReservation: the snoop filter; never changes
  entry,   \* meta_ram and tag_ram: the line in a way, none if invalid
  sft,     \* sft: the requests at d1 .. d4
  d3, d4,  \* registers between d2 and d3, d3 and d4
  lock, rsv, \* lock_tab, rsv_tab: by slot
  tx,      \* surroundings: the transaction in a slot
  evicted  \* surroundings: victims whose eviction goes on

dirVars == <<sf, entry, sft, d3, d4, lock, rsv, tx, evicted>>

NoTx == [st |-> "idle", line |-> <<>>, way |-> 0, hit |-> FALSE, room |-> FALSE]
NoD3 == [use |-> {}, spare |-> 0, repl |-> 0]
NoD4 == [way |-> 0, hit |-> FALSE, old |-> <<>>]

DirInit ==
  /\ sf \in BOOLEAN
  /\ entry = [s \in DirSet |-> [w \in Ways |-> <<>>]]
  /\ sft = [d \in 1 .. 4 |-> <<>>]
  /\ d3 = NoD3 /\ d4 = NoD4
  /\ lock = [h \in Hn |-> <<>>] /\ rsv = [h \in Hn |-> <<>>]
  /\ tx = [h \in Hn |-> NoTx] /\ evicted = {}

-----------------------------------------------------------------------------
(* The stages.                                                             *)

Is(d, kinds) == sft[d] # <<>> /\ sft[d][1].kind \in kinds
Req(d) == sft[d][1]
SetAt(d) == SetOf[Req(d).line]
Lowest(s) == IF s = {} THEN 0 ELSE Min(s)

\* d0: requests are two edges apart, and none enters while a victim is chosen.
CommonRdyNoHold == sft[1] = <<>>  \* faulty variant
CommonRdy == sft[1] = <<>> /\ \A d \in 1 .. 4 : ~Is(d, {"repl"})
WrFire(in) == IF CommonRdy THEN in.write ELSE <<>>
RdFire(in) == IF CommonRdy /\ in.write = <<>> THEN in.read ELSE <<>>

\* replWillWrite: the repl at d4 writes the line it brought.
ReplD0 == Is(4, {"repl"})

\* d2: the ways that may not be chosen: locked, reserved, or just promised.
Held(t, s) == {t[h][1].way : h \in {g \in Hn : t[g] # <<>> /\ t[g][1].set = s}}

\* d3: hit, else the first invalid way nobody has been promised, else the way
\* PLRU names unless it is in use.
HitD3 == {w \in Ways : Req(3).row[w] = <<Req(3).line>>}
InvalidD3 == {w \in Ways : Req(3).row[w] = <<>> /\ w \notin d3.use}
SelWay ==
  IF HitD3 # {} THEN Min(HitD3)
  ELSE IF InvalidD3 # {} THEN Min(InvalidD3)
  ELSE IF d3.repl \in d3.use THEN d3.spare ELSE d3.repl
PendAlloc == sf /\ Is(3, {"read"}) /\ HitD3 = {} /\ InvalidD3 # {}

UseWayNoRsv ==  \* faulty variant
  Held(lock, SetAt(2))
UseWay ==
  Held(lock, SetAt(2)) \cup Held(rsv, SetAt(2))
    \cup (IF PendAlloc /\ SetAt(3) = SetAt(2) THEN {SelWay} ELSE {})

-----------------------------------------------------------------------------
(* One edge.  in.read and in.write are requests, in.unlock a slot, in.pick *)
(* the way PLRU names at d2.                                               *)

\* What comes to d1.
Entering(in) ==
  LET of(kind, r) == <<[kind |-> kind, hn |-> <<r.hn>>, line |-> r.line,
                        row |-> entry[SetOf[r.line]]]>>
      blank(kind, l) == <<[kind |-> kind, hn |-> <<>>, line |-> l, row |-> <<>>]>>
      wr == WrFire(in)
  IN IF ReplD0 THEN blank("ghost", Req(4).line)
     ELSE IF wr # <<>>
          THEN IF wr[1].kind = "nohit" THEN of("repl", wr[1]) ELSE blank("write", wr[1].line)
     ELSE IF RdFire(in) # <<>> THEN of("read", RdFire(in)[1]) ELSE <<>>

NextD3(in) ==
  IF ~Is(2, {"read", "repl"}) THEN NoD3
  ELSE [use |-> UseWay, spare |-> Lowest(Ways \ UseWay), repl |-> in.pick]
NextD4 ==
  IF ~Is(3, {"read", "repl"}) THEN NoD4
  ELSE [way |-> SelWay, hit |-> HitD3 # {}, old |-> Req(3).row[SelWay]]

NextEntry(in) ==
  LET wr == WrFire(in)
  IN IF ReplD0 THEN [entry EXCEPT ![SetAt(4)][d4.way] = <<Req(4).line>>]
     ELSE IF wr = <<>> \/ wr[1].kind = "nohit" THEN entry
     ELSE [entry EXCEPT ![SetOf[wr[1].line]][wr[1].way] =
             IF wr[1].kind = "direct" THEN <<wr[1].line>> ELSE IF wr[1].keep THEN @ ELSE <<>>]

\* A hit and a chosen victim are locked, whatever the slot had locked before.
NextLock(in, h) ==
  IF in.unlock = <<h>> THEN <<>>
  ELSE IF Is(3, {"read", "repl"}) /\ Req(3).hn = <<h>> /\ (HitD3 # {} \/ Is(3, {"repl"}))
       THEN <<[set |-> SetAt(3), way |-> SelWay]>> ELSE lock[h]

NextRsvAllocOnly(in, h) ==  \* faulty variant
  LET wr == WrFire(in)
  IN IF wr # <<>> /\ wr[1].kind = "direct" /\ wr[1].hn = h THEN <<>>
     ELSE IF PendAlloc /\ Req(3).hn = <<h>> THEN <<[set |-> SetAt(3), way |-> SelWay]>>
     ELSE rsv[h]
NextRsv(in, h) ==
  LET wr == WrFire(in)
  IN IF in.unlock = <<h>> \/ (wr # <<>> /\ wr[1].kind = "direct" /\ wr[1].hn = h) THEN <<>>
     ELSE IF PendAlloc /\ Req(3).hn = <<h>> THEN <<[set |-> SetAt(3), way |-> SelWay]>>
     ELSE rsv[h]

\* The answer at d4: to the frontend, or to the replacement engine.
DirResp ==
  IF ~Is(4, {"read", "repl"}) THEN <<>>
  ELSE <<[hn |-> Req(4).hn[1], toRepl |-> ReplD0, way |-> d4.way, hit |-> d4.hit, old |-> d4.old]>>

DirTick(in) ==
  /\ sf' = sf
  /\ entry' = NextEntry(in)
  /\ sft' = [d \in 1 .. 4 |-> IF d = 1 THEN Entering(in) ELSE sft[d - 1]]
  /\ d3' = NextD3(in) /\ d4' = NextD4
  /\ lock' = [h \in Hn |-> NextLock(in, h)]
  /\ rsv' = [h \in Hn |-> NextRsv(in, h)]

-----------------------------------------------------------------------------
(* The surroundings.  At most one transaction per line is live.  The PoS   *)
(* table sees to it for requests; for the eviction of a line whose own     *)
(* transaction has not ended it is an assumption.  A transaction reads;    *)
(* told of a hit it may write the way, told of a miss it may allocate: in  *)
(* the way it was promised (snoop filter), else by replacement.  LLC also  *)
(* takes lines that a snoop has fetched, without a read (CopyId of         *)
(* ReplaceCM).  Then it unlocks.  A way allocated directly is held by      *)
(* nothing from its write on ("free").  A request that is not taken        *)
(* changes nothing and may come again.                                     *)

Busy(l) == l \in evicted \/ \E h \in Hn : tx[h].line = <<l>>
Has(l) == \E w \in Ways : entry[SetOf[l]][w] = <<l>>
Idle == {h \in Hn : tx[h].st = "idle"}

Reads == {[hn |-> h, line |-> l] : h \in Idle, l \in {k \in Line : ~Busy(k)}}
Wr(h, l, kind, keep) == [hn |-> h, line |-> l, way |-> tx[h].way, kind |-> kind, keep |-> keep]
Told(hit, room) == {h \in Hn : tx[h].st = "told" /\ tx[h].hit = hit /\ tx[h].room = room}
Writes ==
  {Wr(h, tx[h].line[1], "hit", keep) : h \in Told(TRUE, FALSE), keep \in BOOLEAN}
  \cup {Wr(h, tx[h].line[1], IF sf THEN "direct" ELSE "nohit", TRUE) : h \in Told(FALSE, TRUE)}
  \cup {Wr(h, tx[h].line[1], "nohit", TRUE) : h \in Told(FALSE, FALSE)}
  \cup {Wr(h, l, "nohit", TRUE) : h \in IF sf THEN {} ELSE Idle,
                                  l \in {k \in Line : ~Busy(k) /\ ~Has(k)}}

\* A write is served before a read.
Requests ==
  IF ~CommonRdy THEN {[read |-> <<>>, write |-> <<>>]}
  ELSE {[read |-> r, write |-> <<>>] : r \in Opt(Reads)}
       \cup {[read |-> <<>>, write |-> <<w>>] : w \in Writes}
Unlocks(req) == {h \in Hn : tx[h].st \in {"told", "done", "free"} /\ (req.write # <<>> => req.write[1].hn # h)}

NextTx(in, h) ==
  LET own(x) == x # <<>> /\ x[1].hn = h
      wr == WrFire(in)  r == DirResp
  IN IF in.unlock = <<h>> THEN NoTx
     ELSE IF own(RdFire(in)) THEN [NoTx EXCEPT !.st = "read", !.line = <<RdFire(in)[1].line>>]
     ELSE IF own(wr)
          THEN [NoTx EXCEPT !.line = <<wr[1].line>>,
                            !.st = CASE wr[1].kind = "nohit" -> "repl"
                                     [] wr[1].kind = "direct" -> "free" [] OTHER -> "done",
                            !.way = IF wr[1].kind = "nohit" THEN 0 ELSE wr[1].way,
                            !.hit = wr[1].kind # "nohit" /\ wr[1].keep]
     ELSE IF ~own(r) THEN tx[h]
     ELSE IF r[1].toRepl THEN [tx[h] EXCEPT !.st = "done", !.way = r[1].way, !.hit = TRUE]
     ELSE [tx[h] EXCEPT !.st = "told", !.hit = r[1].hit, !.room = r[1].old = <<>>,
                        !.way = IF r[1].hit \/ (sf /\ r[1].old = <<>>) THEN r[1].way ELSE 0]

Surroundings(in) ==
  /\ tx' = [h \in Hn |-> NextTx(in, h)]
  /\ evicted' = (evicted \cup (IF ReplD0 /\ d4.old # <<>> THEN {d4.old[1]} ELSE {}))
                \ {l \in Line : in.clean = <<l>>}

DirNext ==
  \E req \in Requests, pick \in IF Is(2, {"read", "repl"}) THEN Ways ELSE {0} :
    \E unlock \in Opt(Unlocks(req)), clean \in Opt(evicted) :
      LET in == [read |-> req.read, write |-> req.write, pick |-> pick, unlock |-> unlock,
                 clean |-> clean]
      IN DirTick(in) /\ Surroundings(in)

DirSpec == DirInit /\ [][DirNext]_dirVars

-----------------------------------------------------------------------------
(* Types of the registers: what is held is a way of a set.                 *)
DirTypeOK ==
  /\ entry \in [DirSet -> [Ways -> Opt(Line)]]
  /\ d3 \in [use : SUBSET Ways, spare : Ways, repl : Ways]
  /\ d4 \in [way : Ways, hit : BOOLEAN, old : Opt(Line)]
  /\ lock \in [Hn -> Opt([set : DirSet, way : Ways])]
  /\ rsv \in [Hn -> Opt([set : DirSet, way : Ways])]

(* No line is in two ways, and a victim is gone.                           *)
OneCopy ==
  /\ \A s \in DirSet : \A v, w \in Ways : entry[s][v] = entry[s][w] /\ v # w => entry[s][v] = <<>>
  /\ \A l \in evicted : ~Has(l)

(* Only transactions hold ways, no lock is set over another one            *)
(* (docs/wolvicmod-zhujiang-model.md:376), and a direct allocation finds   *)
(* its reservation.                                                        *)
HoldsOwned ==
  /\ \A h \in Idle : lock[h] = <<>> /\ rsv[h] = <<>>
  /\ Is(3, {"repl"}) \/ (Is(3, {"read"}) /\ HitD3 # {}) => lock[Req(3).hn[1]] = <<>>
  /\ \A h \in Told(FALSE, TRUE) : sf => rsv[h] = <<[set |-> SetOf[tx[h].line[1]], way |-> tx[h].way]>>

(* Together: the directory names each line once, and holds are owned.      *)
DirInv == DirTypeOK /\ OneCopy /\ HoldsOwned

(* What a transaction was told stays true until it unlocks, whatever the   *)
(* others replace meanwhile: the line stays in the way it hit or got, the  *)
(* promised way stays free, a line that was absent stays absent.           *)
WayKept ==
  \A h \in Hn :
    tx[h].st \in {"told", "done"} =>
      LET l == tx[h].line[1]  r == entry[SetOf[l]]
      IN IF tx[h].hit THEN r[tx[h].way] = <<l>>
         ELSE /\ ~Has(l)
              /\ sf /\ tx[h].room => r[tx[h].way] = <<>>
=============================================================================
