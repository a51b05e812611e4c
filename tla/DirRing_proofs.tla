--------------------------- MODULE DirRing_proofs ---------------------------
(***************************************************************************)
(* Two components, one after the other: the directory, then a channel of   *)
(* the ring.  Neither proof uses the other.                                *)
(***************************************************************************)
EXTENDS Directory, RingChan, Basics_proofs

-----------------------------------------------------------------------------
(***************************************************************************)
(* The directory for any lines, sets, ways and slots.                      *)
(*                                                                         *)
(* A request is chosen a way from what it read two edges before (its row)  *)
(* and from what was held when it came by (d3.use).  Both may be stale     *)
(* when the choice is made.  The argument is that they are stale only      *)
(* where it does not matter: whoever writes a way holds it, the holder was *)
(* seen at d2, and so the row is exact in every way the choice can fall    *)
(* on.  For this it has to be known, slot by slot, what is held (LockOf,   *)
(* RsvOf), that no two slots hold one way, what an entry that is held can  *)
(* contain, and which transaction is at which stage.                       *)
(***************************************************************************)

Asking == {"read", "repl"}
TxStates == {"idle", "read", "repl", "told", "done", "free"}

-----------------------------------------------------------------------------
(* The inductive invariant.                                                *)

StageRec == [kind : Asking, hn : Opt(Hn), line : Line, row : [Ways -> Opt(Line)]]
Passing == [kind : {"write", "ghost"}, hn : {<<>>}, line : Line, row : {<<>>}]
TxRec == [st : TxStates, line : Opt(Line), way : Ways, hit : BOOLEAN, room : BOOLEAN]

Types ==
  /\ DirTypeOK
  /\ sf \in BOOLEAN
  /\ sft \in [1 .. 4 -> Opt(StageRec \cup Passing)]
  /\ \A d \in 1 .. 4 : Is(d, Asking) => Req(d).hn # <<>>
  /\ tx \in [Hn -> TxRec]
  /\ evicted \subseteq Line

\* Requests are two edges apart, and nothing comes behind a replacement.
Spaced ==
  /\ \A d \in 1 .. 3 : sft[d] # <<>> => sft[d + 1] = <<>>
  /\ \A d, e \in 1 .. 4 : Is(d, {"repl"}) /\ e < d => sft[e] = <<>>

\* A transaction that has asked is at exactly one stage, as what it asked for.
Slot(d) == Req(d).hn[1]
AtStage(h, d) == Is(d, Asking) /\ Slot(d) = h
TxKnows ==
  /\ \A d \in 1 .. 4 : Is(d, Asking) =>
        tx[Slot(d)].st = Req(d).kind /\ tx[Slot(d)].line = <<Req(d).line>>
  /\ \A d, e \in 1 .. 4 : Is(d, Asking) /\ Is(e, Asking) /\ Slot(d) = Slot(e) => d = e
  /\ \A h \in Hn : tx[h].st \in Asking => \E d \in 1 .. 4 : AtStage(h, d)

\* A line is one transaction's, and not a victim's unless that transaction
\* has let go of it.
TxShape ==
  /\ \A h \in Hn : tx[h].st = "idle" <=> tx[h].line = <<>>
  /\ \A h \in Hn : tx[h].st = "told" /\ tx[h].hit => ~tx[h].room
  /\ \A g, h \in Hn : tx[g].line = tx[h].line /\ g # h => tx[g].line = <<>>
  /\ \A h \in Hn : tx[h].st # "free" => \A l \in evicted : tx[h].line # <<l>>

\* What a slot holds, by what its transaction has been told.
Place(s, w) == [set |-> s, way |-> w]
TxSet(h) == SetOf[tx[h].line[1]]
TxPlace(h) == Place(TxSet(h), tx[h].way)
LockOf(h) ==
  IF tx[h].st = "done" \/ (tx[h].st = "told" /\ tx[h].hit) THEN <<TxPlace(h)>>
  ELSE IF AtStage(h, 4) /\ (d4.hit \/ ReplD0) THEN <<Place(SetAt(4), d4.way)>> ELSE <<>>
RsvOf(h) ==
  IF sf /\ tx[h].st = "told" /\ ~tx[h].hit /\ tx[h].room THEN <<TxPlace(h)>>
  ELSE IF sf /\ AtStage(h, 4) /\ ~d4.hit /\ ~ReplD0 /\ d4.old = <<>>
       THEN <<Place(SetAt(4), d4.way)>> ELSE <<>>
Holds(h) == {p \in [set : DirSet, way : Ways] : lock[h] = <<p>> \/ rsv[h] = <<p>>}
HoldsKnown == \A h \in Hn : lock[h] = LockOf(h) /\ rsv[h] = RsvOf(h)
HoldsApart == \A g, h \in Hn : g # h => Holds(g) \cap Holds(h) = {}

\* The entries.
InSet == \A s \in DirSet, w \in Ways, l \in Line : entry[s][w] = <<l>> => SetOf[l] = s
DoneEmpty == \A h \in Hn : tx[h].st = "done" /\ ~tx[h].hit => entry[TxSet(h)][tx[h].way] = <<>>

\* What the stages know.
RowTells ==
  /\ \A d \in 1 .. 3 : Is(d, Asking) => \A w \in Ways :
       Req(d).row[w] = <<Req(d).line>> <=> entry[SetAt(d)][w] = <<Req(d).line>>
  /\ \A d \in 1 .. 2 : Is(d, Asking) => Req(d).row = entry[SetAt(d)]
  /\ \A d \in 1 .. 4 : Is(d, {"repl"}) => ~Has(Req(d).line)

HeldIn(s) == {w \in Ways : \E h \in Hn : Place(s, w) \in Holds(h)}
AtD3 ==
  Is(3, Asking) =>
    /\ HeldIn(SetAt(3)) \subseteq d3.use
    /\ d3.spare \notin d3.use
    /\ \A w \in Ways \ d3.use : Req(3).row[w] = entry[SetAt(3)][w]
    /\ \A w \in d3.use : Req(3).row[w] # <<Req(3).line>>
AtD4 ==
  Is(4, Asking) =>
    /\ entry[SetAt(4)][d4.way] = d4.old
    /\ d4.hit <=> d4.old = <<Req(4).line>>
    /\ ~d4.hit => ~Has(Req(4).line)
    /\ ReplD0 => ~d4.hit

DirIInv ==
  /\ Types /\ Spaced /\ TxKnows /\ TxShape /\ HoldsKnown /\ HoldsApart
  /\ OneCopy /\ InSet /\ WayKept /\ DoneEmpty /\ RowTells /\ AtD3 /\ AtD4

-----------------------------------------------------------------------------
(* An edge: the requests that are taken, and what they do.                 *)

Took(in) ==
  /\ in.read \in Opt(Reads) /\ in.write \in Opt(Writes)
  /\ in.read = <<>> \/ in.write = <<>>
  /\ in.read # <<>> \/ in.write # <<>> => CommonRdy
  /\ in.pick \in Ways
  /\ in.unlock \in Opt({h \in Hn : tx[h].st \in {"told", "done", "free"}
                                   /\ (in.write # <<>> => in.write[1].hn # h)})
Edge(in) == Took(in) /\ DirTick(in) /\ Surroundings(in)

LEMMA EdgeOf == ASSUME DirNext PROVE \E in : Edge(in)
<1>1. PICK req \in Requests, pick \in IF Is(2, {"read", "repl"}) THEN Ways ELSE {0} :
        \E unlock \in Opt(Unlocks(req)), clean \in Opt(evicted) :
          LET in == [read |-> req.read, write |-> req.write, pick |-> pick, unlock |-> unlock,
                     clean |-> clean]
          IN DirTick(in) /\ Surroundings(in)
  BY DEF DirNext
<1>2. PICK unlock \in Opt(Unlocks(req)), clean \in Opt(evicted) :
          LET in == [read |-> req.read, write |-> req.write, pick |-> pick, unlock |-> unlock,
                     clean |-> clean]
          IN DirTick(in) /\ Surroundings(in)
  BY <1>1
<1> DEFINE in == [read |-> req.read, write |-> req.write, pick |-> pick, unlock |-> unlock,
                  clean |-> clean]
<1>3. DirTick(in) /\ Surroundings(in)
  BY <1>2
<1>4. /\ in.read = req.read /\ in.write = req.write /\ in.pick = pick /\ in.unlock = unlock
  OBVIOUS
<1>5. /\ req.read \in Opt(Reads) /\ req.write \in Opt(Writes)
      /\ req.read = <<>> \/ req.write = <<>>
      /\ req.read # <<>> \/ req.write # <<>> => CommonRdy
  <2>1. <<>> \in Opt(Reads) /\ <<>> \in Opt(Writes) /\ \A w \in Writes : <<w>> \in Opt(Writes)
    BY DEF Opt
  <2> HIDE DEF in
  <2> QED BY <2>1 DEF Requests
<1>6. pick \in Ways
  BY DirAssumption
<1>7. Took(in)
  <2> HIDE DEF in
  <2> QED BY <1>4, <1>5, <1>6 DEF Took, Unlocks
<1> HIDE DEF in
<1> QED BY <1>3, <1>7 DEF Edge

\* What comes in at d0.
ReadIn(in, h, l) ==
  /\ in.read = <<[hn |-> h, line |-> l]>> /\ in.write = <<>>
  /\ tx[h].st = "idle" /\ ~Busy(l)
WriteIn(in, h, l, kind, keep) ==
  /\ in.read = <<>>
  /\ in.write = <<[hn |-> h, line |-> l, way |-> tx[h].way, kind |-> kind, keep |-> keep]>>
HitIn(in, h, l, keep) ==
  /\ WriteIn(in, h, l, "hit", keep) /\ keep \in BOOLEAN
  /\ tx[h].st = "told" /\ tx[h].hit /\ tx[h].line = <<l>>
DirectIn(in, h, l) ==
  /\ WriteIn(in, h, l, "direct", TRUE) /\ sf
  /\ tx[h].st = "told" /\ ~tx[h].hit /\ tx[h].room /\ tx[h].line = <<l>>
NohitIn(in, h, l) ==
  /\ WriteIn(in, h, l, "nohit", TRUE)
  /\ \/ tx[h].st = "told" /\ ~tx[h].hit /\ (sf => ~tx[h].room) /\ tx[h].line = <<l>>
     \/ ~sf /\ tx[h].st = "idle" /\ ~Busy(l) /\ ~Has(l)

LEMMA TxType ==
  ASSUME DirIInv, NEW h \in Hn
  PROVE  /\ tx[h] \in TxRec /\ tx[h].way \in Ways /\ tx[h].st \in TxStates
         /\ tx[h].hit \in BOOLEAN /\ tx[h].room \in BOOLEAN
         /\ (tx[h].st = "idle" <=> tx[h].line = <<>>)
         /\ tx[h].st # "idle" => /\ tx[h].line[1] \in Line /\ tx[h].line = <<tx[h].line[1]>>
                                 /\ TxSet(h) \in DirSet
<1>1. tx[h] \in TxRec /\ (tx[h].st = "idle" <=> tx[h].line = <<>>)
  BY DEF DirIInv, Types, TxShape
<1>2. tx[h].line \in Opt(Line) /\ tx[h].way \in Ways /\ tx[h].st \in TxStates
      /\ tx[h].hit \in BOOLEAN /\ tx[h].room \in BOOLEAN
  BY <1>1 DEF TxRec
<1>3. ASSUME tx[h].line # <<>> PROVE tx[h].line[1] \in Line /\ tx[h].line = <<tx[h].line[1]>>
  BY <1>2, <1>3 DEF Opt
<1> QED BY <1>1, <1>2, <1>3, DirAssumption DEF TxSet

\* Writes, kind by kind.
LEMMA WriteKinds ==
  ASSUME NEW r \in Writes
  PROVE  \/ \E h \in Told(TRUE, FALSE), keep \in BOOLEAN : r = Wr(h, tx[h].line[1], "hit", keep)
         \/ \E h \in Told(FALSE, TRUE) :
              r = Wr(h, tx[h].line[1], IF sf THEN "direct" ELSE "nohit", TRUE)
         \/ \E h \in Told(FALSE, FALSE) : r = Wr(h, tx[h].line[1], "nohit", TRUE)
         \/ \E h \in Idle, l \in Line : ~sf /\ ~Busy(l) /\ ~Has(l) /\ r = Wr(h, l, "nohit", TRUE)
<1> DEFINE A == {Wr(h, tx[h].line[1], "hit", keep) : h \in Told(TRUE, FALSE), keep \in BOOLEAN}
           B == {Wr(h, tx[h].line[1], IF sf THEN "direct" ELSE "nohit", TRUE) : h \in Told(FALSE, TRUE)}
           C == {Wr(h, tx[h].line[1], "nohit", TRUE) : h \in Told(FALSE, FALSE)}
           D == {Wr(h, l, "nohit", TRUE) : h \in IF sf THEN {} ELSE Idle,
                                           l \in {k \in Line : ~Busy(k) /\ ~Has(k)}}
<1>1. Writes = A \cup B \cup C \cup D
  BY DEF Writes
<1>2. r \in A \/ r \in B \/ r \in C \/ r \in D
  <2> HIDE DEF A, B, C, D
  <2> QED BY <1>1
<1>3. r \in A => \E h \in Told(TRUE, FALSE), keep \in BOOLEAN : r = Wr(h, tx[h].line[1], "hit", keep)
  BY DEF Wr, Told
<1>4. r \in B => \E h \in Told(FALSE, TRUE) :
              r = Wr(h, tx[h].line[1], IF sf THEN "direct" ELSE "nohit", TRUE)
  BY Zenon
<1>5. r \in C => \E h \in Told(FALSE, FALSE) : r = Wr(h, tx[h].line[1], "nohit", TRUE)
  BY Zenon
<1>6. r \in D => \E h \in Idle, l \in Line : ~sf /\ ~Busy(l) /\ ~Has(l) /\ r = Wr(h, l, "nohit", TRUE)
  <2> HIDE DEF D
  <2>1. HAVE r \in D
  <2>2. PICK h \in IF sf THEN {} ELSE Idle, l \in {k \in Line : ~Busy(k) /\ ~Has(k)} :
          r = [hn |-> h, line |-> l, way |-> tx[h].way, kind |-> "nohit", keep |-> TRUE]
    BY <2>1 DEF D, Wr
  <2>3. ~sf /\ h \in Idle /\ l \in Line /\ ~Busy(l) /\ ~Has(l)
    BY <2>2
  <2>4. r = Wr(h, l, "nohit", TRUE)
    BY <2>2 DEF Wr
  <2>5. h \in Idle /\ l \in Line
    BY <2>3
  <2> WITNESS h \in Idle, l \in Line
  <2> QED BY <2>3, <2>4
<1> HIDE DEF A, B, C, D
<1> QED BY <1>2, <1>3, <1>4, <1>5, <1>6, Zenon

LEMMA D0 ==
  ASSUME DirIInv, NEW in, Took(in)
  PROVE  \/ in.read = <<>> /\ in.write = <<>>
         \/ \E h \in Hn, l \in Line : ReadIn(in, h, l)
         \/ \E h \in Hn, l \in Line, keep \in BOOLEAN : HitIn(in, h, l, keep)
         \/ \E h \in Hn, l \in Line : DirectIn(in, h, l)
         \/ \E h \in Hn, l \in Line : NohitIn(in, h, l)
<1>1. CASE in.read # <<>>
  <2>1. PICK r \in Reads : in.read = <<r>>
    BY <1>1 DEF Took, Opt
  <2>2. PICK h \in Idle, l \in {k \in Line : ~Busy(k)} : r = [hn |-> h, line |-> l]
    BY <2>1 DEF Reads
  <2>3. in.write = <<>>
    BY <1>1 DEF Took
  <2> QED BY <2>1, <2>2, <2>3 DEF ReadIn, Idle
<1>2. CASE in.write # <<>>
  <2>1. PICK r \in Writes : in.write = <<r>>
    BY <1>2 DEF Took, Opt
  <2>2. in.read = <<>>
    BY <1>2 DEF Took
  <2>3. \A h \in Hn : tx[h].st = "told" => tx[h].line[1] \in Line /\ tx[h].line = <<tx[h].line[1]>>
    BY TxType
  <2>4. CASE \E h \in Told(TRUE, FALSE), keep \in BOOLEAN : r = Wr(h, tx[h].line[1], "hit", keep)
    <3>1. PICK h \in Told(TRUE, FALSE), keep \in BOOLEAN : r = Wr(h, tx[h].line[1], "hit", keep)
      BY <2>4
    <3>2. h \in Hn /\ tx[h].st = "told" /\ tx[h].hit = TRUE
      BY DEF Told
    <3>3. HitIn(in, h, tx[h].line[1], keep)
      BY <2>1, <2>2, <2>3, <3>1, <3>2 DEF HitIn, WriteIn, Wr
    <3> QED BY <2>3, <3>2, <3>3
  <2>5. CASE \E h \in Told(FALSE, TRUE) :
               r = Wr(h, tx[h].line[1], IF sf THEN "direct" ELSE "nohit", TRUE)
    <3>1. PICK h \in Told(FALSE, TRUE) : r = Wr(h, tx[h].line[1], IF sf THEN "direct" ELSE "nohit", TRUE)
      BY <2>5
    <3>2. h \in Hn /\ tx[h].st = "told" /\ tx[h].hit = FALSE /\ tx[h].room = TRUE
      BY DEF Told
    <3>3. CASE sf
      <4>1. DirectIn(in, h, tx[h].line[1])
        BY <2>1, <2>2, <2>3, <3>1, <3>2, <3>3 DEF DirectIn, WriteIn, Wr
      <4> QED BY <2>3, <3>2, <4>1
    <3>4. CASE ~sf
      <4>1. NohitIn(in, h, tx[h].line[1])
        BY <2>1, <2>2, <2>3, <3>1, <3>2, <3>4 DEF NohitIn, WriteIn, Wr
      <4> QED BY <2>3, <3>2, <4>1
    <3> QED BY <3>3, <3>4
  <2>6. CASE \E h \in Told(FALSE, FALSE) : r = Wr(h, tx[h].line[1], "nohit", TRUE)
    <3>1. PICK h \in Told(FALSE, FALSE) : r = Wr(h, tx[h].line[1], "nohit", TRUE)
      BY <2>6
    <3>2. h \in Hn /\ tx[h].st = "told" /\ tx[h].hit = FALSE /\ tx[h].room = FALSE
      BY DEF Told
    <3>3. NohitIn(in, h, tx[h].line[1])
      BY <2>1, <2>2, <2>3, <3>1, <3>2 DEF NohitIn, WriteIn, Wr
    <3> QED BY <2>3, <3>2, <3>3
  <2>7. CASE \E h \in Idle, l \in Line : ~sf /\ ~Busy(l) /\ ~Has(l) /\ r = Wr(h, l, "nohit", TRUE)
    <3>1. PICK h \in Idle, l \in Line : ~sf /\ ~Busy(l) /\ ~Has(l) /\ r = Wr(h, l, "nohit", TRUE)
      BY <2>7
    <3>2. h \in Hn /\ tx[h].st = "idle"
      BY DEF Idle
    <3>3. NohitIn(in, h, l)
      BY <2>1, <2>2, <3>1, <3>2 DEF NohitIn, WriteIn, Wr
    <3> QED BY <3>2, <3>3
  <2> QED BY <2>1, <2>4, <2>5, <2>6, <2>7, WriteKinds
<1> QED BY <1>1, <1>2
-----------------------------------------------------------------------------
(* What an edge does.                                                      *)

\* A request that is offered is taken; none is while a victim is written.
LEMMA Fires ==
  ASSUME NEW in, Took(in)
  PROVE  /\ WrFire(in) = in.write /\ RdFire(in) = in.read
         /\ ReplD0 => in.read = <<>> /\ in.write = <<>>
         /\ sft[1] # <<>> => in.read = <<>> /\ in.write = <<>>
         /\ \A d \in 1 .. 4 : Is(d, {"repl"}) => in.read = <<>> /\ in.write = <<>>
  BY DEF Took, WrFire, RdFire, CommonRdy, ReplD0

LEMMA StageType ==
  ASSUME DirIInv, NEW d \in 1 .. 4, Is(d, Asking)
  PROVE  /\ Req(d) \in StageRec /\ sft[d] = <<Req(d)>> /\ Req(d).line \in Line
         /\ Slot(d) \in Hn /\ Req(d).hn = <<Slot(d)>>
         /\ SetAt(d) \in DirSet /\ Req(d).kind \in Asking
         /\ Req(d).row \in [Ways -> Opt(Line)]
         /\ tx[Slot(d)].st = Req(d).kind /\ tx[Slot(d)].line = <<Req(d).line>>
         /\ TxSet(Slot(d)) = SetAt(d)
<1>1. sft[d] \in Opt(StageRec \cup Passing) /\ sft[d] # <<>> /\ Req(d).kind \in Asking /\ Req(d).hn # <<>>
  BY DEF DirIInv, Types, Is, Req
<1>2. PICK r \in StageRec \cup Passing : sft[d] = <<r>>
  BY <1>1 DEF Opt
<1>3. Req(d) = r
  BY <1>2 DEF Req
<1>4. Req(d) \in StageRec
  BY <1>1, <1>3 DEF Passing, Asking
<1>5. Req(d).line \in Line /\ Req(d).hn \in Opt(Hn) /\ Req(d).row \in [Ways -> Opt(Line)]
  BY <1>4 DEF StageRec
<1>6. Slot(d) \in Hn /\ Req(d).hn = <<Slot(d)>>
  BY <1>1, <1>5 DEF Opt, Slot
<1>7. SetAt(d) \in DirSet
  BY <1>5, DirAssumption DEF SetAt
<1>8. tx[Slot(d)].st = Req(d).kind /\ tx[Slot(d)].line = <<Req(d).line>>
  BY DEF DirIInv, TxKnows
<1> QED BY <1>1, <1>2, <1>3, <1>4, <1>5, <1>6, <1>7, <1>8 DEF TxSet, SetAt

\* Every request moves on by one stage.
LEMMA Moves ==
  ASSUME NEW in, DirTick(in), NEW d \in 1 .. 3
  PROVE  /\ sft'[d + 1] = sft[d] /\ sft'[1] = Entering(in)
         /\ Is(d + 1, Asking)' <=> Is(d, Asking)
         /\ Is(d + 1, {"repl"})' <=> Is(d, {"repl"})
         /\ Req(d + 1)' = Req(d) /\ SetAt(d + 1)' = SetAt(d) /\ Slot(d + 1)' = Slot(d)
         /\ \A h : AtStage(h, d + 1)' <=> AtStage(h, d)
<1>1. sft' = [e \in 1 .. 4 |-> IF e = 1 THEN Entering(in) ELSE sft[e - 1]]
  BY DEF DirTick
<1>2. sft'[d + 1] = sft[d] /\ sft'[1] = Entering(in)
  BY <1>1
<1> QED BY <1>2 DEF Is, Req, SetAt, Slot, AtStage, Asking

LEMMA Enters ==
  ASSUME DirIInv, NEW in, Edge(in)
  PROVE  /\ sft'[1] = Entering(in)
         /\ Is(1, Asking)' <=> \E h \in Hn, l \in Line : ReadIn(in, h, l) \/ NohitIn(in, h, l)
         /\ Is(1, {"repl"})' <=> \E h \in Hn, l \in Line : NohitIn(in, h, l)
         /\ \A h \in Hn, l \in Line : ReadIn(in, h, l) =>
              Entering(in) = <<[kind |-> "read", hn |-> <<h>>, line |-> l, row |-> entry[SetOf[l]]]>>
         /\ \A h \in Hn, l \in Line : NohitIn(in, h, l) =>
              Entering(in) = <<[kind |-> "repl", hn |-> <<h>>, line |-> l, row |-> entry[SetOf[l]]]>>
         /\ Entering(in) # <<>> => sft[1] = <<>>
         /\ Entering(in) \in Opt(StageRec \cup Passing)
<1> DEFINE e == Entering(in)
<1>0. Took(in) /\ DirTick(in)
  BY DEF Edge
<1>1. sft'[1] = e
  BY <1>0, Moves, 1 \in 1 .. 3
<1>2. WrFire(in) = in.write /\ RdFire(in) = in.read /\ (ReplD0 => in.read = <<>> /\ in.write = <<>>)
  BY <1>0, Fires
<1>3. CASE ReplD0
  <2>1. e = <<[kind |-> "ghost", hn |-> <<>>, line |-> Req(4).line, row |-> <<>>]>>
    BY <1>3 DEF Entering
  <2>2. Is(4, Asking) /\ Req(4).kind = "repl"
    BY <1>3 DEF ReplD0, Is, Asking, Req
  <2>3. Req(4).line \in Line
    BY <2>2, StageType
  <2>4. sft[1] = <<>>
    BY <1>3 DEF DirIInv, Spaced, ReplD0
  <2>5. in.read = <<>> /\ in.write = <<>>
    BY <1>2, <1>3
  <2>6. e \in Opt(StageRec \cup Passing)
    BY <2>1, <2>3 DEF Opt, Passing
  <2>7. ~Is(1, Asking)' /\ ~Is(1, {"repl"})'
    BY <1>1, <2>1 DEF Is, Asking
  <2>8. \A h \in Hn, l \in Line : ~ReadIn(in, h, l) /\ ~NohitIn(in, h, l)
    BY <2>5 DEF ReadIn, NohitIn, WriteIn
  <2> QED BY <1>1, <2>4, <2>6, <2>7, <2>8
<1>4. CASE ~ReplD0 /\ in.read = <<>> /\ in.write = <<>>
  <2>1. e = <<>>
    BY <1>2, <1>4 DEF Entering
  <2>2. ~Is(1, Asking)' /\ ~Is(1, {"repl"})'
    BY <1>1, <2>1 DEF Is
  <2>3. \A h \in Hn, l \in Line : ~ReadIn(in, h, l) /\ ~NohitIn(in, h, l)
    BY <1>4 DEF ReadIn, NohitIn, WriteIn
  <2> QED BY <1>1, <2>1, <2>2, <2>3 DEF Opt
<1>5. ASSUME NEW h \in Hn, NEW l \in Line, ReadIn(in, h, l), ~ReplD0
      PROVE  /\ e = <<[kind |-> "read", hn |-> <<h>>, line |-> l, row |-> entry[SetOf[l]]]>>
             /\ e \in Opt(StageRec \cup Passing) /\ sft[1] = <<>>
  <2>1. e = <<[kind |-> "read", hn |-> <<h>>, line |-> l, row |-> entry[SetOf[l]]]>>
    BY <1>2, <1>5 DEF Entering, ReadIn
  <2>2. sft[1] = <<>>
    BY <1>0, <1>5, Fires DEF ReadIn
  <2>3. entry[SetOf[l]] \in [Ways -> Opt(Line)]
    BY DirAssumption DEF DirIInv, Types, DirTypeOK
  <2>4. e \in Opt(StageRec \cup Passing)
    BY <2>1, <2>3 DEF Opt, StageRec, Asking
  <2> QED BY <2>1, <2>2, <2>4
<1>6. ASSUME NEW h \in Hn, NEW l \in Line, NohitIn(in, h, l), ~ReplD0
      PROVE  /\ e = <<[kind |-> "repl", hn |-> <<h>>, line |-> l, row |-> entry[SetOf[l]]]>>
             /\ e \in Opt(StageRec \cup Passing) /\ sft[1] = <<>>
  <2>1. e = <<[kind |-> "repl", hn |-> <<h>>, line |-> l, row |-> entry[SetOf[l]]]>>
    BY <1>2, <1>6 DEF Entering, NohitIn, WriteIn
  <2>2. sft[1] = <<>>
    BY <1>0, <1>6, Fires DEF NohitIn, WriteIn
  <2>3. entry[SetOf[l]] \in [Ways -> Opt(Line)]
    BY DirAssumption DEF DirIInv, Types, DirTypeOK
  <2>4. e \in Opt(StageRec \cup Passing)
    BY <2>1, <2>3 DEF Opt, StageRec, Asking
  <2> QED BY <2>1, <2>2, <2>4
<1>7. ASSUME NEW h \in Hn, NEW l \in Line, NEW keep \in BOOLEAN, ~ReplD0,
             HitIn(in, h, l, keep) \/ DirectIn(in, h, l)
      PROVE  /\ e = <<[kind |-> "write", hn |-> <<>>, line |-> l, row |-> <<>>]>>
             /\ e \in Opt(StageRec \cup Passing) /\ sft[1] = <<>>
             /\ in.read = <<>> /\ in.write[1].kind # "nohit"
  <2>1. e = <<[kind |-> "write", hn |-> <<>>, line |-> l, row |-> <<>>]>>
    BY <1>2, <1>7 DEF Entering, HitIn, DirectIn, WriteIn
  <2>2. sft[1] = <<>>
    BY <1>0, <1>7, Fires DEF HitIn, DirectIn, WriteIn
  <2>3. e \in Opt(StageRec \cup Passing)
    BY <2>1 DEF Opt, Passing
  <2>4. in.read = <<>> /\ in.write[1].kind # "nohit"
    BY <1>7 DEF HitIn, DirectIn, WriteIn
  <2> QED BY <2>1, <2>2, <2>3, <2>4
<1>8. CASE ~ReplD0
  <2> HIDE DEF e
  <2>1. CASE \E h \in Hn, l \in Line : ReadIn(in, h, l)
    <3>1. PICK h \in Hn, l \in Line : ReadIn(in, h, l)
      BY <2>1
    <3>2. Is(1, Asking)' /\ ~Is(1, {"repl"})'
      BY <1>1, <1>5, <1>8, <3>1 DEF Is, Asking
    <3>3. \A g \in Hn, k \in Line : ~NohitIn(in, g, k)
      BY <3>1 DEF ReadIn, NohitIn, WriteIn
    <3> QED BY <1>1, <1>5, <1>8, <3>1, <3>2, <3>3 DEF e
  <2>2. CASE \E h \in Hn, l \in Line : NohitIn(in, h, l)
    <3>1. PICK h \in Hn, l \in Line : NohitIn(in, h, l)
      BY <2>2
    <3>2. Is(1, Asking)' /\ Is(1, {"repl"})'
      BY <1>1, <1>6, <1>8, <3>1 DEF Is, Asking
    <3>3. \A g \in Hn, k \in Line : ~ReadIn(in, g, k)
      BY <3>1 DEF ReadIn, NohitIn, WriteIn
    <3> QED BY <1>1, <1>6, <1>8, <3>1, <3>2, <3>3 DEF e
  <2>3. CASE \E h \in Hn, l \in Line : (\E keep \in BOOLEAN : HitIn(in, h, l, keep)) \/ DirectIn(in, h, l)
    <3>1. PICK h \in Hn, l \in Line, keep \in BOOLEAN : HitIn(in, h, l, keep) \/ DirectIn(in, h, l)
      BY <2>3
    <3>2. ~Is(1, Asking)' /\ ~Is(1, {"repl"})'
      BY <1>1, <1>7, <1>8, <3>1 DEF Is, Asking
    <3>3. \A g \in Hn, k \in Line : ~ReadIn(in, g, k) /\ ~NohitIn(in, g, k)
      BY <1>7, <1>8, <3>1 DEF ReadIn, NohitIn, WriteIn
    <3> QED BY <1>1, <1>7, <1>8, <3>1, <3>2, <3>3 DEF e
  <2> QED BY <1>0, <1>4, <1>8, <2>1, <2>2, <2>3, D0 DEF e
<1> QED BY <1>3, <1>8

\* At most one entry is written, by a slot that holds it.
Drops(in, h) == \E l \in Line, keep \in BOOLEAN : HitIn(in, h, l, keep) /\ keep = FALSE
Fills(in, h) == \E l \in Line : DirectIn(in, h, l)
Swaps(h) == ReplD0 /\ AtStage(h, 4)
Writer(in, h) == Drops(in, h) \/ Fills(in, h) \/ Swaps(h)
WrittenWay(h) == IF ReplD0 THEN d4.way ELSE tx[h].way

LEMMA HoldsAre ==
  ASSUME NEW h, NEW s \in DirSet, NEW w \in Ways
  PROVE  Place(s, w) \in Holds(h) <=> lock[h] = <<Place(s, w)>> \/ rsv[h] = <<Place(s, w)>>
  BY DEF Holds, Place

\* WayKept and DoneEmpty, slot by slot.
LEMMA TxKept ==
  ASSUME DirIInv, NEW h \in Hn, tx[h].st \in {"told", "done"}
  PROVE  /\ tx[h].hit => entry[TxSet(h)][tx[h].way] = tx[h].line
         /\ ~tx[h].hit => ~Has(tx[h].line[1])
         /\ ~tx[h].hit /\ (tx[h].st = "done" \/ (sf /\ tx[h].room)) => entry[TxSet(h)][tx[h].way] = <<>>
<1>1. tx[h].line = <<tx[h].line[1]>>
  BY TxType
<1> DEFINE l == tx[h].line[1]
<1>2. /\ tx[h].hit => entry[SetOf[l]][tx[h].way] = <<l>>
      /\ ~tx[h].hit => ~Has(l)
      /\ ~tx[h].hit /\ sf /\ tx[h].room => entry[SetOf[l]][tx[h].way] = <<>>
  BY DEF DirIInv, WayKept
<1>3. ~tx[h].hit /\ tx[h].st = "done" => entry[SetOf[l]][tx[h].way] = <<>>
  BY DEF DirIInv, DoneEmpty, TxSet
<1> QED BY <1>1, <1>2, <1>3 DEF TxSet

LEMMA WritersHold ==
  ASSUME DirIInv, NEW in, Edge(in), NEW h \in Hn, Writer(in, h)
  PROVE  /\ entry' = [entry EXCEPT ![TxSet(h)][WrittenWay(h)] =
                                   IF Drops(in, h) THEN <<>> ELSE tx[h].line]
         /\ Place(TxSet(h), WrittenWay(h)) \in Holds(h)
         /\ TxSet(h) \in DirSet /\ WrittenWay(h) \in Ways
         /\ Drops(in, h) => entry[TxSet(h)][WrittenWay(h)] = tx[h].line
         /\ ~Drops(in, h) => ~Has(tx[h].line[1])
         /\ tx[h].line[1] \in Line /\ tx[h].line = <<tx[h].line[1]>>
         /\ tx[h].st \notin {"idle", "free", "done"}
<1>0. Took(in) /\ DirTick(in) /\ entry' = NextEntry(in) /\ lock[h] = LockOf(h) /\ rsv[h] = RsvOf(h)
  BY DEF Edge, DirTick, DirIInv, HoldsKnown
<1>1. WrFire(in) = in.write /\ (ReplD0 => in.write = <<>>)
  BY <1>0, Fires
<1>2. CASE Swaps(h)
  <2>1. Is(4, Asking) /\ Slot(4) = h /\ ReplD0
    BY <1>2 DEF Swaps, AtStage
  <2>2. /\ tx[h].st = Req(4).kind /\ tx[h].line = <<Req(4).line>> /\ TxSet(h) = SetAt(4)
        /\ SetAt(4) \in DirSet /\ Req(4).line \in Line
    BY <2>1, StageType
  <2>3. Req(4).kind = "repl"
    BY <2>1 DEF ReplD0, Is, Req
  <2>4. d4.way \in Ways
    BY DEF DirIInv, Types, DirTypeOK
  <2>5. ~Drops(in, h)
    <3>1. ASSUME NEW l \in Line, NEW keep \in BOOLEAN, HitIn(in, h, l, keep) PROVE in.write # <<>>
      BY <3>1 DEF HitIn, WriteIn
    <3> QED BY <1>1, <2>1, <3>1 DEF Drops
  <2>6. entry' = [entry EXCEPT ![TxSet(h)][WrittenWay(h)] = tx[h].line]
    BY <1>0, <2>1, <2>2 DEF NextEntry, WrittenWay
  <2>7. lock[h] = <<Place(SetAt(4), d4.way)>>
    BY <1>0, <2>1, <2>2, <2>3 DEF LockOf, AtStage
  <2>8. ~Has(Req(4).line)
    BY <2>1 DEF DirIInv, RowTells, ReplD0
  <2> QED BY <2>1, <2>2, <2>3, <2>4, <2>5, <2>6, <2>7, <2>8, HoldsAre DEF WrittenWay
<1>3. CASE Drops(in, h)
  <2>1. PICK l \in Line, keep \in BOOLEAN : HitIn(in, h, l, keep) /\ keep = FALSE
    BY <1>3 DEF Drops
  <2>2. ~ReplD0
    BY <1>1, <2>1 DEF HitIn, WriteIn
  <2>3. tx[h].st = "told" /\ tx[h].hit /\ tx[h].line = <<l>>
    BY <2>1 DEF HitIn
  <2>4. TxSet(h) = SetOf[l] /\ TxSet(h) \in DirSet /\ tx[h].way \in Ways
    BY <2>3, TxType DEF TxSet
  <2>9. in.write # <<>> /\ in.write[1].line = l /\ in.write[1].way = tx[h].way /\ in.write[1].kind = "hit"
        /\ in.write[1].keep = FALSE
    BY <2>1 DEF HitIn, WriteIn
  <2>5. entry' = [entry EXCEPT ![TxSet(h)][tx[h].way] = <<>>]
    BY <1>0, <1>1, <2>9, <2>2, <2>4 DEF NextEntry
  <2>6. lock[h] = <<Place(TxSet(h), tx[h].way)>>
    BY <1>0, <2>3 DEF LockOf, TxPlace
  <2>7. entry[TxSet(h)][tx[h].way] = tx[h].line
    BY <2>3, TxKept
  <2> QED BY <1>3, <2>2, <2>3, <2>4, <2>5, <2>6, <2>7, HoldsAre DEF WrittenWay
<1>4. CASE Fills(in, h)
  <2>1. PICK l \in Line : DirectIn(in, h, l)
    BY <1>4 DEF Fills
  <2>2. ~ReplD0
    BY <1>1, <2>1 DEF DirectIn, WriteIn
  <2>3. tx[h].st = "told" /\ ~tx[h].hit /\ tx[h].room /\ sf /\ tx[h].line = <<l>>
    BY <2>1 DEF DirectIn
  <2>4. TxSet(h) = SetOf[l] /\ TxSet(h) \in DirSet /\ tx[h].way \in Ways
    BY <2>3, TxType DEF TxSet
  <2>9. in.write # <<>> /\ in.write[1].line = l /\ in.write[1].way = tx[h].way /\ in.write[1].kind = "direct"
    BY <2>1 DEF DirectIn, WriteIn
  <2>5. entry' = [entry EXCEPT ![TxSet(h)][tx[h].way] = tx[h].line]
    BY <1>0, <1>1, <2>9, <2>2, <2>3, <2>4 DEF NextEntry
  <2>6. rsv[h] = <<Place(TxSet(h), tx[h].way)>>
    BY <1>0, <2>3 DEF RsvOf, TxPlace
  <2>7. ~Has(tx[h].line[1])
    BY <2>3, TxKept
  <2>8. ~Drops(in, h)
    BY <2>3 DEF Drops, HitIn
  <2> QED BY <2>2, <2>3, <2>4, <2>5, <2>6, <2>7, <2>8, HoldsAre DEF WrittenWay
<1> QED BY <1>2, <1>3, <1>4 DEF Writer

LEMMA NoWriter ==
  ASSUME DirIInv, NEW in, Edge(in), \A h \in Hn : ~Writer(in, h)
  PROVE  entry' = entry
<1>0. Took(in) /\ DirTick(in) /\ entry' = NextEntry(in)
  BY DEF Edge, DirTick
<1>1. WrFire(in) = in.write
  BY <1>0, Fires
<1>2. ~ReplD0
  <2>1. SUFFICES ASSUME ReplD0 PROVE FALSE
    OBVIOUS
  <2>2. Is(4, Asking)
    BY <2>1 DEF ReplD0, Is, Asking
  <2> QED BY <2>1, <2>2, StageType DEF Writer, Swaps, AtStage
<1>3. CASE in.write = <<>> \/ in.write[1].kind = "nohit"
  BY <1>0, <1>1, <1>2, <1>3 DEF NextEntry
<1>4. CASE \E h \in Hn, l \in Line, keep \in BOOLEAN : HitIn(in, h, l, keep)
  <2>1. PICK h \in Hn, l \in Line, keep \in BOOLEAN : HitIn(in, h, l, keep)
    BY <1>4
  <2>2. keep = TRUE
    BY <2>1 DEF Writer, Drops
  <2>3. SetOf[l] \in DirSet /\ tx[h].way \in Ways
    BY TxType, DirAssumption
  <2>4. entry \in [DirSet -> [Ways -> Opt(Line)]]
    BY DEF DirIInv, Types, DirTypeOK
  <2>5. in.write # <<>> /\ in.write[1].line = l /\ in.write[1].way = tx[h].way /\ in.write[1].kind = "hit"
        /\ in.write[1].keep = TRUE
    BY <2>1, <2>2 DEF HitIn, WriteIn
  <2>6. entry' = [entry EXCEPT ![SetOf[l]][tx[h].way] = entry[SetOf[l]][tx[h].way]]
    BY <1>0, <1>1, <1>2, <2>5 DEF NextEntry
  <2>7. [entry EXCEPT ![SetOf[l]][tx[h].way] = entry[SetOf[l]][tx[h].way]] = entry
    BY <2>3, <2>4
  <2> QED BY <2>6, <2>7
<1>5. ASSUME NEW h \in Hn, NEW l \in Line, DirectIn(in, h, l) PROVE FALSE
  BY <1>5 DEF Writer, Fills
<1>6. ASSUME NEW h \in Hn, NEW l \in Line, ReadIn(in, h, l) \/ NohitIn(in, h, l)
      PROVE in.write = <<>> \/ in.write[1].kind = "nohit"
  BY <1>6 DEF ReadIn, NohitIn, WriteIn
<1> QED BY <1>0, <1>3, <1>4, <1>5, <1>6, D0

LEMMA EntryAt ==
  ASSUME DirIInv, NEW in, Edge(in), NEW s \in DirSet, NEW w \in Ways, entry'[s][w] # entry[s][w]
  PROVE  \E h \in Hn : /\ Writer(in, h) /\ s = TxSet(h) /\ w = WrittenWay(h)
                       /\ Place(s, w) \in Holds(h)
                       /\ entry'[s][w] = IF Drops(in, h) THEN <<>> ELSE tx[h].line
<1>1. PICK h \in Hn : Writer(in, h)
  BY NoWriter
<1>2. entry \in [DirSet -> [Ways -> Opt(Line)]]
  BY DEF DirIInv, Types, DirTypeOK
<1> DEFINE x == IF Drops(in, h) THEN <<>> ELSE tx[h].line
           t == TxSet(h)
           v == WrittenWay(h)
<1>3. entry' = [entry EXCEPT ![t][v] = x] /\ Place(t, v) \in Holds(h) /\ t \in DirSet /\ v \in Ways
  BY <1>1, WritersHold
<1> HIDE DEF x, t, v
<1>4. s = t /\ w = v /\ entry'[s][w] = x
  BY <1>2, <1>3
<1> QED BY <1>1, <1>3, <1>4 DEF x, t, v

LEMMA EntryType ==
  ASSUME DirIInv, NEW in, Edge(in)
  PROVE  entry' \in [DirSet -> [Ways -> Opt(Line)]]
<1>1. entry \in [DirSet -> [Ways -> Opt(Line)]]
  BY DEF DirIInv, Types, DirTypeOK
<1>2. CASE \E h \in Hn : Writer(in, h)
  <2>1. PICK h \in Hn : Writer(in, h)
    BY <1>2
  <2> DEFINE x == IF Drops(in, h) THEN <<>> ELSE tx[h].line
             t == TxSet(h)
             v == WrittenWay(h)
  <2>2. entry' = [entry EXCEPT ![t][v] = x] /\ t \in DirSet /\ v \in Ways
    BY <2>1, WritersHold
  <2>3. x \in Opt(Line)
    BY <2>1, WritersHold DEF Opt
  <2> HIDE DEF x, t, v
  <2> QED BY <1>1, <2>2, <2>3
<1> QED BY <1>1, <1>2, NoWriter

\* What a slot holds is written by nobody else, what nobody holds by nobody.
LEMMA HeldStays ==
  ASSUME DirIInv, NEW in, Edge(in), NEW s \in DirSet, NEW w \in Ways,
         \/ \E g \in Hn : ~Writer(in, g) /\ Place(s, w) \in Holds(g)
         \/ w \notin HeldIn(s)
  PROVE  entry'[s][w] = entry[s][w]
<1>1. SUFFICES ASSUME entry'[s][w] # entry[s][w] PROVE FALSE
  OBVIOUS
<1>2. PICK h \in Hn : Writer(in, h) /\ Place(s, w) \in Holds(h)
  BY <1>1, EntryAt
<1>3. w \in HeldIn(s)
  BY <1>2 DEF HeldIn
<1>4. PICK g \in Hn : ~Writer(in, g) /\ Place(s, w) \in Holds(g)
  BY <1>3
<1> QED BY <1>2, <1>4 DEF DirIInv, HoldsApart

\* A line comes into the directory only by its own transaction.
LEMMA LineComes ==
  ASSUME DirIInv, NEW in, Edge(in), NEW l \in Line, Has(l)', ~Has(l)
  PROVE  \E h \in Hn : Writer(in, h) /\ ~Drops(in, h) /\ tx[h].line = <<l>>
<1>1. PICK w \in Ways : entry'[SetOf[l]][w] = <<l>>
  BY DEF Has
<1>2. entry[SetOf[l]][w] # <<l>>
  BY DEF Has
<1>3. SetOf[l] \in DirSet
  BY DirAssumption
<1>4. PICK h \in Hn : Writer(in, h) /\ entry'[SetOf[l]][w] = IF Drops(in, h) THEN <<>> ELSE tx[h].line
  BY <1>1, <1>2, <1>3, EntryAt
<1>5. ~Drops(in, h)
  <2>1. <<l>> # <<>>
    OBVIOUS
  <2> QED BY <1>1, <1>4, <2>1
<1>6. tx[h].line = <<l>>
  BY <1>1, <1>4, <1>5
<1> QED BY <1>4, <1>5, <1>6

-----------------------------------------------------------------------------
(* What an edge makes of a transaction.                                    *)

Told7(h) ==
  [tx[h] EXCEPT !.st = "told", !.hit = d4.hit, !.room = d4.old = <<>>,
                !.way = IF d4.hit \/ (sf /\ d4.old = <<>>) THEN d4.way ELSE 0]
Same(in, h) ==
  /\ tx'[h] = tx[h] /\ in.unlock # <<h>> /\ ~AtStage(h, 4)
  /\ in.read = <<>> \/ in.read[1].hn # h
  /\ in.write = <<>> \/ in.write[1].hn # h
Leaves(in, h) == in.unlock = <<h>> /\ tx'[h] = NoTx /\ tx[h].st \in {"told", "done", "free"}
Looks(in, h, l) == ReadIn(in, h, l) /\ tx'[h] = [NoTx EXCEPT !.st = "read", !.line = <<l>>]
Rewrites(in, h, l, keep) ==
  HitIn(in, h, l, keep) /\ tx'[h] = [st |-> "done", line |-> <<l>>, way |-> tx[h].way, hit |-> keep, room |-> FALSE]
Allocates(in, h, l) ==
  DirectIn(in, h, l) /\ tx'[h] = [st |-> "free", line |-> <<l>>, way |-> tx[h].way, hit |-> TRUE, room |-> FALSE]
Replaces(in, h, l) ==
  NohitIn(in, h, l) /\ tx'[h] = [st |-> "repl", line |-> <<l>>, way |-> 0, hit |-> FALSE, room |-> FALSE]
Gets(h) == Swaps(h) /\ tx'[h] = [tx[h] EXCEPT !.st = "done", !.way = d4.way, !.hit = TRUE]
Learns(h) == AtStage(h, 4) /\ ~ReplD0 /\ tx'[h] = Told7(h)

LEMMA TxStep ==
  ASSUME DirIInv, NEW in, Edge(in), NEW h \in Hn
  PROVE  \/ Same(in, h) \/ Leaves(in, h) \/ Gets(h) \/ Learns(h)
         \/ \E l \in Line : Looks(in, h, l) \/ Allocates(in, h, l) \/ Replaces(in, h, l)
         \/ \E l \in Line, keep \in BOOLEAN : Rewrites(in, h, l, keep)
<1>0. Took(in) /\ tx'[h] = NextTx(in, h)
  BY DEF Edge, Surroundings
<1>1. WrFire(in) = in.write /\ RdFire(in) = in.read /\ (ReplD0 => in.read = <<>> /\ in.write = <<>>)
  BY <1>0, Fires
<1>2. \A l \in Line : ReadIn(in, h, l) => tx[h].st = "idle" /\ in.read = <<[hn |-> h, line |-> l]>>
                                          /\ in.unlock # <<h>>
  BY <1>0 DEF ReadIn, Took, Opt
<1>3. in.write # <<>> /\ in.write[1].hn = h => in.unlock # <<h>>
  BY <1>0 DEF Took, Opt
<1>4. CASE in.unlock = <<h>>
  <2>1. tx'[h] = NoTx
    BY <1>0, <1>4 DEF NextTx
  <2>2. tx[h].st \in {"told", "done", "free"}
    BY <1>0, <1>4 DEF Took, Opt
  <2> QED BY <1>4, <2>1, <2>2 DEF Leaves
<1>5. CASE in.read # <<>> /\ in.read[1].hn = h
  <2>1. PICK g \in Hn, l \in Line : ReadIn(in, g, l)
    BY <1>0, <1>5, D0 DEF HitIn, DirectIn, NohitIn, WriteIn
  <2>2. g = h /\ in.read[1].line = l
    BY <1>5, <2>1 DEF ReadIn
  <2>3. in.unlock # <<h>>
    BY <1>2, <2>1, <2>2
  <2>4. tx'[h] = [NoTx EXCEPT !.st = "read", !.line = <<l>>]
    BY <1>0, <1>1, <1>5, <2>2, <2>3 DEF NextTx
  <2> QED BY <2>1, <2>2, <2>4 DEF Looks
<1>6. CASE in.write # <<>> /\ in.write[1].hn = h
  <2>1. in.unlock # <<h>> /\ in.read = <<>>
    BY <1>0, <1>3, <1>6 DEF Took
  <2>2. tx'[h] = [NoTx EXCEPT !.line = <<in.write[1].line>>,
                            !.st = CASE in.write[1].kind = "nohit" -> "repl"
                                     [] in.write[1].kind = "direct" -> "free" [] OTHER -> "done",
                            !.way = IF in.write[1].kind = "nohit" THEN 0 ELSE in.write[1].way,
                            !.hit = in.write[1].kind # "nohit" /\ in.write[1].keep]
    BY <1>0, <1>1, <1>6, <2>1 DEF NextTx
  <2>3. CASE \E g \in Hn, l \in Line, keep \in BOOLEAN : HitIn(in, g, l, keep)
    <3>1. PICK g \in Hn, l \in Line, keep \in BOOLEAN : HitIn(in, g, l, keep)
      BY <2>3
    <3>2. /\ g = in.write[1].hn /\ in.write[1].line = l /\ in.write[1].way = tx[g].way
          /\ in.write[1].kind = "hit" /\ in.write[1].keep = keep
      BY <3>1 DEF HitIn, WriteIn
    <3>3. tx'[h] = [st |-> "done", line |-> <<l>>, way |-> tx[h].way, hit |-> keep, room |-> FALSE]
      BY <1>6, <2>2, <3>2 DEF NoTx
    <3>4. Rewrites(in, h, l, keep)
      BY <1>6, <3>1, <3>2, <3>3 DEF Rewrites
    <3> QED BY <3>4
  <2>4. CASE \E g \in Hn, l \in Line : DirectIn(in, g, l)
    <3>1. PICK g \in Hn, l \in Line : DirectIn(in, g, l)
      BY <2>4
    <3>2. /\ g = in.write[1].hn /\ in.write[1].line = l /\ in.write[1].way = tx[g].way
          /\ in.write[1].kind = "direct" /\ in.write[1].keep = TRUE
      BY <3>1 DEF DirectIn, WriteIn
    <3>3. tx'[h] = [st |-> "free", line |-> <<l>>, way |-> tx[h].way, hit |-> TRUE, room |-> FALSE]
      BY <1>6, <2>2, <3>2 DEF NoTx
    <3>4. Allocates(in, h, l)
      BY <1>6, <3>1, <3>2, <3>3 DEF Allocates
    <3> QED BY <3>4
  <2>5. CASE \E g \in Hn, l \in Line : NohitIn(in, g, l)
    <3>1. PICK g \in Hn, l \in Line : NohitIn(in, g, l)
      BY <2>5
    <3>2. g = in.write[1].hn /\ in.write[1].line = l /\ in.write[1].kind = "nohit"
      BY <3>1 DEF NohitIn, WriteIn
    <3>3. tx'[h] = [st |-> "repl", line |-> <<l>>, way |-> 0, hit |-> FALSE, room |-> FALSE]
      BY <1>6, <2>2, <3>2 DEF NoTx
    <3>4. Replaces(in, h, l)
      BY <1>6, <3>1, <3>2, <3>3 DEF Replaces
    <3> QED BY <3>4
  <2> QED BY <1>0, <1>6, <2>3, <2>4, <2>5, D0 DEF ReadIn
<1>7. CASE /\ in.unlock # <<h>>
           /\ in.read = <<>> \/ in.read[1].hn # h
           /\ in.write = <<>> \/ in.write[1].hn # h
  <2> DEFINE r == DirResp
             new == [tx[h] EXCEPT !.st = "told", !.hit = r[1].hit, !.room = r[1].old = <<>>,
                        !.way = IF r[1].hit \/ (sf /\ r[1].old = <<>>) THEN r[1].way ELSE 0]
  <2>4. tx'[h] = IF ~(r # <<>> /\ r[1].hn = h) THEN tx[h]
                 ELSE IF r[1].toRepl
                      THEN [tx[h] EXCEPT !.st = "done", !.way = r[1].way, !.hit = TRUE]
                 ELSE new
    BY <1>0, <1>1, <1>7 DEF NextTx
  <2> HIDE DEF r, new
  <2>5. r = <<>> \/ r[1].hn # h => tx'[h] = tx[h]
    BY <2>4
  <2>6. r # <<>> /\ r[1].hn = h /\ r[1].toRepl
          => tx'[h] = [tx[h] EXCEPT !.st = "done", !.way = r[1].way, !.hit = TRUE]
    BY <2>4
  <2>7. r # <<>> /\ r[1].hn = h /\ ~r[1].toRepl => tx'[h] = new
    BY <2>4
  <2>2. CASE ~AtStage(h, 4)
    <3>1. ~Is(4, Asking) => r = <<>>
      BY DEF r, DirResp, Asking
    <3>2. Is(4, Asking) => r[1].hn = Slot(4)
      BY DEF r, DirResp, Slot, Asking
    <3> QED BY <1>7, <2>5, <2>2, <3>1, <3>2 DEF Same, AtStage
  <2>3. CASE AtStage(h, 4)
    <3>1. r = <<[hn |-> h, toRepl |-> ReplD0, way |-> d4.way, hit |-> d4.hit, old |-> d4.old]>>
      BY <2>3 DEF r, DirResp, AtStage, Slot, Asking
    <3>2. /\ r # <<>> /\ r[1].hn = h /\ (r[1].toRepl <=> ReplD0) /\ r[1].way = d4.way
          /\ r[1].hit = d4.hit /\ r[1].old = d4.old
      BY <3>1
    <3>3. CASE ReplD0
      <4>1. tx'[h] = [tx[h] EXCEPT !.st = "done", !.way = d4.way, !.hit = TRUE]
        BY <2>6, <3>2, <3>3
      <4> QED BY <2>3, <3>3, <4>1 DEF Gets, Swaps
    <3>4. CASE ~ReplD0
      <4>1. tx'[h] = Told7(h)
        BY <2>7, <3>2, <3>4 DEF Told7, new
      <4> QED BY <2>3, <3>4, <4>1 DEF Learns
    <3> QED BY <3>3, <3>4
  <2> QED BY <2>2, <2>3
<1> QED BY <1>4, <1>5, <1>6, <1>7

-----------------------------------------------------------------------------
(* The choice at d3.                                                       *)

LEMMA Choice ==
  ASSUME DirIInv, Is(3, Asking)
  PROVE  /\ SelWay \in Ways /\ SelWay \notin d3.use /\ SelWay \notin HeldIn(SetAt(3))
         /\ HitD3 # {} <=> Req(3).row[SelWay] = <<Req(3).line>>
         /\ HitD3 = {} => (InvalidD3 # {} <=> Req(3).row[SelWay] = <<>>)
         /\ entry[SetAt(3)][SelWay] = Req(3).row[SelWay]
         /\ HitD3 = {} => ~Has(Req(3).line)
         /\ Is(3, {"repl"}) => HitD3 = {}
<1>1. /\ HeldIn(SetAt(3)) \subseteq d3.use
      /\ d3.spare \notin d3.use
      /\ \A w \in Ways \ d3.use : Req(3).row[w] = entry[SetAt(3)][w]
      /\ \A w \in d3.use : Req(3).row[w] # <<Req(3).line>>
  BY DEF DirIInv, AtD3
<1>2. d3.use \subseteq Ways /\ d3.spare \in Ways /\ d3.repl \in Ways
  BY DEF DirIInv, Types, DirTypeOK
<1>3. HitD3 \subseteq Nat /\ InvalidD3 \subseteq Nat
  BY DirAssumption DEF HitD3, InvalidD3
<1> DEFINE n == SelWay
<1>7. n \in Ways /\ n \notin d3.use
  <2>1. HitD3 # {} => n \in Ways /\ Req(3).row[n] = <<Req(3).line>>
    BY <1>3, MinIsLeast DEF HitD3, SelWay
  <2>2. HitD3 = {} => n \in Ways /\ n \notin d3.use
    BY <1>1, <1>2, <1>3, MinIsLeast DEF InvalidD3, SelWay
  <2> HIDE DEF n
  <2> QED BY <1>1, <2>1, <2>2
<1>8. HitD3 # {} <=> Req(3).row[n] = <<Req(3).line>>
  <2>1. HitD3 # {} => Req(3).row[n] = <<Req(3).line>>
    BY <1>3, MinIsLeast DEF HitD3, SelWay
  <2>2. Req(3).row[n] = <<Req(3).line>> => n \in HitD3
    BY <1>7 DEF HitD3
  <2> HIDE DEF n
  <2> QED BY <2>1, <2>2
<1>9. HitD3 = {} => (InvalidD3 # {} <=> Req(3).row[n] = <<>>)
  <2>1. HitD3 = {} /\ InvalidD3 # {} => Req(3).row[n] = <<>>
    BY <1>3, MinIsLeast DEF InvalidD3, SelWay
  <2>2. Req(3).row[n] = <<>> => n \in InvalidD3
    BY <1>7 DEF InvalidD3
  <2> HIDE DEF n
  <2> QED BY <2>1, <2>2
<1>10. n \notin HeldIn(SetAt(3)) /\ entry[SetAt(3)][n] = Req(3).row[n]
  <2> HIDE DEF n
  <2> QED BY <1>1, <1>7
<1>11. HitD3 = {} => ~Has(Req(3).line)
  <2>1. \A w \in Ways : Req(3).row[w] = <<Req(3).line>> <=> entry[SetAt(3)][w] = <<Req(3).line>>
    BY DEF DirIInv, RowTells
  <2> QED BY <2>1 DEF HitD3, Has, SetAt
<1>12. Is(3, {"repl"}) => HitD3 = {}
  <2>1. \A w \in Ways : Req(3).row[w] = <<Req(3).line>> <=> entry[SetAt(3)][w] = <<Req(3).line>>
    BY DEF DirIInv, RowTells
  <2>2. Is(3, {"repl"}) => ~Has(Req(3).line)
    BY DEF DirIInv, RowTells
  <2> QED BY <2>1, <2>2 DEF HitD3, Has, SetAt
<1> HIDE DEF n
<1> QED BY <1>7, <1>8, <1>9, <1>10, <1>11, <1>12 DEF n

-----------------------------------------------------------------------------
(* What an edge makes of the holds.                                        *)

\* A transaction that has asked waits until its request is at d4.
LEMMA AskedWaits ==
  ASSUME DirIInv, NEW in, Edge(in), NEW h \in Hn, NEW d \in 1 .. 3, AtStage(h, d)
  PROVE  Same(in, h)
<1>1. tx[h].st \in Asking
  BY StageType DEF AtStage
<1>2. ~AtStage(h, 4)
  <2>1. d # 4 /\ d \in 1 .. 4 /\ 4 \in 1 .. 4
    OBVIOUS
  <2> QED BY <2>1 DEF DirIInv, TxKnows, AtStage
<1>3. ~Leaves(in, h) /\ ~Gets(h) /\ ~Learns(h)
  BY <1>1, <1>2 DEF Leaves, Gets, Swaps, Learns, Asking
<1>4. \A l \in Line : ~Looks(in, h, l) /\ ~Allocates(in, h, l) /\ ~Replaces(in, h, l)
  BY <1>1 DEF Looks, Allocates, Replaces, ReadIn, DirectIn, NohitIn, Asking
<1>5. \A l \in Line, keep \in BOOLEAN : ~Rewrites(in, h, l, keep)
  BY <1>1 DEF Rewrites, HitIn, Asking
<1> QED BY <1>3, <1>4, <1>5, TxStep

LEMMA D4Next ==
  ASSUME NEW in, Edge(in), Is(3, Asking)
  PROVE  d4'.way = SelWay /\ (d4'.hit <=> HitD3 # {}) /\ d4'.old = Req(3).row[SelWay]
         /\ d4'.hit \in BOOLEAN
<1>1. d4' = [way |-> SelWay, hit |-> HitD3 # {}, old |-> Req(3).row[SelWay]]
  BY DEF Edge, DirTick, NextD4, Asking
<1> QED BY <1>1

LEMMA HoldNew ==
  ASSUME DirIInv, NEW in, Edge(in), NEW h \in Hn, AtStage(h, 3)
  PROVE  /\ lock[h] = <<>> /\ rsv[h] = <<>>
         /\ lock'[h] = IF HitD3 # {} \/ Is(3, {"repl"}) THEN <<Place(SetAt(3), SelWay)>> ELSE <<>>
         /\ rsv'[h] = IF sf /\ HitD3 = {} /\ ~Is(3, {"repl"}) /\ Req(3).row[SelWay] = <<>>
                      THEN <<Place(SetAt(3), SelWay)>> ELSE <<>>
<1>1. Same(in, h)
  BY AskedWaits
<1>2. Is(3, Asking) /\ Req(3).hn = <<h>> /\ tx[h].st \in Asking /\ Req(3).kind \in Asking
  BY StageType DEF AtStage
<1>3. lock[h] = <<>> /\ rsv[h] = <<>>
  BY <1>1, <1>2 DEF DirIInv, HoldsKnown, LockOf, RsvOf, Same, Asking
<1>4. lock'[h] = NextLock(in, h) /\ rsv'[h] = NextRsv(in, h) /\ WrFire(in) = in.write
  BY Fires DEF Edge, DirTick
<1>5. in.unlock # <<h>> /\ (in.write = <<>> \/ in.write[1].hn # h)
  BY <1>1 DEF Same
<1>6. lock'[h] = IF HitD3 # {} \/ Is(3, {"repl"}) THEN <<Place(SetAt(3), SelWay)>> ELSE <<>>
  BY <1>2, <1>3, <1>4, <1>5 DEF NextLock, Place, Asking
<1>7. PendAlloc <=> sf /\ HitD3 = {} /\ ~Is(3, {"repl"}) /\ Req(3).row[SelWay] = <<>>
  <2>1. HitD3 = {} => (InvalidD3 # {} <=> Req(3).row[SelWay] = <<>>)
    BY <1>2, Choice
  <2>2. Is(3, {"read"}) <=> ~Is(3, {"repl"})
    BY <1>2 DEF Is, Req, Asking
  <2> QED BY <2>1, <2>2 DEF PendAlloc
<1>8. rsv'[h] = IF PendAlloc THEN <<Place(SetAt(3), SelWay)>> ELSE <<>>
  BY <1>2, <1>3, <1>4, <1>5 DEF NextRsv, Place
<1> QED BY <1>3, <1>6, <1>7, <1>8

LEMMA HoldOld ==
  ASSUME DirIInv, NEW in, Edge(in), NEW h \in Hn, ~AtStage(h, 3)
  PROVE  /\ lock'[h] = IF in.unlock = <<h>> THEN <<>> ELSE lock[h]
         /\ rsv'[h] = IF in.unlock = <<h>> \/ Fills(in, h) THEN <<>> ELSE rsv[h]
<1>1. lock'[h] = NextLock(in, h) /\ rsv'[h] = NextRsv(in, h) /\ WrFire(in) = in.write /\ Took(in)
  BY Fires DEF Edge, DirTick
<1>2. ~(Is(3, Asking) /\ Req(3).hn = <<h>>)
  BY DEF AtStage, Slot
<1>3. lock'[h] = IF in.unlock = <<h>> THEN <<>> ELSE lock[h]
  BY <1>1, <1>2 DEF NextLock, Asking
<1>4. PendAlloc => Is(3, Asking)
  BY DEF PendAlloc, Is, Asking
<1>5. in.write # <<>> /\ in.write[1].kind = "direct" /\ in.write[1].hn = h <=> Fills(in, h)
  <2>1. ASSUME in.write # <<>>, in.write[1].kind = "direct", in.write[1].hn = h PROVE Fills(in, h)
    <3>3. \A g \in Hn, l \in Line, keep \in BOOLEAN : HitIn(in, g, l, keep) => in.write[1].kind = "hit"
      BY DEF HitIn, WriteIn
    <3>4. \A g \in Hn, l \in Line : NohitIn(in, g, l) => in.write[1].kind = "nohit"
      BY DEF NohitIn, WriteIn
    <3>5. \A g \in Hn, l \in Line : ReadIn(in, g, l) => in.write = <<>>
      BY DEF ReadIn
    <3>1. PICK g \in Hn, l \in Line : DirectIn(in, g, l)
      BY <1>1, <2>1, <3>3, <3>4, <3>5, D0
    <3>2. g = h
      BY <2>1, <3>1 DEF DirectIn, WriteIn
    <3> QED BY <3>1, <3>2 DEF Fills
  <2>2. ASSUME Fills(in, h) PROVE in.write # <<>> /\ in.write[1].kind = "direct" /\ in.write[1].hn = h
    BY <2>2 DEF Fills, DirectIn, WriteIn
  <2> QED BY <2>1, <2>2
<1>6. rsv'[h] = IF in.unlock = <<h>> \/ Fills(in, h) THEN <<>> ELSE rsv[h]
  <2>1. CASE in.unlock = <<h>> \/ Fills(in, h)
    BY <1>1, <1>5, <2>1 DEF NextRsv
  <2>2. CASE ~(in.unlock = <<h>> \/ Fills(in, h))
    BY <1>1, <1>2, <1>4, <1>5, <2>2 DEF NextRsv
  <2> QED BY <2>1, <2>2
<1> QED BY <1>3, <1>6

LEMMA FillsIs ==
  ASSUME NEW in, NEW h \in Hn, Fills(in, h)
  PROVE  /\ in.write # <<>> /\ in.write[1].hn = h /\ in.write[1].kind = "direct"
         /\ tx[h].st = "told" /\ ~tx[h].hit /\ tx[h].room /\ sf
<1>1. PICK l \in Line : DirectIn(in, h, l)
  BY DEF Fills
<1> QED BY <1>1 DEF DirectIn, WriteIn

LEMMA UnlockIs ==
  ASSUME NEW in, Edge(in), NEW h \in Hn, in.unlock = <<h>>
  PROVE  /\ tx[h].st \in {"told", "done", "free"} /\ (in.write # <<>> => in.write[1].hn # h)
  BY DEF Edge, Took, Opt

\* What is held after the edge, by what the stages before d4 know.
LEMMA KnownNext ==
  ASSUME DirIInv, NEW in, Edge(in), NEW h \in Hn
  PROVE  /\ LockOf(h)' = IF tx'[h].st = "done" \/ (tx'[h].st = "told" /\ tx'[h].hit) THEN <<TxPlace(h)'>>
                         ELSE IF AtStage(h, 3) /\ (HitD3 # {} \/ Is(3, {"repl"}))
                              THEN <<Place(SetAt(3), SelWay)>> ELSE <<>>
         /\ RsvOf(h)' = IF sf /\ tx'[h].st = "told" /\ ~tx'[h].hit /\ tx'[h].room THEN <<TxPlace(h)'>>
                        ELSE IF /\ sf /\ AtStage(h, 3) /\ HitD3 = {} /\ ~Is(3, {"repl"})
                                /\ Req(3).row[SelWay] = <<>>
                             THEN <<Place(SetAt(3), SelWay)>> ELSE <<>>
<1>1. /\ AtStage(h, 4)' <=> AtStage(h, 3)
      /\ ReplD0' <=> Is(3, {"repl"})
      /\ SetAt(4)' = SetAt(3) /\ sf' = sf
  <2>1. 3 \in 1 .. 3 /\ 3 + 1 = 4 /\ DirTick(in)
    BY DEF Edge
  <2> QED BY <2>1, Moves DEF ReplD0, DirTick
<1>2. AtStage(h, 3) => d4'.way = SelWay /\ (d4'.hit <=> HitD3 # {}) /\ d4'.old = Req(3).row[SelWay]
  BY D4Next DEF AtStage
<1>3. /\ LockOf(h)' = IF tx'[h].st = "done" \/ (tx'[h].st = "told" /\ tx'[h].hit) THEN <<TxPlace(h)'>>
                     ELSE IF AtStage(h, 4)' /\ (d4'.hit \/ ReplD0')
                          THEN <<Place(SetAt(4)', d4'.way)>> ELSE <<>>
  BY DEF LockOf, Place
<1>4. RsvOf(h)' = IF sf' /\ tx'[h].st = "told" /\ ~tx'[h].hit /\ tx'[h].room THEN <<TxPlace(h)'>>
                  ELSE IF sf' /\ AtStage(h, 4)' /\ ~d4'.hit /\ ~ReplD0' /\ d4'.old = <<>>
                       THEN <<Place(SetAt(4)', d4'.way)>> ELSE <<>>
  BY DEF RsvOf, Place
<1>5. LockOf(h)' = IF tx'[h].st = "done" \/ (tx'[h].st = "told" /\ tx'[h].hit) THEN <<TxPlace(h)'>>
                   ELSE IF AtStage(h, 3) /\ (HitD3 # {} \/ Is(3, {"repl"}))
                        THEN <<Place(SetAt(3), SelWay)>> ELSE <<>>
  BY <1>1, <1>2, <1>3
<1>6. RsvOf(h)' = IF sf /\ tx'[h].st = "told" /\ ~tx'[h].hit /\ tx'[h].room THEN <<TxPlace(h)'>>
                  ELSE IF /\ sf /\ AtStage(h, 3) /\ HitD3 = {} /\ ~Is(3, {"repl"})
                          /\ Req(3).row[SelWay] = <<>>
                       THEN <<Place(SetAt(3), SelWay)>> ELSE <<>>
  BY <1>1, <1>2, <1>4
<1> QED BY <1>5, <1>6

LEMMA KnownStep ==
  ASSUME DirIInv, NEW in, Edge(in)
  PROVE  HoldsKnown'
<1> SUFFICES ASSUME NEW h \in Hn PROVE lock'[h] = LockOf(h)' /\ rsv'[h] = RsvOf(h)'
  BY DEF HoldsKnown
<1> DEFINE lock1 == IF tx'[h].st = "done" \/ (tx'[h].st = "told" /\ tx'[h].hit) THEN <<TxPlace(h)'>> ELSE <<>>
           rsv1 == IF sf /\ tx'[h].st = "told" /\ ~tx'[h].hit /\ tx'[h].room THEN <<TxPlace(h)'>> ELSE <<>>
<1>1. CASE AtStage(h, 3)
  <2>1. Same(in, h) /\ tx[h].st \in Asking
    BY <1>1, AskedWaits, StageType DEF AtStage
  <2>2. tx'[h].st \notin {"done", "told"}
    BY <2>1 DEF Same, Asking
  <2> QED BY <1>1, <2>2, HoldNew, KnownNext
<1>2. CASE ~AtStage(h, 3)
  <2>1. /\ lock'[h] = IF in.unlock = <<h>> THEN <<>> ELSE lock[h]
        /\ rsv'[h] = IF in.unlock = <<h>> \/ Fills(in, h) THEN <<>> ELSE rsv[h]
        /\ lock[h] = LockOf(h) /\ rsv[h] = RsvOf(h)
    BY <1>2, HoldOld DEF DirIInv, HoldsKnown
  <2>2. LockOf(h)' = lock1 /\ RsvOf(h)' = rsv1
    BY <1>2, KnownNext
  <2>3. tx[h].st \in Asking \/ ~AtStage(h, 4)
    BY StageType DEF AtStage
  <2>4. TxPlace(h)' = Place(SetOf[tx'[h].line[1]], tx'[h].way)
    BY DEF TxPlace, TxSet, Place
  <2>5. CASE Same(in, h)
    <3>1. tx'[h] = tx[h] /\ in.unlock # <<h>> /\ ~AtStage(h, 4) /\ TxPlace(h)' = TxPlace(h)
      BY <2>4, <2>5 DEF Same, TxPlace, TxSet
    <3>2. ~Fills(in, h)
      BY <2>5, FillsIs DEF Same
    <3> QED BY <2>1, <2>2, <3>1, <3>2 DEF LockOf, RsvOf
  <2>6. CASE Leaves(in, h)
    BY <2>1, <2>2, <2>6 DEF Leaves, NoTx
  <2>7. CASE Gets(h)
    <3>1. AtStage(h, 4) /\ ReplD0 /\ tx'[h] = [tx[h] EXCEPT !.st = "done", !.way = d4.way, !.hit = TRUE]
      BY <2>7 DEF Gets, Swaps
    <3>2. tx[h].st = "repl" /\ TxSet(h) = SetAt(4) /\ tx[h] \in TxRec
      BY <3>1, StageType, TxType DEF AtStage, ReplD0, Is, Req
    <3>3. tx'[h].st = "done" /\ tx'[h].way = d4.way /\ tx'[h].line = tx[h].line
      BY <3>1, <3>2 DEF TxRec
    <3>4. TxPlace(h)' = Place(SetAt(4), d4.way)
      BY <2>4, <3>2, <3>3 DEF TxSet
    <3>5. in.unlock # <<h>> /\ ~Fills(in, h)
      BY <3>2, FillsIs, UnlockIs
    <3> QED BY <2>1, <2>2, <3>1, <3>2, <3>3, <3>4, <3>5 DEF LockOf, RsvOf
  <2>8. CASE Learns(h)
    <3>1. AtStage(h, 4) /\ ~ReplD0 /\ tx'[h] = Told7(h)
      BY <2>8 DEF Learns
    <3>2. tx[h].st \in Asking /\ TxSet(h) = SetAt(4) /\ tx[h] \in TxRec
      BY <3>1, StageType, TxType DEF AtStage
    <3>3. /\ tx'[h].st = "told" /\ tx'[h].line = tx[h].line /\ tx'[h].hit = d4.hit
          /\ tx'[h].room = (d4.old = <<>>)
          /\ tx'[h].way = IF d4.hit \/ (sf /\ d4.old = <<>>) THEN d4.way ELSE 0
      BY <3>1, <3>2 DEF TxRec, Told7
    <3>4. d4.hit \/ (sf /\ d4.old = <<>>) => TxPlace(h)' = Place(SetAt(4), d4.way)
      BY <2>4, <3>2, <3>3 DEF TxSet
    <3>5. in.unlock # <<h>> /\ ~Fills(in, h)
      BY <3>2, FillsIs, UnlockIs DEF Asking
    <3>6. LockOf(h) = IF d4.hit THEN <<Place(SetAt(4), d4.way)>> ELSE <<>>
      BY <3>1, <3>2 DEF LockOf, Asking
    <3>7. RsvOf(h) = IF sf /\ ~d4.hit /\ d4.old = <<>> THEN <<Place(SetAt(4), d4.way)>> ELSE <<>>
      BY <3>1, <3>2 DEF RsvOf, Asking
    <3>8. lock1 = IF d4.hit THEN <<Place(SetAt(4), d4.way)>> ELSE <<>>
      BY <3>3, <3>4
    <3>9. rsv1 = IF sf /\ ~d4.hit /\ d4.old = <<>> THEN <<Place(SetAt(4), d4.way)>> ELSE <<>>
      BY <3>3, <3>4
    <3> QED BY <2>1, <2>2, <3>5, <3>6, <3>7, <3>8, <3>9
  <2>9. ASSUME NEW l \in Line, Looks(in, h, l) PROVE lock'[h] = LockOf(h)' /\ rsv'[h] = RsvOf(h)'
    <3>1. tx[h].st = "idle" /\ tx'[h].st = "read" /\ in.unlock # <<h>> /\ ~Fills(in, h)
      <4>1. tx[h].st = "idle" /\ tx'[h].st = "read"
        BY <2>9 DEF Looks, ReadIn, NoTx
      <4> QED BY <4>1, FillsIs, UnlockIs
    <3> QED BY <2>1, <2>2, <2>3, <3>1 DEF LockOf, RsvOf, Asking
  <2>10. ASSUME NEW l \in Line, Allocates(in, h, l) PROVE lock'[h] = LockOf(h)' /\ rsv'[h] = RsvOf(h)'
    <3>2. DirectIn(in, h, l) /\ tx'[h].st = "free"
      BY <2>10 DEF Allocates
    <3>3. Fills(in, h)
      BY <3>2 DEF Fills
    <3>1. tx[h].st = "told" /\ ~tx[h].hit /\ tx'[h].st = "free" /\ Fills(in, h)
      BY <3>2, <3>3, FillsIs
    <3> QED BY <2>1, <2>2, <2>3, <3>1 DEF LockOf, Asking
  <2>11. ASSUME NEW l \in Line, Replaces(in, h, l) PROVE lock'[h] = LockOf(h)' /\ rsv'[h] = RsvOf(h)'
    <3>1. /\ (tx[h].st = "told" /\ ~tx[h].hit /\ (sf => ~tx[h].room)) \/ tx[h].st = "idle"
          /\ tx'[h].st = "repl" /\ in.write # <<>> /\ in.write[1].kind = "nohit"
      BY <2>11 DEF Replaces, NohitIn, WriteIn
    <3>2. ~Fills(in, h)
      BY <3>1, FillsIs
    <3> QED BY <2>1, <2>2, <2>3, <3>1, <3>2 DEF LockOf, RsvOf, Asking
  <2>12. ASSUME NEW l \in Line, NEW keep \in BOOLEAN, Rewrites(in, h, l, keep)
         PROVE  lock'[h] = LockOf(h)' /\ rsv'[h] = RsvOf(h)'
    <3>1. /\ tx[h].st = "told" /\ tx[h].hit /\ tx[h].line = <<l>> /\ in.write # <<>>
          /\ in.write[1].kind = "hit" /\ in.write[1].hn = h
      BY <2>12 DEF Rewrites, HitIn, WriteIn
    <3>2. tx'[h].st = "done" /\ tx'[h].line = <<l>> /\ tx'[h].way = tx[h].way
      BY <2>12 DEF Rewrites
    <3>3. ~Fills(in, h) /\ in.unlock # <<h>>
      BY <3>1, FillsIs, UnlockIs
    <3>4. TxPlace(h)' = TxPlace(h)
      BY <2>4, <3>1, <3>2 DEF TxPlace, TxSet
    <3> QED BY <2>1, <2>2, <2>3, <3>1, <3>2, <3>3, <3>4 DEF LockOf, RsvOf, Asking
  <2> QED BY <2>5, <2>6, <2>7, <2>8, <2>9, <2>10, <2>11, <2>12, TxStep
<1> QED BY <1>1, <1>2

LEMMA HoldsGrow ==
  ASSUME DirIInv, NEW in, Edge(in), NEW h \in Hn, NEW s \in DirSet, NEW w \in Ways, Place(s, w) \in Holds(h)'
  PROVE  Place(s, w) \in Holds(h) \/ (AtStage(h, 3) /\ s = SetAt(3) /\ w = SelWay)
<1>1. lock'[h] = <<Place(s, w)>> \/ rsv'[h] = <<Place(s, w)>>
  BY DEF Holds, Place
<1>2. CASE AtStage(h, 3)
  <2>1. lock'[h] \in {<<>>, <<Place(SetAt(3), SelWay)>>} /\ rsv'[h] \in {<<>>, <<Place(SetAt(3), SelWay)>>}
    BY <1>2, HoldNew
  <2>2. Place(s, w) = Place(SetAt(3), SelWay)
    <3>1. \A p, q : <<p>> = <<q>> => p = q
      OBVIOUS
    <3>2. \A p : <<p>> # <<>>
      OBVIOUS
    <3> QED BY <1>1, <2>1, <3>1, <3>2, Zenon
  <2> QED BY <1>2, <2>2 DEF Place
<1>3. CASE ~AtStage(h, 3)
  <2>1. lock'[h] \in {<<>>, lock[h]} /\ rsv'[h] \in {<<>>, rsv[h]}
    BY <1>3, HoldOld
  <2>2. lock[h] = <<Place(s, w)>> \/ rsv[h] = <<Place(s, w)>>
    <3>1. \A p : <<p>> # <<>>
      OBVIOUS
    <3> QED BY <1>1, <2>1, <3>1, Zenon
  <2> QED BY <2>2, HoldsAre
<1> QED BY <1>2, <1>3

LEMMA ApartStep ==
  ASSUME DirIInv, NEW in, Edge(in)
  PROVE  HoldsApart'
<1> SUFFICES ASSUME NEW g \in Hn, NEW h \in Hn, g # h, NEW p \in Holds(g)' \cap Holds(h)' PROVE FALSE
  BY DEF HoldsApart
<1>1. PICK s \in DirSet, w \in Ways : p = Place(s, w)
  BY DEF Holds, Place
<1>2. Place(s, w) \in Holds(g) \/ (AtStage(g, 3) /\ s = SetAt(3) /\ w = SelWay)
  BY <1>1, HoldsGrow
<1>3. Place(s, w) \in Holds(h) \/ (AtStage(h, 3) /\ s = SetAt(3) /\ w = SelWay)
  BY <1>1, HoldsGrow
<1>4. ~(AtStage(g, 3) /\ AtStage(h, 3))
  BY DEF AtStage
<1>5. ~(Place(s, w) \in Holds(g) /\ Place(s, w) \in Holds(h))
  BY DEF DirIInv, HoldsApart
<1>6. ASSUME NEW x \in Hn, Place(s, w) \in Holds(x), Is(3, Asking), s = SetAt(3), w = SelWay PROVE FALSE
  <2>1. w \in HeldIn(s)
    BY <1>6 DEF HeldIn
  <2> QED BY <1>6, <2>1, Choice
<1> QED BY <1>2, <1>3, <1>4, <1>5, <1>6 DEF AtStage

LEMMA SpacedStep ==
  ASSUME DirIInv, NEW in, Edge(in)
  PROVE  Spaced'
<1>1. /\ sft'[1] = Entering(in) /\ sft'[2] = sft[1] /\ sft'[3] = sft[2] /\ sft'[4] = sft[3]
      /\ Is(2, {"repl"})' <=> Is(1, {"repl"})
      /\ Is(3, {"repl"})' <=> Is(2, {"repl"})
      /\ Is(4, {"repl"})' <=> Is(3, {"repl"})
  <2>1. DirTick(in) /\ 1 \in 1 .. 3 /\ 2 \in 1 .. 3 /\ 3 \in 1 .. 3 /\ 1 + 1 = 2 /\ 2 + 1 = 3 /\ 3 + 1 = 4
    BY DEF Edge
  <2>2. sft'[1 + 1] = sft[1] /\ sft'[1] = Entering(in) /\ (Is(1 + 1, {"repl"})' <=> Is(1, {"repl"}))
    BY <2>1, Moves
  <2>3. sft'[2 + 1] = sft[2] /\ (Is(2 + 1, {"repl"})' <=> Is(2, {"repl"}))
    BY <2>1, Moves
  <2>4. sft'[3 + 1] = sft[3] /\ (Is(3 + 1, {"repl"})' <=> Is(3, {"repl"}))
    BY <2>1, Moves
  <2> QED BY <2>1, <2>2, <2>3, <2>4
<1>2. Entering(in) # <<>> => sft[1] = <<>>
  BY Enters
<1>3. /\ \A d \in 1 .. 3 : sft[d] # <<>> => sft[d + 1] = <<>>
      /\ \A d, e \in 1 .. 4 : Is(d, {"repl"}) /\ e < d => sft[e] = <<>>
  BY DEF DirIInv, Spaced
<1>4. \A d \in 1 .. 3 : Is(d, {"repl"}) => Entering(in) = <<>>
  <2>1. SUFFICES ASSUME NEW d \in 1 .. 3, Is(d, {"repl"}) PROVE Entering(in) = <<>>
    OBVIOUS
  <2>2. in.read = <<>> /\ in.write = <<>> /\ WrFire(in) = in.write /\ RdFire(in) = in.read
    BY <2>1, Fires DEF Edge
  <2>3. ~ReplD0
    BY <1>3, <2>1 DEF ReplD0, Is
  <2> QED BY <2>2, <2>3 DEF Entering
<1>5. \A d \in 1 .. 3 : sft'[d] # <<>> => sft'[d + 1] = <<>>
  BY <1>1, <1>2, <1>3
<1>6. ASSUME NEW d \in 1 .. 4, NEW e \in 1 .. 4, Is(d, {"repl"})', e < d PROVE sft'[e] = <<>>
  <2>1. CASE e = 1
    BY <1>1, <1>4, <1>6, <2>1
  <2>2. CASE e # 1
    BY <1>1, <1>3, <1>6, <2>2
  <2> QED BY <2>1, <2>2
<1> QED BY <1>5, <1>6 DEF Spaced

LEMMA KnowsStep ==
  ASSUME DirIInv, NEW in, Edge(in)
  PROVE  TxKnows'
<1>0. DirTick(in)
  BY DEF Edge
<1>1. ASSUME NEW d \in 1 .. 4, Is(d, Asking)'
      PROVE  \/ /\ d = 1 /\ \E l \in Line : /\ Req(1)'.line = l
                                           /\ \/ Looks(in, Slot(1)', l) /\ Req(1)'.kind = "read"
                                              \/ Replaces(in, Slot(1)', l) /\ Req(1)'.kind = "repl"
                /\ Slot(1)' \in Hn
             \/ \E e \in 1 .. 3 : /\ d = e + 1 /\ AtStage(Slot(d)', e) /\ Slot(d)' \in Hn
                                  /\ Same(in, Slot(d)') /\ Req(d)' = Req(e) /\ Slot(d)' = Slot(e)
  <2>1. CASE d = 1
    <3>1. PICK h \in Hn, l \in Line : ReadIn(in, h, l) \/ NohitIn(in, h, l)
      BY <1>1, <2>1, Enters
    <3>2. CASE ReadIn(in, h, l)
      <4>1. sft'[1] = <<[kind |-> "read", hn |-> <<h>>, line |-> l, row |-> entry[SetOf[l]]]>>
        BY <3>2, Enters
      <4>2. Req(1)'.kind = "read" /\ Req(1)'.line = l /\ Slot(1)' = h
        BY <4>1 DEF Req, Slot
      <4>3. tx[h].st = "idle" /\ in.read # <<>> /\ in.read[1].hn = h /\ in.read[1].line = l /\ in.write = <<>>
        BY <3>2 DEF ReadIn
      <4>4. Looks(in, h, l)
        <5>1. ~Same(in, h) /\ ~Leaves(in, h)
          BY <4>3 DEF Same, Leaves
        <5>2. ~Gets(h) /\ ~Learns(h)
          BY <4>3, StageType DEF Gets, Swaps, Learns, AtStage, Asking
        <5>3. \A k \in Line : ~Allocates(in, h, k) /\ ~Replaces(in, h, k)
          BY <4>3 DEF Allocates, Replaces, DirectIn, NohitIn, WriteIn
        <5>4. \A k \in Line, keep \in BOOLEAN : ~Rewrites(in, h, k, keep)
          BY <4>3 DEF Rewrites, HitIn
        <5>5. PICK k \in Line : Looks(in, h, k)
          BY <5>1, <5>2, <5>3, <5>4, TxStep
        <5>6. k = l
          BY <4>3, <5>5 DEF Looks, ReadIn
        <5> QED BY <5>5, <5>6
      <4> QED BY <2>1, <4>2, <4>4
    <3>3. CASE NohitIn(in, h, l)
      <4>1. sft'[1] = <<[kind |-> "repl", hn |-> <<h>>, line |-> l, row |-> entry[SetOf[l]]]>>
        BY <3>3, Enters
      <4>2. Req(1)'.kind = "repl" /\ Req(1)'.line = l /\ Slot(1)' = h
        BY <4>1 DEF Req, Slot
      <4>3. /\ tx[h].st \in {"idle", "told"} /\ in.read = <<>> /\ in.write # <<>> /\ in.write[1].hn = h
            /\ in.write[1].line = l /\ in.write[1].kind = "nohit"
        BY <3>3 DEF NohitIn, WriteIn
      <4>4. Replaces(in, h, l)
        <5>1. ~Same(in, h) /\ ~Leaves(in, h)
          BY <4>3, UnlockIs DEF Same, Leaves
        <5>2. ~Gets(h) /\ ~Learns(h)
          BY <4>3, StageType DEF Gets, Swaps, Learns, AtStage, Asking
        <5>3. \A k \in Line : ~Allocates(in, h, k) /\ ~Looks(in, h, k)
          BY <4>3 DEF Allocates, Looks, DirectIn, ReadIn, WriteIn
        <5>4. \A k \in Line, keep \in BOOLEAN : ~Rewrites(in, h, k, keep)
          BY <4>3 DEF Rewrites, HitIn, WriteIn
        <5>5. PICK k \in Line : Replaces(in, h, k)
          BY <5>1, <5>2, <5>3, <5>4, TxStep
        <5>6. k = l
          BY <4>3, <5>5 DEF Replaces, NohitIn, WriteIn
        <5> QED BY <5>5, <5>6
      <4> QED BY <2>1, <4>2, <4>4
    <3> QED BY <3>1, <3>2, <3>3
  <2>2. CASE d # 1
    <3>1. PICK e \in 1 .. 3 : d = e + 1
      <4>1. d - 1 \in 1 .. 3 /\ d = (d - 1) + 1
        BY <2>2
      <4> QED BY <4>1
    <3>2. Is(e, Asking) /\ Req(d)' = Req(e) /\ Slot(d)' = Slot(e)
      BY <1>0, <1>1, <3>1, Moves
    <3>3. AtStage(Slot(e), e) /\ Slot(e) \in Hn
      BY <3>2, StageType DEF AtStage
    <3> QED BY <3>1, <3>2, <3>3, AskedWaits
  <2> QED BY <2>1, <2>2
<1>2. ASSUME NEW d \in 1 .. 4, Is(d, Asking)'
      PROVE  tx'[Slot(d)'].st = Req(d)'.kind /\ tx'[Slot(d)'].line = <<Req(d)'.line>>
  <2>1. CASE \E e \in 1 .. 3 : /\ d = e + 1 /\ AtStage(Slot(d)', e) /\ Slot(d)' \in Hn
                              /\ Same(in, Slot(d)') /\ Req(d)' = Req(e) /\ Slot(d)' = Slot(e)
    BY <2>1, StageType DEF AtStage, Same
  <2>2. CASE d = 1 /\ \E l \in Line : /\ Req(1)'.line = l
                                     /\ \/ Looks(in, Slot(1)', l) /\ Req(1)'.kind = "read"
                                        \/ Replaces(in, Slot(1)', l) /\ Req(1)'.kind = "repl"
    <3>1. PICK l \in Line : /\ Req(d)'.line = l
                            /\ \/ Looks(in, Slot(d)', l) /\ Req(d)'.kind = "read"
                               \/ Replaces(in, Slot(d)', l) /\ Req(d)'.kind = "repl"
      BY <2>2
    <3>2. CASE Looks(in, Slot(d)', l) /\ Req(d)'.kind = "read"
      BY <3>1, <3>2 DEF Looks, NoTx
    <3>3. CASE Replaces(in, Slot(d)', l) /\ Req(d)'.kind = "repl"
      BY <3>1, <3>3 DEF Replaces
    <3> QED BY <3>1, <3>2, <3>3
  <2> QED BY <1>1, <1>2, <2>1, <2>2
<1>3. ASSUME NEW d \in 1 .. 4, NEW e \in 1 .. 4, Is(d, Asking)', Is(e, Asking)', Slot(d)' = Slot(e)', d < e
      PROVE  FALSE
  <2>1. PICK c \in 1 .. 3 : /\ e = c + 1 /\ AtStage(Slot(e)', c) /\ Slot(e)' \in Hn /\ Same(in, Slot(e)')
                            /\ Slot(e)' = Slot(c)
    BY <1>1, <1>3
  <2>2. tx[Slot(e)'].st \in Asking
    BY <2>1, StageType DEF AtStage
  <2>3. CASE d = 1
    <3>1. PICK l \in Line : Looks(in, Slot(d)', l) \/ Replaces(in, Slot(d)', l)
      BY <1>1, <1>3, <2>3
    <3> QED BY <1>3, <2>2, <3>1 DEF Looks, ReadIn, Replaces, NohitIn, Asking
  <2>4. CASE d # 1
    <3>1. PICK b \in 1 .. 3 : d = b + 1 /\ AtStage(Slot(d)', b) /\ Slot(d)' = Slot(b)
      BY <1>1, <1>3, <2>4
    <3>2. b = c
      BY <1>3, <2>1, <3>1 DEF DirIInv, TxKnows, AtStage
    <3> QED BY <1>3, <2>1, <3>1, <3>2
  <2> QED BY <2>3, <2>4
<1>4. ASSUME NEW h \in Hn, tx'[h].st \in Asking PROVE \E d \in 1 .. 4 : AtStage(h, d)'
  <2>1. CASE Same(in, h)
    <3>1. tx[h].st \in Asking /\ ~AtStage(h, 4)
      BY <1>4, <2>1 DEF Same
    <3>2. PICK d \in 1 .. 4 : AtStage(h, d)
      BY <3>1 DEF DirIInv, TxKnows
    <3>3. d \in 1 .. 3 /\ d + 1 \in 1 .. 4
      BY <3>1, <3>2
    <3>4. AtStage(h, d + 1)'
      BY <1>0, <3>2, <3>3, Moves
    <3> QED BY <3>3, <3>4
  <2>2. ASSUME NEW l \in Line, Looks(in, h, l) PROVE AtStage(h, 1)'
    <3>1. sft'[1] = <<[kind |-> "read", hn |-> <<h>>, line |-> l, row |-> entry[SetOf[l]]]>>
      BY <2>2, Enters DEF Looks
    <3> QED BY <3>1 DEF AtStage, Is, Req, Slot, Asking
  <2>3. ASSUME NEW l \in Line, Replaces(in, h, l) PROVE AtStage(h, 1)'
    <3>1. sft'[1] = <<[kind |-> "repl", hn |-> <<h>>, line |-> l, row |-> entry[SetOf[l]]]>>
      BY <2>3, Enters DEF Replaces
    <3> QED BY <3>1 DEF AtStage, Is, Req, Slot, Asking
  <2>4. ~Leaves(in, h)
    BY <1>4 DEF Leaves, NoTx, Asking
  <2>5. tx[h] \in TxRec
    BY TxType
  <2>6. ~Gets(h) /\ ~Learns(h)
    BY <1>4, <2>5 DEF Gets, Learns, Told7, TxRec, Asking
  <2>7. ASSUME NEW l \in Line, Allocates(in, h, l) PROVE FALSE
    BY <1>4, <2>7 DEF Allocates, Asking
  <2>8. ASSUME NEW l \in Line, NEW keep \in BOOLEAN, Rewrites(in, h, l, keep) PROVE FALSE
    BY <1>4, <2>8 DEF Rewrites, Asking
  <2> QED BY <2>1, <2>2, <2>3, <2>4, <2>6, <2>7, <2>8, TxStep, 1 \in 1 .. 4
<1>5. \A d, e \in 1 .. 4 : Is(d, Asking)' /\ Is(e, Asking)' /\ Slot(d)' = Slot(e)' => d = e
  BY <1>3
<1> QED BY <1>2, <1>4, <1>5 DEF TxKnows

-----------------------------------------------------------------------------
(* What an edge makes of the lines of the transactions, and of the victims. *)

LEMMA At4 ==
  ASSUME DirIInv, Is(4, Asking)
  PROVE  /\ entry[SetAt(4)][d4.way] = d4.old /\ d4.old \in Opt(Line) /\ d4.way \in Ways
         /\ d4.hit <=> d4.old = <<Req(4).line>>
         /\ ~d4.hit => ~Has(Req(4).line)
         /\ ReplD0 => ~d4.hit
         /\ d4.hit \in BOOLEAN
  BY DEF DirIInv, AtD4, Types, DirTypeOK

LEMMA Repl4 ==
  ASSUME DirIInv, ReplD0
  PROVE  /\ Is(4, Asking) /\ Req(4).kind = "repl" /\ \A d \in 1 .. 3 : sft[d] = <<>>
         /\ ~Has(Req(4).line) /\ Slot(4) \in Hn /\ tx[Slot(4)].st = "repl"
         /\ Swaps(Slot(4))
         /\ Place(SetAt(4), d4.way) \in Holds(Slot(4))
<1>1. Is(4, Asking) /\ Req(4).kind = "repl"
  BY DEF ReplD0, Is, Asking, Req
<1>2. \A d \in 1 .. 3 : sft[d] = <<>>
  BY DEF DirIInv, Spaced, ReplD0
<1>3. ~Has(Req(4).line)
  BY DEF DirIInv, RowTells, ReplD0
<1>4. Slot(4) \in Hn /\ tx[Slot(4)].st = "repl" /\ SetAt(4) \in DirSet
  BY <1>1, StageType
<1>5. lock[Slot(4)] = <<Place(SetAt(4), d4.way)>>
  BY <1>1, <1>4 DEF DirIInv, HoldsKnown, LockOf, AtStage
<1>6. d4.way \in Ways
  BY <1>1, At4
<1> QED BY <1>1, <1>2, <1>3, <1>4, <1>5, <1>6, HoldsAre DEF Swaps, AtStage

\* A victim is nobody's line, unless it was allocated directly and let go of.
LEMMA Victim ==
  ASSUME DirIInv, ReplD0, NEW l \in Line, d4.old = <<l>>
  PROVE  /\ SetAt(4) = SetOf[l] /\ entry[SetAt(4)][d4.way] = <<l>> /\ Has(l)
         /\ l # Req(4).line
         /\ \A h \in Hn : tx[h].line = <<l>> => tx[h].st = "free"
<1>1. /\ Is(4, Asking) /\ entry[SetAt(4)][d4.way] = <<l>> /\ d4.way \in Ways /\ SetAt(4) \in DirSet
      /\ ~Has(Req(4).line) /\ Slot(4) \in Hn /\ tx[Slot(4)].st = "repl"
      /\ tx[Slot(4)].line = <<Req(4).line>>
      /\ Place(SetAt(4), d4.way) \in Holds(Slot(4))
  BY Repl4, At4, StageType
<1>2. SetAt(4) = SetOf[l] /\ Has(l)
  BY <1>1 DEF DirIInv, InSet, Has
<1>3. l # Req(4).line
  BY <1>1, <1>2
<1>4. ASSUME NEW h \in Hn, tx[h].line = <<l>>, tx[h].st # "free" PROVE FALSE
  <2>1. tx[h].line[1] = l /\ TxSet(h) = SetOf[l] /\ tx[h].way \in Ways /\ tx[h].st # "idle" /\ tx[h].st \in TxStates
    <3>1. tx[h].line # <<>> /\ tx[h].line[1] = l
      BY <1>4
    <3> QED BY <3>1, TxType DEF TxSet
  <2>2. h # Slot(4)
    BY <1>1, <1>3, <1>4
  <2>3. CASE tx[h].st \in Asking
    <3>1. PICK d \in 1 .. 4 : AtStage(h, d)
      BY <2>3 DEF DirIInv, TxKnows
    <3>2. d \in 1 .. 3
      BY <2>2, <3>1 DEF AtStage
    <3> QED BY <3>1, <3>2, Repl4 DEF AtStage, Is
  <2>4. CASE tx[h].st \in {"told", "done"} /\ ~tx[h].hit
    BY <1>2, <2>1, <2>4, TxKept
  <2>5. CASE tx[h].st \in {"told", "done"} /\ tx[h].hit
    <3>1. entry[SetOf[l]][tx[h].way] = <<l>>
      BY <1>4, <2>1, <2>5, TxKept
    <3>2. tx[h].way = d4.way
      <4>1. <<l>> # <<>>
        OBVIOUS
      <4> QED BY <1>1, <1>2, <2>1, <3>1, <4>1 DEF DirIInv, OneCopy
    <3>3. lock[h] = <<Place(SetAt(4), d4.way)>>
      BY <1>2, <2>1, <2>5, <3>2 DEF DirIInv, HoldsKnown, LockOf, TxPlace
    <3>4. Place(SetAt(4), d4.way) \in Holds(h)
      BY <1>1, <3>3, HoldsAre
    <3> QED BY <1>1, <2>2, <3>4 DEF DirIInv, HoldsApart
  <2> QED BY <1>4, <2>1, <2>3, <2>4, <2>5 DEF TxStates, Asking
<1> QED BY <1>1, <1>2, <1>3, <1>4

LEMMA EvictedNext ==
  ASSUME DirIInv, NEW in, Edge(in), NEW l \in evicted'
  PROVE  l \in Line /\ (l \in evicted \/ (ReplD0 /\ d4.old = <<l>>))
<1>1. evicted' = (evicted \cup (IF ReplD0 /\ d4.old # <<>> THEN {d4.old[1]} ELSE {}))
                \ {k \in Line : in.clean = <<k>>}
  BY DEF Edge, Surroundings
<1>2. CASE l \in evicted
  BY <1>2 DEF DirIInv, Types
<1>3. CASE l \notin evicted
  <2>1. ReplD0 /\ d4.old # <<>> /\ l = d4.old[1]
    BY <1>1, <1>3
  <2>2. d4.old \in Opt(Line)
    BY <2>1, Repl4, At4
  <2> QED BY <2>1, <2>2 DEF Opt
<1> QED BY <1>2, <1>3

\* A transaction keeps its line, drops it, or comes with a line nobody had.
Asks(in, h) ==
  \/ in.write = <<>> /\ in.read # <<>> /\ in.read[1].hn = h
  \/ in.read = <<>> /\ in.write # <<>> /\ in.write[1].hn = h
LEMMA LineStep ==
  ASSUME DirIInv, NEW in, Edge(in), NEW h \in Hn
  PROVE  \/ tx'[h].line = <<>> /\ tx'[h].st = "idle"
         \/ /\ tx'[h].line = tx[h].line /\ (tx'[h].st = "idle" <=> tx[h].st = "idle")
            /\ tx'[h].st # "free" => tx[h].st # "free"
         \/ \E l \in Line : /\ tx'[h].line = <<l>> /\ ~Busy(l) /\ tx'[h].st # "idle"
                            /\ Asks(in, h)
<1>0. tx[h] \in TxRec
  BY TxType
<1>1. CASE Same(in, h)
  BY <1>1 DEF Same
<1>2. CASE Leaves(in, h)
  BY <1>2 DEF Leaves, NoTx
<1>3. CASE Gets(h)
  <2>1. tx[h].st \in Asking
    BY <1>3, StageType DEF Gets, Swaps, AtStage
  <2> QED BY <1>0, <1>3, <2>1 DEF Gets, TxRec, Asking
<1>4. CASE Learns(h)
  <2>1. tx[h].st \in Asking
    BY <1>4, StageType DEF Learns, AtStage
  <2> QED BY <1>0, <1>4, <2>1 DEF Learns, Told7, TxRec, Asking
<1>5. ASSUME NEW l \in Line, Looks(in, h, l)
      PROVE tx'[h].line = <<l>> /\ ~Busy(l) /\ tx'[h].st # "idle" /\ Asks(in, h)
  BY <1>5 DEF Looks, ReadIn, NoTx, Asks
<1>6. ASSUME NEW l \in Line, Allocates(in, h, l)
      PROVE tx'[h].line = tx[h].line /\ tx[h].st = "told" /\ tx'[h].st = "free"
  BY <1>6 DEF Allocates, DirectIn
<1>7. ASSUME NEW l \in Line, Replaces(in, h, l)
      PROVE /\ tx'[h].line = <<l>> /\ tx'[h].st = "repl"
            /\ (tx'[h].line = tx[h].line /\ tx[h].st = "told") \/ (~Busy(l) /\ Asks(in, h))
  BY <1>7 DEF Replaces, NohitIn, WriteIn, Asks
<1>8. ASSUME NEW l \in Line, NEW keep \in BOOLEAN, Rewrites(in, h, l, keep)
      PROVE tx'[h].line = tx[h].line /\ tx[h].st = "told" /\ tx'[h].st = "done"
  BY <1>8 DEF Rewrites, HitIn
<1> QED BY <1>1, <1>2, <1>3, <1>4, <1>5, <1>6, <1>7, <1>8, TxStep

\* The transactions after each kind of step, field by field.
LEMMA Fields ==
  ASSUME DirIInv, NEW in, NEW h \in Hn
  PROVE  /\ Leaves(in, h) => tx'[h].st = "idle"
         /\ Gets(h) => /\ tx'[h].st = "done" /\ tx'[h].way = d4.way /\ tx'[h].hit = TRUE
                       /\ tx'[h].line = tx[h].line
         /\ Learns(h) => /\ tx'[h].st = "told" /\ tx'[h].hit = d4.hit /\ tx'[h].room = (d4.old = <<>>)
                         /\ tx'[h].way = IF d4.hit \/ (sf /\ d4.old = <<>>) THEN d4.way ELSE 0
                         /\ tx'[h].line = tx[h].line
         /\ \A l \in Line : Looks(in, h, l) => tx'[h].st = "read"
         /\ \A l \in Line : Allocates(in, h, l) => tx'[h].st = "free"
         /\ \A l \in Line : Replaces(in, h, l) => tx'[h].st = "repl"
         /\ \A l \in Line, keep \in BOOLEAN : Rewrites(in, h, l, keep) =>
              tx'[h].st = "done" /\ tx'[h].line = <<l>> /\ tx'[h].way = tx[h].way /\ tx'[h].hit = keep
<1>0. tx[h] \in TxRec
  BY TxType
<1>1. Leaves(in, h) => tx'[h].st = "idle"
  BY DEF Leaves, NoTx
<1>2. Gets(h) => /\ tx'[h].st = "done" /\ tx'[h].way = d4.way /\ tx'[h].hit = TRUE
                 /\ tx'[h].line = tx[h].line
  BY <1>0 DEF Gets, TxRec
<1>3. Learns(h) => /\ tx'[h].st = "told" /\ tx'[h].hit = d4.hit /\ tx'[h].room = (d4.old = <<>>)
                   /\ tx'[h].way = IF d4.hit \/ (sf /\ d4.old = <<>>) THEN d4.way ELSE 0
                   /\ tx'[h].line = tx[h].line
  BY <1>0 DEF Learns, Told7, TxRec
<1>4. ASSUME NEW l \in Line, Looks(in, h, l) PROVE tx'[h].st = "read"
  BY <1>4 DEF Looks, NoTx
<1>5. ASSUME NEW l \in Line, Allocates(in, h, l) PROVE tx'[h].st = "free"
  BY <1>5 DEF Allocates
<1>6. ASSUME NEW l \in Line, Replaces(in, h, l) PROVE tx'[h].st = "repl"
  BY <1>6 DEF Replaces
<1>7. ASSUME NEW l \in Line, NEW keep \in BOOLEAN, Rewrites(in, h, l, keep)
      PROVE  tx'[h].st = "done" /\ tx'[h].line = <<l>> /\ tx'[h].way = tx[h].way /\ tx'[h].hit = keep
  BY <1>7 DEF Rewrites
<1> QED BY <1>1, <1>2, <1>3, <1>4, <1>5, <1>6, <1>7

LEMMA ShapeStep ==
  ASSUME DirIInv, NEW in, Edge(in)
  PROVE  TxShape'
<1>1. ASSUME NEW h \in Hn PROVE tx'[h].st = "idle" <=> tx'[h].line = <<>>
  <2>1. tx[h].st = "idle" <=> tx[h].line = <<>>
    BY TxType
  <2>2. \A l : <<l>> # <<>>
    OBVIOUS
  <2> QED BY <2>1, <2>2, LineStep
<1>2. ASSUME NEW h \in Hn, tx'[h].st = "told", tx'[h].hit PROVE ~tx'[h].room
  <2>0. tx[h] \in TxRec
    BY TxType
  <2>1. CASE Same(in, h)
    BY <1>2, <2>1 DEF Same, DirIInv, TxShape
  <2>2. CASE Learns(h)
    <3>1. tx'[h].hit = d4.hit /\ tx'[h].room = (d4.old = <<>>)
      BY <2>0, <2>2 DEF Learns, Told7, TxRec
    <3>2. d4.old = <<Req(4).line>>
      BY <1>2, <2>2, <3>1, At4 DEF Learns, AtStage
    <3>3. d4.old # <<>>
      BY <3>2
    <3>4. tx'[h].room = FALSE
      BY <3>1, <3>3
    <3> QED BY <3>4
  <2>6. tx'[h].st = "told"
    BY <1>2
  <2>3. ~Leaves(in, h) /\ ~Gets(h)
    BY <2>6, Fields
  <2>4. \A l \in Line : ~Looks(in, h, l) /\ ~Allocates(in, h, l) /\ ~Replaces(in, h, l)
    BY <2>6, Fields
  <2>5. \A l \in Line, keep \in BOOLEAN : ~Rewrites(in, h, l, keep)
    BY <2>6, Fields
  <2> QED BY <2>1, <2>2, <2>3, <2>4, <2>5, TxStep
<1>3. ASSUME NEW g \in Hn, NEW h \in Hn, tx'[g].line = tx'[h].line, g # h, tx'[g].line # <<>> PROVE FALSE
  <2>1. ASSUME NEW a \in Hn, NEW b \in Hn, NEW l \in Line, tx'[a].line = <<l>>, ~Busy(l), Asks(in, a), a # b,
               tx'[b].line = <<l>>
        PROVE  FALSE
    <3>1. ~Asks(in, b)
      BY <2>1 DEF Asks
    <3>2. tx[b].line = <<l>>
      BY <2>1, <3>1, LineStep
    <3> QED BY <2>1, <3>2 DEF Busy
  <2>2. tx'[g].line = tx[g].line /\ tx'[h].line = tx[h].line
    BY <1>3, <2>1, LineStep
  <2> QED BY <1>3, <2>2 DEF DirIInv, TxShape
<1>4. ASSUME NEW h \in Hn, tx'[h].st # "free", NEW l \in evicted', tx'[h].line = <<l>> PROVE FALSE
  <2>1. l \in Line /\ (l \in evicted \/ (ReplD0 /\ d4.old = <<l>>))
    BY EvictedNext
  <2>2. CASE tx'[h].line = tx[h].line /\ tx[h].st # "free"
    <3>1. l \notin evicted
      BY <1>4, <2>2 DEF DirIInv, TxShape
    <3> QED BY <1>4, <2>1, <2>2, <3>1, Victim
  <2>3. CASE ~Busy(l) /\ Asks(in, h)
    <3>1. ~ReplD0
      BY <2>3, Fires DEF Asks, Edge
    <3> QED BY <2>1, <2>3, <3>1 DEF Busy
  <2>4. \A k : <<k>> = <<l>> => k = l
    OBVIOUS
  <2> QED BY <1>4, <2>2, <2>3, <2>4, LineStep
<1> QED BY <1>1, <1>2, <1>3, <1>4 DEF TxShape

-----------------------------------------------------------------------------
(* What an edge makes of the entries.                                      *)

LEMMA InSetStep ==
  ASSUME DirIInv, NEW in, Edge(in)
  PROVE  InSet'
<1> SUFFICES ASSUME NEW s \in DirSet, NEW w \in Ways, NEW l \in Line, entry'[s][w] = <<l>>
             PROVE  SetOf[l] = s
  BY DEF InSet
<1>1. CASE entry'[s][w] = entry[s][w]
  BY <1>1 DEF DirIInv, InSet
<1>2. CASE entry'[s][w] # entry[s][w]
  <2>1. PICK h \in Hn : /\ Writer(in, h) /\ s = TxSet(h)
                        /\ entry'[s][w] = IF Drops(in, h) THEN <<>> ELSE tx[h].line
    BY <1>2, EntryAt
  <2>2. <<l>> # <<>>
    OBVIOUS
  <2>3. tx[h].line = <<l>>
    BY <2>1, <2>2
  <2> QED BY <2>1, <2>3 DEF TxSet
<1> QED BY <1>1, <1>2

LEMMA CopyStep ==
  ASSUME DirIInv, NEW in, Edge(in)
  PROVE  OneCopy'
<1>0. entry \in [DirSet -> [Ways -> Opt(Line)]] /\ entry' \in [DirSet -> [Ways -> Opt(Line)]]
  BY EntryType DEF DirIInv, Types, DirTypeOK
<1>1. ASSUME NEW s \in DirSet, NEW v \in Ways, NEW w \in Ways, v # w, NEW l \in Line,
             entry'[s][v] = <<l>>, entry'[s][w] = <<l>>, entry'[s][v] # entry[s][v]
      PROVE  FALSE
  <2>1. PICK h \in Hn : /\ Writer(in, h) /\ s = TxSet(h) /\ v = WrittenWay(h)
                        /\ entry'[s][v] = IF Drops(in, h) THEN <<>> ELSE tx[h].line
    BY <1>1, EntryAt
  <2>2. <<l>> # <<>>
    OBVIOUS
  <2>3. tx[h].line = <<l>> /\ ~Drops(in, h)
    BY <1>1, <2>1, <2>2
  <2>4. entry' = [entry EXCEPT ![s][v] = tx[h].line] /\ ~Has(l)
    <3>1. entry' = [entry EXCEPT ![TxSet(h)][WrittenWay(h)] = IF Drops(in, h) THEN <<>> ELSE tx[h].line]
      BY <2>1, WritersHold
    <3>2. ~Has(tx[h].line[1])
      BY <2>1, <2>3, WritersHold
    <3>3. tx[h].line[1] = l
      BY <2>3
    <3> QED BY <2>1, <2>3, <3>1, <3>2, <3>3
  <2>5. entry[s][w] = <<l>>
    BY <1>0, <1>1, <2>4
  <2>6. s = SetOf[l]
    BY <2>1, <2>3 DEF TxSet
  <2> QED BY <2>4, <2>5, <2>6 DEF Has
<1>2. ASSUME NEW s \in DirSet, NEW v \in Ways, NEW w \in Ways, v # w, entry'[s][v] = entry'[s][w],
             entry'[s][v] # <<>>
      PROVE  FALSE
  <2>1. PICK l \in Line : entry'[s][v] = <<l>>
    BY <1>0, <1>2 DEF Opt
  <2>2. entry'[s][v] = entry[s][v] /\ entry'[s][w] = entry[s][w]
    BY <1>1, <1>2, <2>1
  <2> QED BY <1>2, <2>2 DEF DirIInv, OneCopy
<1>3. ASSUME NEW l \in evicted', Has(l)' PROVE FALSE
  <2>1. l \in Line /\ (l \in evicted \/ (ReplD0 /\ d4.old = <<l>>))
    BY EvictedNext
  <2>2. CASE l \in evicted
    <3>1. ~Has(l)
      BY <2>2 DEF DirIInv, OneCopy
    <3>2. PICK h \in Hn : Writer(in, h) /\ tx[h].line = <<l>>
      BY <1>3, <2>1, <3>1, LineComes
    <3>3. tx[h].st # "free"
      BY <3>2, WritersHold
    <3> QED BY <2>2, <3>2, <3>3 DEF DirIInv, TxShape
  <2>3. CASE ReplD0 /\ d4.old = <<l>>
    <3> DEFINE h == Slot(4)
               k == Req(4).line
               t == SetAt(4)
    <3>1. /\ t = SetOf[l] /\ entry[t][d4.way] = <<l>> /\ l # k
          /\ h \in Hn /\ Swaps(h) /\ Is(4, Asking) /\ d4.way \in Ways
      BY <2>1, <2>3, Victim, Repl4, At4
    <3>2. t \in DirSet /\ tx[h].line = <<k>> /\ TxSet(h) = t /\ tx[h].st \in Asking
      BY <3>1, StageType
    <3>3. ~Drops(in, h)
      BY <3>2 DEF Drops, HitIn, Asking
    <3>4. entry' = [entry EXCEPT ![t][d4.way] = <<k>>]
      BY <2>3, <3>1, <3>2, <3>3, WritersHold DEF Writer, WrittenWay
    <3> HIDE DEF h, k, t
    <3>5. PICK w \in Ways : entry'[t][w] = <<l>>
      BY <1>3, <3>1 DEF Has
    <3>6. <<l>> # <<k>> /\ <<l>> # <<>>
      BY <3>1
    <3>7. w # d4.way
      BY <1>0, <3>1, <3>2, <3>4, <3>5, <3>6
    <3>8. entry[t][w] = <<l>>
      BY <1>0, <3>1, <3>2, <3>4, <3>5, <3>7
    <3> QED BY <3>1, <3>2, <3>6, <3>7, <3>8 DEF DirIInv, OneCopy
  <2> QED BY <2>1, <2>2, <2>3
<1> QED BY <1>2, <1>3 DEF OneCopy

\* Who is not the writer keeps what it knows of the directory.
LEMMA NotWriter ==
  ASSUME DirIInv, NEW in, Edge(in), NEW h \in Hn
  PROVE  /\ Same(in, h) => ~Writer(in, h)
         /\ Learns(h) => ~Writer(in, h)
         /\ \A l \in Line : Rewrites(in, h, l, TRUE) => ~Writer(in, h)
<1>1. ASSUME Drops(in, h) PROVE /\ tx[h].st = "told" /\ in.write # <<>> /\ in.write[1].hn = h
                                /\ in.write[1].keep = FALSE
  <2>1. PICK l \in Line, keep \in BOOLEAN : HitIn(in, h, l, keep) /\ keep = FALSE
    BY <1>1 DEF Drops
  <2> QED BY <2>1 DEF HitIn, WriteIn
<1>2. Same(in, h) => ~Writer(in, h)
  BY <1>1, FillsIs DEF Same, Writer, Swaps
<1>3. ASSUME Learns(h) PROVE ~Writer(in, h)
  <2>1. tx[h].st \in Asking /\ ~ReplD0
    BY <1>3, StageType DEF Learns, AtStage
  <2> QED BY <1>1, <2>1, FillsIs DEF Writer, Swaps, Asking
<1>4. ASSUME NEW l \in Line, Rewrites(in, h, l, TRUE) PROVE ~Writer(in, h)
  <2>1. in.write # <<>> /\ in.write[1].kind = "hit" /\ in.write[1].keep = TRUE
    BY <1>4 DEF Rewrites, HitIn, WriteIn
  <2>2. ~ReplD0
    BY <2>1, Fires DEF Edge
  <2> QED BY <1>1, <2>1, <2>2, FillsIs DEF Writer, Swaps
<1> QED BY <1>2, <1>3, <1>4

LEMMA AbsentStays ==
  ASSUME DirIInv, NEW in, Edge(in), NEW h \in Hn, NEW l \in Line, tx[h].line = <<l>>, ~Has(l), ~Writer(in, h)
  PROVE  ~Has(l)'
<1>1. SUFFICES ASSUME Has(l)' PROVE FALSE
  OBVIOUS
<1>2. PICK g \in Hn : Writer(in, g) /\ tx[g].line = <<l>>
  BY <1>1, LineComes
<1>3. <<l>> # <<>>
  OBVIOUS
<1> QED BY <1>2, <1>3 DEF DirIInv, TxShape

\* What a transaction has been told stays true, and what it held empty stays so.
LEMMA KeptStep ==
  ASSUME DirIInv, NEW in, Edge(in), NEW h \in Hn, tx'[h].st \in {"told", "done"},
         NEW l \in Line, tx[h].line = <<l>>
  PROVE  /\ tx'[h].hit => entry'[SetOf[l]][tx'[h].way] = <<l>>
         /\ ~tx'[h].hit => ~Has(l)'
         /\ ~tx'[h].hit /\ (tx'[h].st = "done" \/ (sf /\ tx'[h].room)) => entry'[SetOf[l]][tx'[h].way] = <<>>
         /\ tx'[h].line = <<l>>
<1> DEFINE s == SetOf[l]
<1>0. s \in DirSet /\ TxSet(h) = s /\ tx[h].line[1] = l
  BY DirAssumption DEF TxSet
<1>1. CASE Same(in, h)
  <2> DEFINE w == tx[h].way
  <2>1. /\ tx'[h] = tx[h] /\ tx[h].st \in {"told", "done"} /\ ~Writer(in, h)
        /\ w \in Ways /\ tx[h].hit \in BOOLEAN
    BY <1>1, NotWriter, TxType DEF Same
  <2>2. /\ tx[h].hit => entry[s][w] = <<l>>
        /\ ~tx[h].hit => ~Has(l)
        /\ ~tx[h].hit /\ (tx[h].st = "done" \/ (sf /\ tx[h].room)) => entry[s][w] = <<>>
    BY <1>0, <2>1, TxKept
  <2>3. tx[h].hit \/ tx[h].st = "done" => lock[h] = <<Place(s, w)>>
    BY <1>0, <2>1 DEF DirIInv, HoldsKnown, LockOf, TxPlace
  <2>4. ~tx[h].hit /\ tx[h].st = "told" /\ sf /\ tx[h].room => rsv[h] = <<Place(s, w)>>
    BY <1>0, <2>1 DEF DirIInv, HoldsKnown, RsvOf, TxPlace
  <2> HIDE DEF s, w
  <2>5. tx[h].hit \/ tx[h].st = "done" \/ (sf /\ tx[h].room) => entry'[s][w] = entry[s][w]
    <3>1. SUFFICES ASSUME tx[h].hit \/ tx[h].st = "done" \/ (sf /\ tx[h].room)
                   PROVE  entry'[s][w] = entry[s][w]
      OBVIOUS
    <3>2. Place(s, w) \in Holds(h)
      BY <1>0, <2>1, <2>3, <2>4, <3>1, HoldsAre
    <3> QED BY <1>0, <2>1, <3>2, HeldStays
  <2>6. ~tx[h].hit => ~Has(l)'
    BY <2>1, <2>2, AbsentStays
  <2>7. tx'[h].hit => entry'[s][w] = <<l>>
    BY <2>1, <2>2, <2>5
  <2>8. ~tx'[h].hit /\ (tx'[h].st = "done" \/ (sf /\ tx'[h].room)) => entry'[s][w] = <<>>
    BY <2>1, <2>2, <2>5
  <2>9. tx'[h].way = w
    BY <2>1 DEF w
  <2> QED BY <2>1, <2>6, <2>7, <2>8, <2>9 DEF s
<1>2. CASE Gets(h)
  <2>1. /\ tx'[h].hit = TRUE /\ tx'[h].way = d4.way /\ tx'[h].line = tx[h].line /\ Swaps(h)
        /\ tx[h].st = "repl" /\ ReplD0 /\ d4.way \in Ways
    BY <1>2, Fields, Repl4, At4 DEF Gets, Swaps, AtStage
  <2>2. ~Drops(in, h)
    BY <2>1 DEF Drops, HitIn
  <2>4. entry' = [entry EXCEPT ![s][d4.way] = <<l>>]
    BY <1>0, <2>1, <2>2, WritersHold DEF Writer, WrittenWay
  <2>5. entry \in [DirSet -> [Ways -> Opt(Line)]]
    BY DEF DirIInv, Types, DirTypeOK
  <2> HIDE DEF s
  <2>6. entry'[s][d4.way] = <<l>>
    BY <1>0, <2>1, <2>4, <2>5
  <2> QED BY <2>1, <2>6 DEF s
<1>3. CASE Learns(h)
  <2>1. /\ tx'[h].hit = d4.hit /\ tx'[h].room = (d4.old = <<>>) /\ tx'[h].line = tx[h].line
        /\ tx'[h].way = IF d4.hit \/ (sf /\ d4.old = <<>>) THEN d4.way ELSE 0
        /\ tx'[h].st = "told"
    BY <1>3, Fields
  <2>2. /\ AtStage(h, 4) /\ ~ReplD0 /\ Is(4, Asking) /\ Slot(4) = h
    BY <1>3 DEF Learns, AtStage
  <2>3. /\ entry[SetAt(4)][d4.way] = d4.old /\ d4.way \in Ways /\ d4.hit \in BOOLEAN
        /\ d4.hit <=> d4.old = <<Req(4).line>>
        /\ ~d4.hit => ~Has(Req(4).line)
    BY <2>2, At4
  <2>4. /\ tx[h].line = <<Req(4).line>> /\ tx[h].st \in Asking /\ Req(4).line \in Line /\ SetAt(4) \in DirSet
    BY <2>2, StageType
  <2>5. l = Req(4).line /\ s = SetAt(4)
    BY <2>4 DEF SetAt
  <2>6. d4.hit => lock[h] = <<Place(s, d4.way)>>
    BY <2>2, <2>4, <2>5 DEF DirIInv, HoldsKnown, LockOf, Asking
  <2>7. ~d4.hit /\ sf /\ d4.old = <<>> => rsv[h] = <<Place(s, d4.way)>>
    BY <2>2, <2>4, <2>5 DEF DirIInv, HoldsKnown, RsvOf, Asking
  <2>8. ~Writer(in, h)
    BY <1>3, NotWriter
  <2> HIDE DEF s
  <2>9. d4.hit \/ (sf /\ d4.old = <<>>) => entry'[s][d4.way] = d4.old
    <3>1. SUFFICES ASSUME d4.hit \/ (sf /\ d4.old = <<>>) PROVE entry'[s][d4.way] = d4.old
      OBVIOUS
    <3>2. Place(s, d4.way) \in Holds(h)
      BY <2>3, <2>4, <2>5, <2>6, <2>7, <3>1, HoldsAre
    <3> QED BY <2>3, <2>4, <2>5, <2>8, <3>2, HeldStays
  <2>10. ~d4.hit => ~Has(l)'
    BY <2>3, <2>4, <2>5, <2>8, AbsentStays
  <2>11. d4.hit => entry'[s][d4.way] = <<l>>
    BY <2>3, <2>5, <2>9
  <2>13. ~d4.hit /\ sf /\ d4.old = <<>> => entry'[s][d4.way] = <<>>
    BY <2>9
  <2>14. tx'[h].hit => entry'[s][tx'[h].way] = <<l>>
    BY <2>1, <2>11
  <2>15. ~tx'[h].hit /\ sf /\ tx'[h].room => entry'[s][tx'[h].way] = <<>>
    BY <2>1, <2>13
  <2>16. ~tx'[h].hit => ~Has(l)'
    BY <2>1, <2>10
  <2> QED BY <2>1, <2>14, <2>15, <2>16 DEF s
<1>4. ASSUME NEW k \in Line, NEW keep \in BOOLEAN, Rewrites(in, h, k, keep)
      PROVE  /\ tx'[h].hit => entry'[s][tx'[h].way] = <<l>>
             /\ ~tx'[h].hit => ~Has(l)'
             /\ ~tx'[h].hit => entry'[s][tx'[h].way] = <<>>
             /\ tx'[h].line = <<l>>
  <2> DEFINE w == tx[h].way
  <2>1. /\ tx[h].st = "told" /\ tx[h].hit /\ tx[h].line = <<k>> /\ HitIn(in, h, k, keep)
        /\ tx'[h].line = <<k>> /\ tx'[h].way = w /\ tx'[h].hit = keep
    BY <1>4, Fields DEF Rewrites, HitIn
  <2>2. l = k /\ w \in Ways
    BY <2>1, TxType
  <2>3. entry[s][w] = <<l>> /\ lock[h] = <<Place(s, w)>>
    BY <1>0, <2>1, <2>2, TxKept DEF DirIInv, HoldsKnown, LockOf, TxPlace
  <2>4. entry \in [DirSet -> [Ways -> Opt(Line)]]
    BY DEF DirIInv, Types, DirTypeOK
  <2>5. CASE keep = TRUE
    <3>1. ~Writer(in, h)
      BY <1>4, <2>5, NotWriter
    <3>2. Place(s, w) \in Holds(h)
      BY <1>0, <2>2, <2>3, HoldsAre
    <3> HIDE DEF s, w
    <3>3. entry'[s][w] = <<l>>
      BY <1>0, <2>2, <2>3, <3>1, <3>2, HeldStays
    <3> QED BY <2>1, <2>2, <2>5, <3>3
  <2>6. CASE keep = FALSE
    <3>1. Drops(in, h)
      BY <2>1, <2>6 DEF Drops
    <3>2. ~ReplD0
      <4>1. in.write # <<>>
        BY <2>1 DEF HitIn, WriteIn
      <4> QED BY <4>1, Fires DEF Edge
    <3>3. entry' = [entry EXCEPT ![s][w] = <<>>]
      BY <1>0, <3>1, <3>2, WritersHold DEF Writer, WrittenWay
    <3>7. s = SetOf[l]
      OBVIOUS
    <3> HIDE DEF s, w
    <3>4. entry'[s][w] = <<>>
      BY <1>0, <2>2, <2>4, <3>3
    <3>5. ASSUME Has(l)' PROVE FALSE
      <4>1. PICK v \in Ways : entry'[s][v] = <<l>>
        BY <3>5, <3>7 DEF Has
      <4>2. <<l>> # <<>>
        OBVIOUS
      <4>3. v # w
        BY <3>4, <4>1, <4>2
      <4>4. entry[s][v] = <<l>>
        BY <1>0, <2>2, <2>4, <3>3, <4>1, <4>3
      <4> QED BY <1>0, <2>2, <2>3, <4>2, <4>3, <4>4 DEF DirIInv, OneCopy
    <3> QED BY <2>1, <2>2, <2>6, <3>4, <3>5
  <2> QED BY <2>5, <2>6
<1>5. ~Leaves(in, h) /\ \A k \in Line : ~Looks(in, h, k) /\ ~Allocates(in, h, k) /\ ~Replaces(in, h, k)
  BY Fields
<1> QED BY <1>1, <1>2, <1>3, <1>4, <1>5, TxStep

LEMMA WayStep ==
  ASSUME DirIInv, NEW in, Edge(in)
  PROVE  WayKept' /\ DoneEmpty'
<1>0. sf' = sf
  BY DEF Edge, DirTick
<1>1. ASSUME NEW h \in Hn, tx'[h].st \in {"told", "done"}
      PROVE  \E l \in Line : tx[h].line = <<l>>
  <2>1. tx[h].st # "idle"
    <3>1. ~Leaves(in, h) /\ \A k \in Line : ~Looks(in, h, k) /\ ~Allocates(in, h, k) /\ ~Replaces(in, h, k)
      BY <1>1, Fields
    <3>2. Same(in, h) => tx[h].st # "idle"
      BY <1>1 DEF Same
    <3>3. Gets(h) \/ Learns(h) => tx[h].st # "idle"
      BY StageType DEF Gets, Swaps, Learns, AtStage, Asking
    <3>4. \A l \in Line, keep \in BOOLEAN : Rewrites(in, h, l, keep) => tx[h].st # "idle"
      BY DEF Rewrites, HitIn
    <3> QED BY <3>1, <3>2, <3>3, <3>4, TxStep
  <2> QED BY <2>1, TxType
<1>2. ASSUME NEW h \in Hn, tx'[h].st \in {"told", "done"}
      PROVE  \E l \in Line :
               /\ tx'[h].line = <<l>> /\ tx'[h].line[1] = l
               /\ tx'[h].hit => entry'[SetOf[l]][tx'[h].way] = <<l>>
               /\ ~tx'[h].hit => ~(\E w \in Ways : entry'[SetOf[l]][w] = <<l>>)
               /\ ~tx'[h].hit /\ (tx'[h].st = "done" \/ (sf' /\ tx'[h].room))
                    => entry'[SetOf[l]][tx'[h].way] = <<>>
  <2>1. PICK l \in Line : tx[h].line = <<l>>
    BY <1>1, <1>2
  <2>2. /\ tx'[h].hit => entry'[SetOf[l]][tx'[h].way] = <<l>>
        /\ ~tx'[h].hit => ~Has(l)'
        /\ ~tx'[h].hit /\ (tx'[h].st = "done" \/ (sf' /\ tx'[h].room)) => entry'[SetOf[l]][tx'[h].way] = <<>>
        /\ tx'[h].line = <<l>>
    BY <1>0, <1>2, <2>1, KeptStep
  <2>3. tx'[h].line[1] = l
    BY <2>2
  <2>4. ~tx'[h].hit => ~(\E w \in Ways : entry'[SetOf[l]][w] = <<l>>)
    BY <2>2 DEF Has
  <2> QED BY <2>2, <2>3, <2>4
<1>3. DoneEmpty'
  <2>0. SUFFICES ASSUME NEW h \in Hn, tx'[h].st = "done", ~tx'[h].hit
               PROVE  entry'[SetOf[tx'[h].line[1]]][tx'[h].way] = <<>>
    BY DEF DoneEmpty, TxSet
  <2>1. tx'[h].st \in {"told", "done"}
    BY <2>0
  <2>2. PICK l \in Line :
               /\ tx'[h].line[1] = l
               /\ ~tx'[h].hit /\ (tx'[h].st = "done" \/ (sf' /\ tx'[h].room))
                    => entry'[SetOf[l]][tx'[h].way] = <<>>
    BY <1>2, <2>1
  <2>3. tx'[h].st = "done" /\ ~tx'[h].hit
    BY <2>0
  <2>4. tx'[h].line[1] = l
    BY <2>2
  <2>5. entry'[SetOf[l]][tx'[h].way] = <<>>
    BY <2>2, <2>3
  <2> QED BY <2>4, <2>5
<1>4. WayKept'
  <2>1. SUFFICES ASSUME NEW h \in Hn, tx'[h].st \in {"told", "done"}
                 PROVE  IF tx'[h].hit
                        THEN entry'[SetOf[tx'[h].line[1]]][tx'[h].way] = <<tx'[h].line[1]>>
                        ELSE /\ ~Has(tx[h].line[1])'
                             /\ sf' /\ tx'[h].room => entry'[SetOf[tx'[h].line[1]]][tx'[h].way] = <<>>
    BY DEF WayKept
  <2>2. PICK l \in Line :
               /\ tx'[h].line[1] = l
               /\ tx'[h].hit => entry'[SetOf[l]][tx'[h].way] = <<l>>
               /\ ~tx'[h].hit => ~(\E w \in Ways : entry'[SetOf[l]][w] = <<l>>)
               /\ ~tx'[h].hit /\ (tx'[h].st = "done" \/ (sf' /\ tx'[h].room))
                    => entry'[SetOf[l]][tx'[h].way] = <<>>
    BY <1>2, <2>1
  <2>3. ~tx'[h].hit => ~Has(tx[h].line[1])'
    BY <2>2 DEF Has
  <2> QED BY <2>2, <2>3
<1> QED BY <1>3, <1>4

-----------------------------------------------------------------------------
(* What an edge makes of what the stages know.                             *)

LEMMA Quiet ==
  ASSUME DirIInv, NEW in, Edge(in), ~ReplD0, in.write = <<>> \/ in.write[1].kind = "nohit"
  PROVE  entry' = entry
<1>1. ASSUME NEW h \in Hn PROVE ~Writer(in, h)
  <2>1. ~Drops(in, h)
    <3>1. ASSUME NEW l \in Line, NEW keep \in BOOLEAN, HitIn(in, h, l, keep)
          PROVE  in.write # <<>> /\ in.write[1].kind = "hit"
      BY <3>1 DEF HitIn, WriteIn
    <3> QED BY <3>1 DEF Drops
  <2> QED BY <2>1, FillsIs DEF Writer, Swaps
<1> QED BY <1>1, NoWriter

\* A row that is on its way keeps telling where its line is.
LEMMA RowKeeps ==
  ASSUME DirIInv, NEW in, Edge(in), NEW d \in 1 .. 3, Is(d, Asking), NEW w \in Ways
  PROVE  entry'[SetAt(d)][w] = <<Req(d).line>> <=> entry[SetAt(d)][w] = <<Req(d).line>>
<1> DEFINE s == SetAt(d)
           h == Slot(d)
           l == Req(d).line
<1>1. s \in DirSet /\ h \in Hn /\ tx[h].line = <<l>> /\ AtStage(h, d)
  BY StageType DEF AtStage
<1>2. ~Writer(in, h) /\ ~ReplD0
  <2>1. ~Writer(in, h)
    BY <1>1, AskedWaits, NotWriter
  <2> QED BY <2>1, Repl4 DEF Is
<1> HIDE DEF s, h, l
<1>3. SUFFICES ASSUME entry'[s][w] # entry[s][w] PROVE entry'[s][w] # <<l>> /\ entry[s][w] # <<l>>
  BY DEF s, l
<1>4. PICK g \in Hn : /\ Writer(in, g) /\ s = TxSet(g) /\ w = WrittenWay(g)
                      /\ entry'[s][w] = IF Drops(in, g) THEN <<>> ELSE tx[g].line
  BY <1>1, <1>3, EntryAt
<1>5. <<l>> # <<>>
  OBVIOUS
<1>6. tx[g].line # <<l>>
  BY <1>1, <1>2, <1>4, <1>5 DEF DirIInv, TxShape
<1>7. entry'[s][w] # <<l>>
  BY <1>4, <1>5, <1>6
<1>8. CASE Drops(in, g)
  <2>1. entry[s][w] = tx[g].line
    BY <1>4, <1>8, WritersHold
  <2> QED BY <1>6, <1>7, <2>1
<1>9. CASE Fills(in, g)
  <2>1. entry[TxSet(g)][tx[g].way] = <<>>
    BY <1>9, FillsIs, TxKept
  <2>2. entry[s][w] = <<>>
    BY <1>2, <1>4, <2>1 DEF WrittenWay
  <2> QED BY <1>5, <1>7, <2>2
<1> QED BY <1>2, <1>4, <1>8, <1>9 DEF Writer, Swaps

\* What comes to d1 has read what stands there after the edge.
LEMMA RowNew ==
  ASSUME DirIInv, NEW in, Edge(in), Is(1, Asking)'
  PROVE  Req(1)'.row = entry'[SetAt(1)']
<1>1. PICK h \in Hn, l \in Line : ReadIn(in, h, l) \/ NohitIn(in, h, l)
  BY Enters
<1>2. in.write = <<>> \/ in.write[1].kind = "nohit"
  BY <1>1 DEF ReadIn, NohitIn, WriteIn
<1>3. in.read # <<>> \/ in.write # <<>>
  BY <1>1 DEF ReadIn, NohitIn, WriteIn
<1>4. ~ReplD0
  BY <1>3, Fires DEF Edge
<1>5. entry' = entry
  BY <1>2, <1>4, Quiet
<1>6. Req(1)'.row = entry[SetOf[l]] /\ Req(1)'.line = l
  BY <1>1, Enters DEF Req
<1>7. SetAt(1)' = SetOf[l]
  BY <1>6 DEF SetAt
<1> QED BY <1>5, <1>6, <1>7

LEMMA RowStep ==
  ASSUME DirIInv, NEW in, Edge(in)
  PROVE  RowTells'
<1>0. DirTick(in)
  BY DEF Edge
<1>1. ASSUME NEW d \in 1 .. 4, Is(d, Asking)', d # 1
      PROVE  \E e \in 1 .. 3 : /\ d = e + 1 /\ Is(e, Asking) /\ Req(d)' = Req(e) /\ SetAt(d)' = SetAt(e)
  <2>1. d - 1 \in 1 .. 3 /\ d = (d - 1) + 1
    BY <1>1
  <2>2. PICK e \in 1 .. 3 : d = e + 1
    BY <2>1
  <2> QED BY <1>0, <1>1, <2>2, Moves
<1>2. ASSUME NEW d \in 1 .. 3, Is(d, Asking)', NEW w \in Ways
      PROVE  Req(d)'.row[w] = <<Req(d)'.line>> <=> entry'[SetAt(d)'][w] = <<Req(d)'.line>>
  <2>1. CASE d = 1
    <3>1. Req(1)'.row = entry'[SetAt(1)']
      BY <1>2, <2>1, RowNew
    <3> QED BY <2>1, <3>1
  <2>2. CASE d # 1
    <3>1. PICK e \in 1 .. 3 : d = e + 1 /\ Is(e, Asking) /\ Req(d)' = Req(e) /\ SetAt(d)' = SetAt(e)
      BY <1>1, <1>2, <2>2
    <3>2. Req(e).row[w] = <<Req(e).line>> <=> entry[SetAt(e)][w] = <<Req(e).line>>
      BY <3>1 DEF DirIInv, RowTells
    <3> QED BY <3>1, <3>2, RowKeeps
  <2> QED BY <2>1, <2>2
<1>3. ASSUME NEW d \in 1 .. 2, Is(d, Asking)' PROVE Req(d)'.row = entry'[SetAt(d)']
  <2>1. CASE d = 1
    <3>1. Req(1)'.row = entry'[SetAt(1)']
      BY <1>3, <2>1, RowNew
    <3> QED BY <2>1, <3>1
  <2>2. CASE d # 1
    <3>1. PICK e \in 1 .. 3 : d = e + 1 /\ Is(e, Asking) /\ Req(d)' = Req(e) /\ SetAt(d)' = SetAt(e)
      BY <1>1, <1>3, <2>2
    <3>2. e = 1
      BY <3>1
    <3>3. sft[1] # <<>>
      BY <3>1, <3>2 DEF Is
    <3>4. in.write = <<>> /\ ~ReplD0
      BY <1>0, <3>3, Fires, Repl4 DEF Edge
    <3>5. entry' = entry
      BY <3>4, Quiet
    <3>6. Req(e).row = entry[SetAt(e)]
      BY <3>1, <3>2 DEF DirIInv, RowTells
    <3> QED BY <3>1, <3>5, <3>6
  <2> QED BY <2>1, <2>2
<1>4. ASSUME NEW d \in 1 .. 4, Is(d, {"repl"})', NEW l \in Line, Req(d)'.line = l PROVE ~Has(l)'
  <2>0. Is(d, Asking)'
    BY <1>4 DEF Is, Asking
  <2>1. CASE d = 1
    <3>1. PICK h \in Hn, k \in Line : NohitIn(in, h, k)
      BY <1>4, <2>1, Enters
    <3>2. Req(1)'.line = k
      BY <3>1, Enters DEF Req
    <3>3. in.write # <<>> /\ in.write[1].kind = "nohit"
      BY <3>1 DEF NohitIn, WriteIn
    <3>4. ~ReplD0
      BY <3>3, Fires DEF Edge
    <3>5. entry' = entry
      BY <3>3, <3>4, Quiet
    <3>6. ~Has(k)
      <4>1. CASE tx[h].st = "told" /\ ~tx[h].hit /\ tx[h].line = <<k>>
        BY <4>1, TxKept
      <4> QED BY <3>1, <4>1 DEF NohitIn
    <3>7. k = l
      BY <1>4, <2>1, <3>2
    <3> QED BY <3>5, <3>6, <3>7 DEF Has
  <2>2. CASE d # 1
    <3>5. PICK e \in 1 .. 3 : d = e + 1 /\ Is(e, Asking) /\ Req(d)' = Req(e)
      BY <1>1, <2>0, <2>2
    <3>1. Is(e, Asking) /\ Req(d)' = Req(e) /\ Is(e, {"repl"})
      BY <1>0, <1>4, <3>5, Moves
    <3>2. Slot(e) \in Hn /\ tx[Slot(e)].line = <<l>> /\ AtStage(Slot(e), e)
      BY <1>4, <3>1, StageType DEF AtStage
    <3>3. ~Has(l)
      BY <1>4, <3>1 DEF DirIInv, RowTells
    <3>4. ~Writer(in, Slot(e))
      BY <3>2, AskedWaits, NotWriter
    <3> QED BY <3>2, <3>3, <3>4, AbsentStays
  <2> QED BY <2>1, <2>2
<1>5. \A d \in 1 .. 4 : Is(d, {"repl"})' => ~Has(Req(d).line)'
  <2> SUFFICES ASSUME NEW d \in 1 .. 4, Is(d, {"repl"})' PROVE ~Has(Req(d).line)'
    OBVIOUS
  <2>1. Is(d, Asking)'
    BY DEF Is, Asking
  <2>2. Req(d)'.line \in Line
    <3>1. CASE d = 1
      <4>1. PICK h \in Hn, k \in Line : ReadIn(in, h, k) \/ NohitIn(in, h, k)
        BY <2>1, <3>1, Enters
      <4>2. Req(1)'.line = k
        BY <4>1, Enters DEF Req
      <4> QED BY <3>1, <4>2
    <3>2. CASE d # 1
      BY <1>1, <2>1, <3>2, StageType
    <3> QED BY <3>1, <3>2
  <2>3. PICK l \in Line : Req(d)'.line = l
    BY <2>2
  <2>4. ~Has(l)'
    BY <1>4, <2>3
  <2> QED BY <2>3, <2>4 DEF Has
<1> QED BY <1>2, <1>3, <1>5 DEF RowTells

LEMMA D4Step ==
  ASSUME DirIInv, NEW in, Edge(in)
  PROVE  AtD4'
<1>1. /\ Is(4, Asking)' <=> Is(3, Asking)
      /\ ReplD0' <=> Is(3, {"repl"})
      /\ SetAt(4)' = SetAt(3) /\ Req(4)' = Req(3)
  <2>1. 3 \in 1 .. 3 /\ 3 + 1 = 4 /\ DirTick(in)
    BY DEF Edge
  <2> QED BY <2>1, Moves DEF ReplD0
<1> SUFFICES ASSUME Is(3, Asking)
             PROVE  /\ (entry[SetAt(4)][d4.way] = d4.old)'
                    /\ (d4.hit <=> d4.old = <<Req(4).line>>)'
                    /\ (~d4.hit => ~Has(Req(4).line))'
                    /\ (ReplD0 => ~d4.hit)'
  BY <1>1 DEF AtD4
<1> DEFINE n == SelWay
           s == SetAt(3)
<1>2. /\ n \in Ways /\ n \notin HeldIn(s)
      /\ HitD3 # {} <=> Req(3).row[n] = <<Req(3).line>>
      /\ entry[s][n] = Req(3).row[n]
      /\ HitD3 = {} => ~Has(Req(3).line)
      /\ Is(3, {"repl"}) => HitD3 = {}
  BY Choice
<1>3. d4'.way = n /\ (d4'.hit <=> HitD3 # {}) /\ d4'.old = Req(3).row[n]
  BY D4Next
<1>4. /\ s \in DirSet /\ Req(3).line \in Line /\ Slot(3) \in Hn /\ AtStage(Slot(3), 3)
      /\ tx[Slot(3)].line = <<Req(3).line>>
  BY StageType DEF AtStage
<1> HIDE DEF n, s
<1>5. entry'[s][n] = entry[s][n]
  BY <1>2, <1>4, HeldStays
<1>6. ~Writer(in, Slot(3))
  <2>1. 3 \in 1 .. 3
    OBVIOUS
  <2>2. Same(in, Slot(3))
    BY <1>4, <2>1, AskedWaits
  <2> QED BY <1>4, <2>2, NotWriter
<1>7. HitD3 = {} => ~Has(Req(4).line)'
  <2>1. PICK l \in Line : l = Req(3).line
    BY <1>4
  <2>2. HitD3 = {} => ~Has(l)'
    BY <1>2, <1>4, <1>6, <2>1, AbsentStays
  <2>3. Req(4)'.line = l
    BY <1>1, <2>1
  <2> QED BY <2>2, <2>3 DEF Has
<1>8. entry'[s][d4'.way] = d4'.old
  BY <1>2, <1>3, <1>5
<1>9. d4'.hit <=> d4'.old = <<Req(3).line>>
  BY <1>2, <1>3
<1>10. ~d4'.hit => ~Has(Req(4).line)'
  BY <1>3, <1>7
<1>11. Is(3, {"repl"}) => ~d4'.hit
  BY <1>2, <1>3
<1>12. (entry[SetAt(4)][d4.way] = d4.old)'
  BY <1>1, <1>8 DEF s
<1>13. (d4.hit <=> d4.old = <<Req(4).line>>)'
  BY <1>1, <1>9
<1>14. (~d4.hit => ~Has(Req(4).line))'
  BY <1>10
<1>15. (ReplD0 => ~d4.hit)'
  BY <1>1, <1>11
<1> QED BY <1>12, <1>13, <1>14, <1>15

-----------------------------------------------------------------------------
(* There is always a way that nobody holds: a slot holds at most one, and  *)
(* the one that asks holds none.                                           *)

LEMMA HeldOne ==
  ASSUME DirIInv, NEW h \in Hn
  PROVE  /\ lock[h] = <<>> \/ rsv[h] = <<>>
         /\ \A d \in 1 .. 3 : AtStage(h, d) => lock[h] = <<>> /\ rsv[h] = <<>>
<1>1. lock[h] = LockOf(h) /\ rsv[h] = RsvOf(h)
  BY DEF DirIInv, HoldsKnown
<1>2. lock[h] = <<>> \/ rsv[h] = <<>>
  <2>1. AtStage(h, 4) => tx[h].st \in Asking
    BY StageType DEF AtStage
  <2> QED BY <1>1, <2>1 DEF LockOf, RsvOf, Asking
<1>3. ASSUME NEW d \in 1 .. 3, AtStage(h, d) PROVE lock[h] = <<>> /\ rsv[h] = <<>>
  <2>1. tx[h].st \in Asking
    BY <1>3, StageType DEF AtStage
  <2>2. ~AtStage(h, 4)
    <3>1. d # 4 /\ d \in 1 .. 4 /\ 4 \in 1 .. 4
      OBVIOUS
    <3> QED BY <1>3, <3>1 DEF DirIInv, TxKnows, AtStage
  <2> QED BY <1>1, <2>1, <2>2 DEF LockOf, RsvOf, Asking
<1> QED BY <1>2, <1>3

LEMMA HeldIs ==
  ASSUME DirIInv, NEW s \in DirSet
  PROVE  Held(lock, s) \cup Held(rsv, s) = HeldIn(s)
<1>1. lock \in [Hn -> Opt([set : DirSet, way : Ways])] /\ rsv \in [Hn -> Opt([set : DirSet, way : Ways])]
  BY DEF DirIInv, Types, DirTypeOK
<1>2. ASSUME NEW t \in [Hn -> Opt([set : DirSet, way : Ways])], NEW w
      PROVE  w \in Held(t, s) <=> w \in Ways /\ \E h \in Hn : t[h] = <<Place(s, w)>>
  <2>1. ASSUME w \in Held(t, s) PROVE w \in Ways /\ \E h \in Hn : t[h] = <<Place(s, w)>>
    <3>1. PICK h \in Hn : t[h] # <<>> /\ t[h][1].set = s /\ w = t[h][1].way
      BY <2>1 DEF Held
    <3>2. PICK p \in [set : DirSet, way : Ways] : t[h] = <<p>>
      BY <3>1 DEF Opt
    <3>3. p = Place(s, w) /\ w \in Ways
      BY <3>1, <3>2 DEF Place
    <3> QED BY <3>2, <3>3
  <2>2. ASSUME w \in Ways, NEW h \in Hn, t[h] = <<Place(s, w)>> PROVE w \in Held(t, s)
    <3>1. t[h] # <<>> /\ t[h][1].set = s /\ t[h][1].way = w
      BY <2>2 DEF Place
    <3> QED BY <3>1 DEF Held
  <2> QED BY <2>1, <2>2
<1>3. ASSUME NEW w PROVE w \in HeldIn(s) <=> w \in Held(lock, s) \/ w \in Held(rsv, s)
  <2>1. w \in HeldIn(s) <=> w \in Ways /\ \E h \in Hn : lock[h] = <<Place(s, w)>> \/ rsv[h] = <<Place(s, w)>>
    BY HoldsAre DEF HeldIn
  <2> QED BY <1>1, <1>2, <2>1
<1> QED BY <1>3

LEMMA Spare ==
  ASSUME DirIInv, NEW d \in 1 .. 3, Is(d, Asking), NEW s \in DirSet
  PROVE  \E w \in Ways : w \notin HeldIn(s)
<1> DEFINE a == Slot(d)
           Rest == Hn \ {a}
           f == [h \in Rest |-> IF lock[h] # <<>> THEN lock[h][1].way
                                ELSE IF rsv[h] # <<>> THEN rsv[h][1].way ELSE 0]
<1>1. SUFFICES ASSUME \A w \in Ways : w \in HeldIn(s) PROVE FALSE
  OBVIOUS
<1>2. a \in Hn /\ lock[a] = <<>> /\ rsv[a] = <<>>
  BY StageType, HeldOne DEF AtStage
<1>3. ASSUME NEW h \in Hn PROVE /\ lock[h] # <<>> => lock[h][1].way \in Ways
                                /\ rsv[h] # <<>> => rsv[h][1].way \in Ways
  BY DEF DirIInv, Types, DirTypeOK, Opt
<1>4. f \in [Rest -> Ways]
  BY <1>3, DirAssumption
<1>5. ASSUME NEW w \in Ways PROVE \E h \in Rest : f[h] = w
  <2>1. PICK h \in Hn : lock[h] = <<Place(s, w)>> \/ rsv[h] = <<Place(s, w)>>
    BY <1>1, HoldsAre DEF HeldIn
  <2>2. \A p : <<p>> # <<>>
    OBVIOUS
  <2>3. h \in Rest
    BY <1>2, <2>1, <2>2
  <2>4. f[h] = w
    <3>1. CASE lock[h] = <<Place(s, w)>>
      BY <2>2, <2>3, <3>1 DEF Place
    <3>2. CASE rsv[h] = <<Place(s, w)>>
      <4>1. lock[h] = <<>> /\ rsv[h] # <<>> /\ rsv[h][1].way = w
        BY <2>2, <3>2, HeldOne DEF Place
      <4> QED BY <2>3, <4>1
    <3> QED BY <2>1, <3>1, <3>2
  <2> QED BY <2>3, <2>4
<1>6. IsFiniteSet(Rest) /\ Cardinality(Rest) = Cardinality(Hn) - 1
  <2> HIDE DEF a
  <2> QED BY <1>2, FS_RemoveElement, DirAssumption
<1>7. Cardinality(Ways) <= Cardinality(Rest)
  <2> HIDE DEF f, Rest
  <2>1. f \in Surjection(Rest, Ways)
    BY <1>4, <1>5 DEF Surjection
  <2> QED BY <1>6, <2>1, FS_Surjection
<1>8. Cardinality(Hn) \in Nat /\ Cardinality(Ways) \in Nat /\ Cardinality(Hn) <= Cardinality(Ways)
  BY DirAssumption, FS_CardinalityType
<1> HIDE DEF Rest
<1> QED BY <1>6, <1>7, <1>8

\* What a held entry contains: nothing, or the line of the one that holds it.
LEMMA HeldContent ==
  ASSUME DirIInv, ~ReplD0, NEW h \in Hn, NEW s \in DirSet, NEW w \in Ways, Place(s, w) \in Holds(h)
  PROVE  entry[s][w] = <<>> \/ entry[s][w] = tx[h].line
<1>1. lock[h] = LockOf(h) /\ rsv[h] = RsvOf(h)
  BY DEF DirIInv, HoldsKnown
<1>2. \A t \in DirSet : \A v : <<Place(t, v)>> = <<Place(s, w)>> => t = s /\ v = w
  BY DEF Place
<1>3. \A p : <<p>> # <<>>
  OBVIOUS
<1>4. AtStage(h, 4) => /\ SetAt(4) \in DirSet /\ entry[SetAt(4)][d4.way] = d4.old
                       /\ tx[h].line = <<Req(4).line>> /\ (d4.hit => d4.old = <<Req(4).line>>)
                       /\ tx[h].st \in Asking
  BY StageType, At4 DEF AtStage
<1>5. tx[h].st \in {"told", "done"} => TxSet(h) \in DirSet
  BY TxType
<1>6. CASE lock[h] = <<Place(s, w)>>
  <2>1. CASE tx[h].st = "done" \/ (tx[h].st = "told" /\ tx[h].hit)
    <3>1. TxSet(h) = s /\ tx[h].way = w
      BY <1>1, <1>2, <1>5, <1>6, <2>1 DEF LockOf, TxPlace
    <3> QED BY <2>1, <3>1, TxKept
  <2>2. CASE ~(tx[h].st = "done" \/ (tx[h].st = "told" /\ tx[h].hit))
    <3>1. AtStage(h, 4) /\ d4.hit /\ lock[h] = <<Place(SetAt(4), d4.way)>>
      BY <1>1, <1>3, <1>6, <2>2 DEF LockOf
    <3>2. SetAt(4) = s /\ d4.way = w
      BY <1>2, <1>4, <1>6, <3>1
    <3> QED BY <1>4, <3>1, <3>2
  <2> QED BY <2>1, <2>2
<1>7. CASE rsv[h] = <<Place(s, w)>>
  <2>1. CASE sf /\ tx[h].st = "told" /\ ~tx[h].hit /\ tx[h].room
    <3>1. TxSet(h) = s /\ tx[h].way = w
      BY <1>1, <1>2, <1>5, <1>7, <2>1 DEF RsvOf, TxPlace
    <3> QED BY <2>1, <3>1, TxKept
  <2>2. CASE ~(sf /\ tx[h].st = "told" /\ ~tx[h].hit /\ tx[h].room)
    <3>1. AtStage(h, 4) /\ d4.old = <<>> /\ rsv[h] = <<Place(SetAt(4), d4.way)>>
      BY <1>1, <1>3, <1>7, <2>2 DEF RsvOf
    <3>2. SetAt(4) = s /\ d4.way = w
      BY <1>2, <1>4, <1>7, <3>1
    <3> QED BY <1>4, <3>1, <3>2
  <2> QED BY <2>1, <2>2
<1> QED BY <1>6, <1>7, HoldsAre

\* What d3 goes by: the ways that are held, all of them; the row is exact in
\* the others and has not the line in these.
LEMMA D3Step ==
  ASSUME DirIInv, NEW in, Edge(in)
  PROVE  AtD3'
<1>1. /\ Is(3, Asking)' <=> Is(2, Asking)
      /\ SetAt(3)' = SetAt(2) /\ Req(3)' = Req(2)
  <2>1. 2 \in 1 .. 3 /\ 2 + 1 = 3 /\ DirTick(in)
    BY DEF Edge
  <2> QED BY <2>1, Moves
<1> SUFFICES ASSUME Is(2, Asking)
             PROVE  /\ (HeldIn(SetAt(3)) \subseteq d3.use)'
                    /\ (d3.spare \notin d3.use)'
                    /\ (\A w \in Ways \ d3.use : Req(3).row[w] = entry[SetAt(3)][w])'
                    /\ (\A w \in d3.use : Req(3).row[w] # <<Req(3).line>>)'
  BY <1>1 DEF AtD3
<1> DEFINE s == SetAt(2)
<1>2. 2 \in 1 .. 3 /\ 2 \in 1 .. 2 /\ 2 + 1 = 3
  OBVIOUS
<1>3. sft[3] = <<>> /\ ~ReplD0
  BY <1>2, Repl4 DEF DirIInv, Spaced, Is
<1>4. /\ s \in DirSet /\ Slot(2) \in Hn /\ AtStage(Slot(2), 2)
      /\ tx[Slot(2)].line = <<Req(2).line>> /\ Req(2).row = entry[s]
  BY <1>2, StageType DEF AtStage, DirIInv, RowTells
<1>5. UseWay = HeldIn(s)
  BY <1>3, <1>4, HeldIs DEF UseWay, PendAlloc, Is
<1>6. d3'.use = HeldIn(s) /\ d3'.spare = Lowest(Ways \ HeldIn(s))
  <2>1. d3' = [use |-> UseWay, spare |-> Lowest(Ways \ UseWay), repl |-> in.pick]
    BY DEF Edge, DirTick, NextD3, Asking
  <2> QED BY <1>5, <2>1
<1> HIDE DEF s
<1>7. d3'.spare \notin d3'.use
  <2>1. Ways \ HeldIn(s) \in SUBSET Nat /\ Ways \ HeldIn(s) # {}
    BY <1>2, <1>4, Spare, DirAssumption
  <2>2. Min(Ways \ HeldIn(s)) \in Ways \ HeldIn(s)
    BY <2>1, MinIsLeast
  <2> QED BY <1>6, <2>1, <2>2 DEF Lowest
<1>8. ASSUME NEW w \in Ways, NEW h \in Hn, Place(s, w) \in Holds(h)' PROVE w \in HeldIn(s)
  BY <1>3, <1>4, <1>8, HoldsGrow DEF HeldIn, AtStage, Is
<1>9. ASSUME NEW w \in Ways, w \notin HeldIn(s) PROVE Req(2).row[w] = entry'[s][w]
  BY <1>4, <1>9, HeldStays
<1>10. ASSUME NEW w \in HeldIn(s) PROVE Req(2).row[w] # <<Req(2).line>>
  <2>1. PICK h \in Hn : w \in Ways /\ Place(s, w) \in Holds(h)
    BY DEF HeldIn
  <2>2. entry[s][w] = <<>> \/ entry[s][w] = tx[h].line
    BY <1>3, <1>4, <2>1, HeldContent
  <2>3. h # Slot(2)
    <3>1. \A p : <<p>> # <<>>
      OBVIOUS
    <3>2. lock[Slot(2)] = <<>> /\ rsv[Slot(2)] = <<>>
      BY <1>2, <1>4, HeldOne
    <3> QED BY <1>4, <2>1, <3>1, <3>2, HoldsAre
  <2>4. tx[h].line # <<Req(2).line>>
    <3>1. \A p : <<p>> # <<>>
      OBVIOUS
    <3> QED BY <1>4, <2>3, <3>1 DEF DirIInv, TxShape
  <2>5. \A p : <<p>> # <<>>
    OBVIOUS
  <2> QED BY <1>4, <2>2, <2>4, <2>5
<1>11. (HeldIn(SetAt(3)) \subseteq d3.use)'
  <2>1. ASSUME NEW w \in HeldIn(SetAt(3))' PROVE w \in HeldIn(s)
    <3>1. w \in Ways /\ \E h \in Hn : Place(s, w) \in Holds(h)'
      BY <1>1 DEF HeldIn, s
    <3> QED BY <1>8, <3>1
  <2> QED BY <1>6, <2>1
<1>12. (\A w \in Ways \ d3.use : Req(3).row[w] = entry[SetAt(3)][w])'
  BY <1>1, <1>6, <1>9 DEF s
<1>13. (\A w \in d3.use : Req(3).row[w] # <<Req(3).line>>)'
  BY <1>1, <1>6, <1>10
<1> QED BY <1>7, <1>11, <1>12, <1>13

-----------------------------------------------------------------------------
(* Types.                                                                  *)

LEMMA TxTypes ==
  ASSUME DirIInv, NEW in, Edge(in), NEW h \in Hn
  PROVE  tx'[h] \in TxRec
<1>1. tx[h] \in TxRec
  BY TxType
<1>2. 0 \in Ways /\ NoTx \in TxRec /\ <<>> \in Opt(Line) /\ \A l \in Line : <<l>> \in Opt(Line)
  BY DirAssumption DEF NoTx, TxRec, TxStates, Opt
<1>3. AtStage(h, 4) => d4.way \in Ways /\ d4.hit \in BOOLEAN
  BY At4 DEF AtStage
<1>4. CASE Same(in, h)
  BY <1>1, <1>4 DEF Same
<1>5. CASE Leaves(in, h)
  BY <1>2, <1>5 DEF Leaves
<1>6. CASE Gets(h)
  BY <1>1, <1>3, <1>6 DEF Gets, Swaps, TxRec, TxStates
<1>7. CASE Learns(h)
  <2>1. tx'[h] = Told7(h) /\ d4.way \in Ways /\ d4.hit \in BOOLEAN
    BY <1>3, <1>7 DEF Learns
  <2>2. (d4.old = <<>>) \in BOOLEAN
    OBVIOUS
  <2>3. (IF d4.hit \/ (sf /\ d4.old = <<>>) THEN d4.way ELSE 0) \in Ways
    BY <1>2, <2>1
  <2> QED BY <1>1, <2>1, <2>2, <2>3 DEF Told7, TxRec, TxStates
<1>8. ASSUME NEW l \in Line, Looks(in, h, l) PROVE tx'[h] \in TxRec
  BY <1>2, <1>8 DEF Looks, TxRec, TxStates, NoTx
<1>9. ASSUME NEW l \in Line, Allocates(in, h, l) PROVE tx'[h] \in TxRec
  BY <1>1, <1>2, <1>9 DEF Allocates, TxRec, TxStates
<1>10. ASSUME NEW l \in Line, Replaces(in, h, l) PROVE tx'[h] \in TxRec
  BY <1>1, <1>2, <1>10 DEF Replaces, TxRec, TxStates
<1>11. ASSUME NEW l \in Line, NEW keep \in BOOLEAN, Rewrites(in, h, l, keep) PROVE tx'[h] \in TxRec
  BY <1>1, <1>2, <1>11 DEF Rewrites, TxRec, TxStates
<1> QED BY <1>4, <1>5, <1>6, <1>7, <1>8, <1>9, <1>10, <1>11, TxStep

LEMMA StageTypes ==
  ASSUME DirIInv, NEW in, Edge(in)
  PROVE  /\ sft' \in [1 .. 4 -> Opt(StageRec \cup Passing)]
         /\ \A d \in 1 .. 4 : Is(d, Asking)' => Req(d)'.hn # <<>>
<1>0. DirTick(in) /\ sft \in [1 .. 4 -> Opt(StageRec \cup Passing)]
  BY DEF Edge, DirIInv, Types
<1>1. sft' = [d \in 1 .. 4 |-> IF d = 1 THEN Entering(in) ELSE sft[d - 1]]
  BY <1>0 DEF DirTick
<1>2. \A d \in 1 .. 4 : d # 1 => d - 1 \in 1 .. 4
  OBVIOUS
<1>3. sft' \in [1 .. 4 -> Opt(StageRec \cup Passing)]
  BY <1>0, <1>1, <1>2, Enters
<1>4. ASSUME NEW d \in 1 .. 4, Is(d, Asking)' PROVE Req(d)'.hn # <<>>
  <2>1. CASE d = 1
    <3>1. PICK h \in Hn, l \in Line : ReadIn(in, h, l) \/ NohitIn(in, h, l)
      BY <1>4, <2>1, Enters
    <3>2. Req(1)'.hn = <<h>>
      BY <3>1, Enters DEF Req
    <3>3. \A p : <<p>> # <<>>
      OBVIOUS
    <3> QED BY <2>1, <3>2, <3>3
  <2>2. CASE d # 1
    <3>1. d - 1 \in 1 .. 3 /\ d = (d - 1) + 1
      BY <2>2
    <3>2. PICK e \in 1 .. 3 : d = e + 1
      BY <3>1
    <3>3. Is(e, Asking) /\ Req(d)' = Req(e)
      BY <1>0, <1>4, <3>2, Moves
    <3>4. e \in 1 .. 4
      OBVIOUS
    <3> QED BY <3>3, <3>4 DEF DirIInv, Types
  <2> QED BY <2>1, <2>2
<1> QED BY <1>3, <1>4

LEMMA HoldTypes ==
  ASSUME DirIInv, NEW in, Edge(in)
  PROVE  /\ lock' \in [Hn -> Opt([set : DirSet, way : Ways])]
         /\ rsv' \in [Hn -> Opt([set : DirSet, way : Ways])]
<1>1. ASSUME NEW h \in Hn
      PROVE  /\ lock'[h] \in Opt([set : DirSet, way : Ways])
             /\ rsv'[h] \in Opt([set : DirSet, way : Ways])
  <2>1. <<>> \in Opt([set : DirSet, way : Ways])
        /\ \A s \in DirSet, w \in Ways : <<Place(s, w)>> \in Opt([set : DirSet, way : Ways])
    BY DEF Opt, Place
  <2>2. lock[h] \in Opt([set : DirSet, way : Ways]) /\ rsv[h] \in Opt([set : DirSet, way : Ways])
    BY DEF DirIInv, Types, DirTypeOK
  <2>3. CASE AtStage(h, 3)
    <3>1. SetAt(3) \in DirSet /\ SelWay \in Ways
      BY <2>3, StageType, Choice DEF AtStage
    <3> QED BY <2>1, <2>3, <3>1, HoldNew
  <2>4. CASE ~AtStage(h, 3)
    BY <2>1, <2>2, <2>4, HoldOld
  <2> QED BY <2>3, <2>4
<1>2. lock' = [h \in Hn |-> NextLock(in, h)] /\ rsv' = [h \in Hn |-> NextRsv(in, h)]
  BY DEF Edge, DirTick
<1> QED BY <1>1, <1>2

LEMMA RegisterTypes ==
  ASSUME DirIInv, NEW in, Edge(in)
  PROVE  /\ d3' \in [use : SUBSET Ways, spare : Ways, repl : Ways]
         /\ d4' \in [way : Ways, hit : BOOLEAN, old : Opt(Line)]
<1>1. d3' = NextD3(in) /\ d4' = NextD4 /\ in.pick \in Ways /\ 0 \in Ways
  BY DirAssumption DEF Edge, DirTick, Took
<1>2. d3' \in [use : SUBSET Ways, spare : Ways, repl : Ways]
  <2>1. CASE ~Is(2, Asking)
    BY <1>1, <2>1 DEF NextD3, NoD3, Asking
  <2>2. CASE Is(2, Asking)
    <3>1. d3' = [use |-> UseWay, spare |-> Lowest(Ways \ UseWay), repl |-> in.pick]
      BY <1>1, <2>2 DEF NextD3, Asking
    <3>2. UseWay \subseteq Ways
      <4>1. SetAt(2) \in DirSet
        BY <2>2, StageType
      <4>2. Held(lock, SetAt(2)) \cup Held(rsv, SetAt(2)) \subseteq Ways
        BY <4>1, HeldIs DEF HeldIn
      <4>3. PendAlloc => SelWay \in Ways
        BY Choice DEF PendAlloc, Is, Asking
      <4> QED BY <4>2, <4>3 DEF UseWay
    <3>3. Lowest(Ways \ UseWay) \in Ways
      <4>1. CASE Ways \ UseWay = {}
        BY <1>1, <4>1 DEF Lowest
      <4>2. CASE Ways \ UseWay # {}
        <5>1. Min(Ways \ UseWay) \in Ways \ UseWay
          BY <4>2, MinIsLeast, DirAssumption
        <5> QED BY <4>2, <5>1 DEF Lowest
      <4> QED BY <4>1, <4>2
    <3> QED BY <1>1, <3>1, <3>2, <3>3
  <2> QED BY <2>1, <2>2
<1>3. d4' \in [way : Ways, hit : BOOLEAN, old : Opt(Line)]
  <2>1. CASE ~Is(3, Asking)
    BY <1>1, <2>1 DEF NextD4, NoD4, Asking, Opt
  <2>2. CASE Is(3, Asking)
    <3>1. d4' = [way |-> SelWay, hit |-> HitD3 # {}, old |-> Req(3).row[SelWay]]
      BY <1>1, <2>2 DEF NextD4, Asking
    <3>2. SelWay \in Ways /\ Req(3).row[SelWay] \in Opt(Line) /\ (HitD3 # {}) \in BOOLEAN
      BY <2>2, Choice, StageType
    <3> QED BY <3>1, <3>2
  <2> QED BY <2>1, <2>2
<1> QED BY <1>2, <1>3

LEMMA TypesStep ==
  ASSUME DirIInv, NEW in, Edge(in)
  PROVE  Types'
<1>1. DirTypeOK'
  BY EntryType, RegisterTypes, HoldTypes DEF DirTypeOK
<1>2. sf' \in BOOLEAN
  BY DEF Edge, DirTick, DirIInv, Types
<1>3. tx' \in [Hn -> TxRec]
  <2>1. tx' = [h \in Hn |-> NextTx(in, h)]
    BY DEF Edge, Surroundings
  <2> QED BY <2>1, TxTypes
<1>4. evicted' \subseteq Line
  BY EvictedNext
<1>5. \A d \in 1 .. 4 : (Is(d, Asking) => Req(d).hn # <<>>)'
  BY StageTypes
<1> QED BY <1>1, <1>2, <1>3, <1>4, <1>5, StageTypes DEF Types

-----------------------------------------------------------------------------
(* The invariant holds.                                                    *)

LEMMA DirEdge ==
  ASSUME DirIInv, NEW in, Edge(in)
  PROVE  DirIInv'
<1>1. Types' /\ Spaced' /\ TxKnows' /\ TxShape'
  BY TypesStep, SpacedStep, KnowsStep, ShapeStep
<1>2. HoldsKnown' /\ HoldsApart'
  BY KnownStep, ApartStep
<1>3. OneCopy' /\ InSet' /\ WayKept' /\ DoneEmpty'
  BY CopyStep, InSetStep, WayStep
<1>4. RowTells' /\ AtD3' /\ AtD4'
  BY RowStep, D3Step, D4Step
<1> QED BY <1>1, <1>2, <1>3, <1>4 DEF DirIInv

LEMMA DirStart == DirInit => DirIInv
<1> SUFFICES ASSUME DirInit PROVE DirIInv
  OBVIOUS
<1>1. /\ sf \in BOOLEAN /\ \A s \in DirSet, w \in Ways : entry[s][w] = <<>>
      /\ entry = [s \in DirSet |-> [w \in Ways |-> <<>>]]
      /\ sft = [d \in 1 .. 4 |-> <<>>] /\ \A d \in 1 .. 4 : sft[d] = <<>>
      /\ lock = [h \in Hn |-> <<>>] /\ rsv = [h \in Hn |-> <<>>]
      /\ tx = [h \in Hn |-> NoTx] /\ evicted = {} /\ d3 = NoD3 /\ d4 = NoD4
  BY DEF DirInit
<1>2. \A S : <<>> \in Opt(S)
  BY DEF Opt
<1>3. \A p : <<p>> # <<>>
  OBVIOUS
<1>4. \A h \in Hn : tx[h] = NoTx /\ tx[h].st = "idle" /\ tx[h].line = <<>>
  BY <1>1 DEF NoTx
<1>5. \A d \in 1 .. 4 : \A k : ~Is(d, k)
  BY <1>1 DEF Is
<1>6. \A h : ~AtStage(h, 4) /\ ~ReplD0
  BY <1>5 DEF AtStage, ReplD0
<1>7. Types
  <2>1. d3 \in [use : SUBSET Ways, spare : Ways, repl : Ways]
        /\ d4 \in [way : Ways, hit : BOOLEAN, old : Opt(Line)]
    BY <1>1, <1>2, DirAssumption DEF NoD3, NoD4
  <2>2. entry \in [DirSet -> [Ways -> Opt(Line)]]
    BY <1>1, <1>2
  <2>3. /\ lock \in [Hn -> Opt([set : DirSet, way : Ways])]
        /\ rsv \in [Hn -> Opt([set : DirSet, way : Ways])]
    BY <1>1, <1>2
  <2>4. NoTx \in TxRec
    BY <1>2, DirAssumption DEF NoTx, TxRec, TxStates
  <2>5. sft \in [1 .. 4 -> Opt(StageRec \cup Passing)]
    BY <1>1, <1>2
  <2>6. tx \in [Hn -> TxRec]
    BY <1>1, <2>4
  <2> QED BY <1>1, <1>5, <2>1, <2>2, <2>3, <2>5, <2>6 DEF Types, DirTypeOK
<1>8. Spaced
  <2>1. \A d \in 1 .. 3 : d + 1 \in 1 .. 4
    OBVIOUS
  <2> QED BY <1>1, <1>5, <2>1 DEF Spaced
<1>9. TxKnows
  BY <1>4, <1>5 DEF TxKnows, Asking
<1>10. TxShape
  BY <1>1, <1>4 DEF TxShape
<1>11. HoldsKnown
  BY <1>1, <1>4, <1>6 DEF HoldsKnown, LockOf, RsvOf
<1>12. HoldsApart
  BY <1>1, <1>3 DEF HoldsApart, Holds
<1>13. OneCopy /\ InSet
  BY <1>1, <1>3 DEF OneCopy, InSet
<1>14. WayKept /\ DoneEmpty
  BY <1>4 DEF WayKept, DoneEmpty
<1>15. RowTells
  <2>1. (1 .. 3) \subseteq 1 .. 4 /\ (1 .. 2) \subseteq 1 .. 4
    OBVIOUS
  <2> QED BY <1>5, <2>1 DEF RowTells
<1>16. AtD3 /\ AtD4
  BY <1>5 DEF AtD3, AtD4
<1> QED BY <1>7, <1>8, <1>9, <1>10, <1>11, <1>12, <1>13, <1>14, <1>15, <1>16 DEF DirIInv

LEMMA DirStutter == ASSUME DirIInv, UNCHANGED dirVars PROVE DirIInv'
<1>1. /\ sf' = sf /\ entry' = entry /\ sft' = sft /\ d3' = d3 /\ d4' = d4
      /\ lock' = lock /\ rsv' = rsv /\ tx' = tx /\ evicted' = evicted
  BY DEF dirVars
<1>2. Types' /\ Spaced'
  BY <1>1 DEF DirIInv, Types, DirTypeOK, Spaced, Is, Req
<1>3. TxKnows' /\ TxShape'
  BY <1>1 DEF DirIInv, TxKnows, TxShape, Is, Req, Slot, AtStage
<1>4. HoldsKnown' /\ HoldsApart'
  BY <1>1 DEF DirIInv, HoldsKnown, HoldsApart, LockOf, RsvOf, Holds, TxPlace, TxSet, AtStage, Is, Req,
             Slot, SetAt, ReplD0
<1>5. OneCopy' /\ InSet' /\ DoneEmpty'
  BY <1>1 DEF DirIInv, OneCopy, InSet, DoneEmpty, Has, TxSet
<1>6. WayKept'
  BY <1>1 DEF DirIInv, WayKept, Has
<1>7. RowTells'
  BY <1>1 DEF DirIInv, RowTells, Is, Req, SetAt, Has
<1>8. AtD3'
  BY <1>1 DEF DirIInv, AtD3, Is, Req, SetAt, HeldIn, Holds
<1>9. AtD4'
  BY <1>1 DEF DirIInv, AtD4, Is, Req, SetAt, Has, ReplD0
<1> QED BY <1>2, <1>3, <1>4, <1>5, <1>6, <1>7, <1>8, <1>9 DEF DirIInv

\* What is held, and by whom, gives what the runs check.
LEMMA OwnedOf == ASSUME DirIInv PROVE HoldsOwned
<1>1. ASSUME NEW h \in Idle PROVE lock[h] = <<>> /\ rsv[h] = <<>>
  <2>1. h \in Hn /\ tx[h].st = "idle"
    BY DEF Idle
  <2>2. ~AtStage(h, 4)
    BY <2>1, StageType DEF AtStage, Asking
  <2>3. lock[h] = LockOf(h) /\ rsv[h] = RsvOf(h)
    BY <2>1 DEF DirIInv, HoldsKnown
  <2> QED BY <2>1, <2>2, <2>3 DEF LockOf, RsvOf
<1>2. ASSUME Is(3, Asking) PROVE lock[Req(3).hn[1]] = <<>>
  <2>1. 3 \in 1 .. 3
    OBVIOUS
  <2>2. Slot(3) \in Hn /\ AtStage(Slot(3), 3)
    BY <1>2, StageType DEF AtStage
  <2> QED BY <2>1, <2>2, HeldOne DEF Slot
<1>3. Is(3, {"repl"}) \/ (Is(3, {"read"}) /\ HitD3 # {}) => Is(3, Asking)
  BY DEF Is, Asking
<1>4. ASSUME NEW h \in Told(FALSE, TRUE), sf
      PROVE  rsv[h] = <<[set |-> SetOf[tx[h].line[1]], way |-> tx[h].way]>>
  <2>1. h \in Hn /\ tx[h].st = "told" /\ tx[h].hit = FALSE /\ tx[h].room = TRUE
    BY DEF Told
  <2>2. rsv[h] = RsvOf(h)
    BY <2>1 DEF DirIInv, HoldsKnown
  <2> QED BY <1>4, <2>1, <2>2 DEF RsvOf, TxPlace, TxSet, Place
<1> QED BY <1>1, <1>2, <1>3, <1>4 DEF HoldsOwned

(* What is held and what the stages know go together in every state:       *)
(* rows and use may be old, but never where the choice can fall.           *)
THEOREM DirInvariant == DirSpec => []DirIInv
<1>1. DirIInv /\ [DirNext]_dirVars => DirIInv'
  <2> SUFFICES ASSUME DirIInv, [DirNext]_dirVars PROVE DirIInv'
    OBVIOUS
  <2>1. CASE DirNext
    <3>1. PICK in : Edge(in)
      BY <2>1, EdgeOf
    <3> QED BY <3>1, DirEdge
  <2>2. CASE UNCHANGED dirVars
    BY <2>2, DirStutter
  <2> QED BY <2>1, <2>2
<1> QED BY DirStart, <1>1, PTL DEF DirSpec

(* The directory names each line once and no victim, only transactions     *)
(* hold ways, no lock is set over another one, and a direct allocation     *)
(* finds its reservation (lock_tab and rsv_tab of directory.h).            *)
THEOREM DirIsSafe == DirSpec => []DirInv
<1>1. DirIInv => DirInv
  BY OwnedOf DEF DirIInv, Types, DirInv
<1> QED BY DirInvariant, <1>1, PTL

(* What a transaction was told of its line at d4 stays true until it       *)
(* unlocks: a hit stays where it was found, a promised way stays free, a   *)
(* line that was absent stays absent, whatever the others replace.         *)
THEOREM DirWayKept == DirSpec => []WayKept
<1>1. DirIInv => WayKept
  BY DEF DirIInv
<1> QED BY DirInvariant, <1>1, PTL

-----------------------------------------------------------------------------
(***************************************************************************)
(* A ring channel for every number of stops, flits and rooms.              *)
(*                                                                         *)
(* All stops move at once, so the argument goes by what becomes of one     *)
(* thing in an edge.  A place of a lane goes to the next stop; there its   *)
(* flit leaves, stays, or makes room for another, and its mark is used by  *)
(* its owner, stays, or is put on it.  Hence a flit is at one place        *)
(* (Spread), a waiting stop has one mark on the lane (Marks), and what the *)
(* VIP table names still comes round (Vips).  That the lane and the buffer *)
(* agree on what leaves rests on the count of rooms (Rooms), and that the  *)
(* table is never full when one more enters on counting the places: there  *)
(* are as many entries as stops, and the newcomer has a place of its own.  *)
(***************************************************************************)

SlotRec == [flit : Opt(Flit), rsvd : Opt(Stops)]
DirRec == [slot : SlotRec, state : {"normal", "reserve", "wait"}, counter : 0 .. TimerMax]
VipRec == [tab : [Stops -> Opt(Tags)], ptr : Stops]
UpdRec == [rel : BOOLEAN, tag : Tags]
EbRec == [ipipe : Opt(Flit), oq : Seq(Flit), empties : 0 .. EjD, upd : Opt(UpdRec), vip : VipRec]
StopRec == [dir : [Dirs -> DirRec], injq : Seq(Flit), eb : [Dirs -> EbRec],
            earb : Dirs, injarb : Dirs]
RingTypes == st \in [Stops -> StopRec] /\ sent \in SUBSET Flit

\* What is free and what is taken of an eject buffer.
RoomOf(i, d) ==
  /\ Len(st[i].eb[d].oq) <= EjD - 1 /\ IsInjective(st[i].eb[d].oq)
  /\ st[i].eb[d].empties + Len(st[i].eb[d].ipipe) + Len(st[i].eb[d].oq) = EjD
Rooms ==
  \A i \in Stops : /\ Len(st[i].injq) <= 2 /\ IsInjective(st[i].injq)
                   /\ \A d \in Dirs : RoomOf(i, d)

\* A stop that waits has one mark on the lane, another has none.
Marked(i, d, j) == st[j].dir[d].slot.rsvd = <<i>>
MarkOf(i, d) ==
  /\ st[i].dir[d].state = "wait" <=> \E j \in Stops : Marked(i, d, j)
  /\ \A j, k \in Stops : Marked(i, d, j) /\ Marked(i, d, k) => j = k
Marks == \A i \in Stops, d \in Dirs : MarkOf(i, d)

\* Who is in the table, or about to enter it, comes round again or has just left.
VipOf(i, d) ==
  /\ \A k \in Stops : st[i].eb[d].vip.tab[k] # <<>> =>
        \/ Rounding(i, d, st[i].eb[d].vip.tab[k][1])
        \/ Leaving(st[i].eb[d], st[i].eb[d].vip.tab[k][1])
  /\ \A j, k \in Stops : st[i].eb[d].vip.tab[j] # <<>> /\ st[i].eb[d].vip.tab[j] = st[i].eb[d].vip.tab[k]
                            => j = k
  /\ st[i].eb[d].upd # <<>> /\ ~st[i].eb[d].upd[1].rel => Rounding(i, d, st[i].eb[d].upd[1].tag)
Vips == \A i \in Stops, d \in Dirs : VipOf(i, d)

\* Where a flit is.
Kinds == {"injq", "lane", "ipipe", "oq"}
At(f, k, i, d) ==
  \/ k = "injq" /\ d = 0 /\ f \in Range(st[i].injq)
  \/ k = "lane" /\ st[i].dir[d].slot.flit = <<f>>
  \/ k = "ipipe" /\ st[i].eb[d].ipipe = <<f>>
  \/ k = "oq" /\ f \in Range(st[i].eb[d].oq)
Somewhere(f) == \E k \in Kinds, i \in Stops, d \in Dirs : At(f, k, i, d)
AtOnce(f) ==
  \A k, l \in Kinds, i, j \in Stops, d, e \in Dirs :
    At(f, k, i, d) /\ At(f, l, j, e) => k = l /\ i = j /\ d = e
Spread == \A f \in Flit : (f \in sent <=> Somewhere(f)) /\ AtOnce(f)
AtTarget ==
  \A f \in Flit, i \in Stops, d \in Dirs : At(f, "ipipe", i, d) \/ At(f, "oq", i, d) => Tgt[f] = i

RingIInv == RingTypes /\ Rooms /\ Marks /\ Vips /\ Spread /\ AtTarget

-----------------------------------------------------------------------------
(* The lane, the arbiter of two, the queues.                               *)

Up(i, d) == IF d = 0 THEN ((i + N) - 1) % N ELSE (i + 1) % N

LEMMA UpIs ==
  ASSUME NEW d \in Dirs
  PROVE  /\ \A i \in Stops : Up(i, d) \in Stops /\ Rx(i, d) = st[Up(i, d)].dir[d].slot
         /\ \A i, j \in Stops : Up(i, d) = Up(j, d) => i = j
         /\ \A j \in Stops : \E i \in Stops : Up(i, d) = j
<1>1. N \in Nat /\ N > 2
  BY RingAssumption
<1>2. ASSUME NEW i \in Stops PROVE Up(i, d) = IF d = 0 THEN IF i = 0 THEN N - 1 ELSE i - 1
                                              ELSE IF i = N - 1 THEN 0 ELSE i + 1
  BY <1>1 DEF Up, Stops
<1>3. \A i \in Stops : Up(i, d) \in Stops
  BY <1>1, <1>2 DEF Stops
<1>4. \A i, j \in Stops : Up(i, d) = Up(j, d) => i = j
  BY <1>1, <1>2 DEF Stops
<1>5. ASSUME NEW j \in Stops PROVE \E i \in Stops : Up(i, d) = j
  <2>1. CASE d = 0
    <3>1. CASE j = N - 1
      <4>1. 0 \in Stops /\ Up(0, d) = j
        BY <1>1, <1>2, <2>1, <3>1 DEF Stops
      <4> QED BY <4>1
    <3>2. CASE j # N - 1
      <4>1. j + 1 \in Stops /\ Up(j + 1, d) = j
        BY <1>1, <1>2, <2>1, <3>2 DEF Stops
      <4> QED BY <4>1
    <3> QED BY <3>1, <3>2
  <2>2. CASE d # 0
    <3>1. CASE j = 0
      <4>1. N - 1 \in Stops /\ Up(N - 1, d) = j
        BY <1>1, <1>2, <2>2, <3>1 DEF Stops
      <4> QED BY <4>1
    <3>2. CASE j # 0
      <4>1. j - 1 \in Stops /\ Up(j - 1, d) = j
        BY <1>1, <1>2, <2>2, <3>2 DEF Stops
      <4> QED BY <4>1
    <3> QED BY <3>1, <3>2
  <2> QED BY <2>1, <2>2
<1>6. \A i \in Stops : Rx(i, d) = st[Up(i, d)].dir[d].slot
  BY DEF Rx, Up
<1> QED BY <1>3, <1>4, <1>5, <1>6

LEMMA RrOne ==
  ASSUME NEW valid \in [Dirs -> BOOLEAN], NEW lg \in Dirs
  PROVE  /\ RrChosen(valid, lg) \in Dirs
         /\ \A k \in Dirs : valid[k] => (RrRdy(valid, lg, k) <=> k = RrChosen(valid, lg))
         /\ \A k \in Dirs : valid[k] => valid[RrChosen(valid, lg)]
BY DEF RrChosen, RrRdy, Dirs

LEMMA IdleQueue == \A c, r : QNext(c, <<>>, <<>>, r) = <<>>
<1> SUFFICES ASSUME NEW c, NEW r PROVE QNext(c, <<>>, <<>>, r) = <<>>
  OBVIOUS
<1>1. Taken(c, <<>>, <<>>, r) = <<>> /\ Given(c, <<>>, <<>>, r) = <<>>
  BY DEF Taken, Given, Deq
<1>2. <<>> \o <<>> = <<>>
  OBVIOUS
<1> QED BY <1>1, <1>2 DEF QNext

\* A queue without flow gets what it has room for.
LEMMA QueueSees ==
  ASSUME NEW c, c.flow = FALSE, NEW q, NEW enq, NEW r
  PROVE  /\ QNext(c, q, enq, r) = QNext(c, q, Taken(c, q, enq, r), r)
         /\ Taken(c, q, enq, r) # <<>> => EnqRdy(c, q, r) /\ Taken(c, q, enq, r) = enq
         /\ ~EnqRdy(c, q, r) => Taken(c, q, enq, r) = <<>>
BY DEF QNext, Taken, Given, Deq

-----------------------------------------------------------------------------
(* What the invariant says of one stop and lane.                           *)

LEMMA StopIs ==
  ASSUME RingTypes, NEW i \in Stops, NEW d \in Dirs
  PROVE  /\ st[i] \in StopRec /\ st[i].dir \in [Dirs -> DirRec] /\ st[i].eb \in [Dirs -> EbRec]
         /\ st[i].injq \in Seq(Flit) /\ st[i].earb \in Dirs /\ st[i].injarb \in Dirs
         /\ st[i].dir[d] \in DirRec /\ st[i].dir[d].slot \in SlotRec
         /\ st[i].dir[d].slot.flit \in Opt(Flit) /\ st[i].dir[d].slot.rsvd \in Opt(Stops)
         /\ st[i].dir[d].state \in {"normal", "reserve", "wait"} /\ st[i].dir[d].counter \in 0 .. TimerMax
         /\ st[i].eb[d] \in EbRec /\ st[i].eb[d].ipipe \in Opt(Flit) /\ st[i].eb[d].oq \in Seq(Flit)
         /\ st[i].eb[d].empties \in 0 .. EjD /\ st[i].eb[d].upd \in Opt(UpdRec)
         /\ st[i].eb[d].vip \in VipRec
         /\ Rx(i, d) \in SlotRec /\ Rx(i, d).flit \in Opt(Flit) /\ Rx(i, d).rsvd \in Opt(Stops)
<1>1. st[i] \in StopRec
  BY DEF RingTypes
<1>2. /\ st[i].dir \in [Dirs -> DirRec] /\ st[i].eb \in [Dirs -> EbRec]
      /\ st[i].injq \in Seq(Flit) /\ st[i].earb \in Dirs /\ st[i].injarb \in Dirs
  BY <1>1 DEF StopRec
<1>3. st[i].dir[d] \in DirRec /\ st[i].eb[d] \in EbRec
  BY <1>2
<1>4. /\ st[i].dir[d].slot \in SlotRec
      /\ st[i].dir[d].state \in {"normal", "reserve", "wait"} /\ st[i].dir[d].counter \in 0 .. TimerMax
  BY <1>3 DEF DirRec
<1>5. /\ st[i].eb[d].ipipe \in Opt(Flit) /\ st[i].eb[d].oq \in Seq(Flit)
      /\ st[i].eb[d].empties \in 0 .. EjD /\ st[i].eb[d].upd \in Opt(UpdRec)
      /\ st[i].eb[d].vip \in VipRec
  BY <1>3 DEF EbRec
<1>6. Up(i, d) \in Stops /\ Rx(i, d) = st[Up(i, d)].dir[d].slot
  BY UpIs
<1>7. st[Up(i, d)].dir \in [Dirs -> DirRec]
  BY <1>6 DEF RingTypes, StopRec
<1>8. Rx(i, d) \in SlotRec
  BY <1>6, <1>7 DEF DirRec
<1> QED BY <1>1, <1>2, <1>3, <1>4, <1>5, <1>8 DEF SlotRec

LEMMA EbIs ==
  ASSUME RingTypes, Rooms, NEW i \in Stops, NEW d \in Dirs
  PROVE  /\ Len(st[i].injq) \in 0 .. 2 /\ (st[i].injq = <<>> <=> Len(st[i].injq) = 0)
         /\ Len(st[i].eb[d].oq) \in 0 .. EjD - 1 /\ (st[i].eb[d].oq = <<>> <=> Len(st[i].eb[d].oq) = 0)
         /\ Len(st[i].eb[d].ipipe) \in 0 .. 1 /\ (st[i].eb[d].ipipe = <<>> <=> Len(st[i].eb[d].ipipe) = 0)
         /\ st[i].eb[d].empties + Len(st[i].eb[d].ipipe) + Len(st[i].eb[d].oq) = EjD
         /\ EjD \in Nat /\ EjD > 1
<1>1. st[i].injq \in Seq(Flit) /\ st[i].eb[d].oq \in Seq(Flit) /\ st[i].eb[d].ipipe \in Opt(Flit)
  BY StopIs
<1>2. /\ Len(st[i].injq) <= 2 /\ Len(st[i].eb[d].oq) <= EjD - 1
      /\ st[i].eb[d].empties + Len(st[i].eb[d].ipipe) + Len(st[i].eb[d].oq) = EjD
  BY DEF Rooms, RoomOf
<1>3. /\ Len(st[i].injq) \in Nat /\ (st[i].injq = <<>> <=> Len(st[i].injq) = 0)
      /\ Len(st[i].eb[d].oq) \in Nat /\ (st[i].eb[d].oq = <<>> <=> Len(st[i].eb[d].oq) = 0)
  BY <1>1, LenProperties, EmptySeq
<1>4. Len(st[i].eb[d].ipipe) \in 0 .. 1 /\ (st[i].eb[d].ipipe = <<>> <=> Len(st[i].eb[d].ipipe) = 0)
  BY <1>1, OptIsSeq
<1>5. EjD \in Nat /\ EjD > 1
  BY RingAssumption
<1> DEFINE a == Len(st[i].injq)
           b == Len(st[i].eb[d].oq)
<1> HIDE DEF a, b
<1>6. a \in Nat /\ a <= 2 /\ b \in Nat /\ b <= EjD - 1
  BY <1>2, <1>3 DEF a, b
<1>7. a \in 0 .. 2 /\ b \in 0 .. EjD - 1
  BY <1>5, <1>6
<1> QED BY <1>2, <1>3, <1>4, <1>5, <1>7 DEF a, b

\* The lane lets go of a flit exactly when the buffer takes it.
LEMMA EjectIs ==
  ASSUME RingTypes, Rooms, NEW i \in Stops, NEW d \in Dirs
  PROVE  /\ EjectFire(i, d) <=> IpipeFire(i, d)
         /\ OqEnqRdy(i, d) <=> Len(st[i].eb[d].oq) < EjD - 1
         /\ EjectFire(i, d) => st[i].eb[d].ipipe = <<>> \/ OqEnqRdy(i, d)
         /\ EjectFire(i, d) => IpipeEnq(i, d) = Rx(i, d).flit /\ Rx(i, d).flit # <<>>
         /\ IpipeEnq(i, d) \in Opt(Flit) /\ OqEnqRdy(i, d) \in BOOLEAN
         /\ QNext(Ipipe, st[i].eb[d].ipipe, IpipeEnq(i, d), OqEnqRdy(i, d))
              = IF EjectFire(i, d) THEN Rx(i, d).flit
                ELSE IF OqEnqRdy(i, d) THEN <<>> ELSE st[i].eb[d].ipipe
<1> DEFINE e == st[i].eb[d]
           enq == IpipeEnq(i, d)
           r == OqEnqRdy(i, d)
<1>1. /\ Len(e.oq) \in 0 .. EjD - 1 /\ Len(e.ipipe) \in 0 .. 1 /\ (e.ipipe = <<>> <=> Len(e.ipipe) = 0)
      /\ e.empties + Len(e.ipipe) + Len(e.oq) = EjD /\ EjD \in Nat /\ EjD > 1
      /\ e.empties \in 0 .. EjD /\ e.ipipe \in Opt(Flit) /\ Rx(i, d).flit \in Opt(Flit)
  BY EbIs, StopIs
<1>2. (r <=> Len(e.oq) < EjD - 1) /\ r \in BOOLEAN
  BY DEF OqEnqRdy, EnqRdy, Oq
<1>3. enq \in Opt(Flit) /\ (enq # <<>> <=> EjectVld(i, d) /\ Allow(i, d)) /\ (enq # <<>> => enq = Rx(i, d).flit)
  <2>1. EjectVld(i, d) => Rx(i, d).flit # <<>>
    BY DEF EjectVld
  <2>2. <<>> \in Opt(Flit)
    BY DEF Opt
  <2> QED BY <1>1, <2>1, <2>2 DEF IpipeEnq
<1>4. Ipipe.n = 1 /\ Ipipe.flow = FALSE /\ Ipipe.pipe = TRUE
  BY DEF Ipipe
<1>5. /\ EnqRdy(Ipipe, e.ipipe, r) <=> e.ipipe = <<>> \/ r
      /\ QNext(Ipipe, e.ipipe, enq, r) = IF enq # <<>> /\ EnqRdy(Ipipe, e.ipipe, r) THEN enq
                                         ELSE IF r THEN <<>> ELSE e.ipipe
  <2>1. StageStep(Ipipe, e.ipipe, enq, r)
    <3> HIDE DEF enq, r
    <3> QED BY <1>1, <1>2, <1>3, <1>4, StageNext
  <2> QED BY <2>1 DEF StageStep
<1>6. IpipeFire(i, d) <=> enq # <<>> /\ (e.ipipe = <<>> \/ r)
  BY <1>5 DEF IpipeFire, Taken
<1>7. e.empties > 0 <=> (e.ipipe = <<>> \/ r)
  <2>1. e.empties > 0 <=> (Len(e.ipipe) = 0 \/ Len(e.oq) < EjD - 1)
    <3> DEFINE x == e.empties
               a == Len(e.ipipe)
               b == Len(e.oq)
    <3>1. x \in 0 .. EjD /\ a \in 0 .. 1 /\ b \in 0 .. EjD - 1 /\ x + a + b = EjD /\ EjD \in Nat
      BY <1>1
    <3> HIDE DEF x, a, b
    <3>2. x > 0 <=> (a = 0 \/ b < EjD - 1)
      BY <3>1
    <3> QED BY <3>2 DEF x, a, b
  <2> QED BY <1>1, <1>2, <2>1
<1>8. EjectFire(i, d) <=> enq # <<>> /\ (e.ipipe = <<>> \/ r)
  BY <1>3, <1>7 DEF EjectFire, EbEnqRdy
<1> HIDE DEF enq, r
<1>9. QNext(Ipipe, e.ipipe, enq, r) = IF EjectFire(i, d) THEN Rx(i, d).flit ELSE IF r THEN <<>> ELSE e.ipipe
  BY <1>3, <1>5, <1>8
<1> USE DEF enq, r
<1> QED BY <1>2, <1>3, <1>6, <1>8, <1>9 DEF EjectFire, EjectVld

-----------------------------------------------------------------------------
(* The static gate.                                                        *)

LEMMA GateHarmless ==
  ASSUME RingTypes, Rooms, NEW i \in Stops, NEW in, ~Active(i, in)
  PROVE  NextStop(i, in) = st[i]
<1>1. /\ InjEnq(i, in) = <<>> /\ st[i].injq = <<>>
      /\ \A d \in Dirs : ~LaneActive(i, d)
  BY DEF Active
<1>2. \A d \in Dirs : ~InjFire(i, d)
  BY <1>1 DEF InjFire, InjVld
<1>3. ASSUME NEW d \in Dirs PROVE NextDir(i, d, InjFire(i, d)) = st[i].dir[d]
  <2>1. /\ Rx(i, d) = NoSlot /\ st[i].dir[d] = EmptyStop.dir[d] /\ ~EjectVld(i, d) /\ ~EjectFire(i, d)
        /\ ~InjVld(i, d) /\ ~InjFire(i, d)
    BY <1>1, <1>2, <1>3 DEF LaneActive, EjectFire, InjVld
  <2>2. Rx(i, d).flit = <<>> /\ Rx(i, d).rsvd = <<>>
    BY <2>1 DEF NoSlot
  <2>3. st[i].dir[d] = [slot |-> NoSlot, state |-> "normal", counter |-> 0]
    BY <2>1, <1>3 DEF EmptyStop
  <2>4. st[i].dir[d].state = "normal" /\ st[i].dir[d].counter = 0 /\ TimerMax # 0
    BY <2>3, RingAssumption
  <2>5. NextSlot(i, d, InjFire(i, d)) = NoSlot
    BY <2>1, <2>2, <2>4 DEF NextSlot, NoSlot
  <2>6. NextState(i, d, InjFire(i, d)) = "normal"
    BY <2>4 DEF NextState
  <2>7. NextCounter(i, d, InjFire(i, d)) = 0
    BY <2>1, <2>4 DEF NextCounter
  <2> QED BY <2>3, <2>5, <2>6, <2>7 DEF NextDir
<1>4. ASSUME NEW d \in Dirs PROVE NextEb(i, d, in) = st[i].eb[d] /\ ~OqVld(i)[d]
  <2>1. /\ st[i].eb[d].upd = <<>> /\ st[i].eb[d].empties = EjD /\ ~VipDangling(st[i].eb[d].vip)
        /\ ~EjectVld(i, d) /\ ~EjectFire(i, d)
    BY <1>1, <1>4 DEF LaneActive, EjectFire
  <2>2. st[i].eb[d].oq = <<>> /\ st[i].eb[d].ipipe = <<>>
    <3> DEFINE a == Len(st[i].eb[d].ipipe)
               b == Len(st[i].eb[d].oq)
    <3>1. a \in 0 .. 1 /\ b \in 0 .. EjD - 1 /\ EjD + a + b = EjD /\ EjD \in Nat
      BY <2>1, EbIs
    <3> HIDE DEF a, b
    <3>2. a = 0 /\ b = 0
      BY <3>1
    <3> QED BY <3>2, EbIs DEF a, b
  <2>3. ~OqVld(i)[d] /\ ~EbDeqFire(i, d, in)
    BY <2>2 DEF OqVld, EbDeqFire
  <2>4. ~IpipeFire(i, d) /\ IpipeEnq(i, d) = <<>>
    BY <2>1, EjectIs DEF IpipeEnq
  <2>5. VipAfter(st[i].eb[d].vip, st[i].eb[d].upd) = st[i].eb[d].vip
    <3>1. st[i].eb[d].vip \in VipRec
      BY StopIs
    <3>2. VipAfter(st[i].eb[d].vip, st[i].eb[d].upd) = [tab |-> st[i].eb[d].vip.tab, ptr |-> st[i].eb[d].vip.ptr]
      BY <2>1 DEF VipAfter, VipPtr
    <3> QED BY <3>1, <3>2 DEF VipRec
  <2>6. /\ QNext(Ipipe, st[i].eb[d].ipipe, IpipeEnq(i, d), OqEnqRdy(i, d)) = <<>>
        /\ QNext(Oq, st[i].eb[d].oq, st[i].eb[d].ipipe, EarbRdy(i, d, in)) = <<>>
    BY <2>2, <2>4, IdleQueue
  <2>7. NextEb(i, d, in) = [ipipe |-> <<>>, oq |-> <<>>, empties |-> EjD, upd |-> <<>>, vip |-> st[i].eb[d].vip]
    <3>1. (EjD - 0) + 0 = EjD
      BY RingAssumption
    <3> QED BY <2>1, <2>3, <2>4, <2>5, <2>6, <3>1 DEF NextEb
  <2>8. st[i].eb[d] \in EbRec
    BY StopIs
  <2>9. st[i].eb[d] = [ipipe |-> <<>>, oq |-> <<>>, empties |-> EjD, upd |-> <<>>, vip |-> st[i].eb[d].vip]
    BY <2>1, <2>2, <2>8 DEF EbRec
  <2> QED BY <2>3, <2>7, <2>9
<1>5. QNext(InjQ, st[i].injq, InjEnq(i, in), \E d \in Dirs : InjFire(i, d)) = st[i].injq
  BY <1>1, IdleQueue
<1>6. ~TxFire(i, in)
  BY <1>4 DEF TxFire
<1>7. 0 \in Dirs
  BY DEF Dirs
<1>8. /\ st[i] \in StopRec /\ st[i].dir \in [Dirs -> DirRec] /\ st[i].eb \in [Dirs -> EbRec]
  BY <1>7, StopIs
<1>9. /\ [d \in Dirs |-> NextDir(i, d, InjFire(i, d))] = st[i].dir
      /\ [d \in Dirs |-> NextEb(i, d, in)] = st[i].eb
  BY <1>3, <1>4, <1>8
<1>10. NextStop(i, in) = [dir |-> st[i].dir, injq |-> st[i].injq, eb |-> st[i].eb,
                          earb |-> st[i].earb, injarb |-> st[i].injarb]
  BY <1>1, <1>5, <1>6, <1>9 DEF NextStop
<1> QED BY <1>8, <1>10 DEF StopRec

-----------------------------------------------------------------------------
(* An edge.                                                                *)

RingEdge(in) == in.offer \in Offers /\ in.rdy \in SUBSET Filled /\ RingTick(in)

LEMMA AllMove ==
  ASSUME RingTypes, Rooms, NEW in, RingTick(in), NEW i \in Stops
  PROVE  st'[i] = NextStop(i, in)
<1>1. st'[i] = IF Active(i, in) THEN NextStop(i, in) ELSE st[i]
  BY DEF RingTick
<1>2. ~Active(i, in) => NextStop(i, in) = st[i]
  BY GateHarmless
<1> QED BY <1>1, <1>2

\* The registers of a stop after an edge.
LEMMA StopMoves ==
  ASSUME RingTypes, Rooms, NEW in, RingTick(in), NEW i \in Stops, NEW d \in Dirs
  PROVE  /\ st'[i].dir = [e \in Dirs |-> NextDir(i, e, InjFire(i, e))]
         /\ st'[i].eb = [e \in Dirs |-> NextEb(i, e, in)]
         /\ st'[i].injq = QNext(InjQ, st[i].injq, InjEnq(i, in), \E e \in Dirs : InjFire(i, e))
         /\ st'[i].dir[d].slot.flit = (IF InjFire(i, d) THEN <<Head(st[i].injq)>>
                                       ELSE IF EjectFire(i, d) THEN <<>> ELSE Rx(i, d).flit)
         /\ st'[i].dir[d].slot.rsvd = (IF InjFire(i, d) THEN <<>>
                                       ELSE IF Rx(i, d).rsvd # <<>> THEN Rx(i, d).rsvd
                                       ELSE IF st[i].dir[d].state = "reserve" THEN <<i>> ELSE <<>>)
         /\ st'[i].dir[d].state = NextState(i, d, InjFire(i, d))
         /\ st'[i].dir[d].counter = NextCounter(i, d, InjFire(i, d))
         /\ st'[i].eb[d].ipipe = (IF EjectFire(i, d) THEN Rx(i, d).flit
                                  ELSE IF OqEnqRdy(i, d) THEN <<>> ELSE st[i].eb[d].ipipe)
         /\ st'[i].eb[d].oq = QNext(Oq, st[i].eb[d].oq, st[i].eb[d].ipipe, EarbRdy(i, d, in))
         /\ st'[i].eb[d].upd = (IF EjectVld(i, d)
                                THEN <<[rel |-> EbEnqRdy(i, d), tag |-> Tag[Rx(i, d).flit[1]]]>> ELSE <<>>)
         /\ st'[i].eb[d].vip = VipAfter(st[i].eb[d].vip, st[i].eb[d].upd)
<1>1. st'[i] = NextStop(i, in)
  BY AllMove
<1>2. /\ st'[i].dir = [e \in Dirs |-> NextDir(i, e, InjFire(i, e))]
      /\ st'[i].eb = [e \in Dirs |-> NextEb(i, e, in)]
      /\ st'[i].injq = QNext(InjQ, st[i].injq, InjEnq(i, in), \E e \in Dirs : InjFire(i, e))
  BY <1>1 DEF NextStop
<1>3. st'[i].dir[d] = NextDir(i, d, InjFire(i, d)) /\ st'[i].eb[d] = NextEb(i, d, in)
  BY <1>2
<1>4. /\ st'[i].dir[d].slot = NextSlot(i, d, InjFire(i, d))
      /\ st'[i].dir[d].state = NextState(i, d, InjFire(i, d))
      /\ st'[i].dir[d].counter = NextCounter(i, d, InjFire(i, d))
  BY <1>3 DEF NextDir
<1>5. /\ st'[i].dir[d].slot.flit = (IF InjFire(i, d) THEN <<Head(st[i].injq)>>
                                    ELSE IF EjectFire(i, d) THEN <<>> ELSE Rx(i, d).flit)
      /\ st'[i].dir[d].slot.rsvd = (IF InjFire(i, d) THEN <<>>
                                    ELSE IF Rx(i, d).rsvd # <<>> THEN Rx(i, d).rsvd
                                    ELSE IF st[i].dir[d].state = "reserve" THEN <<i>> ELSE <<>>)
  BY <1>4 DEF NextSlot
<1>6. /\ st'[i].eb[d].ipipe = QNext(Ipipe, st[i].eb[d].ipipe, IpipeEnq(i, d), OqEnqRdy(i, d))
      /\ st'[i].eb[d].oq = QNext(Oq, st[i].eb[d].oq, st[i].eb[d].ipipe, EarbRdy(i, d, in))
      /\ st'[i].eb[d].upd = (IF EjectVld(i, d)
                             THEN <<[rel |-> EbEnqRdy(i, d), tag |-> Tag[Rx(i, d).flit[1]]]>> ELSE <<>>)
      /\ st'[i].eb[d].vip = VipAfter(st[i].eb[d].vip, st[i].eb[d].upd)
  BY <1>3 DEF NextEb
<1>7. st'[i].eb[d].ipipe = (IF EjectFire(i, d) THEN Rx(i, d).flit
                           ELSE IF OqEnqRdy(i, d) THEN <<>> ELSE st[i].eb[d].ipipe)
  BY <1>6, EjectIs
<1> QED BY <1>2, <1>4, <1>5, <1>6, <1>7

\* Who fires on the injecting side, and what a stop accepts.
LEMMA InjIs ==
  ASSUME RingTypes, NEW i \in Stops
  PROVE  /\ \A d, e \in Dirs : InjFire(i, d) /\ InjFire(i, e) => d = e
         /\ \A d \in Dirs : InjFire(i, d) =>
              /\ st[i].injq # <<>> /\ Head(st[i].injq) \in Range(st[i].injq) /\ Head(st[i].injq) \in Flit
              /\ Rx(i, d).flit = <<>> \/ EjectFire(i, d)
              /\ Avail(i, d)
<1>1. st[i].injq \in Seq(Flit)
  <2>1. 0 \in Dirs
    BY DEF Dirs
  <2> QED BY <2>1, StopIs
<1>2. st[i].injq # <<>> => Head(st[i].injq) \in Range(st[i].injq) /\ Head(st[i].injq) \in Flit
  <2> SUFFICES ASSUME st[i].injq # <<>> PROVE Head(st[i].injq) \in Range(st[i].injq) /\ Head(st[i].injq) \in Flit
    OBVIOUS
  <2>1. Len(st[i].injq) \in Nat /\ Len(st[i].injq) # 0
    BY <1>1, EmptySeq, LenProperties
  <2>2. 1 \in 1 .. Len(st[i].injq)
    BY <2>1
  <2>3. Head(st[i].injq) = st[i].injq[1]
    BY <1>1, HeadTailProperties
  <2> QED BY <1>1, <2>2, <2>3, RangeIs
<1>3. \A d \in Dirs : InjFire(i, d) =>
        st[i].injq # <<>> /\ Lane(i, Tgt[Head(st[i].injq)]) = d /\ EmptySlot(i, d) /\ Avail(i, d)
  BY DEF InjFire, InjVld, InjRdy
<1> QED BY <1>2, <1>3 DEF EmptySlot

LEMMA Accepts ==
  ASSUME RingTypes, Spread, NEW in, RingEdge(in), NEW i \in Stops
  PROVE  /\ InjEnq(i, in) \in Opt(Flit)
         /\ InjEnq(i, in) # <<>> => Len(st[i].injq) < 2
         /\ \A f \in Flit : InjEnq(i, in) = <<f>> => f \notin sent /\ Src[f] = i
         /\ \A f \in Flit : InjEnq(i, in) = <<f>>
                             <=> f \in in.offer /\ Src[f] = i /\ SrcRdy(Src[f], Port[f], in)
<1> DEFINE v == SrcVld(i, in)
           lg == st[i].injarb
           ch == InjChosen(i, in)
           o == Offered(i, ch, in)
<1>1. /\ in.offer \subseteq Flit
      /\ \A f \in in.offer : Len(st[Src[f]].injq) < 2 /\ f \notin sent
      /\ \A f, g \in in.offer : Src[f] = Src[g] /\ Port[f] = Port[g] => f = g
  BY DEF RingEdge, Offers, InjQ
<1>2. \A p \in Dirs : v[p] <=> Offered(i, p, in) # {}
  BY DEF SrcVld
<1>3. v \in [Dirs -> BOOLEAN] /\ lg \in Dirs /\ 0 \in Dirs
  <2>1. 0 \in Dirs
    BY DEF Dirs
  <2> QED BY <2>1, StopIs DEF SrcVld
<1>4. /\ RrChosen(v, lg) \in Dirs
      /\ \A k \in Dirs : v[k] => (RrRdy(v, lg, k) <=> k = RrChosen(v, lg))
  BY <1>3, RrOne
<1>5. ch = IF i \in Dual THEN RrChosen(v, lg) ELSE 0
  BY DEF InjChosen
<1>6. InjEnq(i, in) = IF o = {} THEN <<>> ELSE <<CHOOSE f \in o : TRUE>>
  BY DEF InjEnq
<1>7. \A f : f \in o <=> f \in in.offer /\ Src[f] = i /\ Port[f] = ch
  BY DEF Offered
<1> HIDE DEF o, ch
<1>8. \A f : InjEnq(i, in) = <<f>> <=> f \in o
  <2>1. \A f, g \in o : f = g
    BY <1>1, <1>7
  <2>2. o # {} => (CHOOSE f \in o : TRUE) \in o
    OBVIOUS
  <2>3. \A x : <<x>> # <<>>
    OBVIOUS
  <2>4. \A x, y : <<x>> = <<y>> <=> x = y
    OBVIOUS
  <2> QED BY <1>6, <2>1, <2>2, <2>3, <2>4
<1>9. InjEnq(i, in) = <<>> \/ \E f \in o : InjEnq(i, in) = <<f>>
  <2>1. o # {} => (CHOOSE f \in o : TRUE) \in o
    OBVIOUS
  <2> QED BY <1>6, <2>1
<1>10. InjEnq(i, in) \in Opt(Flit) /\ (InjEnq(i, in) # <<>> => Len(st[i].injq) < 2)
  <2>1. \A f \in o : f \in Flit /\ Len(st[i].injq) < 2
    BY <1>1, <1>7
  <2> QED BY <1>9, <2>1 DEF Opt
<1>11. ASSUME NEW f \in Flit, f \in in.offer, Src[f] = i
       PROVE  SrcRdy(Src[f], Port[f], in) <=> Port[f] = ch
  <2>1. Port[f] \in Dirs /\ f \in Offered(i, Port[f], in)
    BY <1>11, RingAssumption DEF Offered
  <2>2. InjEnqRdy(i)
    BY <1>1, <1>11 DEF InjEnqRdy, EnqRdy, InjQ
  <2>3. v[Port[f]]
    BY <1>2, <2>1
  <2>4. i \in Dual => (RrRdy(v, lg, Port[f]) <=> Port[f] = ch)
    BY <1>4, <1>5, <2>1, <2>3
  <2>5. i \notin Dual => Port[f] = ch
    <3>1. i \notin Dual => Port[f] # 1
      BY <1>11 DEF Dual
    <3> QED BY <1>5, <2>1, <3>1 DEF Dirs
  <2> QED BY <1>11, <2>2, <2>4, <2>5 DEF SrcRdy
<1> QED BY <1>1, <1>7, <1>8, <1>10, <1>11

-----------------------------------------------------------------------------
(* Where a flit goes.                                                      *)

LEMMA InInjq ==
  ASSUME RingIInv, NEW in, RingEdge(in), NEW i \in Stops
  PROVE  /\ st'[i].injq \in Seq(Flit) /\ Len(st'[i].injq) <= 2 /\ IsInjective(st'[i].injq)
         /\ \A f \in Flit : f \in Range(st'[i].injq)
              <=> \/ f \in Range(st[i].injq) /\ ~(\E d \in Dirs : InjFire(i, d) /\ f = Head(st[i].injq))
                  \/ InjEnq(i, in) = <<f>>
<1> DEFINE q == st[i].injq
           enq == InjEnq(i, in)
           fire == \E d \in Dirs : InjFire(i, d)
<1>1. RingTypes /\ Rooms /\ Spread /\ RingTick(in) /\ 0 \in Dirs
  BY DEF RingIInv, RingEdge, Dirs
<1>2. q \in Seq(Flit) /\ Len(q) <= 2 /\ IsInjective(q) /\ st'[i].injq = QNext(InjQ, q, enq, fire)
  BY <1>1, StopIs, StopMoves DEF Rooms
<1>3. /\ enq \in Opt(Flit) /\ (enq # <<>> => Len(q) < 2)
      /\ \A f \in Flit : enq = <<f>> => f \notin sent
  BY <1>1, Accepts
<1>4. enq = <<>> \/ \E f \in Flit : enq = <<f>>
  BY <1>3 DEF Opt
<1>5. \A f \in Flit : f \in Range(q) => f \in sent
  BY <1>1 DEF Spread, Somewhere, At, Kinds
<1>6. Range(enq) \cap Range(q) = {} /\ \A f \in Flit : f \in Range(enq) <=> enq = <<f>>
  <2>1. CASE enq = <<>>
    <3>1. \A f : <<>> # <<f>>
      OBVIOUS
    <3> QED BY <2>1, <3>1, EmptyRange
  <2>2. ASSUME NEW g \in Flit, enq = <<g>> PROVE Range(enq) \cap Range(q) = {} /\ \A f \in Flit : f \in Range(enq) <=> enq = <<f>>
    <3>1. Range(enq) = {g}
      BY <2>2, OneRange
    <3>2. \A f : <<g>> = <<f>> <=> g = f
      OBVIOUS
    <3> QED BY <1>3, <1>5, <2>2, <3>1, <3>2
  <2> QED BY <1>4, <2>1, <2>2
<1>7. InjQ.n \in Nat \ {0} /\ InjQ.n = 2 /\ InjQ.flow = FALSE /\ InjQ.pipe = FALSE
  BY DEF InjQ
<1> HIDE DEF q, enq, fire
<1>8. fire \in BOOLEAN
  BY DEF fire
<1>9. Moved(Flit, InjQ, q, enq, fire, st'[i].injq)
  BY <1>2, <1>3, <1>6, <1>7, <1>8, QueueSet
<1>10. /\ st'[i].injq \in Seq(Flit) /\ Len(st'[i].injq) <= 2 /\ IsInjective(st'[i].injq)
       /\ Range(st'[i].injq) = (Range(q) \ HeadOf(q, fire)) \cup Range(enq)
  BY <1>7, <1>9 DEF Moved
<1>11. \A f : f \in HeadOf(q, fire) <=> fire /\ f = Head(q)
  <2>1. fire => q # <<>>
    BY <1>1, InjIs DEF fire, q
  <2> QED BY <2>1 DEF HeadOf
<1> QED BY <1>6, <1>10, <1>11 DEF q, enq, fire

\* The queue of a lane towards the reader: it takes one when it has room.
Queued(S, c, q, p, r, n) ==
  /\ n \in Seq(S) /\ Len(n) \in 0 .. c.n /\ IsInjective(n)
  /\ Len(n) = Len(q) + (IF p # <<>> /\ Len(q) < c.n THEN 1 ELSE 0) - (IF r /\ q # <<>> THEN 1 ELSE 0)
  /\ \A f \in S : f \in Range(n)
       <=> ((Len(q) < c.n /\ p = <<f>>) \/ (f \in Range(q) /\ ~(r /\ f = Head(q))))

LEMMA QueueMoves ==
  ASSUME NEW S, NEW c, c.n \in Nat \ {0}, c.flow = FALSE, c.pipe = FALSE,
         NEW q \in Seq(S), Len(q) <= c.n, IsInjective(q), NEW p \in Opt(S),
         \A f \in S : p = <<f>> => f \notin Range(q), NEW r \in BOOLEAN, NEW n, n = QNext(c, q, p, r)
  PROVE  Queued(S, c, q, p, r, n)
<1> DEFINE t == Taken(c, q, p, r)
<1>1. EnqRdy(c, q, r) <=> Len(q) < c.n
  BY DEF EnqRdy
<1>2. t = IF Len(q) < c.n THEN p ELSE <<>>
  BY <1>1 DEF Taken
<1>3. p = <<>> \/ \E g \in S : p = <<g>>
  BY DEF Opt
<1>4. \A x : <<x>> # <<>>
  OBVIOUS
<1>5. \A x, y : <<x>> = <<y>> <=> x = y
  OBVIOUS
<1>6. Taken(c, q, t, r) = t
  BY <1>1, <1>2 DEF Taken
<1>7. n = QNext(c, q, t, r)
  <2>1. Given(c, q, p, r) = Given(c, q, t, r)
    BY DEF Given, Deq
  <2>2. Taken(c, q, p, r) = Taken(c, q, t, r)
    BY <1>6
  <2> QED BY <2>1, <2>2 DEF QNext
<1>8. Given(c, q, t, r) = IF r /\ q # <<>> THEN <<Head(q)>> ELSE <<>>
  BY DEF Given, Deq
<1> HIDE DEF t
<1>9. t \in Opt(S) /\ (t # <<>> => Len(q) < c.n) /\ (t = <<>> \/ \E g \in S : t = <<g>>)
  <2>1. <<>> \in Opt(S)
    BY DEF Opt
  <2> QED BY <1>2, <1>3, <2>1
<1>10. \A f \in S : t = <<f>> <=> Len(q) < c.n /\ p = <<f>>
  BY <1>2, <1>4
<1>11. Range(t) \cap Range(q) = {} /\ \A f \in S : f \in Range(t) <=> t = <<f>>
  <2>1. CASE t = <<>>
    BY <2>1, <1>4, EmptyRange
  <2>2. ASSUME NEW g \in S, t = <<g>>
        PROVE  Range(t) \cap Range(q) = {} /\ \A f \in S : f \in Range(t) <=> t = <<f>>
    <3>1. Range(t) = {g}
      BY <2>2, OneRange
    <3>2. g \notin Range(q)
      BY <1>10, <2>2
    <3> QED BY <1>5, <2>2, <3>1, <3>2
  <2> QED BY <1>9, <2>1, <2>2
<1>12. Moved(S, c, q, t, r, n)
  BY <1>7, <1>9, <1>11, QueueSet
<1>13. Len(t) = IF p # <<>> /\ Len(q) < c.n THEN 1 ELSE 0
  <2>1. t # <<>> <=> p # <<>> /\ Len(q) < c.n
    BY <1>2
  <2> QED BY <1>9, <2>1, OptIsSeq
<1>14. Len(Given(c, q, t, r)) = IF r /\ q # <<>> THEN 1 ELSE 0
  <2>1. Len(<<>>) = 0 /\ Len(<<Head(q)>>) = 1
    OBVIOUS
  <2> QED BY <1>8, <2>1
<1>15. Len(n) = Len(q) + Len(t) - Len(Given(c, q, t, r))
  BY <1>6, <1>7, <1>9, QLen
<1>16. /\ n \in Seq(S) /\ Len(n) <= c.n /\ IsInjective(n)
       /\ Range(n) = (Range(q) \ HeadOf(q, r)) \cup Range(t)
  BY <1>12 DEF Moved
<1>17. \A f \in S : f \in Range(n)
       <=> ((Len(q) < c.n /\ p = <<f>>) \/ (f \in Range(q) /\ ~(r /\ f = Head(q))))
  <2>1. q = <<>> => Range(q) = {}
    BY EmptyRange
  <2>2. ASSUME NEW f \in S, f \in Range(q) PROVE f \in HeadOf(q, r) <=> r /\ f = Head(q)
    BY <2>1, <2>2 DEF HeadOf
  <2>3. \A f \in S : f \in Range(n) <=> (f \in Range(q) /\ f \notin HeadOf(q, r)) \/ t = <<f>>
    BY <1>11, <1>16
  <2> QED BY <1>10, <2>2, <2>3
<1>18. Len(n) \in 0 .. c.n
  <2>1. Len(n) \in Nat
    BY <1>16, LenProperties
  <2> QED BY <1>16, <2>1
<1> QED BY <1>13, <1>14, <1>15, <1>16, <1>17, <1>18 DEF Queued

LEMMA InOq ==
  ASSUME RingIInv, NEW in, RingEdge(in), NEW i \in Stops, NEW d \in Dirs
  PROVE  /\ RoomOf(i, d)' /\ st'[i].eb[d].oq \in Seq(Flit)
         /\ st'[i].eb[d].ipipe \in Opt(Flit) /\ st'[i].eb[d].empties \in 0 .. EjD
         /\ \A f \in Flit : f \in Range(st'[i].eb[d].oq)
              <=> \/ OqEnqRdy(i, d) /\ st[i].eb[d].ipipe = <<f>>
                  \/ f \in Range(st[i].eb[d].oq) /\ ~(EbDeqFire(i, d, in) /\ f = Head(st[i].eb[d].oq))
<1> DEFINE q == st[i].eb[d].oq
           p == st[i].eb[d].ipipe
           r == EarbRdy(i, d, in)
           n == st'[i].eb[d].oq
           pn == st'[i].eb[d].ipipe
           x == st[i].eb[d].empties
           y == st'[i].eb[d].empties
           in1 == IF IpipeFire(i, d) THEN 1 ELSE 0
           out1 == IF EbDeqFire(i, d, in) THEN 1 ELSE 0
           more == IF OqEnqRdy(i, d) /\ p # <<>> THEN 1 ELSE 0
<1>1. RingTypes /\ Rooms /\ Spread /\ RingTick(in)
  BY DEF RingIInv, RingEdge
<1>2. /\ q \in Seq(Flit) /\ Len(q) \in 0 .. EjD - 1 /\ (q = <<>> <=> Len(q) = 0)
      /\ Len(p) \in 0 .. 1 /\ (p = <<>> <=> Len(p) = 0) /\ p \in Opt(Flit)
      /\ x + Len(p) + Len(q) = EjD /\ EjD \in Nat /\ EjD > 1 /\ x \in 0 .. EjD
      /\ Rx(i, d).flit \in Opt(Flit)
  BY <1>1, EbIs, StopIs
<1>3. IsInjective(q) /\ r \in BOOLEAN
  BY <1>1 DEF Rooms, RoomOf, EarbRdy, RrRdy
<1>4. Oq.n = EjD - 1 /\ Oq.n \in Nat \ {0} /\ Oq.flow = FALSE /\ Oq.pipe = FALSE
  BY <1>2 DEF Oq
<1>5. /\ pn = (IF EjectFire(i, d) THEN Rx(i, d).flit ELSE IF OqEnqRdy(i, d) THEN <<>> ELSE p)
      /\ n = QNext(Oq, q, p, r)
  BY <1>1, StopMoves
<1>6. y = (x - in1) + out1
  <2>1. st'[i].eb = [e \in Dirs |-> NextEb(i, e, in)]
    BY <1>1, StopMoves
  <2>2. st'[i].eb[d] = NextEb(i, d, in)
    BY <2>1
  <2> QED BY <2>2 DEF NextEb
<1>7. OqEnqRdy(i, d) <=> Len(q) < EjD - 1
  BY <1>1, EjectIs
<1>8. EbDeqFire(i, d, in) <=> r /\ q # <<>>
  BY DEF EbDeqFire, OqVld
<1>9. \A f \in Flit : p = <<f>> => f \notin Range(q)
  <2>1. \A f \in Flit : p = <<f>> => At(f, "ipipe", i, d)
    BY DEF At
  <2>2. \A f \in Flit : f \in Range(q) => At(f, "oq", i, d)
    BY DEF At
  <2>3. "ipipe" \in Kinds /\ "oq" \in Kinds /\ "ipipe" # "oq"
    BY DEF Kinds
  <2> QED BY <1>1, <2>1, <2>2, <2>3 DEF Spread, AtOnce
<1>10. Queued(Flit, Oq, q, p, r, n)
  <2>1. Len(q) <= Oq.n
    BY <1>2, <1>4
  <2> HIDE DEF q, p, r, n
  <2> QED BY <1>2, <1>3, <1>4, <1>5, <1>9, <2>1, QueueMoves
<1>11. /\ n \in Seq(Flit) /\ Len(n) \in 0 .. EjD - 1 /\ IsInjective(n)
       /\ \A f \in Flit : f \in Range(n)
            <=> \/ OqEnqRdy(i, d) /\ p = <<f>>
                \/ f \in Range(q) /\ ~(EbDeqFire(i, d, in) /\ f = Head(q))
  <2>1. q = <<>> => Range(q) = {}
    BY EmptyRange
  <2> HIDE DEF q, p, r, n
  <2> QED BY <1>4, <1>7, <1>8, <1>10, <2>1 DEF Queued
<1>12. Len(n) = Len(q) + more - out1
  <2>1. more = IF p # <<>> /\ Len(q) < Oq.n THEN 1 ELSE 0
    BY <1>4, <1>7
  <2>2. out1 = IF r /\ q # <<>> THEN 1 ELSE 0
    BY <1>8
  <2> HIDE DEF q, p, r, n, more, out1
  <2> QED BY <1>10, <2>1, <2>2 DEF Queued
<1>13. pn \in Opt(Flit)
  <2>1. <<>> \in Opt(Flit)
    BY DEF Opt
  <2> HIDE DEF p, pn
  <2> QED BY <1>2, <1>5, <2>1
<1>14. Len(pn) + more = Len(p) + in1 /\ Len(pn) \in 0 .. 1
  <2>1. EjectFire(i, d) <=> IpipeFire(i, d)
    BY <1>1, EjectIs
  <2>2. Len(<<>>) = 0
    OBVIOUS
  <2>3. EjectFire(i, d) => Len(Rx(i, d).flit) = 1 /\ (p = <<>> \/ OqEnqRdy(i, d))
    <3>1. EjectFire(i, d) => Rx(i, d).flit # <<>> /\ (p = <<>> \/ OqEnqRdy(i, d))
      BY <1>1, EjectIs
    <3> QED BY <1>2, <3>1, OptIsSeq
  <2>4. in1 = IF EjectFire(i, d) THEN 1 ELSE 0
    BY <2>1
  <2> HIDE DEF p, pn, in1
  <2>5. CASE EjectFire(i, d)
    <3>1. more = Len(p)
      <4>1. p # <<>> => OqEnqRdy(i, d) /\ Len(p) = 1
        BY <1>2, <2>3, <2>5
      <4> QED BY <1>2, <4>1
    <3>2. pn = Rx(i, d).flit /\ Len(Rx(i, d).flit) = 1 /\ in1 = 1
      BY <1>5, <2>3, <2>4, <2>5
    <3> HIDE DEF more
    <3> QED BY <1>2, <3>1, <3>2
  <2>6. CASE ~EjectFire(i, d) /\ OqEnqRdy(i, d)
    BY <1>2, <1>5, <2>2, <2>4, <2>6
  <2>7. CASE ~EjectFire(i, d) /\ ~OqEnqRdy(i, d)
    BY <1>2, <1>5, <2>4, <2>7
  <2> QED BY <2>5, <2>6, <2>7
<1>15. y + Len(pn) + Len(n) = EjD /\ y \in 0 .. EjD
  <2> DEFINE a == Len(p)
             b == Len(q)
             an == Len(pn)
             bn == Len(n)
  <2>1. /\ an \in 0 .. 1 /\ bn \in 0 .. EjD - 1 /\ EjD \in Nat /\ EjD > 1
        /\ a \in 0 .. 1 /\ b \in 0 .. EjD - 1 /\ x \in 0 .. EjD
        /\ x + a + b = EjD /\ an + more = a + in1 /\ bn = b + more - out1
    BY <1>2, <1>11, <1>12, <1>14
  <2>2. in1 \in {0, 1} /\ out1 \in {0, 1} /\ more \in {0, 1} /\ y = (x - in1) + out1
    BY <1>6
  <2> HIDE DEF a, b, an, bn, in1, out1, more, x, y
  <2>3. y + an + bn = EjD /\ y \in Int
    BY <2>1, <2>2
  <2>4. y \in 0 .. EjD
    BY <2>1, <2>3
  <2> QED BY <2>3, <2>4 DEF an, bn
<1>16. RoomOf(i, d)'
  <2>1. Len(n) <= EjD - 1
    <3> HIDE DEF n
    <3> QED BY <1>2, <1>11
  <2> QED BY <1>11, <1>15, <2>1 DEF RoomOf
<1> QED BY <1>11, <1>13, <1>15, <1>16

LEMMA InLaneNext ==
  ASSUME RingIInv, NEW in, RingEdge(in), NEW i \in Stops, NEW d \in Dirs, NEW f \in Flit
  PROVE  /\ st'[i].dir[d].slot.flit = <<f>>
              <=> \/ InjFire(i, d) /\ f = Head(st[i].injq)
                  \/ st[Up(i, d)].dir[d].slot.flit = <<f>> /\ ~EjectFire(i, d)
         /\ st'[i].eb[d].ipipe = <<f>>
              <=> \/ st[Up(i, d)].dir[d].slot.flit = <<f>> /\ EjectFire(i, d)
                  \/ st[i].eb[d].ipipe = <<f>> /\ ~OqEnqRdy(i, d)
         /\ EjectFire(i, d) /\ st[Up(i, d)].dir[d].slot.flit = <<f>> => Tgt[f] = i
<1> DEFINE here == Rx(i, d).flit
           p == st[i].eb[d].ipipe
<1>1. RingTypes /\ Rooms /\ RingTick(in)
  BY DEF RingIInv, RingEdge
<1>2. st[Up(i, d)].dir[d].slot.flit = here
  BY UpIs
<1>3. /\ st'[i].dir[d].slot.flit = (IF InjFire(i, d) THEN <<Head(st[i].injq)>>
                                    ELSE IF EjectFire(i, d) THEN <<>> ELSE here)
      /\ st'[i].eb[d].ipipe = (IF EjectFire(i, d) THEN here ELSE IF OqEnqRdy(i, d) THEN <<>> ELSE p)
  BY <1>1, StopMoves
<1>4. InjFire(i, d) => here = <<>> \/ EjectFire(i, d)
  BY <1>1, InjIs
<1>5. EjectFire(i, d) => here # <<>> /\ Tgt[here[1]] = i
  BY DEF EjectFire, EjectVld
<1>6. EjectFire(i, d) => p = <<>> \/ OqEnqRdy(i, d)
  BY <1>1, EjectIs
<1>7. \A x : <<x>> # <<>>
  OBVIOUS
<1>8. \A x, y : <<x>> = <<y>> <=> x = y
  OBVIOUS
<1>9. <<f>>[1] = f
  OBVIOUS
<1> HIDE DEF here, p
<1>10. st'[i].dir[d].slot.flit = <<f>>
         <=> ((InjFire(i, d) /\ f = Head(st[i].injq)) \/ (here = <<f>> /\ ~EjectFire(i, d)))
  <2>1. CASE InjFire(i, d)
    <3>1. st'[i].dir[d].slot.flit = <<f>> <=> f = Head(st[i].injq)
      BY <1>3, <1>8, <2>1
    <3>2. here = <<f>> => EjectFire(i, d)
      BY <1>4, <1>7, <2>1
    <3> QED BY <2>1, <3>1, <3>2
  <2>2. CASE ~InjFire(i, d)
    BY <1>3, <1>7, <2>2
  <2> QED BY <2>1, <2>2
<1>11. st'[i].eb[d].ipipe = <<f>> <=> ((here = <<f>> /\ EjectFire(i, d)) \/ (p = <<f>> /\ ~OqEnqRdy(i, d)))
  BY <1>3, <1>6, <1>7
<1>12. EjectFire(i, d) /\ here = <<f>> => Tgt[f] = i
  BY <1>5, <1>9
<1> QED BY <1>2, <1>10, <1>11, <1>12 DEF p

LEMMA SentNext ==
  ASSUME RingIInv, NEW in, RingEdge(in), NEW f \in Flit
  PROVE  /\ f \in sent' <=> /\ f \in sent \/ InjEnq(Src[f], in) = <<f>>
                            /\ \A i \in Stops, d \in Dirs :
                                 ~(EbDeqFire(i, d, in) /\ f = Head(st[i].eb[d].oq))
         /\ \A i \in Stops, d \in Dirs : EbDeqFire(i, d, in) => Head(st[i].eb[d].oq) \in Range(st[i].eb[d].oq)
         /\ \A i \in Stops : InjEnq(i, in) = <<f>> => i = Src[f] /\ f \notin sent
<1>1. RingTypes /\ Rooms /\ Spread /\ RingTick(in)
  BY DEF RingIInv, RingEdge
<1>2. Src[f] \in Stops /\ EjStops \subseteq Stops
  BY RingAssumption DEF EjStops
<1>3. sent' = (sent \cup {g \in in.offer : SrcRdy(Src[g], Port[g], in)})
                \ {TxFlit(i) : i \in {j \in EjStops : TxFire(j, in)}}
  BY <1>1 DEF RingTick
<1>4. f \in in.offer /\ SrcRdy(Src[f], Port[f], in) <=> InjEnq(Src[f], in) = <<f>>
  BY <1>1, <1>2, Accepts
<1>5. \A i \in Stops : InjEnq(i, in) = <<f>> => i = Src[f] /\ f \notin sent
  BY <1>1, Accepts
<1>6. ASSUME NEW i \in Stops
      PROVE  /\ RrChosen(OqVld(i), st[i].earb) \in Dirs
             /\ \A k \in Dirs : OqVld(i)[k] => (RrRdy(OqVld(i), st[i].earb, k) <=> k = RrChosen(OqVld(i), st[i].earb))
             /\ \A k \in Dirs : OqVld(i)[k] => OqVld(i)[RrChosen(OqVld(i), st[i].earb)]
  <2>1. 0 \in Dirs
    BY DEF Dirs
  <2>2. OqVld(i) \in [Dirs -> BOOLEAN] /\ st[i].earb \in Dirs
    BY <1>1, <2>1, StopIs DEF OqVld
  <2> QED BY <2>2, RrOne
<1>7. ASSUME NEW i \in EjStops, TxFire(i, in)
      PROVE  \E d \in Dirs : EbDeqFire(i, d, in) /\ TxFlit(i) = Head(st[i].eb[d].oq)
  <2> DEFINE c == RrChosen(OqVld(i), st[i].earb)
  <2>1. i \in EjStops \cap in.rdy /\ \E d \in Dirs : OqVld(i)[d]
    BY <1>7 DEF TxFire
  <2>2. c \in Dirs /\ OqVld(i)[c] /\ RrRdy(OqVld(i), st[i].earb, c)
    BY <1>2, <1>6, <2>1
  <2>3. EbDeqFire(i, c, in) /\ TxFlit(i) = Head(st[i].eb[c].oq)
    BY <2>1, <2>2 DEF EbDeqFire, EarbRdy, TxFlit
  <2> QED BY <2>2, <2>3
<1>8. ASSUME NEW i \in Stops, NEW d \in Dirs, EbDeqFire(i, d, in)
      PROVE  i \in EjStops /\ TxFire(i, in) /\ TxFlit(i) = Head(st[i].eb[d].oq)
  <2>1. OqVld(i)[d] /\ i \in EjStops \cap in.rdy /\ RrRdy(OqVld(i), st[i].earb, d)
    BY <1>8 DEF EbDeqFire, EarbRdy
  <2>2. d = RrChosen(OqVld(i), st[i].earb)
    BY <1>6, <2>1
  <2> QED BY <2>1, <2>2 DEF TxFire, TxFlit
<1>9. ASSUME NEW i \in Stops, NEW d \in Dirs, EbDeqFire(i, d, in)
      PROVE  Head(st[i].eb[d].oq) \in Range(st[i].eb[d].oq)
  <2>1. st[i].eb[d].oq # <<>>
    BY <1>9 DEF EbDeqFire, OqVld
  <2>2. st[i].eb[d].oq \in Seq(Flit) /\ IsInjective(st[i].eb[d].oq)
    BY <1>1, StopIs DEF Rooms, RoomOf
  <2> QED BY <2>1, <2>2, TailRange
<1>10. f \in {TxFlit(i) : i \in {j \in EjStops : TxFire(j, in)}}
         <=> \E i \in Stops, d \in Dirs : EbDeqFire(i, d, in) /\ f = Head(st[i].eb[d].oq)
  BY <1>2, <1>7, <1>8
<1> QED BY <1>3, <1>4, <1>5, <1>9, <1>10

\* At one place, or at none.
OnlyAt(f, k, i, d) ==
  /\ At(f, k, i, d)
  /\ \A l \in Kinds, j \in Stops, e \in Dirs : At(f, l, j, e) => l = k /\ j = i /\ e = d
Nowhere(f) == \A k \in Kinds, i \in Stops, d \in Dirs : ~At(f, k, i, d)
Placed(f) == IF f \in sent THEN \E k \in Kinds, i \in Stops, d \in Dirs : OnlyAt(f, k, i, d)
             ELSE Nowhere(f)

LEMMA SpreadIs ==
  ASSUME NEW f
  PROVE  (f \in sent <=> Somewhere(f)) /\ AtOnce(f) <=> Placed(f)
<1>1. ASSUME f \in sent <=> Somewhere(f), AtOnce(f) PROVE Placed(f)
  BY <1>1 DEF Somewhere, AtOnce, Placed, OnlyAt, Nowhere
<1>2. ASSUME Placed(f) PROVE (f \in sent <=> Somewhere(f)) /\ AtOnce(f)
  <2>1. CASE f \in sent
    <3>1. PICK k \in Kinds, i \in Stops, d \in Dirs : OnlyAt(f, k, i, d)
      BY <1>2, <2>1 DEF Placed
    <3>2. Somewhere(f)
      BY <3>1 DEF Somewhere, OnlyAt
    <3>3. AtOnce(f)
      <4> USE DEF AtOnce
      <4>1. SUFFICES ASSUME NEW K \in Kinds, NEW l \in Kinds, NEW j1 \in Stops, NEW j2 \in Stops,
                            NEW e1 \in Dirs, NEW e2 \in Dirs, At(f, K, j1, e1), At(f, l, j2, e2)
                     PROVE  K = l /\ j1 = j2 /\ e1 = e2
        OBVIOUS
      <4>2. K = k /\ j1 = i /\ e1 = d
        BY <3>1, <4>1 DEF OnlyAt
      <4>3. l = k /\ j2 = i /\ e2 = d
        BY <3>1, <4>1 DEF OnlyAt
      <4> QED BY <4>2, <4>3
    <3> QED BY <2>1, <3>2, <3>3
  <2>2. CASE f \notin sent
    BY <1>2, <2>2 DEF Somewhere, AtOnce, Placed, Nowhere
  <2> QED BY <2>1, <2>2
<1> QED BY <1>1, <1>2

\* The places of a flit after an edge, by its places before.
Boards(f, i, d) == InjFire(i, d) /\ f = Head(st[i].injq)
Delivered(f, i, d, in) == EbDeqFire(i, d, in) /\ f = Head(st[i].eb[d].oq)
PlaceStep(f, i, d, in) ==
  /\ At(f, "injq", i, d)'
       <=> /\ d = 0
           /\ \/ At(f, "injq", i, d) /\ \A e \in Dirs : ~Boards(f, i, e)
              \/ InjEnq(i, in) = <<f>>
  /\ At(f, "lane", i, d)' <=> Boards(f, i, d) \/ (At(f, "lane", Up(i, d), d) /\ ~EjectFire(i, d))
  /\ At(f, "ipipe", i, d)' <=> \/ At(f, "lane", Up(i, d), d) /\ EjectFire(i, d)
                               \/ At(f, "ipipe", i, d) /\ ~OqEnqRdy(i, d)
  /\ At(f, "oq", i, d)' <=> \/ At(f, "ipipe", i, d) /\ OqEnqRdy(i, d)
                            \/ At(f, "oq", i, d) /\ ~Delivered(f, i, d, in)
  /\ Boards(f, i, d) => At(f, "injq", i, 0) /\ \A e \in Dirs : Boards(f, i, e) => e = d
  /\ Delivered(f, i, d, in) => At(f, "oq", i, d)
  /\ At(f, "lane", Up(i, d), d) /\ EjectFire(i, d) => Tgt[f] = i

LEMMA Steps ==
  ASSUME RingIInv, NEW in, RingEdge(in), NEW f \in Flit, NEW i \in Stops, NEW d \in Dirs
  PROVE  PlaceStep(f, i, d, in)
<1>1. RingTypes
  BY DEF RingIInv
<1>2. /\ \A j \in Stops, e \in Dirs : At(f, "injq", j, e) <=> e = 0 /\ f \in Range(st[j].injq)
      /\ \A j \in Stops, e \in Dirs : At(f, "lane", j, e) <=> st[j].dir[e].slot.flit = <<f>>
      /\ \A j \in Stops, e \in Dirs : At(f, "ipipe", j, e) <=> st[j].eb[e].ipipe = <<f>>
      /\ \A j \in Stops, e \in Dirs : At(f, "oq", j, e) <=> f \in Range(st[j].eb[e].oq)
  BY DEF At
<1>3. /\ At(f, "injq", i, d)' <=> d = 0 /\ f \in Range(st'[i].injq)
      /\ At(f, "lane", i, d)' <=> st'[i].dir[d].slot.flit = <<f>>
      /\ At(f, "ipipe", i, d)' <=> st'[i].eb[d].ipipe = <<f>>
      /\ At(f, "oq", i, d)' <=> f \in Range(st'[i].eb[d].oq)
  BY DEF At
<1>4. Up(i, d) \in Stops
  BY UpIs
<1>5. f \in Range(st'[i].injq)
        <=> ((f \in Range(st[i].injq) /\ ~(\E e \in Dirs : InjFire(i, e) /\ f = Head(st[i].injq)))
             \/ InjEnq(i, in) = <<f>>)
  BY InInjq
<1>6. /\ st'[i].dir[d].slot.flit = <<f>>
           <=> (Boards(f, i, d) \/ (st[Up(i, d)].dir[d].slot.flit = <<f>> /\ ~EjectFire(i, d)))
      /\ st'[i].eb[d].ipipe = <<f>>
           <=> ((st[Up(i, d)].dir[d].slot.flit = <<f>> /\ EjectFire(i, d))
                \/ (st[i].eb[d].ipipe = <<f>> /\ ~OqEnqRdy(i, d)))
      /\ EjectFire(i, d) /\ st[Up(i, d)].dir[d].slot.flit = <<f>> => Tgt[f] = i
  BY InLaneNext DEF Boards
<1>7. f \in Range(st'[i].eb[d].oq)
        <=> ((OqEnqRdy(i, d) /\ st[i].eb[d].ipipe = <<f>>)
             \/ (f \in Range(st[i].eb[d].oq) /\ ~Delivered(f, i, d, in)))
  BY InOq DEF Delivered
<1>8. Boards(f, i, d) => f \in Range(st[i].injq) /\ \A e \in Dirs : Boards(f, i, e) => e = d
  BY <1>1, InjIs DEF Boards
<1>9. Delivered(f, i, d, in) => f \in Range(st[i].eb[d].oq)
  BY SentNext DEF Delivered
<1>10. At(f, "injq", i, 0) <=> f \in Range(st[i].injq)
  BY <1>2 DEF Dirs
<1>11. (\E e \in Dirs : InjFire(i, e) /\ f = Head(st[i].injq)) <=> ~(\A e \in Dirs : ~Boards(f, i, e))
  BY DEF Boards
<1>12. At(f, "injq", i, d)'
         <=> (d = 0 /\ ((At(f, "injq", i, d) /\ \A e \in Dirs : ~Boards(f, i, e)) \/ InjEnq(i, in) = <<f>>))
  <2> DEFINE none == \A e \in Dirs : ~Boards(f, i, e)
  <2>1. f \in Range(st'[i].injq) <=> ((f \in Range(st[i].injq) /\ none) \/ InjEnq(i, in) = <<f>>)
    BY <1>5, <1>11
  <2>2. At(f, "injq", i, d) <=> d = 0 /\ f \in Range(st[i].injq)
    BY <1>2
  <2>3. At(f, "injq", i, d)' <=> d = 0 /\ f \in Range(st'[i].injq)
    BY <1>3
  <2> HIDE DEF none
  <2>4. At(f, "injq", i, d)' <=> (d = 0 /\ ((At(f, "injq", i, d) /\ none) \/ InjEnq(i, in) = <<f>>))
    BY <2>1, <2>2, <2>3
  <2> QED BY <2>4 DEF none
<1>13. /\ At(f, "lane", Up(i, d), d) <=> st[Up(i, d)].dir[d].slot.flit = <<f>>
       /\ At(f, "ipipe", i, d) <=> st[i].eb[d].ipipe = <<f>>
       /\ At(f, "oq", i, d) <=> f \in Range(st[i].eb[d].oq)
  BY <1>2, <1>4
<1>14. At(f, "lane", i, d)' <=> (Boards(f, i, d) \/ (At(f, "lane", Up(i, d), d) /\ ~EjectFire(i, d)))
  BY <1>3, <1>6, <1>13
<1>15. At(f, "ipipe", i, d)' <=> ((At(f, "lane", Up(i, d), d) /\ EjectFire(i, d))
                                  \/ (At(f, "ipipe", i, d) /\ ~OqEnqRdy(i, d)))
  BY <1>3, <1>6, <1>13
<1>16. At(f, "oq", i, d)' <=> ((At(f, "ipipe", i, d) /\ OqEnqRdy(i, d))
                               \/ (At(f, "oq", i, d) /\ ~Delivered(f, i, d, in)))
  BY <1>3, <1>7, <1>13
<1>17. Boards(f, i, d) => At(f, "injq", i, 0) /\ \A e \in Dirs : Boards(f, i, e) => e = d
  BY <1>8, <1>10
<1>18. /\ Delivered(f, i, d, in) => At(f, "oq", i, d)
       /\ At(f, "lane", Up(i, d), d) /\ EjectFire(i, d) => Tgt[f] = i
  BY <1>6, <1>9, <1>13
<1> QED BY <1>12, <1>14, <1>15, <1>16, <1>17, <1>18 DEF PlaceStep

\* A flit that is at one place is at one place after the edge, or handed over.
LEMMA SpreadStep ==
  ASSUME RingIInv, NEW in, RingEdge(in), NEW f \in Flit
  PROVE  Placed(f)'
<1> USE DEF Kinds
<1>1. \A i \in Stops, d \in Dirs : PlaceStep(f, i, d, in)
  BY Steps
<1>2. /\ f \in sent' <=> /\ f \in sent \/ InjEnq(Src[f], in) = <<f>>
                         /\ \A i \in Stops, d \in Dirs : ~Delivered(f, i, d, in)
      /\ \A i \in Stops : InjEnq(i, in) = <<f>> => i = Src[f] /\ f \notin sent
  BY SentNext DEF Delivered
<1>3. Placed(f)
  BY SpreadIs DEF RingIInv, Spread
<1>4. Src[f] \in Stops /\ 0 \in Dirs
  BY RingAssumption DEF Dirs
<1>5. SUFFICES IF f \in sent' THEN \E k \in Kinds, i \in Stops, d \in Dirs : OnlyAt(f, k, i, d)' ELSE Nowhere(f)'
  BY DEF Placed
<1>6. CASE f \notin sent
  <2>1. \A k \in Kinds, i \in Stops, d \in Dirs : ~At(f, k, i, d)
    BY <1>3, <1>6 DEF Placed, Nowhere
  <2>2. ASSUME NEW i \in Stops, NEW d \in Dirs
        PROVE  /\ At(f, "injq", i, d)' <=> d = 0 /\ InjEnq(i, in) = <<f>>
               /\ ~At(f, "lane", i, d)' /\ ~At(f, "ipipe", i, d)' /\ ~At(f, "oq", i, d)'
               /\ ~Delivered(f, i, d, in)
    <3>1. Up(i, d) \in Stops
      BY UpIs
    <3> QED BY <1>1, <1>4, <2>1, <3>1 DEF PlaceStep
  <2>3. CASE InjEnq(Src[f], in) = <<f>>
    <3>1. f \in sent'
      BY <1>2, <2>2, <2>3
    <3>2. OnlyAt(f, "injq", Src[f], 0)'
      <4> SUFFICES /\ At(f, "injq", Src[f], 0)'
                   /\ \A l \in Kinds, j \in Stops, e \in Dirs : At(f, l, j, e)' => l = "injq" /\ j = Src[f] /\ e = 0
        BY DEF OnlyAt
      <4> QED BY <1>2, <1>4, <2>2, <2>3
    <3> QED BY <1>4, <3>1, <3>2
  <2>4. CASE InjEnq(Src[f], in) # <<f>>
    <3>1. f \notin sent'
      BY <1>2, <1>6, <2>4
    <3>2. \A i \in Stops : InjEnq(i, in) # <<f>>
      BY <1>2, <2>4
    <3>3. Nowhere(f)'
      <4> SUFFICES \A k \in Kinds, i \in Stops, d \in Dirs : ~At(f, k, i, d)'
        BY DEF Nowhere
      <4> QED BY <2>2, <3>2
    <3> QED BY <3>1, <3>3
  <2> QED BY <2>3, <2>4
<1>7. CASE f \in sent
  <2>1. PICK K \in Kinds, I \in Stops, D \in Dirs : OnlyAt(f, K, I, D)
    BY <1>3, <1>7 DEF Placed
  <2>2. \A l \in Kinds, j \in Stops, e \in Dirs : At(f, l, j, e) <=> l = K /\ j = I /\ e = D
    BY <2>1 DEF OnlyAt
  <2>3. \A i \in Stops : InjEnq(i, in) # <<f>>
    BY <1>2, <1>7
  <2>4. ASSUME NEW i \in Stops, NEW d \in Dirs
        PROVE  /\ At(f, "injq", i, d)' <=> /\ K = "injq" /\ i = I /\ d = D /\ d = 0
                                           /\ \A e \in Dirs : ~Boards(f, i, e)
               /\ At(f, "lane", i, d)'
                    <=> \/ Boards(f, i, d)
                        \/ K = "lane" /\ Up(i, d) = I /\ d = D /\ ~EjectFire(i, d)
               /\ At(f, "ipipe", i, d)' <=> \/ K = "lane" /\ Up(i, d) = I /\ d = D /\ EjectFire(i, d)
                                            \/ K = "ipipe" /\ i = I /\ d = D /\ ~OqEnqRdy(i, d)
               /\ At(f, "oq", i, d)' <=> \/ K = "ipipe" /\ i = I /\ d = D /\ OqEnqRdy(i, d)
                                         \/ K = "oq" /\ i = I /\ d = D /\ ~Delivered(f, i, d, in)
               /\ Boards(f, i, d) => K = "injq" /\ i = I /\ D = 0
               /\ Delivered(f, i, d, in) => K = "oq" /\ i = I /\ d = D
    <3>1. Up(i, d) \in Stops
      BY UpIs
    <3>2. PlaceStep(f, i, d, in)
      BY <1>1
    <3>3. /\ At(f, "injq", i, d) <=> K = "injq" /\ i = I /\ d = D
          /\ At(f, "lane", Up(i, d), d) <=> K = "lane" /\ Up(i, d) = I /\ d = D
          /\ At(f, "ipipe", i, d) <=> K = "ipipe" /\ i = I /\ d = D
          /\ At(f, "oq", i, d) <=> K = "oq" /\ i = I /\ d = D
          /\ At(f, "injq", i, 0) <=> K = "injq" /\ i = I /\ 0 = D
      BY <1>4, <2>2, <3>1
    <3>4. /\ At(f, "injq", i, d)'
               <=> (d = 0 /\ ((At(f, "injq", i, d) /\ \A e \in Dirs : ~Boards(f, i, e)) \/ InjEnq(i, in) = <<f>>))
          /\ At(f, "lane", i, d)' <=> (Boards(f, i, d) \/ (At(f, "lane", Up(i, d), d) /\ ~EjectFire(i, d)))
          /\ At(f, "ipipe", i, d)' <=> ((At(f, "lane", Up(i, d), d) /\ EjectFire(i, d))
                                       \/ (At(f, "ipipe", i, d) /\ ~OqEnqRdy(i, d)))
          /\ At(f, "oq", i, d)' <=> ((At(f, "ipipe", i, d) /\ OqEnqRdy(i, d))
                                    \/ (At(f, "oq", i, d) /\ ~Delivered(f, i, d, in)))
          /\ Boards(f, i, d) => At(f, "injq", i, 0)
          /\ Delivered(f, i, d, in) => At(f, "oq", i, d)
      BY <3>2 DEF PlaceStep
    <3> DEFINE none == \A e \in Dirs : ~Boards(f, i, e)
    <3>5. At(f, "injq", i, d)' <=> (d = 0 /\ At(f, "injq", i, d) /\ none)
      BY <2>3, <3>4
    <3> HIDE DEF none
    <3>6. At(f, "injq", i, d)' <=> (K = "injq" /\ i = I /\ d = D /\ d = 0 /\ none)
      BY <3>3, <3>5
    <3>7. /\ At(f, "lane", i, d)' <=> (Boards(f, i, d) \/ (K = "lane" /\ Up(i, d) = I /\ d = D /\ ~EjectFire(i, d)))
          /\ At(f, "ipipe", i, d)' <=> ((K = "lane" /\ Up(i, d) = I /\ d = D /\ EjectFire(i, d))
                                       \/ (K = "ipipe" /\ i = I /\ d = D /\ ~OqEnqRdy(i, d)))
      BY <3>3, <3>4
    <3>8. /\ At(f, "oq", i, d)' <=> ((K = "ipipe" /\ i = I /\ d = D /\ OqEnqRdy(i, d))
                                    \/ (K = "oq" /\ i = I /\ d = D /\ ~Delivered(f, i, d, in)))
          /\ Boards(f, i, d) => K = "injq" /\ i = I /\ D = 0
          /\ Delivered(f, i, d, in) => K = "oq" /\ i = I /\ d = D
      BY <3>3, <3>4
    <3> QED BY <3>6, <3>7, <3>8 DEF none
  <2>5. SUFFICES ASSUME ~(K = "oq" /\ Delivered(f, I, D, in))
                 PROVE  f \in sent' /\ \E k \in Kinds, i \in Stops, d \in Dirs : OnlyAt(f, k, i, d)'
    <3>1. ASSUME K = "oq", Delivered(f, I, D, in) PROVE f \notin sent' /\ Nowhere(f)'
      <4>1. f \notin sent'
        BY <1>2, <3>1
      <4>2. Nowhere(f)'
        <5> SUFFICES \A k \in Kinds, i \in Stops, d \in Dirs : ~At(f, k, i, d)'
          BY DEF Nowhere
        <5> QED BY <2>4, <3>1
      <4> QED BY <4>1, <4>2
    <3> QED BY <3>1
  <2>6. f \in sent'
    BY <1>2, <1>7, <2>4, <2>5
  <2>7. ASSUME NEW k \in Kinds, NEW i \in Stops, NEW d \in Dirs, At(f, k, i, d)',
               \A l \in Kinds, j \in Stops, e \in Dirs : At(f, l, j, e)' => l = k /\ j = i /\ e = d
        PROVE  \E k1 \in Kinds, i1 \in Stops, d1 \in Dirs : OnlyAt(f, k1, i1, d1)'
    <3>1. OnlyAt(f, k, i, d)'
      BY <2>7 DEF OnlyAt
    <3> QED BY <3>1
  <2>8. CASE K = "injq"
    <3>1. D = 0
      BY <2>1, <2>8 DEF OnlyAt, At
    <3>2. CASE \A e \in Dirs : ~Boards(f, I, e)
      <4>1. /\ At(f, "injq", I, 0)'
            /\ \A l \in Kinds, j \in Stops, e \in Dirs : At(f, l, j, e)' => l = "injq" /\ j = I /\ e = 0
        BY <1>4, <2>4, <2>8, <3>1, <3>2
      <4> QED BY <1>4, <2>6, <2>7, <4>1
    <3>3. ASSUME NEW d \in Dirs, Boards(f, I, d)
          PROVE  \E k1 \in Kinds, i1 \in Stops, d1 \in Dirs : OnlyAt(f, k1, i1, d1)'
      <4>1. \A e \in Dirs : Boards(f, I, e) => e = d
        BY <1>1, <3>3 DEF PlaceStep
      <4>2. At(f, "lane", I, d)'
        BY <2>4, <3>3
      <4>3. ASSUME NEW j \in Stops, NEW e \in Dirs
            PROVE  /\ ~At(f, "injq", j, e)'
                   /\ At(f, "lane", j, e)' => j = I /\ e = d
                   /\ ~At(f, "ipipe", j, e)'
                   /\ ~At(f, "oq", j, e)'
        BY <2>4, <2>8, <3>3, <4>1
      <4>4. \A l \in Kinds, j \in Stops, e \in Dirs : At(f, l, j, e)' => l = "lane" /\ j = I /\ e = d
        BY <4>3
      <4> QED BY <2>7, <4>2, <4>4
    <3> QED BY <2>6, <3>2, <3>3
  <2>9. CASE K = "lane"
    <3>1. PICK J \in Stops : Up(J, D) = I
      BY UpIs
    <3>2. \A j \in Stops : Up(j, D) = I => j = J
      BY <3>1, UpIs
    <3>3. CASE EjectFire(J, D)
      <4>1. At(f, "ipipe", J, D)'
        BY <2>4, <2>9, <3>1, <3>2, <3>3
      <4>2. ASSUME NEW j \in Stops, NEW e \in Dirs
            PROVE  /\ ~At(f, "injq", j, e)'
                   /\ ~At(f, "lane", j, e)'
                   /\ At(f, "ipipe", j, e)' => j = J /\ e = D
                   /\ ~At(f, "oq", j, e)'
        BY <2>4, <2>9, <3>1, <3>2, <3>3
      <4>3. \A l \in Kinds, j \in Stops, e \in Dirs : At(f, l, j, e)' => l = "ipipe" /\ j = J /\ e = D
        BY <4>2
      <4> QED BY <2>6, <2>7, <4>1, <4>3
    <3>4. CASE ~EjectFire(J, D)
      <4>1. At(f, "lane", J, D)'
        BY <2>4, <2>9, <3>1, <3>2, <3>4
      <4>2. ASSUME NEW j \in Stops, NEW e \in Dirs
            PROVE  /\ ~At(f, "injq", j, e)'
                   /\ At(f, "lane", j, e)' => j = J /\ e = D
                   /\ ~At(f, "ipipe", j, e)'
                   /\ ~At(f, "oq", j, e)'
        BY <2>4, <2>9, <3>1, <3>2, <3>4
      <4>3. \A l \in Kinds, j \in Stops, e \in Dirs : At(f, l, j, e)' => l = "lane" /\ j = J /\ e = D
        BY <4>2
      <4> QED BY <2>6, <2>7, <4>1, <4>3
    <3> QED BY <3>3, <3>4
  <2>10. CASE K = "ipipe"
    <3>1. CASE OqEnqRdy(I, D)
      <4>1. /\ At(f, "oq", I, D)'
            /\ \A l \in Kinds, j \in Stops, e \in Dirs : At(f, l, j, e)' => l = "oq" /\ j = I /\ e = D
        BY <2>4, <2>10, <3>1
      <4> QED BY <2>6, <2>7, <4>1
    <3>2. CASE ~OqEnqRdy(I, D)
      <4>1. /\ At(f, "ipipe", I, D)'
            /\ \A l \in Kinds, j \in Stops, e \in Dirs : At(f, l, j, e)' => l = "ipipe" /\ j = I /\ e = D
        BY <2>4, <2>10, <3>2
      <4> QED BY <2>6, <2>7, <4>1
    <3> QED BY <3>1, <3>2
  <2>11. CASE K = "oq"
    <3>1. /\ At(f, "oq", I, D)'
          /\ \A l \in Kinds, j \in Stops, e \in Dirs : At(f, l, j, e)' => l = "oq" /\ j = I /\ e = D
      BY <2>4, <2>5, <2>11
    <3> QED BY <2>6, <2>7, <3>1
  <2> QED BY <2>8, <2>9, <2>10, <2>11
<1> QED BY <1>6, <1>7

-----------------------------------------------------------------------------
(* The marks.                                                              *)

LEMMA MarksStep ==
  ASSUME RingIInv, NEW in, RingEdge(in), NEW i \in Stops, NEW d \in Dirs
  PROVE  MarkOf(i, d)'
<1> DEFINE S == st[i].dir[d].state
<1>1. RingTypes /\ Rooms /\ RingTick(in) /\ MarkOf(i, d)
  BY DEF RingIInv, RingEdge, Marks
<1>2. \A x : <<x>> # <<>>
  OBVIOUS
<1>3. \A x, y : <<x>> = <<y>> <=> x = y
  OBVIOUS
<1>4. ASSUME NEW k \in Stops
      PROVE  /\ Marked(i, d, k)' <=> /\ ~InjFire(k, d)
                                     /\ \/ Rx(k, d).rsvd = <<i>>
                                        \/ Rx(k, d).rsvd = <<>> /\ S = "reserve" /\ k = i
             /\ Rx(k, d).rsvd = <<i>> <=> Marked(i, d, Up(k, d))
             /\ InjFire(k, d) => IF Rx(k, d).rsvd # <<>> THEN Rx(k, d).rsvd = <<k>>
                                 ELSE st[k].dir[d].state # "wait"
  <2>1. st'[k].dir[d].slot.rsvd = (IF InjFire(k, d) THEN <<>>
                                   ELSE IF Rx(k, d).rsvd # <<>> THEN Rx(k, d).rsvd
                                   ELSE IF st[k].dir[d].state = "reserve" THEN <<k>> ELSE <<>>)
    BY <1>1, StopMoves
  <2>2. InjFire(k, d) => Avail(k, d)
    BY <1>1, InjIs
  <2>3. Rx(k, d) = st[Up(k, d)].dir[d].slot
    BY UpIs
  <2>4. Marked(i, d, k)' <=> st'[k].dir[d].slot.rsvd = <<i>>
    BY DEF Marked
  <2>5. Marked(i, d, k)' <=> (~InjFire(k, d) /\ (Rx(k, d).rsvd = <<i>>
                              \/ (Rx(k, d).rsvd = <<>> /\ S = "reserve" /\ k = i)))
    BY <1>2, <1>3, <2>1, <2>4
  <2>6. InjFire(k, d) => IF Rx(k, d).rsvd # <<>> THEN Rx(k, d).rsvd = <<k>> ELSE st[k].dir[d].state # "wait"
    BY <2>2 DEF Avail
  <2>7. Rx(k, d).rsvd = <<i>> <=> Marked(i, d, Up(k, d))
    BY <2>3 DEF Marked
  <2> QED BY <2>5, <2>6, <2>7
<1>5. st'[i].dir[d].state = NextState(i, d, InjFire(i, d)) /\ S \in {"normal", "reserve", "wait"}
  BY <1>1, StopMoves, StopIs
<1>6. \A k \in Stops : Up(k, d) \in Stops
  BY UpIs
<1>7. /\ S = "wait" <=> \E j \in Stops : Marked(i, d, j)
      /\ \A j, k \in Stops : Marked(i, d, j) /\ Marked(i, d, k) => j = k
  BY <1>1 DEF MarkOf
<1>8. SUFFICES /\ st'[i].dir[d].state = "wait" <=> \E j \in Stops : Marked(i, d, j)'
               /\ \A j, k \in Stops : Marked(i, d, j)' /\ Marked(i, d, k)' => j = k
  BY DEF MarkOf
<1>9. CASE S = "normal"
  <2>1. st'[i].dir[d].state # "wait"
    BY <1>5, <1>9 DEF NextState
  <2>2. \A k \in Stops : ~Marked(i, d, k)'
    BY <1>4, <1>6, <1>7, <1>9
  <2> QED BY <2>1, <2>2
<1>10. CASE S = "reserve"
  <2>1. st'[i].dir[d].state = "wait" <=> ~InjFire(i, d) /\ Rx(i, d).rsvd = <<>>
    BY <1>5, <1>10 DEF NextState
  <2>2. \A k \in Stops : Marked(i, d, k)' <=> k = i /\ ~InjFire(i, d) /\ Rx(i, d).rsvd = <<>>
    BY <1>4, <1>6, <1>7, <1>10
  <2> QED BY <2>1, <2>2
<1>11. CASE S = "wait"
  <2>1. PICK J \in Stops : Marked(i, d, J)
    BY <1>7, <1>11
  <2>2. PICK K \in Stops : Up(K, d) = J
    BY UpIs
  <2>3. \A k \in Stops : Up(k, d) = J => k = K
    BY <2>2, UpIs
  <2>4. \A k \in Stops : Rx(k, d).rsvd = <<i>> <=> k = K
    BY <1>4, <1>6, <1>7, <2>1, <2>2, <2>3
  <2>5. \A k \in Stops : Marked(i, d, k)' <=> k = K /\ ~InjFire(K, d)
    BY <1>4, <1>11, <2>4
  <2>6. K # i => ~InjFire(K, d)
    BY <1>2, <1>3, <1>4, <2>4
  <2>7. K # i => ~InjFire(i, d)
    BY <1>4, <1>11, <2>4
  <2>8. st'[i].dir[d].state = "wait" <=> ~InjFire(i, d)
    BY <1>5, <1>11 DEF NextState
  <2> QED BY <2>5, <2>6, <2>7, <2>8
<1> QED BY <1>5, <1>9, <1>10, <1>11

-----------------------------------------------------------------------------
(* The table of refused transactions.                                      *)

\* What an entry is after an edge: it was there and is not released, or it is
\* the refused one, new, in the first free place.
Kept(v, upd, k, w) ==
  w.tab[k] = v.tab[k] /\ (upd # <<>> /\ upd[1].rel => v.tab[k] # <<upd[1].tag>>)
Entered(v, upd, k, w) ==
  /\ upd # <<>> /\ ~upd[1].rel /\ w.tab[k] = <<upd[1].tag>>
  /\ v.tab[k] = <<>> /\ \A j \in Stops : v.tab[j] # <<upd[1].tag>>
  /\ \A j \in 0 .. k - 1 : v.tab[j] # <<>>
VipMove(v, upd, w) ==
  /\ w \in VipRec
  /\ \A k \in Stops : w.tab[k] # <<>> => Kept(v, upd, k, w) \/ Entered(v, upd, k, w)

LEMMA VipMoves ==
  ASSUME NEW v \in VipRec, NEW upd \in Opt(UpdRec)
  PROVE  VipMove(v, upd, VipAfter(v, upd))
<1> DEFINE w == VipAfter(v, upd)
           u == upd[1]
<1>1. v.tab \in [Stops -> Opt(Tags)] /\ v.ptr \in Stops
  BY DEF VipRec
<1>2. upd # <<>> => u \in UpdRec
  <2>1. \A x : <<x>>[1] = x
    OBVIOUS
  <2> QED BY <2>1 DEF Opt
<1>3. upd # <<>> => u.rel \in BOOLEAN /\ u.tag \in Tags
  BY <1>2 DEF UpdRec
<1>4. VipPtr(v) \in Stops
  <2>1. CASE VipDangling(v)
    <3> DEFINE D == {(k - v.ptr) % N : k \in VipUsed(v)}
    <3>1. VipUsed(v) \subseteq Stops /\ VipUsed(v) # {}
      BY <2>1 DEF VipDangling, VipUsed
    <3>2. D \in SUBSET Nat /\ D # {}
      <4>1. ASSUME NEW k \in Stops PROVE (k - v.ptr) % N \in Nat
        BY <1>1, RingAssumption DEF Stops
      <4> QED BY <3>1, <4>1
    <3>3. Min(D) \in D /\ \A y \in D : Min(D) <= y
      BY <3>2, MinIsLeast
    <3>4. \E k \in VipUsed(v) : \A j \in VipUsed(v) : (k - v.ptr) % N <= (j - v.ptr) % N
      BY <3>3
    <3>5. VipPtr(v) \in VipUsed(v)
      BY <2>1, <3>4 DEF VipPtr
    <3> QED BY <3>1, <3>5
  <2>2. CASE ~VipDangling(v)
    BY <1>1, <2>2 DEF VipPtr
  <2> QED BY <2>1, <2>2
<1>5. w.tab = (IF upd = <<>> THEN v.tab ELSE VipTab(v, u)) /\ w = [tab |-> w.tab, ptr |-> VipPtr(v)]
  BY DEF VipAfter
<1> HIDE DEF w, u
<1>6. CASE upd = <<>>
  <2>1. w \in VipRec
    BY <1>1, <1>4, <1>5, <1>6 DEF VipRec
  <2> QED BY <1>5, <1>6, <2>1 DEF VipMove, Kept, w
<1>7. CASE upd # <<>>
  <2> DEFINE enters(k) == VipEnters(v, u) /\ v.tab[k] = <<>> /\ \A j \in 0 .. k - 1 : v.tab[j] # <<>>
  <2>1. ASSUME NEW k \in Stops
        PROVE  w.tab[k] = IF enters(k) THEN <<u.tag>> ELSE IF u.rel /\ v.tab[k] = <<u.tag>> THEN <<>> ELSE v.tab[k]
    BY <1>5, <1>7 DEF VipTab
  <2>2. w.tab \in [Stops -> Opt(Tags)]
    <3>1. ASSUME NEW k \in Stops PROVE VipTab(v, u)[k] \in Opt(Tags)
      <4>1. <<u.tag>> \in Opt(Tags) /\ <<>> \in Opt(Tags) /\ v.tab[k] \in Opt(Tags)
        BY <1>1, <1>3, <1>7 DEF Opt
      <4>2. VipTab(v, u)[k] = w.tab[k]
        BY <1>5, <1>7
      <4> QED BY <2>1, <4>1, <4>2
    <3>2. VipTab(v, u) = [k \in Stops |-> VipTab(v, u)[k]]
      BY DEF VipTab
    <3> QED BY <1>5, <1>7, <3>1, <3>2
  <2>3. w \in VipRec
    BY <1>4, <1>5, <2>2 DEF VipRec
  <2>4. ASSUME NEW k \in Stops, w.tab[k] # <<>> PROVE Kept(v, upd, k, w) \/ Entered(v, upd, k, w)
    <3>1. CASE enters(k)
      <4>1. /\ ~u.rel /\ v.tab[k] = <<>> /\ \A j \in 0 .. k - 1 : v.tab[j] # <<>>
            /\ \A j \in Stops : v.tab[j] # <<u.tag>>
        BY <3>1 DEF VipEnters
      <4>2. w.tab[k] = <<u.tag>>
        BY <2>1, <3>1
      <4> QED BY <1>7, <4>1, <4>2 DEF Entered, u
    <3>2. CASE ~enters(k)
      <4>1. w.tab[k] = v.tab[k] /\ ~(u.rel /\ v.tab[k] = <<u.tag>>)
        BY <2>1, <2>4, <3>2
      <4> QED BY <4>1 DEF Kept, u
    <3> QED BY <3>1, <3>2
  <2> QED BY <2>3, <2>4 DEF VipMove, w
<1> QED BY <1>6, <1>7

\* What comes round comes round again or leaves.
LEMMA RoundStep ==
  ASSUME RingIInv, NEW in, RingEdge(in), NEW i \in Stops, NEW d \in Dirs, NEW t, Rounding(i, d, t)
  PROVE  Rounding(i, d, t)' \/ Leaving(st[i].eb[d], t)'
<1>1. RingTypes /\ Rooms /\ RingTick(in)
  BY DEF RingIInv, RingEdge
<1>2. PICK j \in Stops, f \in Flit : InLane(j, d, f) /\ Tgt[f] = i /\ Tag[f] = t
  BY DEF Rounding
<1>3. PICK k \in Stops : Up(k, d) = j
  BY UpIs
<1>4. st[Up(k, d)].dir[d].slot.flit = <<f>>
  BY <1>2, <1>3 DEF InLane
<1>5. CASE EjectFire(k, d)
  <2>1. k = i
    BY <1>2, <1>4, <1>5, InLaneNext
  <2>2. EjectVld(i, d) /\ EbEnqRdy(i, d) = TRUE
    <3>1. EjectVld(i, d) /\ EbEnqRdy(i, d)
      BY <1>5, <2>1 DEF EjectFire
    <3>2. EbEnqRdy(i, d) \in BOOLEAN
      BY DEF EbEnqRdy
    <3> QED BY <3>1, <3>2
  <2>3. st'[i].eb[d].upd = (IF EjectVld(i, d)
                            THEN <<[rel |-> EbEnqRdy(i, d), tag |-> Tag[Rx(i, d).flit[1]]]>> ELSE <<>>)
    BY <1>1, StopMoves
  <2>4. Rx(i, d).flit = <<f>> /\ <<f>>[1] = f
    BY <1>4, <2>1, UpIs
  <2>5. st'[i].eb[d].upd = <<[rel |-> TRUE, tag |-> t]>>
    BY <1>2, <2>2, <2>3, <2>4
  <2> QED BY <2>5 DEF Leaving
<1>6. CASE ~EjectFire(k, d)
  <2>1. st'[k].dir[d].slot.flit = <<f>>
    BY <1>4, <1>6, InLaneNext
  <2>2. InLane(k, d, f)'
    BY <2>1 DEF InLane
  <2>3. Rounding(i, d, t)'
    BY <1>2, <2>2 DEF Rounding
  <2> QED BY <2>3
<1> QED BY <1>5, <1>6

LEMMA VipsStep ==
  ASSUME RingIInv, NEW in, RingEdge(in), NEW i \in Stops, NEW d \in Dirs
  PROVE  VipOf(i, d)' /\ st'[i].eb[d].vip \in VipRec /\ st'[i].eb[d].upd \in Opt(UpdRec)
<1> DEFINE v == st[i].eb[d].vip
           w == st'[i].eb[d].vip
           upd == st[i].eb[d].upd
<1>1. RingTypes /\ Rooms /\ RingTick(in) /\ VipOf(i, d)
  BY DEF RingIInv, RingEdge, Vips
<1>2. v \in VipRec /\ upd \in Opt(UpdRec) /\ Rx(i, d).flit \in Opt(Flit)
  BY <1>1, StopIs
<1>3. VipMove(v, upd, w)
  <2>1. w = VipAfter(v, upd)
    BY <1>1, StopMoves
  <2> HIDE DEF v, w, upd
  <2> QED BY <1>2, <2>1, VipMoves
<1>4. st'[i].eb[d].upd = (IF EjectVld(i, d)
                          THEN <<[rel |-> EbEnqRdy(i, d), tag |-> Tag[Rx(i, d).flit[1]]]>> ELSE <<>>)
  BY <1>1, StopMoves
<1>5. EjectVld(i, d) => \E f \in Flit : Rx(i, d).flit = <<f>> /\ Tgt[f] = i /\ <<f>>[1] = f
  <2>1. EjectVld(i, d) => Rx(i, d).flit # <<>> /\ Tgt[Rx(i, d).flit[1]] = i
    BY DEF EjectVld
  <2>2. \A f : <<f>>[1] = f
    OBVIOUS
  <2>3. Rx(i, d).flit # <<>> => \E f \in Flit : Rx(i, d).flit = <<f>>
    BY <1>2 DEF Opt
  <2> QED BY <2>1, <2>2, <2>3
<1>6. st'[i].eb[d].upd \in Opt(UpdRec)
  <2>1. <<>> \in Opt(UpdRec)
    BY DEF Opt
  <2>2. ASSUME NEW f \in Flit, Rx(i, d).flit = <<f>>, <<f>>[1] = f, EjectVld(i, d)
        PROVE  st'[i].eb[d].upd \in Opt(UpdRec)
    <3>1. Tag[f] \in Tags /\ EbEnqRdy(i, d) \in BOOLEAN
      BY DEF Tags, EbEnqRdy
    <3>2. [rel |-> EbEnqRdy(i, d), tag |-> Tag[f]] \in UpdRec
      BY <3>1 DEF UpdRec
    <3>3. st'[i].eb[d].upd = <<[rel |-> EbEnqRdy(i, d), tag |-> Tag[f]]>>
      BY <1>4, <2>2
    <3> QED BY <3>2, <3>3 DEF Opt
  <2> QED BY <1>4, <1>5, <2>1, <2>2
<1>7. /\ \A k \in Stops : v.tab[k] # <<>> => Rounding(i, d, v.tab[k][1]) \/ Leaving(st[i].eb[d], v.tab[k][1])
      /\ \A j, k \in Stops : v.tab[j] # <<>> /\ v.tab[j] = v.tab[k] => j = k
      /\ upd # <<>> /\ ~upd[1].rel => Rounding(i, d, upd[1].tag)
  BY <1>1 DEF VipOf
<1>8. v.tab \in [Stops -> Opt(Tags)]
  BY <1>2 DEF VipRec
<1>9. ASSUME NEW k \in Stops, w.tab[k] # <<>>, NEW t, t = w.tab[k][1]
      PROVE  Rounding(i, d, t)' \/ Leaving(st[i].eb[d], t)'
  <2>1. Rounding(i, d, w.tab[k][1])
    <3>1. CASE Kept(v, upd, k, w)
      <4>1. v.tab[k] # <<>> /\ w.tab[k] = v.tab[k] /\ (upd # <<>> /\ upd[1].rel => v.tab[k] # <<upd[1].tag>>)
        BY <1>9, <3>1 DEF Kept
      <4>2. v.tab[k] = <<v.tab[k][1]>>
        <5>1. PICK x \in Tags : v.tab[k] = <<x>>
          BY <1>8, <4>1 DEF Opt
        <5> QED BY <5>1
      <4>3. ~Leaving(st[i].eb[d], v.tab[k][1])
        <5>1. ASSUME upd = <<[rel |-> TRUE, tag |-> v.tab[k][1]]>> PROVE FALSE
          <6>1. upd # <<>> /\ upd[1].rel /\ upd[1].tag = v.tab[k][1]
            BY <5>1
          <6> QED BY <4>1, <4>2, <6>1
        <5> QED BY <5>1 DEF Leaving
      <4> QED BY <1>7, <4>1, <4>3
    <3>2. CASE Entered(v, upd, k, w)
      <4>1. upd # <<>> /\ ~upd[1].rel /\ w.tab[k] = <<upd[1].tag>>
        BY <3>2 DEF Entered
      <4>2. w.tab[k][1] = upd[1].tag
        BY <4>1
      <4> QED BY <1>7, <4>1, <4>2
    <3> QED BY <1>3, <1>9, <3>1, <3>2 DEF VipMove
  <2>2. Rounding(i, d, t)
    BY <1>9, <2>1
  <2> QED BY <2>2, RoundStep
<1>10. ASSUME NEW j \in Stops, NEW k \in Stops, w.tab[j] # <<>>, w.tab[j] = w.tab[k] PROVE j = k
  <2>1. (Kept(v, upd, j, w) \/ Entered(v, upd, j, w)) /\ (Kept(v, upd, k, w) \/ Entered(v, upd, k, w))
    BY <1>3, <1>10 DEF VipMove
  <2> HIDE DEF v, w, upd
  <2>2. CASE Kept(v, upd, j, w) /\ Kept(v, upd, k, w)
    BY <1>7, <1>10, <2>2 DEF Kept
  <2>3. CASE Kept(v, upd, j, w) /\ Entered(v, upd, k, w)
    BY <1>10, <2>3 DEF Kept, Entered
  <2>4. CASE Entered(v, upd, j, w) /\ Kept(v, upd, k, w)
    BY <1>10, <2>4 DEF Kept, Entered
  <2>5. CASE Entered(v, upd, j, w) /\ Entered(v, upd, k, w)
    <3>1. /\ v.tab[j] = <<>> /\ \A l \in 0 .. j - 1 : v.tab[l] # <<>>
          /\ v.tab[k] = <<>> /\ \A l \in 0 .. k - 1 : v.tab[l] # <<>>
      BY <2>5 DEF Entered
    <3>2. j \notin 0 .. k - 1 /\ k \notin 0 .. j - 1
      BY <3>1
    <3>3. j \in Nat /\ k \in Nat
      BY RingAssumption DEF Stops
    <3> QED BY <3>2, <3>3
  <2> QED BY <2>1, <2>2, <2>3, <2>4, <2>5
<1>11. ASSUME st'[i].eb[d].upd # <<>>, ~st'[i].eb[d].upd[1].rel, NEW t, t = st'[i].eb[d].upd[1].tag
       PROVE  Rounding(i, d, t)'
  <2>1. EjectVld(i, d)
    BY <1>4, <1>11
  <2>2. PICK f \in Flit : Rx(i, d).flit = <<f>> /\ Tgt[f] = i /\ <<f>>[1] = f
    BY <1>5, <2>1
  <2>3. st'[i].eb[d].upd = <<[rel |-> EbEnqRdy(i, d), tag |-> Tag[f]]>>
    BY <1>4, <2>1, <2>2
  <2>4. st'[i].eb[d].upd[1].tag = Tag[f] /\ ~EbEnqRdy(i, d)
    BY <1>11, <2>3
  <2>5. st'[i].dir[d].slot.flit = <<f>>
    <3>1. ~EjectFire(i, d)
      BY <2>4 DEF EjectFire
    <3>2. st[Up(i, d)].dir[d].slot.flit = <<f>>
      BY <2>2, UpIs
    <3> QED BY <3>1, <3>2, InLaneNext
  <2>6. InLane(i, d, f)'
    BY <2>5 DEF InLane
  <2>7. \E j \in Stops, g \in Flit : InLane(j, d, g)' /\ Tgt[g] = i /\ Tag[g] = t
    BY <1>11, <2>2, <2>4, <2>6
  <2> QED BY <2>7 DEF Rounding
<1>12. VipOf(i, d)'
  <2>1. /\ \A k \in Stops : \A t : w.tab[k] # <<>> /\ t = w.tab[k][1]
             => Rounding(i, d, t)' \/ Leaving(st[i].eb[d], t)'
        /\ \A t : st'[i].eb[d].upd # <<>> /\ ~st'[i].eb[d].upd[1].rel /\ t = st'[i].eb[d].upd[1].tag
             => Rounding(i, d, t)'
    BY <1>9, <1>11
  <2> USE DEF VipOf, Rounding, Leaving
  <2> QED BY <1>10, <2>1
<1> QED BY <1>3, <1>6, <1>12 DEF VipMove

-----------------------------------------------------------------------------
(* The invariant.                                                          *)

LEMMA RingTypesStep ==
  ASSUME RingIInv, NEW in, RingEdge(in)
  PROVE  RingTypes'
<1>1. RingTypes /\ Rooms /\ Spread /\ RingTick(in)
  BY DEF RingIInv, RingEdge
<1>2. ASSUME NEW i \in Stops PROVE st'[i] \in StopRec
  <2>1. st'[i] = NextStop(i, in)
    BY <1>1, AllMove
  <2>2. ASSUME NEW d \in Dirs PROVE NextDir(i, d, InjFire(i, d)) \in DirRec
    <3>1. /\ st[i].dir[d].state \in {"normal", "reserve", "wait"} /\ st[i].dir[d].counter \in 0 .. TimerMax
          /\ Rx(i, d).flit \in Opt(Flit) /\ Rx(i, d).rsvd \in Opt(Stops)
      BY <1>1, StopIs
    <3>2. NextState(i, d, InjFire(i, d)) \in {"normal", "reserve", "wait"}
      BY <3>1 DEF NextState
    <3>3. NextCounter(i, d, InjFire(i, d)) \in 0 .. TimerMax
      <4> DEFINE c == st[i].dir[d].counter
      <4>1. c \in 0 .. TimerMax /\ TimerMax \in Nat
        BY <3>1, RingAssumption
      <4>2. NextCounter(i, d, InjFire(i, d)) \in {0, c} \cup {x \in {c + 1} : c < TimerMax}
        BY DEF NextCounter
      <4> HIDE DEF c
      <4> QED BY <4>1, <4>2
    <3>4. NextSlot(i, d, InjFire(i, d)) \in SlotRec
      <4>1. InjFire(i, d) => Head(st[i].injq) \in Flit
        BY <1>1, InjIs
      <4>2. <<>> \in Opt(Flit) /\ <<>> \in Opt(Stops) /\ <<i>> \in Opt(Stops)
        BY DEF Opt
      <4>3. InjFire(i, d) => <<Head(st[i].injq)>> \in Opt(Flit)
        BY <4>1 DEF Opt
      <4> QED BY <3>1, <4>2, <4>3 DEF NextSlot, SlotRec
    <3> QED BY <3>2, <3>3, <3>4 DEF NextDir, DirRec
  <2>3. ASSUME NEW d \in Dirs PROVE NextEb(i, d, in) \in EbRec
    <3>1. st'[i].eb[d] = NextEb(i, d, in)
      <4>1. st'[i].eb = [e \in Dirs |-> NextEb(i, e, in)]
        BY <1>1, StopMoves
      <4> QED BY <4>1
    <3>2. /\ st'[i].eb[d].oq \in Seq(Flit) /\ st'[i].eb[d].ipipe \in Opt(Flit)
          /\ st'[i].eb[d].empties \in 0 .. EjD
      BY InOq
    <3>3. st'[i].eb[d].vip \in VipRec /\ st'[i].eb[d].upd \in Opt(UpdRec)
      BY VipsStep
    <3>4. st'[i].eb[d] = [ipipe |-> st'[i].eb[d].ipipe, oq |-> st'[i].eb[d].oq,
                          empties |-> st'[i].eb[d].empties, upd |-> st'[i].eb[d].upd,
                          vip |-> st'[i].eb[d].vip]
      BY <3>1 DEF NextEb
    <3>5. st'[i].eb[d] \in EbRec
      BY <3>2, <3>3, <3>4 DEF EbRec
    <3> QED BY <3>1, <3>5
  <2>4. st'[i].injq \in Seq(Flit)
    BY InInjq
  <2>5. st'[i].earb \in Dirs /\ st'[i].injarb \in Dirs
    <3>1. st[i].earb \in Dirs /\ st[i].injarb \in Dirs /\ 0 \in Dirs
      <4>1. 0 \in Dirs
        BY DEF Dirs
      <4> QED BY <1>1, <4>1, StopIs
    <3>2. RrChosen(OqVld(i), st[i].earb) \in Dirs
      <4>1. OqVld(i) \in [Dirs -> BOOLEAN]
        BY DEF OqVld
      <4> QED BY <3>1, <4>1, RrOne
    <3>3. InjChosen(i, in) \in Dirs
      <4>1. SrcVld(i, in) \in [Dirs -> BOOLEAN]
        BY DEF SrcVld
      <4>2. RrChosen(SrcVld(i, in), st[i].injarb) \in Dirs
        BY <3>1, <4>1, RrOne
      <4> QED BY <3>1, <4>2 DEF InjChosen
    <3> QED BY <2>1, <3>1, <3>2, <3>3 DEF NextStop
  <2>6. st'[i] = [dir |-> [d \in Dirs |-> NextDir(i, d, InjFire(i, d))], injq |-> st'[i].injq,
                  eb |-> [d \in Dirs |-> NextEb(i, d, in)], earb |-> st'[i].earb, injarb |-> st'[i].injarb]
    BY <2>1 DEF NextStop
  <2>7. /\ [d \in Dirs |-> NextDir(i, d, InjFire(i, d))] \in [Dirs -> DirRec]
        /\ [d \in Dirs |-> NextEb(i, d, in)] \in [Dirs -> EbRec]
    BY <2>2, <2>3
  <2> QED BY <2>4, <2>5, <2>6, <2>7 DEF StopRec
<1>3. st' \in [Stops -> StopRec]
  <2>1. st' = [i \in Stops |-> IF Active(i, in) THEN NextStop(i, in) ELSE st[i]]
    BY <1>1 DEF RingTick
  <2>2. st' = [i \in Stops |-> st'[i]]
    BY <2>1
  <2> QED BY <1>2, <2>2
<1>4. sent' \in SUBSET Flit
  <2>1. in.offer \subseteq Flit /\ sent \subseteq Flit
    BY <1>1 DEF RingEdge, Offers, RingTypes
  <2> QED BY <1>1, <2>1 DEF RingTick
<1> QED BY <1>3, <1>4 DEF RingTypes

LEMMA TargetStep ==
  ASSUME RingIInv, NEW in, RingEdge(in)
  PROVE  AtTarget'
<1> SUFFICES ASSUME NEW f \in Flit, NEW i \in Stops, NEW d \in Dirs,
                    At(f, "ipipe", i, d)' \/ At(f, "oq", i, d)'
             PROVE  Tgt[f] = i
  BY DEF AtTarget
<1>1. At(f, "ipipe", i, d) \/ At(f, "oq", i, d) => Tgt[f] = i
  BY DEF RingIInv, AtTarget
<1> QED BY <1>1, Steps DEF PlaceStep

LEMMA RingStart == RingInit => RingIInv
<1> SUFFICES ASSUME RingInit PROVE RingIInv
  OBVIOUS
<1> USE DEF Stops, Dirs
<1>1. /\ 0 \in Stops /\ EjD \in 0 .. EjD /\ EjD - 1 \in Nat /\ 0 \in 0 .. TimerMax
  BY RingAssumption
<1>2. ASSUME NEW i \in Stops PROVE st[i] = EmptyStop
  BY DEF RingInit
<1>3. ASSUME NEW i \in Stops, NEW d \in Dirs
      PROVE  /\ st[i].injq = <<>> /\ st[i].eb[d] = EmptyEb
             /\ st[i].dir[d] = [slot |-> NoSlot, state |-> "normal", counter |-> 0]
  BY <1>2 DEF EmptyStop
<1>4. <<>> \in Seq(Flit) /\ \A S : <<>> \in Opt(S)
  BY DEF Opt
<1>5. EmptyStop \in StopRec
  <2>1. [slot |-> NoSlot, state |-> "normal", counter |-> 0] \in DirRec
    BY <1>1, <1>4 DEF DirRec, SlotRec, NoSlot
  <2>2. NoVip \in VipRec
    BY <1>1, <1>4 DEF VipRec, NoVip
  <2>3. EmptyEb \in EbRec
    BY <1>1, <1>4, <2>2 DEF EbRec, EmptyEb
  <2> QED BY <1>4, <2>1, <2>3 DEF EmptyStop, StopRec
<1>6. RingTypes
  BY <1>5 DEF RingInit, RingTypes
<1>7. Rooms
  <2>1. ASSUME NEW i \in Stops, NEW d \in Dirs PROVE RoomOf(i, d)
    <3>1. st[i].eb[d].oq = <<>> /\ st[i].eb[d].ipipe = <<>> /\ st[i].eb[d].empties = EjD
      BY <1>3 DEF EmptyEb
    <3>2. 0 <= EjD - 1 /\ EjD + 0 + 0 = EjD
      BY <1>1, RingAssumption
    <3> QED BY <3>1, <3>2, EmptyRange DEF RoomOf
  <2> QED BY <1>3, <2>1, EmptyRange DEF Rooms
<1>8. Marks
  <2>1. \A i, j \in Stops, d \in Dirs : ~Marked(i, d, j)
    <3>1. \A x : <<x>> # <<>>
      OBVIOUS
    <3> QED BY <1>3, <3>1 DEF Marked, NoSlot
  <2>2. \A i \in Stops, d \in Dirs : st[i].dir[d].state # "wait"
    BY <1>3
  <2> QED BY <2>1, <2>2 DEF Marks, MarkOf
<1>9. Vips
  <2>1. \A i \in Stops, d \in Dirs : st[i].eb[d].upd = <<>> /\ \A k \in Stops : st[i].eb[d].vip.tab[k] = <<>>
    <3>1. EmptyEb.upd = <<>> /\ EmptyEb.vip = NoVip
      BY DEF EmptyEb
    <3>2. \A k \in Stops : NoVip.tab[k] = <<>>
      BY DEF NoVip
    <3> HIDE DEF Stops, Dirs
    <3> QED BY <1>3, <3>1, <3>2
  <2> QED BY <2>1 DEF Vips, VipOf
<1>10. \A f, k : \A i \in Stops, d \in Dirs : ~At(f, k, i, d)
  <2>1. \A x : <<x>> # <<>>
    OBVIOUS
  <2>2. \A i \in Stops, d \in Dirs : /\ st[i].injq = <<>> /\ st[i].dir[d].slot.flit = <<>>
                                     /\ st[i].eb[d].ipipe = <<>> /\ st[i].eb[d].oq = <<>>
    BY <1>3 DEF NoSlot, EmptyEb
  <2> QED BY <2>1, <2>2, EmptyRange DEF At
<1>11. Spread
  BY <1>10 DEF Spread, Somewhere, AtOnce, RingInit
<1>12. AtTarget
  BY <1>10 DEF AtTarget
<1> QED BY <1>6, <1>7, <1>8, <1>9, <1>11, <1>12 DEF RingIInv

LEMMA RingStep == RingIInv /\ [RingNext]_ringVars => RingIInv'
<1>a. \A f \in Flit : (f \in sent <=> Somewhere(f)) /\ AtOnce(f) <=> Placed(f)
  BY SpreadIs
<1>b. (\A f \in Flit : (f \in sent <=> Somewhere(f)) /\ AtOnce(f) <=> Placed(f))'
  BY <1>a, PTL
<1> SUFFICES ASSUME RingIInv, [RingNext]_ringVars PROVE RingIInv'
  OBVIOUS
<1>1. CASE RingNext
  <2>1. PICK in : RingEdge(in)
    <3>1. PICK offer \in Offers, rdy \in SUBSET Filled : RingTick([offer |-> offer, rdy |-> rdy])
      BY <1>1 DEF RingNext
    <3>2. RingEdge([offer |-> offer, rdy |-> rdy])
      BY <3>1 DEF RingEdge
    <3> QED BY <3>2
  <2>2. RingTypes'
    BY <2>1, RingTypesStep
  <2>3. Rooms'
    <3>1. \A i \in Stops : Len(st'[i].injq) <= 2 /\ IsInjective(st'[i].injq)
      BY <2>1, InInjq
    <3>2. \A i \in Stops, d \in Dirs : RoomOf(i, d)'
      BY <2>1, InOq
    <3> QED BY <3>1, <3>2 DEF Rooms
  <2>4. Marks'
    <3>1. \A i \in Stops, d \in Dirs : MarkOf(i, d)'
      BY <2>1, MarksStep
    <3> QED BY <3>1 DEF Marks
  <2>5. Vips'
    <3>1. \A i \in Stops, d \in Dirs : VipOf(i, d)'
      BY <2>1, VipsStep
    <3> QED BY <3>1 DEF Vips
  <2>6. Spread'
    <3>1. \A f \in Flit : Placed(f)'
      BY <2>1, SpreadStep
    <3> QED BY <1>b, <3>1 DEF Spread
  <2>7. AtTarget'
    BY <2>1, TargetStep
  <2> QED BY <2>2, <2>3, <2>4, <2>5, <2>6, <2>7 DEF RingIInv
<1>2. CASE UNCHANGED ringVars
  <2> USE <1>2 DEF ringVars
  <2>1. RingTypes' /\ Rooms'
    BY DEF RingIInv, RingTypes, Rooms, RoomOf
  <2>2. Marks'
    BY DEF RingIInv, Marks, MarkOf, Marked
  <2>3. Vips'
    <3>1. ASSUME NEW i \in Stops, NEW d \in Dirs PROVE VipOf(i, d)'
      <4>1. VipOf(i, d)
        BY DEF RingIInv, Vips
      <4> QED BY <4>1 DEF VipOf, Rounding, Leaving, InLane
    <3> QED BY <3>1 DEF Vips
  <2>4. \A f, k, i, d : At(f, k, i, d)' <=> At(f, k, i, d)
    BY DEF At
  <2>5. Spread'
    <3>1. \A f : (Somewhere(f)' <=> Somewhere(f)) /\ (AtOnce(f)' <=> AtOnce(f))
      BY <2>4 DEF Somewhere, AtOnce
    <3> QED BY <3>1 DEF RingIInv, Spread
  <2>6. AtTarget'
    BY <2>4 DEF RingIInv, AtTarget
  <2> QED BY <2>1, <2>2, <2>3, <2>5, <2>6 DEF RingIInv
<1> QED BY <1>1, <1>2

\* RingIInv holds in every state: types, rooms, marks, table, one place each.
THEOREM RingInvariant == RingSpec => []RingIInv
<1>1. RingInit => RingIInv
  BY RingStart
<1>2. RingIInv /\ [RingNext]_ringVars => RingIInv'
  BY RingStep
<1> QED BY <1>1, <1>2, PTL DEF RingSpec

-----------------------------------------------------------------------------
(* What it says of a channel.                                              *)

LEMMA MarksAreOne ==
  ASSUME RingIInv
  PROVE  OneMarkEach
<1> SUFFICES ASSUME NEW i \in Stops, NEW d \in Dirs
             PROVE  Cardinality({j \in Stops : st[j].dir[d].slot.rsvd = <<i>>})
                      = IF st[i].dir[d].state = "wait" THEN 1 ELSE 0
  BY DEF OneMarkEach
<1> DEFINE M == {j \in Stops : st[j].dir[d].slot.rsvd = <<i>>}
<1>1. \A j \in Stops : j \in M <=> Marked(i, d, j)
  BY DEF Marked
<1>2. /\ st[i].dir[d].state = "wait" <=> \E j \in Stops : Marked(i, d, j)
      /\ \A j, k \in Stops : Marked(i, d, j) /\ Marked(i, d, k) => j = k
  BY DEF RingIInv, Marks, MarkOf
<1>3. M \subseteq Stops
  OBVIOUS
<1> HIDE DEF M
<1>4. CASE st[i].dir[d].state = "wait"
  <2>1. PICK j \in Stops : Marked(i, d, j)
    BY <1>2, <1>4
  <2>2. M = {j}
    BY <1>1, <1>2, <1>3, <2>1
  <2> QED BY <1>4, <2>2, FS_Singleton DEF M
<1>5. CASE st[i].dir[d].state # "wait"
  <2>1. M = {}
    BY <1>1, <1>2, <1>3, <1>5
  <2> QED BY <1>5, <2>1, FS_EmptySet DEF M
<1> QED BY <1>4, <1>5

LEMMA StopsAreN == IsFiniteSet(Stops) /\ Cardinality(Stops) = N /\ N \in Nat
<1> DEFINE m == N - 1
<1>1. N \in Nat /\ m \in Nat /\ N = m + 1
  BY RingAssumption
<1> HIDE DEF m
<1>2. 0 \in Int /\ m \in Int /\ ~(0 > m)
  BY <1>1
<1>3. IsFiniteSet(0 .. m) /\ Cardinality(0 .. m) = IF 0 > m THEN 0 ELSE m - 0 + 1
  BY <1>2, FS_Interval
<1>4. Cardinality(0 .. m) = N
  BY <1>1, <1>2, <1>3
<1> QED BY <1>1, <1>3, <1>4 DEF Stops, m

\* A full table and one more to enter are more transactions than places.
LEMMA TableHasRoom ==
  ASSUME RingIInv, NEW i \in Stops, NEW d \in Dirs, st[i].eb[d].upd # <<>>,
         VipEnters(st[i].eb[d].vip, st[i].eb[d].upd[1])
  PROVE  VipUsed(st[i].eb[d].vip) # Stops
<1> DEFINE v == st[i].eb[d].vip
           u == st[i].eb[d].upd[1]
           at(j, t) == \E f \in Flit : InLane(j, d, f) /\ Tgt[f] = i /\ Tag[f] = t
<1>1. SUFFICES ASSUME VipUsed(v) = Stops PROVE FALSE
  OBVIOUS
<1>2. RingTypes /\ VipOf(i, d)
  BY DEF RingIInv, Vips
<1>3. ~u.rel /\ \A k \in Stops : v.tab[k] # <<u.tag>>
  BY DEF VipEnters
<1>4. \A k \in Stops : v.tab[k] # <<>>
  BY <1>1 DEF VipUsed
<1>5. v.tab \in [Stops -> Opt(Tags)]
  <2>1. v \in VipRec
    BY <1>2, StopIs
  <2> QED BY <2>1 DEF VipRec
<1>6. \A k \in Stops : v.tab[k] = <<v.tab[k][1]>>
  <2>1. ASSUME NEW k \in Stops PROVE v.tab[k] = <<v.tab[k][1]>>
    <3>1. PICK x \in Tags : v.tab[k] = <<x>>
      BY <1>4, <1>5 DEF Opt
    <3> QED BY <3>1
  <2> QED BY <2>1
<1>7. \A k \in Stops : Rounding(i, d, v.tab[k][1])
  <2>1. ASSUME NEW k \in Stops PROVE ~Leaving(st[i].eb[d], v.tab[k][1])
    <3>1. ASSUME st[i].eb[d].upd = <<[rel |-> TRUE, tag |-> v.tab[k][1]]>> PROVE FALSE
      <4>1. u.rel
        BY <3>1
      <4> QED BY <1>3, <4>1
    <3> QED BY <3>1 DEF Leaving
  <2> QED BY <1>2, <1>4, <2>1 DEF VipOf
<1>8. Rounding(i, d, u.tag)
  BY <1>2, <1>3 DEF VipOf
<1>9. \A t : Rounding(i, d, t) => \E j \in Stops : at(j, t)
  BY DEF Rounding
<1>10. \A j \in Stops : \A t, x : at(j, t) /\ at(j, x) => t = x
  <2>1. \A f, g : <<f>> = <<g>> => f = g
    OBVIOUS
  <2> QED BY <2>1 DEF InLane
<1> HIDE DEF v, u, at
<1>11. PICK P \in Stops : at(P, u.tag)
  BY <1>8, <1>9
<1> DEFINE g == [k \in Stops |-> CHOOSE j \in Stops : at(j, v.tab[k][1])]
<1>12. \A k \in Stops : g[k] \in Stops /\ at(g[k], v.tab[k][1])
  BY <1>7, <1>9
<1>13. \A k \in Stops : g[k] # P
  BY <1>3, <1>6, <1>10, <1>11, <1>12
<1>14. g \in [Stops -> Stops \ {P}]
  BY <1>12, <1>13
<1>15. \A j, k \in Stops : g[j] = g[k] => j = k
  <2>1. \A j, k \in Stops : g[j] = g[k] => v.tab[j] = v.tab[k]
    BY <1>6, <1>10, <1>12
  <2>2. \A j, k \in Stops : v.tab[j] # <<>> /\ v.tab[j] = v.tab[k] => j = k
    BY <1>2 DEF VipOf, v
  <2> QED BY <1>4, <2>1, <2>2
<1> HIDE DEF g
<1>16. IsFiniteSet(Stops) /\ Cardinality(Stops) = N /\ N \in Nat
  BY StopsAreN
<1>17. IsFiniteSet(Stops \ {P}) /\ Cardinality(Stops \ {P}) = N - 1
  BY <1>16, FS_RemoveElement
<1>18. Cardinality(Stops \ {P}) < Cardinality(Stops)
  BY <1>16, <1>17
<1>19. \E j, k \in Stops : j # k /\ g[j] = g[k]
  BY <1>14, <1>16, <1>17, <1>18, FS_PigeonHole
<1> QED BY <1>15, <1>19

LEMMA VipIsExact ==
  ASSUME RingIInv
  PROVE  VipNamesTravellers
<1> SUFFICES ASSUME NEW i \in Taps, NEW d \in Dirs
             PROVE  /\ \A k \in VipUsed(st[i].eb[d].vip) :
                         /\ \/ Rounding(i, d, st[i].eb[d].vip.tab[k][1])
                            \/ Leaving(st[i].eb[d], st[i].eb[d].vip.tab[k][1])
                         /\ \A j \in VipUsed(st[i].eb[d].vip) :
                              st[i].eb[d].vip.tab[j] = st[i].eb[d].vip.tab[k] => j = k
                    /\ st[i].eb[d].upd # <<>> /\ VipEnters(st[i].eb[d].vip, st[i].eb[d].upd[1])
                         => VipUsed(st[i].eb[d].vip) # Stops
  BY DEF VipNamesTravellers
<1>1. i \in Stops
  BY RingAssumption DEF Taps, InjStops, EjStops
<1>2. VipOf(i, d)
  BY <1>1 DEF RingIInv, Vips
<1> QED BY <1>1, <1>2, TableHasRoom DEF VipOf, VipUsed

\* A stop that waits has one mark, the table names who comes round and has
\* room, and a closed gate skips nothing, for any number of stops and flits.
THEOREM RingIsSafe == RingSpec => []RingInv
<1>1. RingIInv => RingInv
  <2> SUFFICES ASSUME RingIInv PROVE RingInv
    OBVIOUS
  <2>1. RingTypeOK
    <3> SUFFICES ASSUME NEW i \in Stops
                 PROVE  /\ \A d \in Dirs :
                             /\ st[i].dir[d] \in [slot : [flit : Opt(Flit), rsvd : Opt(Stops)],
                                                 state : {"normal", "reserve", "wait"}, counter : 0 .. TimerMax]
                             /\ st[i].eb[d].empties \in 0 .. EjD
                             /\ st[i].eb[d].upd \in Opt([rel : BOOLEAN, tag : Tags])
                             /\ st[i].eb[d].vip \in [tab : [Stops -> Opt(Tags)], ptr : Stops]
                        /\ Len(st[i].injq) <= 2 /\ st[i].earb \in Dirs /\ st[i].injarb \in Dirs
      BY DEF RingTypeOK
    <3>1. RingTypes /\ Rooms /\ 0 \in Dirs
      BY DEF RingIInv, Dirs
    <3>2. ASSUME NEW d \in Dirs
          PROVE  /\ st[i].dir[d] \in DirRec /\ st[i].eb[d].empties \in 0 .. EjD
                 /\ st[i].eb[d].upd \in Opt(UpdRec) /\ st[i].eb[d].vip \in VipRec
      BY <3>1, StopIs
    <3>3. Len(st[i].injq) <= 2 /\ st[i].earb \in Dirs /\ st[i].injarb \in Dirs
      BY <3>1, StopIs DEF Rooms
    <3> QED BY <3>2, <3>3 DEF DirRec, SlotRec, UpdRec, VipRec
  <2>2. OneMarkEach
    BY MarksAreOne
  <2>3. VipNamesTravellers
    BY VipIsExact
  <2>4. RingGateLosesNothing
    BY GateHarmless DEF RingIInv, RingGateLosesNothing
  <2> QED BY <2>1, <2>2, <2>3, <2>4 DEF RingInv
<1> QED BY <1>1, RingInvariant, PTL

-----------------------------------------------------------------------------
(* Nothing is lost.                                                        *)

\* The places of a flit, one for each queue or register that holds it.
LEMMA WhereIs ==
  ASSUME RingIInv, NEW f \in Flit
  PROVE  /\ \A p \in Where(f) : p[1] \in Kinds /\ p[2] \in Stops /\ p[3] \in Dirs /\ At(f, p[1], p[2], p[3])
         /\ \A p, q \in Where(f) : p[1] = q[1] /\ p[2] = q[2] /\ p[3] = q[3] => p = q
         /\ \A k \in Kinds, i \in Stops, d \in Dirs : At(f, k, i, d) => \E n \in Nat : <<k, i, d, n>> \in Where(f)
<1> DEFINE A == {p \in {"injq"} \X Stops \X {0} \X (1 .. 2) :
                   p[4] \in DOMAIN st[p[2]].injq /\ st[p[2]].injq[p[4]] = f}
           B == {p \in {"lane"} \X Stops \X Dirs \X {1} : InLane(p[2], p[3], f)}
           C == {p \in {"ipipe"} \X Stops \X Dirs \X {1} : st[p[2]].eb[p[3]].ipipe = <<f>>}
           D == {p \in {"oq"} \X Stops \X Dirs \X (1 .. EjD) :
                   p[4] \in DOMAIN st[p[2]].eb[p[3]].oq /\ st[p[2]].eb[p[3]].oq[p[4]] = f}
<1>1. Where(f) = A \cup B \cup C \cup D
  BY DEF Where
<1>2. RingTypes /\ Rooms /\ EjD \in Nat /\ 0 \in Dirs
  BY RingAssumption DEF RingIInv, Dirs
<1>3. ASSUME NEW i \in Stops
      PROVE  /\ DOMAIN st[i].injq = 1 .. Len(st[i].injq) /\ Len(st[i].injq) \in 0 .. 2
             /\ \A m, n \in 1 .. Len(st[i].injq) : st[i].injq[m] = st[i].injq[n] => m = n
             /\ f \in Range(st[i].injq) <=> \E n \in 1 .. Len(st[i].injq) : st[i].injq[n] = f
  <2>1. st[i].injq \in Seq(Flit) /\ IsInjective(st[i].injq) /\ Len(st[i].injq) \in 0 .. 2
    BY <1>2, StopIs, EbIs DEF Rooms
  <2> QED BY <2>1, RangeIs, LenProperties
<1>4. ASSUME NEW i \in Stops, NEW d \in Dirs
      PROVE  /\ DOMAIN st[i].eb[d].oq = 1 .. Len(st[i].eb[d].oq) /\ Len(st[i].eb[d].oq) \in 0 .. EjD - 1
             /\ \A m, n \in 1 .. Len(st[i].eb[d].oq) : st[i].eb[d].oq[m] = st[i].eb[d].oq[n] => m = n
             /\ f \in Range(st[i].eb[d].oq) <=> \E n \in 1 .. Len(st[i].eb[d].oq) : st[i].eb[d].oq[n] = f
  <2>1. st[i].eb[d].oq \in Seq(Flit) /\ IsInjective(st[i].eb[d].oq) /\ Len(st[i].eb[d].oq) \in 0 .. EjD - 1
    BY <1>2, StopIs, EbIs DEF Rooms, RoomOf
  <2> QED BY <2>1, RangeIs, LenProperties
<1>5. \A i \in Stops, d \in Dirs : /\ At(f, "injq", i, d) <=> d = 0 /\ f \in Range(st[i].injq)
                                   /\ At(f, "lane", i, d) <=> InLane(i, d, f)
                                   /\ At(f, "ipipe", i, d) <=> st[i].eb[d].ipipe = <<f>>
                                   /\ At(f, "oq", i, d) <=> f \in Range(st[i].eb[d].oq)
  BY DEF At, InLane
<1>6. \A p \in A : /\ p = <<"injq", p[2], 0, p[4]>> /\ p[1] = "injq" /\ p[2] \in Stops /\ p[3] = 0
                   /\ At(f, "injq", p[2], 0) /\ p[4] \in 1 .. Len(st[p[2]].injq) /\ st[p[2]].injq[p[4]] = f
  BY <1>2, <1>3, <1>5
<1>7. \A p \in B : p = <<"lane", p[2], p[3], 1>> /\ p[1] = "lane" /\ p[2] \in Stops /\ p[3] \in Dirs /\ At(f, "lane", p[2], p[3])
  BY <1>5
<1>8. \A p \in C : p = <<"ipipe", p[2], p[3], 1>> /\ p[1] = "ipipe" /\ p[2] \in Stops /\ p[3] \in Dirs /\ At(f, "ipipe", p[2], p[3])
  BY <1>5
<1>9. \A p \in D : /\ p = <<"oq", p[2], p[3], p[4]>> /\ p[1] = "oq" /\ p[2] \in Stops /\ p[3] \in Dirs
                   /\ At(f, "oq", p[2], p[3]) /\ p[4] \in 1 .. Len(st[p[2]].eb[p[3]].oq)
                   /\ st[p[2]].eb[p[3]].oq[p[4]] = f
  BY <1>4, <1>5
<1>10. ASSUME NEW i \in Stops, At(f, "injq", i, 0) PROVE \E n \in Nat : <<"injq", i, 0, n>> \in A
  <2>1. PICK n \in 1 .. Len(st[i].injq) : st[i].injq[n] = f
    BY <1>2, <1>3, <1>5, <1>10
  <2>2. n \in 1 .. 2 /\ n \in DOMAIN st[i].injq /\ n \in Nat
    BY <1>3, <2>1
  <2>3. <<"injq", i, 0, n>> \in A
    BY <2>1, <2>2
  <2> QED BY <2>2, <2>3
<1>11. ASSUME NEW i \in Stops, NEW d \in Dirs, At(f, "oq", i, d) PROVE \E n \in Nat : <<"oq", i, d, n>> \in D
  <2>1. PICK n \in 1 .. Len(st[i].eb[d].oq) : st[i].eb[d].oq[n] = f
    BY <1>4, <1>5, <1>11
  <2>2. n \in 1 .. EjD /\ n \in DOMAIN st[i].eb[d].oq /\ n \in Nat
    BY <1>2, <1>4, <2>1
  <2>3. <<"oq", i, d, n>> \in D
    BY <2>1, <2>2
  <2> QED BY <2>2, <2>3
<1>12. \A i \in Stops, d \in Dirs : /\ At(f, "lane", i, d) => <<"lane", i, d, 1>> \in B
                                    /\ At(f, "ipipe", i, d) => <<"ipipe", i, d, 1>> \in C
  BY <1>5
<1> HIDE DEF A, B, C, D
<1>13. \A p \in Where(f) : p[1] \in Kinds /\ p[2] \in Stops /\ p[3] \in Dirs /\ At(f, p[1], p[2], p[3])
  BY <1>1, <1>2, <1>6, <1>7, <1>8, <1>9 DEF Kinds
<1>14. ASSUME NEW p \in Where(f), NEW q \in Where(f), p[1] = q[1], p[2] = q[2], p[3] = q[3] PROVE p = q
  <2>1. CASE p \in A
    <3>1. q \in A
      BY <1>1, <1>6, <1>7, <1>8, <1>9, <1>14, <2>1
    <3>2. p[4] = q[4]
      BY <1>3, <1>6, <1>14, <2>1, <3>1
    <3> QED BY <1>6, <1>14, <2>1, <3>1, <3>2
  <2>2. CASE p \in B
    <3>1. q \in B
      BY <1>1, <1>6, <1>7, <1>8, <1>9, <1>14, <2>2
    <3> QED BY <1>7, <1>14, <2>2, <3>1
  <2>3. CASE p \in C
    <3>1. q \in C
      BY <1>1, <1>6, <1>7, <1>8, <1>9, <1>14, <2>3
    <3> QED BY <1>8, <1>14, <2>3, <3>1
  <2>4. CASE p \in D
    <3>1. q \in D
      BY <1>1, <1>6, <1>7, <1>8, <1>9, <1>14, <2>4
    <3>2. p[4] = q[4]
      <4>1. PICK i \in Stops, d \in Dirs : p[2] = i /\ p[3] = d /\ q[2] = i /\ q[3] = d
        BY <1>9, <1>14, <2>4
      <4>2. /\ p[4] \in 1 .. Len(st[i].eb[d].oq) /\ st[i].eb[d].oq[p[4]] = f
            /\ q[4] \in 1 .. Len(st[i].eb[d].oq) /\ st[i].eb[d].oq[q[4]] = f
        BY <1>9, <2>4, <3>1, <4>1
      <4>3. \A m, n \in 1 .. Len(st[i].eb[d].oq) : st[i].eb[d].oq[m] = st[i].eb[d].oq[n] => m = n
        BY <1>4
      <4> QED BY <4>2, <4>3
    <3> QED BY <1>9, <1>14, <2>4, <3>1, <3>2
  <2> QED BY <1>1, <2>1, <2>2, <2>3, <2>4
<1>15. ASSUME NEW k \in Kinds, NEW i \in Stops, NEW d \in Dirs, At(f, k, i, d)
       PROVE  \E n \in Nat : <<k, i, d, n>> \in Where(f)
  <2>1. CASE k = "injq"
    <3>1. d = 0
      BY <1>5, <1>15, <2>1
    <3> QED BY <1>1, <1>10, <1>15, <2>1, <3>1
  <2>2. CASE k = "lane" \/ k = "ipipe"
    <3>1. <<k, i, d, 1>> \in B \cup C /\ 1 \in Nat
      BY <1>12, <1>15, <2>2
    <3> QED BY <1>1, <3>1
  <2>3. CASE k = "oq"
    BY <1>1, <1>11, <1>15, <2>3
  <2> QED BY <2>1, <2>2, <2>3 DEF Kinds
<1> QED BY <1>13, <1>14, <1>15

\* Every flit accepted and not handed over is at exactly one place, and the
\* lane lets go of it exactly when the buffer takes it.
THEOREM RingLosesNothing == RingSpec => []NothingLost
<1>1. RingIInv => NothingLost
  <2> SUFFICES ASSUME RingIInv PROVE NothingLost
    OBVIOUS
  <2>1. EjectAgrees
    <3> SUFFICES ASSUME NEW i \in Taps, NEW d \in Dirs
                 PROVE  /\ EjectFire(i, d) = IpipeFire(i, d)
                        /\ st[i].eb[d].empties + Len(st[i].eb[d].ipipe) + Len(st[i].eb[d].oq) = EjD
      BY DEF EjectAgrees
    <3>1. RingTypes /\ Rooms /\ i \in Stops
      BY RingAssumption DEF RingIInv, Taps, InjStops, EjStops
    <3>2. EjectFire(i, d) <=> IpipeFire(i, d)
      BY <3>1, EjectIs
    <3>3. EjectFire(i, d) \in BOOLEAN /\ IpipeFire(i, d) \in BOOLEAN
      BY DEF EjectFire, IpipeFire
    <3>4. EjectFire(i, d) = IpipeFire(i, d)
      BY <3>2, <3>3
    <3> QED BY <3>1, <3>4 DEF Rooms, RoomOf
  <2>2. ASSUME NEW f \in Flit
        PROVE  /\ Cardinality(Where(f)) = IF f \in sent THEN 1 ELSE 0
               /\ \A p \in Where(f) : p[1] \in {"ipipe", "oq"} => p[2] = Tgt[f]
    <3>1. Placed(f)
      BY SpreadIs DEF RingIInv, Spread
    <3>2. \A p \in Where(f) : p[1] \in Kinds /\ p[2] \in Stops /\ p[3] \in Dirs /\ At(f, p[1], p[2], p[3])
      BY WhereIs
    <3>5. \A p \in Where(f) : p[1] \in {"ipipe", "oq"} => p[2] = Tgt[f]
      <4>1. \A i \in Stops, d \in Dirs : At(f, "ipipe", i, d) \/ At(f, "oq", i, d) => Tgt[f] = i
        BY DEF RingIInv, AtTarget
      <4> QED BY <3>2, <4>1
    <3>3. CASE f \in sent
      <4>1. PICK k \in Kinds, i \in Stops, d \in Dirs : OnlyAt(f, k, i, d)
        BY <3>1, <3>3 DEF Placed
      <4>2. PICK n \in Nat : <<k, i, d, n>> \in Where(f)
        BY <4>1, WhereIs DEF OnlyAt
      <4> DEFINE q == <<k, i, d, n>>
      <4>3. q[1] = k /\ q[2] = i /\ q[3] = d
        OBVIOUS
      <4> HIDE DEF q
      <4>4. ASSUME NEW p \in Where(f) PROVE p = q
        <5>1. p[1] = k /\ p[2] = i /\ p[3] = d
          BY <3>2, <4>1, <4>4 DEF OnlyAt
        <5>2. q \in Where(f)
          BY <4>2 DEF q
        <5> QED BY <4>3, <5>1, <5>2, WhereIs
      <4>5. Where(f) = {q}
        BY <4>2, <4>4 DEF q
      <4>6. Cardinality(Where(f)) = 1
        BY <4>5, FS_Singleton
      <4> QED BY <3>3, <3>5, <4>6
    <3>4. CASE f \notin sent
      <4>1. Where(f) = {}
        BY <3>1, <3>2, <3>4 DEF Placed, Nowhere
      <4> QED BY <3>4, <3>5, <4>1, FS_EmptySet
    <3> QED BY <3>3, <3>4
  <2> QED BY <2>1, <2>2 DEF NothingLost
<1> QED BY <1>1, RingInvariant, PTL

=============================================================================
