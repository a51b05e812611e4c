--------------------------- MODULE Replace_proofs ---------------------------
(***************************************************************************)
(* The replacement engine, for a PoS set with any number of ways for       *)
(* requests, any number of entries and of tasks.                           *)
(***************************************************************************)
EXTENDS Replace, Basics_proofs

-----------------------------------------------------------------------------
(* The inductive invariant.                                                *)

\* The states in which an entry still owes its transaction the answer: the
\* slot of the transaction is then also the entry's.
Owing == {"ReqPos", "WaitPos", "WriDir", "WaitDir", "UpdateId", "RespCmt", "Write", "WaitRWri",
          "SaveData", "WaitResp", "WaitWriDir"}
Owes(e) == ~Second(entries[e]) /\ entries[e].state \in Owing
Owns(e) == Holds(e) \cup (IF Owes(e) THEN {entries[e].hn} ELSE {})

\* What the registers of an entry hold in each state.
ShapeOf(r) ==
  /\ r.state = "Free" => r = NoReg
  /\ r.alrSF => IsReplDIR(r)
  /\ r.state \in {"ReqPos", "WaitPos", "WaitDir", "CleanPosR"} => IsReplDIR(r)
  /\ r.state \in {"ReqPos", "WaitPos", "WriDir", "WaitDir"} /\ IsReplSF(r) => ~r.alrSF
  /\ r.state = "WaitWriDir" => ~IsReplDIR(r)
  /\ r.state = "RespCmt" => ~Second(r) /\ (IsReplSF(r) => r.alrSF)
  /\ r.state \in {"UpdateId", "Write", "WaitRWri", "SaveData", "WaitResp"} =>
       ~IsReplSF(r) /\ r.llc = "repl"
  /\ r.state \in {"ReqDB", "Snoop", "WaitRSnp"} => IsReplSF(r) /\ r.alrSF
  /\ r.state \in {"CopyId", "CleanPosT"} => Second(r)
  /\ r.state \in {"ReqPos", "WaitPos"} \/ ~IsReplDIR(r) => r.repl = r.hn
  /\ r.state \notin {"ReqPos", "WaitPos", "CopyId"} /\ IsReplDIR(r) => r.repl # r.hn
EntryShape == \A e \in Entry : ShapeOf(entries[e])

\* Nothing belongs to two entries; what belongs to a transaction is in use
\* for requests and belongs to no entry.
Apart == \A e, f \in Entry : e # f => Owns(e) \cap Owns(f) = {}
TxOwned ==
  /\ tx \in [Norm -> {"none", "open", "asked", "answered"}]
  /\ \A e \in Entry : Owes(e) => entries[e].hn \in Norm /\ tx[entries[e].hn] = "asked"
  /\ \A s \in Norm : tx[s] # "none" =>
       slots[s] = {"req"} /\ posResp # <<s>> /\ \A e \in Entry : s \notin Holds(e)

\* The lock is somebody's: of the entry that is being granted a slot, or of
\* the one whose victim is looked up.
Locks(e) == \/ entries[e].state = "WaitPos" /\ posResp # <<>>
            \/ IsReplDIR(entries[e]) /\ entries[e].state \in {"WriDir", "WaitDir"}
OneLocks ==
  /\ \A e \in Entry : Locks(e) => lock
  /\ \A e, f \in Entry : Locks(e) /\ Locks(f) => e = f
  /\ \A e, f \in Entry : entries[e].state = "WaitPos" /\ entries[f].state = "WaitPos" => e = f
  /\ \A s \in Slot : posResp = <<s>> =>
       /\ \E e \in Entry : entries[e].state = "WaitPos" /\ slots[s] = {Channel(entries[e])}
       /\ \A e \in Entry : s \notin Holds(e)

\* A slot is held for what it will be cleaned of, or free once nobody has it.
SlotsHeld ==
  /\ \A e \in Entry : \A s \in Holds(e) : slots[s] = {HeldFor(entries[e], s)}
  /\ \A s \in Slot : slots[s] = {} <=>
       (s \in Norm => tx[s] = "none") /\ posResp # <<s>> /\ \A e \in Entry : s \notin Holds(e)

\* The address of a victim that has to leave is in the slot from its lookup on.
Guarded ==
  \A e \in Entry :
    \/ entries[e].state \in {"ReqDB", "Snoop", "WaitRSnp", "CopyId", "UpdateId", "Write", "WaitRWri"}
    \/ entries[e].state = "RespCmt" /\ IsReplSF(entries[e]) /\ entries[e].needSnp
    => entries[e].repl \in tagVal

\* Whatever is under way is awaited by an entry that owns its slot.
Awaited ==
  /\ \A c \in cms : \E e \in Entry :
       /\ entries[e].repl = c.slot
       /\ \/ c.kind = "snp" /\ entries[e].state = "WaitRSnp"
          \/ c.kind = "wri" /\ entries[e].state = "WaitRWri"
  /\ \A s \in saves : \E e \in Entry : entries[e].state = "WaitResp" /\ entries[e].hn = s
  /\ dirQ \in Seq([hn : Slot, dir : {"sf", "llc", "direct"}])
  /\ \A i \in DOMAIN dirQ : \E e \in Entry :
       entries[e].state \in {"WaitDir", "WaitWriDir"} /\ entries[e].hn = dirQ[i].hn
  /\ \A i, j \in DOMAIN dirQ : i # j => dirQ[i].hn # dirQ[j].hn

IInv == ReplTypeOK /\ EntryShape /\ Apart /\ TxOwned /\ OneLocks /\ SlotsHeld /\ Guarded /\ Awaited

-----------------------------------------------------------------------------
(* The wires.                                                              *)

\* What a wire carries.
LEMMA OptItem ==
  ASSUME NEW S, NEW x \in Opt(S), x # <<>>
  PROVE  x[1] \in S /\ x = <<x[1]>>
BY DEF Opt

\* An arbiter serves one that asks.
LEMMA ServedAsks ==
  ASSUME NEW in \in ReplInputs, NEW states, ReplTypeOK
  PROVE  \/ Served(states, in) = <<>>
         \/ \E e \in Entry : Served(states, in) = <<e>> /\ entries[e].state \in states
<1> DEFINE ask == UNION {At(st) : st \in states}
<1>1. ask \subseteq Entry /\ \A e \in ask : entries[e].state \in states
  BY DEF At
<1>2. ask # {} => Min(ask) \in ask
  BY <1>1, MinIsLeast, ReplAssumption
<1>3. Served(states, in) = <<>> \/ \E e \in ask : Served(states, in) = <<e>>
  BY <1>2 DEF Served
<1> QED BY <1>1, <1>3

\* The same for the states of a port that belongs to one of them.
LEMMA ServedOne ==
  ASSUME NEW in \in ReplInputs, NEW st, ReplTypeOK
  PROVE  \/ Served({st}, in) = <<>>
         \/ \E e \in Entry : Served({st}, in) = <<e>> /\ entries[e].state = st
<1>1. \/ Served({st}, in) = <<>>
      \/ \E e \in Entry : Served({st}, in) = <<e>> /\ entries[e].state \in {st}
  BY ServedAsks
<1> QED BY <1>1

LEMMA ServedIs ==
  ASSUME NEW in \in ReplInputs, NEW states, ReplTypeOK, NEW e \in Entry, Served(states, in) = <<e>>
  PROVE  entries[e].state \in states
<1>1. <<e>> # <<>>
  OBVIOUS
<1>2. PICK f \in Entry : Served(states, in) = <<f>> /\ entries[f].state \in states
  BY <1>1, ServedAsks
<1>3. e = f
  BY <1>2
<1> QED BY <1>2, <1>3

\* The inputs, one by one.
LEMMA Inputs ==
  ASSUME NEW in \in ReplInputs
  PROVE  /\ in.task \in Opt(NewTasks) /\ in.open \in Opt(Openable) /\ in.close \in Opt(Closeable)
         /\ in.dir \in Opt(DirAnswers) /\ in.cm \in Opt(CmAnswers) /\ in.data \in Opt(saves)
         /\ in.cm # <<>> /\ in.cm[1].data => [slot |-> in.cm[1].slot, kind |-> "snp"] \in cms
         /\ in.first \in Entry
BY DEF ReplInputs, Possible

\* A task is for an open transaction, with a row of the decode tables.
LEMMA NewTask ==
  ASSUME NEW in \in ReplInputs, in.task # <<>>
  PROVE  \E s \in Norm, k \in Kinds :
           /\ tx[s] = "open" /\ left > 0
           /\ in.task[1] = [state |-> "Free", hn |-> s, repl |-> s, sf |-> k.sf, llc |-> k.llc,
                            needSnp |-> FALSE, alrSF |-> FALSE]
<1> DEFINE of(s, k) == [NoReg EXCEPT !.hn = s, !.repl = s, !.sf = k.sf, !.llc = k.llc]
           opened == {n \in Norm : tx[n] = "open" /\ left > 0}
<1>1. in.task[1] \in NewTasks
  BY Inputs, OptItem
<1>2. \E s \in opened, k \in Kinds : in.task[1] = of(s, k)
  <2>1. NewTasks = {of(s, k) : s \in opened, k \in Kinds}
    BY DEF NewTasks
  <2> HIDE DEF of, opened
  <2> QED BY <1>1, <2>1
<1>3. PICK s \in opened, k \in Kinds : in.task[1] = of(s, k)
  BY <1>2
<1>4. in.task[1] = [state |-> "Free", hn |-> s, repl |-> s, sf |-> k.sf, llc |-> k.llc,
                    needSnp |-> FALSE, alrSF |-> FALSE]
  BY <1>3 DEF NoReg
<1>5. s \in Norm /\ tx[s] = "open" /\ left > 0
  OBVIOUS
<1> HIDE DEF of, opened
<1> QED BY <1>4, <1>5

\* A task goes to one free entry.
LEMMA AllocTo ==
  ASSUME NEW in \in ReplInputs, ReplTypeOK
  PROVE  \/ AllocFire(in) = <<>>
         \/ \E e \in Entry : AllocFire(in) = <<e>> /\ entries[e].state = "Free" /\ in.task # <<>>
<1>1. At("Free") \subseteq Entry /\ \A e \in At("Free") : entries[e].state = "Free"
  BY DEF At
<1>2. At("Free") # {} => Min(At("Free")) \in At("Free")
  BY <1>1, MinIsLeast, ReplAssumption
<1> QED BY <1>1, <1>2 DEF AllocFire

LEMMA NotAlloc ==
  ASSUME NEW in \in ReplInputs, ReplTypeOK, NEW e \in Entry, entries[e].state # "Free"
  PROVE  AllocFire(in) # <<e>>
<1> SUFFICES ASSUME AllocFire(in) = <<e>> PROVE FALSE
  OBVIOUS
<1>1. <<e>> # <<>>
  OBVIOUS
<1>2. PICK f \in Entry : AllocFire(in) = <<f>> /\ entries[f].state = "Free"
  BY <1>1, AllocTo
<1>3. e = f
  BY <1>2
<1> QED BY <1>2, <1>3

\* A slot is granted when nobody locks, out of the free ones.
LEMMA PosGrant ==
  ASSUME NEW in \in ReplInputs, ReplTypeOK
  PROVE  \/ PosFire(in) = <<>>
         \/ \E e \in Entry, s \in FreeSlots :
              /\ ~lock /\ entries[e].state = "ReqPos" /\ Served({"ReqPos"}, in) = <<e>>
              /\ PosFire(in) = <<[slot |-> s, ch |-> Channel(entries[e])]>>
<1> SUFFICES ASSUME PosFire(in) # <<>>
             PROVE  \E e \in Entry, s \in FreeSlots :
                      /\ ~lock /\ entries[e].state = "ReqPos" /\ Served({"ReqPos"}, in) = <<e>>
                      /\ PosFire(in) = <<[slot |-> s, ch |-> Channel(entries[e])]>>
  OBVIOUS
<1>1. ~lock /\ Served({"ReqPos"}, in) # <<>>
      /\ ReplSelWay(Channel(entries[Served({"ReqPos"}, in)[1]])) # {}
  BY DEF PosFire
<1>2. PICK e \in Entry : Served({"ReqPos"}, in) = <<e>> /\ entries[e].state = "ReqPos"
  BY <1>1, ServedOne
<1> DEFINE f == Served({"ReqPos"}, in)[1]
           s == CHOOSE x \in ReplSelWay(Channel(entries[f])) : TRUE
<1>3. f = e
  BY <1>2
<1>4. s \in ReplSelWay(Channel(entries[f])) /\ s \in FreeSlots
  BY <1>1 DEF ReplSelWay
<1>5. PosFire(in) = <<[slot |-> s, ch |-> Channel(entries[f])]>>
  BY <1>1 DEF PosFire, Map
<1> HIDE DEF s, f
<1> QED BY <1>1, <1>2, <1>3, <1>4, <1>5

\* A clean releases a slot of the entry that is served.
LEMMA CleanOf ==
  ASSUME NEW in \in ReplInputs, ReplTypeOK
  PROVE  \/ Cleaned(in) = <<>> /\ Served(Clean, in) = <<>>
         \/ \E e \in Entry : Served(Clean, in) = <<e>> /\ entries[e].state \in Clean
                             /\ Cleaned(in) = <<Release(e)>>
BY ServedAsks DEF Cleaned, Map

\* The slots, and the names of those kept for victims.
LEMMA SlotNames == SnpSlot \in Slot /\ ReqSlot \in Slot /\ Norm \subseteq Slot
BY DEF Slot

-----------------------------------------------------------------------------
(* An entry at an edge.                                                    *)

\* The slot an entry is to get, or has got, is its own.
LEMMA ReplOwned ==
  ASSUME ReplTypeOK, EntryShape, NEW e \in Entry, entries[e].state # "Free"
  PROVE  entries[e].repl \in Owns(e)
<1> DEFINE r == entries[e]
<1>1. ShapeOf(r) /\ r.state \in States
  BY DEF EntryShape, ReplTypeOK
<1>2. CASE r.state \in {"ReqPos", "WaitPos"}
  BY <1>1, <1>2 DEF ShapeOf, Owns, Owes, Owing, Holds, Second
<1>3. CASE r.state \notin {"ReqPos", "WaitPos"} /\ IsReplDIR(r)
  BY <1>3 DEF Owns, Holds
<1>4. CASE ~IsReplDIR(r)
  BY <1>1, <1>4 DEF ShapeOf, Owns, Owes, Owing, Second, IsReplDIR, IsReplSF, States
<1> QED BY <1>2, <1>3, <1>4

\* An answer of a channel machine finds the one entry that waits for it; data
\* finds one that snoops.
LEMMA CmOnly ==
  ASSUME IInv, NEW in \in ReplInputs, NEW e \in Entry, CmRespHit(entries[e], in)
  PROVE  /\ entries[e].state \in {"WaitRSnp", "WaitRWri"}
         /\ in.cm[1].data => entries[e].state = "WaitRSnp"
<1>1. in.cm # <<>> /\ in.cm[1].slot = entries[e].repl /\ entries[e].state # "Free"
  BY DEF CmRespHit
<1>2. PICK c \in cms : c.slot = in.cm[1].slot /\ (in.cm[1].data => c.kind = "snp")
  <2>1. PICK c \in cms, d \in BOOLEAN : in.cm[1] = [slot |-> c.slot, data |-> d]
    <3>1. in.cm[1] \in CmAnswers
      BY <1>1, Inputs, OptItem
    <3> QED BY <3>1 DEF CmAnswers
  <2>2. CASE in.cm[1].data
    <3>1. [slot |-> in.cm[1].slot, kind |-> "snp"] \in cms
      BY <1>1, <2>2, Inputs
    <3> QED BY <3>1
  <2>3. CASE ~in.cm[1].data
    BY <2>1, <2>3
  <2> QED BY <2>2, <2>3
<1>3. PICK f \in Entry :
        /\ entries[f].repl = c.slot
        /\ \/ c.kind = "snp" /\ entries[f].state = "WaitRSnp"
           \/ c.kind = "wri" /\ entries[f].state = "WaitRWri"
  BY DEF IInv, Awaited
<1>4. entries[e].repl \in Owns(e) /\ entries[f].repl \in Owns(f)
  BY <1>1, <1>3, ReplOwned DEF IInv
<1>5. e = f
  BY <1>1, <1>2, <1>3, <1>4 DEF IInv, Apart
<1> QED BY <1>2, <1>3, <1>5

\* Where a state leads.
LEMMA NextStates ==
  ASSUME ReplTypeOK, NEW in \in ReplInputs, NEW e \in Entry
  PROVE  LET r == entries[e]
             st == NextState(e, in)
             srv == Served({r.state}, in) = <<e>>
             cln == Served(Clean, in) = <<e>>
         IN /\ r.state = "Free" => st = "Free"
            /\ r.state = "ReqPos" => st = IF srv THEN "WaitPos" ELSE "ReqPos"
            /\ r.state = "WaitPos" => st = IF posResp # <<>> THEN "WriDir" ELSE "ReqPos"
            /\ r.state = "WriDir" =>
                 st = IF ~srv THEN "WriDir" ELSE IF IsReplDIR(r) THEN "WaitDir"
                      ELSE IF r.sf = "direct" THEN "WaitWriDir" ELSE "RespCmt"
            /\ r.state = "WaitWriDir" => st = IF DoneHit(r, in) THEN "RespCmt" ELSE "WaitWriDir"
            /\ r.state = "WaitDir" =>
                 st = IF ~DirHit(e, in) THEN "WaitDir" ELSE IF IsReplSF(r) THEN "RespCmt"
                      ELSE IF in.dir[1].victim = "moves" THEN "UpdateId" ELSE "SaveData"
            /\ r.state = "UpdateId" => st = "Write"
            /\ r.state = "RespCmt" => st = IF srv THEN AfterResp(r) ELSE "RespCmt"
            /\ r.state = "ReqDB" => st = IF srv THEN "Snoop" ELSE "ReqDB"
            /\ r.state = "Write" => st = IF srv THEN "WaitRWri" ELSE "Write"
            /\ r.state = "Snoop" => st = IF srv THEN "WaitRSnp" ELSE "Snoop"
            /\ r.state = "WaitRWri" => st = IF CmRespHit(r, in) THEN AfterVictim(r) ELSE "WaitRWri"
            /\ r.state = "WaitRSnp" =>
                 st = IF ~CmRespHit(r, in) THEN "WaitRSnp"
                      ELSE IF in.cm[1].data THEN "CopyId" ELSE "CleanPosR"
            /\ r.state = "CopyId" => st = "ReqPos"
            /\ r.state = "SaveData" => st = IF srv THEN "WaitResp" ELSE "SaveData"
            /\ r.state = "WaitResp" => st = IF DataRespHit(r, in) THEN AfterVictim(r) ELSE "WaitResp"
            /\ r.state = "CleanPosT" => st = IF cln THEN "CleanPosR" ELSE "CleanPosT"
            /\ r.state = "CleanPosR" => st = IF cln THEN "Free" ELSE "CleanPosR"
BY DEF NextState, Clean, PosRespHit

\* What becomes of the registers of an entry that gets no task.
LEMMA NextFields ==
  ASSUME IInv, NEW in \in ReplInputs, ReplTick(in), NEW e \in Entry, AllocFire(in) # <<e>>
  PROVE  LET r == entries[e]
             n == entries'[e]
             brought == r.state = "WaitRSnp" /\ n.state = "CopyId"
             found == r.state = "WaitDir" /\ n.state # "WaitDir" /\ IsReplSF(r)
         IN /\ n.state = NextState(e, in)
            /\ n.state = "Free" => n = NoReg
            /\ n.state # "Free" =>
                 /\ n.hn = IF r.state = "CopyId" THEN r.repl ELSE r.hn
                 /\ n.repl = IF r.state = "WaitPos" /\ posResp # <<>> THEN posResp[1] ELSE r.repl
                 /\ n.sf = IF brought THEN "no" ELSE r.sf
                 /\ n.llc = IF brought THEN "repl" ELSE r.llc
                 /\ n.needSnp = IF found THEN in.dir[1].victim = "moves" ELSE r.needSnp
                 /\ n.alrSF = (r.alrSF \/ found)
<1> DEFINE r == entries[e]
           st == NextState(e, in)
           data == CmRespHit(r, in) /\ in.cm[1].data
           sfHit == DirHit(e, in) /\ IsReplSF(r)
<1>0. ReplTypeOK
  BY DEF IInv
<1>1. entries'[e] = NextEntry(e, in)
  BY DEF ReplTick
<1>2. NextEntry(e, in) =
        IF st = "Free" THEN NoReg
        ELSE [state |-> st,
              hn |-> IF r.state = "CopyId" THEN r.repl ELSE r.hn,
              repl |-> IF PosRespHit(r) THEN posResp[1] ELSE r.repl,
              sf |-> IF data THEN "no" ELSE r.sf,
              llc |-> IF data THEN "repl" ELSE r.llc,
              needSnp |-> IF sfHit THEN in.dir[1].victim = "moves" ELSE r.needSnp,
              alrSF |-> r.alrSF \/ sfHit]
  BY DEF NextEntry
<1>3. data <=> r.state = "WaitRSnp" /\ st = "CopyId"
  <2>1. data => r.state = "WaitRSnp"
    BY CmOnly
  <2>2. r.state = "WaitRSnp" => (st = "CopyId" <=> data)
    BY <1>0, NextStates
  <2> QED BY <2>1, <2>2
<1>4. sfHit <=> r.state = "WaitDir" /\ st # "WaitDir" /\ IsReplSF(r)
  <2>1. DirHit(e, in) => r.state = "WaitDir"
    BY DEF DirHit
  <2>2. r.state = "WaitDir" => (st # "WaitDir" <=> DirHit(e, in))
    BY <1>0, NextStates
  <2> QED BY <2>1, <2>2
<1>5. PosRespHit(r) <=> r.state = "WaitPos" /\ posResp # <<>>
  BY DEF PosRespHit
<1>6. NoReg.state = "Free"
  BY DEF NoReg
<1> HIDE DEF st, data, sfHit
<1> QED BY <1>1, <1>2, <1>3, <1>4, <1>5, <1>6 DEF st

\* The slot just granted belongs to no entry.
LEMMA GrantApart ==
  ASSUME IInv, posResp # <<>>
  PROVE  /\ posResp[1] \in Slot /\ posResp = <<posResp[1]>>
         /\ \A e \in Entry : posResp[1] \notin Owns(e)
<1>1. posResp[1] \in Slot /\ posResp = <<posResp[1]>>
  BY OptItem DEF IInv, ReplTypeOK
<1>2. ASSUME NEW e \in Entry PROVE posResp[1] \notin Holds(e)
  BY <1>1 DEF IInv, OneLocks
<1>3. ASSUME NEW e \in Entry, Owes(e) PROVE posResp[1] # entries[e].hn
  BY <1>1, <1>3 DEF IInv, TxOwned
<1> QED BY <1>1, <1>2, <1>3 DEF Owns

\* The registers of an entry that gets a task.
LEMMA AllocFields ==
  ASSUME IInv, NEW in \in ReplInputs, ReplTick(in), NEW e \in Entry, AllocFire(in) = <<e>>
  PROVE  /\ entries[e] = NoReg /\ in.task # <<>>
         /\ in.task[1].hn \in Norm /\ tx[in.task[1].hn] = "open" /\ left > 0
         /\ LET n == entries'[e]
            IN /\ n.state = IF IsReplDIR(n) THEN "ReqPos" ELSE "WriDir"
               /\ n.hn = in.task[1].hn /\ n.repl = in.task[1].hn
               /\ n.sf \in {"no", "hit", "direct", "repl"} /\ n.llc \in {"no", "hit", "repl"}
               /\ n.needSnp = FALSE /\ n.alrSF = FALSE
               /\ n = [state |-> n.state, hn |-> n.hn, repl |-> n.repl, sf |-> n.sf, llc |-> n.llc,
                       needSnp |-> n.needSnp, alrSF |-> n.alrSF]
<1> DEFINE t == in.task[1]
           n == entries'[e]
<1>1. entries[e].state = "Free" /\ in.task # <<>>
  BY AllocTo DEF IInv
<1>2. entries[e] = NoReg
  BY <1>1 DEF IInv, EntryShape, ShapeOf
<1>3. PICK s \in Norm, k \in Kinds :
        /\ tx[s] = "open" /\ left > 0
        /\ t = [state |-> "Free", hn |-> s, repl |-> s, sf |-> k.sf, llc |-> k.llc,
                needSnp |-> FALSE, alrSF |-> FALSE]
  BY <1>1, NewTask
<1>4. k.sf \in {"no", "hit", "direct", "repl"} /\ k.llc \in {"no", "hit", "repl"}
  BY DEF Kinds
<1>5. n = [t EXCEPT !.state = IF IsReplDIR(t) THEN "ReqPos" ELSE "WriDir"]
  BY DEF ReplTick, NextEntry
<1>7. n = [state |-> IF IsReplDIR(t) THEN "ReqPos" ELSE "WriDir", hn |-> s, repl |-> s,
           sf |-> k.sf, llc |-> k.llc, needSnp |-> FALSE, alrSF |-> FALSE]
  <2> HIDE DEF n, t
  <2> QED BY <1>3, <1>5
<1>8. IsReplDIR(n) <=> IsReplDIR(t)
  BY <1>3, <1>7 DEF IsReplDIR
<1> HIDE DEF n, t
<1> QED BY <1>1, <1>2, <1>3, <1>4, <1>7, <1>8 DEF t, n

-----------------------------------------------------------------------------
(* What an entry holds after an edge.                                      *)

EntrySet == [state : States, hn : Slot, repl : Slot, sf : {"no", "hit", "direct", "repl"},
             llc : {"no", "hit", "repl"}, needSnp : BOOLEAN, alrSF : BOOLEAN]

LEMMA EntryMade ==
  ASSUME NEW n, n.state \in States, n.hn \in Slot, n.repl \in Slot,
         n.sf \in {"no", "hit", "direct", "repl"}, n.llc \in {"no", "hit", "repl"},
         n.needSnp \in BOOLEAN, n.alrSF \in BOOLEAN,
         n = [state |-> n.state, hn |-> n.hn, repl |-> n.repl, sf |-> n.sf, llc |-> n.llc,
              needSnp |-> n.needSnp, alrSF |-> n.alrSF]
  PROVE  n \in EntrySet
<1>1. [state |-> n.state, hn |-> n.hn, repl |-> n.repl, sf |-> n.sf, llc |-> n.llc,
       needSnp |-> n.needSnp, alrSF |-> n.alrSF] \in EntrySet
  BY DEF EntrySet
<1> QED BY <1>1

\* The edges of the state diagram.
Leads(r, st) ==
  \/ st = r.state /\ r.state \notin {"WaitPos", "UpdateId", "CopyId"}
  \/ r.state = "ReqPos" /\ st = "WaitPos"
  \/ r.state = "WaitPos" /\ st = IF posResp # <<>> THEN "WriDir" ELSE "ReqPos"
  \/ r.state = "WriDir" /\ IsReplDIR(r) /\ st = "WaitDir"
  \/ r.state = "WriDir" /\ ~IsReplDIR(r) /\ st \in {"WaitWriDir", "RespCmt"}
  \/ r.state = "WaitWriDir" /\ st = "RespCmt"
  \/ r.state = "WaitDir" /\ IsReplSF(r) /\ st = "RespCmt"
  \/ r.state = "WaitDir" /\ ~IsReplSF(r) /\ st \in {"UpdateId", "SaveData"}
  \/ r.state = "UpdateId" /\ st = "Write"
  \/ r.state = "RespCmt" /\ IsReplSF(r) /\ r.needSnp /\ st = "ReqDB"
  \/ r.state = "RespCmt" /\ IsReplDIR(r) /\ st = "CleanPosR"
  \/ r.state = "RespCmt" /\ ~IsReplDIR(r) /\ st = "Free"
  \/ r.state = "ReqDB" /\ st = "Snoop"
  \/ r.state = "Write" /\ st = "WaitRWri"
  \/ r.state = "Snoop" /\ st = "WaitRSnp"
  \/ r.state \in {"WaitRWri", "WaitResp"} /\ r.alrSF /\ st = "CleanPosT"
  \/ r.state \in {"WaitRWri", "WaitResp"} /\ ~r.alrSF /\ st = "RespCmt"
  \/ r.state = "WaitRSnp" /\ st \in {"CopyId", "CleanPosR"}
  \/ r.state = "CopyId" /\ st = "ReqPos"
  \/ r.state = "SaveData" /\ st = "WaitResp"
  \/ r.state = "CleanPosT" /\ st = "CleanPosR"
  \/ r.state = "CleanPosR" /\ st = "Free"

\* What an edge of the diagram does to the other registers.
Keeps(r, n) ==
  LET brought == r.state = "WaitRSnp" /\ n.state = "CopyId"
      found == r.state = "WaitDir" /\ n.state = "RespCmt"
  IN /\ n.hn = IF r.state = "CopyId" THEN r.repl ELSE r.hn
     /\ n.repl = IF r.state = "WaitPos" /\ posResp # <<>> THEN posResp[1] ELSE r.repl
     /\ n.sf = IF brought THEN "no" ELSE r.sf
     /\ n.llc = IF brought THEN "repl" ELSE r.llc
     /\ ~found => n.needSnp = r.needSnp
     /\ n.alrSF = (r.alrSF \/ found)

LEMMA EntryMoves ==
  ASSUME IInv, NEW in \in ReplInputs, ReplTick(in), NEW e \in Entry, AllocFire(in) # <<e>>
  PROVE  /\ Leads(entries[e], entries'[e].state)
         /\ IF entries'[e].state = "Free" THEN entries'[e] = NoReg ELSE Keeps(entries[e], entries'[e])
<1> DEFINE r == entries[e]
           n == entries'[e]
<1>1. r \in EntrySet /\ ReplTypeOK /\ ShapeOf(r)
  BY DEF IInv, ReplTypeOK, EntrySet, EntryShape
<1>2. n.state = NextState(e, in)
  BY NextFields
<1>3. r.state \in States
  BY <1>1 DEF EntrySet
<1>4. Leads(r, NextState(e, in))
  <2> DEFINE st == NextState(e, in)
             srv == Served({r.state}, in) = <<e>>
             cln == Served(Clean, in) = <<e>>
  <2>1. CASE r.state \in {"Free", "ReqPos", "WaitPos", "WriDir", "WaitWriDir", "WaitDir"}
    <3> HIDE DEF st
    <3> QED BY <1>1, <2>1, NextStates DEF Leads, st
  <2>2. CASE r.state = "RespCmt"
    <3>1. st = IF srv THEN AfterResp(r) ELSE "RespCmt"
      BY <1>1, <2>2, NextStates
    <3> HIDE DEF st, srv
    <3> QED BY <2>2, <3>1 DEF Leads, AfterResp, IsReplDIR, IsReplSF, st
  <2>4. CASE r.state \in {"UpdateId", "ReqDB", "Write", "Snoop", "WaitRWri", "WaitRSnp"}
    BY <1>1, <2>4, NextStates DEF Leads, AfterVictim
  <2>3. CASE r.state \in {"CopyId", "SaveData", "WaitResp", "CleanPosT", "CleanPosR"}
    BY <1>1, <2>3, NextStates DEF Leads, AfterVictim
  <2> QED BY <1>3, <2>1, <2>2, <2>3, <2>4 DEF States
<1>5. r.state = "WaitDir" /\ n.state # "WaitDir" /\ IsReplSF(r) <=> r.state = "WaitDir" /\ n.state = "RespCmt"
  BY <1>2, <1>4 DEF Leads
<1> QED BY <1>2, <1>4, <1>5, NextFields DEF Keeps

LEMMA EntryType ==
  ASSUME IInv, NEW in \in ReplInputs, ReplTick(in), NEW e \in Entry
  PROVE  entries'[e] \in EntrySet
<1> DEFINE r == entries[e]
           n == entries'[e]
<1>1. r \in EntrySet /\ ReplTypeOK
  BY DEF IInv, ReplTypeOK, EntrySet
<1>2. NoReg \in EntrySet
  BY SlotNames DEF NoReg, EntrySet, States
<1>3. CASE AllocFire(in) = <<e>>
  <2>1. n.hn \in Slot /\ n.state \in {"ReqPos", "WriDir"}
    BY <1>3, AllocFields, SlotNames
  <2>2. n = [state |-> n.state, hn |-> n.hn, repl |-> n.repl, sf |-> n.sf, llc |-> n.llc,
             needSnp |-> n.needSnp, alrSF |-> n.alrSF]
    BY <1>3, AllocFields
  <2>3. n.repl = n.hn /\ n.sf \in {"no", "hit", "direct", "repl"} /\ n.llc \in {"no", "hit", "repl"}
        /\ n.needSnp = FALSE /\ n.alrSF = FALSE
    BY <1>3, AllocFields
  <2>4. n.state \in States /\ n.repl \in Slot /\ n.needSnp \in BOOLEAN /\ n.alrSF \in BOOLEAN
    BY <2>1, <2>3 DEF States
  <2> QED BY <2>1, <2>2, <2>3, <2>4, EntryMade
<1>4. CASE AllocFire(in) # <<e>>
  <2>1. CASE n.state = "Free"
    BY <1>2, <1>4, <2>1, NextFields
  <2>2. CASE n.state # "Free"
    <3>1. n.state \in States
      BY <1>1, <1>4, EntryMoves DEF Leads, EntrySet, States
    <3>2. posResp # <<>> => posResp[1] \in Slot
      BY GrantApart
    <3>4. n = NextEntry(e, in) /\ NextState(e, in) # "Free"
      BY <1>4, <2>2, NextFields DEF ReplTick
    <3>5. n = [state |-> n.state, hn |-> n.hn, repl |-> n.repl, sf |-> n.sf, llc |-> n.llc,
               needSnp |-> n.needSnp, alrSF |-> n.alrSF]
      BY <1>4, <3>4 DEF NextEntry
    <3>6. n.hn \in Slot /\ n.repl \in Slot
      BY <1>1, <1>4, <2>2, <3>2, NextFields DEF EntrySet
    <3>7. n.sf \in {"no", "hit", "direct", "repl"} /\ n.llc \in {"no", "hit", "repl"}
      BY <1>1, <1>4, <2>2, NextFields DEF EntrySet
    <3>8. n.needSnp \in BOOLEAN /\ n.alrSF \in BOOLEAN
      BY <1>1, <1>4, <2>2, NextFields DEF EntrySet
    <3> QED BY <3>1, <3>5, <3>6, <3>7, <3>8, EntryMade
  <2> QED BY <2>1, <2>2
<1> QED BY <1>3, <1>4

LEMMA ShapeStep ==
  ASSUME IInv, NEW in \in ReplInputs, ReplTick(in), NEW e \in Entry
  PROVE  ShapeOf(entries'[e])
<1> DEFINE r == entries[e]
           n == entries'[e]
<1>1. r \in EntrySet /\ n \in EntrySet /\ ReplTypeOK /\ ShapeOf(r)
  BY EntryType DEF IInv, ReplTypeOK, EntrySet, EntryShape
<1>2. CASE AllocFire(in) = <<e>>
  <2>1. /\ n.state = IF IsReplDIR(n) THEN "ReqPos" ELSE "WriDir"
        /\ n.repl = n.hn /\ n.alrSF = FALSE
    BY <1>2, AllocFields
  <2>2. n.state = "WriDir" => ~IsReplDIR(n)
    BY <2>1
  <2> SUFFICES ShapeOf(n)
    OBVIOUS
  <2> HIDE DEF n
  <2> QED BY <2>1, <2>2 DEF ShapeOf, IsReplDIR, IsReplSF, Second
<1>3. CASE AllocFire(in) # <<e>>
  <2>1. CASE n.state = "Free"
    <3>1. n = NoReg
      BY <1>3, <2>1, NextFields
    <3>2. ShapeOf(NoReg)
      BY DEF ShapeOf, NoReg, IsReplDIR, IsReplSF, Second
    <3> QED BY <3>1, <3>2
  <2>2. CASE n.state # "Free"
    <3>1. r.state = "WaitPos" /\ posResp # <<>> => posResp[1] # r.hn
      <4>1. r.state = "WaitPos" => r.repl = r.hn /\ r.repl \in Owns(e)
        BY <1>1, ReplOwned DEF ShapeOf, IInv
      <4> QED BY <4>1, GrantApart
    <3>2. Leads(r, n.state) /\ Keeps(r, n)
      BY <1>3, <2>2, EntryMoves
    <3> SUFFICES ShapeOf(n)
      OBVIOUS
    <3> HIDE DEF r, n
    <3> QED BY <1>1, <2>2, <3>1, <3>2
            DEF ShapeOf, Leads, Keeps, EntrySet, States, IsReplDIR, IsReplSF, Second
  <2> QED BY <2>1, <2>2
<1> QED BY <1>2, <1>3

\* Who waits for an arbiter or an answer moves on when it comes.
LEMMA MovesWhen ==
  ASSUME IInv, NEW in \in ReplInputs, ReplTick(in), NEW e \in Entry
  PROVE  LET r == entries[e]
             moves == entries'[e].state # r.state
         IN /\ r.state \in {"ReqPos", "WriDir", "RespCmt", "Snoop", "Write", "SaveData"} =>
                 (moves <=> Served({r.state}, in) = <<e>>)
            /\ r.state \in Clean => (moves <=> Served(Clean, in) = <<e>>)
            /\ r.state = "WaitDir" => (moves <=> DirHit(e, in))
            /\ r.state = "WaitWriDir" => (moves <=> DoneHit(r, in))
            /\ r.state = "WaitResp" => (moves <=> DataRespHit(r, in))
            /\ r.state \in {"WaitRSnp", "WaitRWri"} => (moves <=> CmRespHit(r, in))
<1> DEFINE r == entries[e]
           st == NextState(e, in)
<1>1. ReplTypeOK
  BY DEF IInv
<1>2. CASE r.state = "Free"
  BY <1>2 DEF Clean
<1>3. CASE r.state # "Free"
  <2>1. entries'[e].state = st
    BY <1>1, <1>3, AllocTo, NextFields
  <2>2. CASE r.state \in {"ReqPos", "WriDir", "Snoop", "Write", "SaveData"}
    BY <1>1, <2>1, <2>2, NextStates DEF Clean
  <2>3. CASE r.state = "RespCmt"
    <3>1. AfterResp(r) # "RespCmt"
      BY DEF AfterResp
    <3> QED BY <1>1, <2>1, <2>3, <3>1, NextStates DEF Clean
  <2>4. CASE r.state \in Clean
    BY <1>1, <2>1, <2>4, NextStates DEF Clean
  <2>5. CASE r.state \in {"WaitDir", "WaitWriDir"}
    BY <1>1, <2>1, <2>5, NextStates DEF Clean
  <2>6. CASE r.state \in {"WaitResp", "WaitRSnp", "WaitRWri"}
    BY <1>1, <2>1, <2>6, NextStates DEF Clean, AfterVictim
  <2> QED BY <2>2, <2>3, <2>4, <2>5, <2>6 DEF Clean
<1> QED BY <1>2, <1>3

\* An entry takes the slot it was granted, and gives up what it has cleaned.
Granted(e) == IF entries[e].state = "WaitPos" /\ posResp # <<>> THEN {posResp[1]} ELSE {}
Released(e, in) == IF Served(Clean, in) = <<e>> THEN {Release(e).slot} ELSE {}

LEMMA HoldsStep ==
  ASSUME IInv, NEW in \in ReplInputs, ReplTick(in), NEW e \in Entry
  PROVE  Holds(e)' = (Holds(e) \cup Granted(e)) \ Released(e, in)
<1> DEFINE r == entries[e]
           n == entries'[e]
           cln == Served(Clean, in) = <<e>>
           granted(x) == IF x.state \in {"ReqPos", "WaitPos"} THEN {} ELSE {x.repl}
           holds(x) == IF ~IsReplDIR(x) THEN {}
                       ELSE IF Second(x) /\ x.state \notin {"CopyId", "CleanPosR"}
                            THEN granted(x) \cup {x.hn} ELSE granted(x)
           new == IF r.state = "WaitPos" /\ posResp # <<>> THEN {posResp[1]} ELSE {}
           gone == IF ~cln THEN {} ELSE IF r.state = "CleanPosT" THEN {r.hn} ELSE {r.repl}
<1>1. r \in EntrySet /\ n \in EntrySet /\ ReplTypeOK /\ ShapeOf(r) /\ ShapeOf(n)
  BY EntryType, ShapeStep DEF IInv, ReplTypeOK, EntrySet, EntryShape
<1>2. cln => r.state \in Clean
  BY <1>1, ServedIs
<1>3. Holds(e) = holds(r) /\ Holds(e)' = holds(n)
  BY DEF Holds
<1>4. Granted(e) = new /\ Released(e, in) = gone
  BY DEF Granted, Released, Release
<1>5. r.state \in Clean => (n.state # r.state <=> cln)
  BY MovesWhen
<1>6. holds(n) = (holds(r) \cup new) \ gone
  <2>1. CASE AllocFire(in) = <<e>>
    <3>1. r = NoReg /\ n.alrSF = FALSE /\ (IsReplDIR(n) => n.state = "ReqPos")
      BY <2>1, AllocFields
    <3>2. holds(n) = {}
      <4> HIDE DEF n
      <4> QED BY <3>1 DEF Second
    <3>3. holds(r) = {} /\ new = {} /\ gone = {}
      BY <1>2, <3>1 DEF NoReg, IsReplDIR, IsReplSF, Clean
    <3> QED BY <3>2, <3>3
  <2>2. CASE AllocFire(in) # <<e>>
    <3>1. Leads(r, n.state) /\ (n.state = "Free" => n = NoReg) /\ (n.state # "Free" => Keeps(r, n))
      BY <2>2, EntryMoves
    <3> HIDE DEF r, n, cln
    <3>2. CASE n.state = "Free"
      <4>1. holds(n) = {}
        BY <3>1, <3>2 DEF NoReg, IsReplDIR, IsReplSF
      <4>2. CASE r.state \in {"Free", "RespCmt"}
        <5>1. ~cln /\ ~IsReplDIR(r)
          BY <1>1, <1>2, <3>1, <3>2, <4>2 DEF Leads, Clean, ShapeOf, NoReg, IsReplDIR, IsReplSF
        <5> QED BY <4>1, <4>2, <5>1
      <4>3. CASE r.state = "CleanPosR"
        BY <1>1, <1>5, <3>1, <3>2, <4>1, <4>3 DEF Leads, Clean, ShapeOf
      <4> QED BY <3>1, <3>2, <4>2, <4>3 DEF Leads
    <3>3. CASE n.state # "Free"
      BY <1>1, <1>2, <1>5, <3>1, <3>3 DEF Leads, Keeps, Second, IsReplDIR, IsReplSF, ShapeOf, Clean
    <3> QED BY <3>2, <3>3
  <2> QED BY <2>1, <2>2
<1> QED BY <1>3, <1>4, <1>6

\* Who owes an answer has owed it before, unless it has just got the task.
LEMMA OwesStep ==
  ASSUME IInv, NEW in \in ReplInputs, ReplTick(in), NEW e \in Entry, Owes(e)'
  PROVE  \/ /\ AllocFire(in) = <<e>> /\ entries'[e].hn = in.task[1].hn
            /\ in.task[1].hn \in Norm /\ tx[in.task[1].hn] = "open"
         \/ /\ AllocFire(in) # <<e>> /\ Owes(e) /\ entries'[e].hn = entries[e].hn
            /\ Served({"RespCmt"}, in) # <<e>>
<1> DEFINE r == entries[e]
           n == entries'[e]
<1>1. r \in EntrySet /\ n \in EntrySet /\ ReplTypeOK /\ ShapeOf(r) /\ ShapeOf(n)
  BY EntryType, ShapeStep DEF IInv, ReplTypeOK, EntrySet, EntryShape
<1>2. ~Second(n) /\ n.state \in Owing
  BY DEF Owes
<1>3. CASE AllocFire(in) = <<e>>
  BY <1>3, AllocFields
<1>4. CASE AllocFire(in) # <<e>>
  <2>1. Leads(r, n.state) /\ (n.state = "Free" => n = NoReg) /\ (n.state # "Free" => Keeps(r, n))
    BY <1>4, EntryMoves
  <2>2. Served({"RespCmt"}, in) = <<e>> => r.state = "RespCmt" /\ n.state # "RespCmt"
    BY <1>1, ServedIs, MovesWhen
  <2>3. ~Second(r) /\ r.state \in Owing /\ n.hn = r.hn /\ ~(r.state = "RespCmt" /\ n.state # "RespCmt")
    <3> HIDE DEF r, n
    <3> QED BY <1>1, <1>2, <2>1 DEF Leads, Keeps, Owing, Second, IsReplDIR, IsReplSF, ShapeOf
  <2> QED BY <1>4, <2>2, <2>3 DEF Owes
<1> QED BY <1>3, <1>4

\* What a held slot is held for does not change, and a clean is for that.
LEMMA HeldForStep ==
  ASSUME IInv, NEW in \in ReplInputs, ReplTick(in), NEW e \in Entry, NEW s \in Holds(e)'
  PROVE  HeldFor(entries'[e], s) =
           IF s \in Granted(e) THEN Channel(entries[e]) ELSE HeldFor(entries[e], s)
<1> DEFINE r == entries[e]
           n == entries'[e]
           granted(x) == IF x.state \in {"ReqPos", "WaitPos"} THEN {} ELSE {x.repl}
           holds(x) == IF ~IsReplDIR(x) THEN {}
                       ELSE IF Second(x) /\ x.state \notin {"CopyId", "CleanPosR"}
                            THEN granted(x) \cup {x.hn} ELSE granted(x)
           new == IF r.state = "WaitPos" /\ posResp # <<>> THEN {posResp[1]} ELSE {}
<1>1. r \in EntrySet /\ n \in EntrySet /\ ReplTypeOK /\ ShapeOf(r) /\ ShapeOf(n)
  BY EntryType, ShapeStep DEF IInv, ReplTypeOK, EntrySet, EntryShape
<1>2. s \in holds(n)
  BY DEF Holds
<1>3. Granted(e) = new
  BY DEF Granted
<1>4. AllocFire(in) # <<e>> /\ n.state # "Free"
  <2>1. ASSUME AllocFire(in) = <<e>> PROVE FALSE
    <3>1. n.alrSF = FALSE /\ (IsReplDIR(n) => n.state = "ReqPos")
      BY <2>1, AllocFields
    <3> HIDE DEF n
    <3> QED BY <1>2, <3>1 DEF Second
  <2>2. ASSUME n.state = "Free" PROVE FALSE
    <3>1. n = NoReg
      BY <1>1, <2>2 DEF ShapeOf
    <3> HIDE DEF n
    <3> QED BY <1>2, <3>1 DEF NoReg, IsReplDIR, IsReplSF
  <2> QED BY <2>1, <2>2
<1>5. Leads(r, n.state) /\ Keeps(r, n)
  BY <1>4, EntryMoves
<1>6. r.state = "WaitPos" /\ posResp # <<>> => posResp[1] # r.hn
  <2>1. r.state = "WaitPos" => r.repl = r.hn /\ r.repl \in Owns(e)
    BY <1>1, ReplOwned DEF ShapeOf, IInv
  <2> QED BY <2>1, GrantApart
<1>7. HeldFor(n, s) = IF s \in new THEN Channel(r) ELSE HeldFor(r, s)
  <2> HIDE DEF r, n
  <2> QED BY <1>1, <1>2, <1>4, <1>5, <1>6
          DEF HeldFor, Channel, Leads, Keeps, Second, IsReplDIR, IsReplSF, ShapeOf
<1> QED BY <1>3, <1>7

LEMMA ReleasedFor ==
  ASSUME IInv, NEW in \in ReplInputs, NEW e \in Entry, Served(Clean, in) = <<e>>
  PROVE  /\ Release(e).slot \in Holds(e)
         /\ Release(e).ch = HeldFor(entries[e], Release(e).slot)
<1> DEFINE r == entries[e]
<1>1. r \in EntrySet /\ ReplTypeOK /\ ShapeOf(r)
  BY DEF IInv, ReplTypeOK, EntrySet, EntryShape
<1>2. r.state \in Clean
  BY <1>1, ServedIs
<1>3. CASE r.state = "CleanPosT"
  BY <1>1, <1>3 DEF Release, Holds, HeldFor, Second, IsReplDIR, IsReplSF, ShapeOf
<1>4. CASE r.state = "CleanPosR"
  BY <1>1, <1>4 DEF Release, Holds, HeldFor, Channel, Second, IsReplDIR, IsReplSF, ShapeOf
<1> QED BY <1>2, <1>3, <1>4 DEF Clean

-----------------------------------------------------------------------------
(* The transactions and the slots at an edge.                              *)

\* Of a task, an opening and a closing at most one happens at an edge, and a
\* slot that is opened is free while nobody asks for one.
LEMMA TxInputs ==
  ASSUME IInv, NEW in \in ReplInputs
  PROVE  /\ in.task # <<>> => in.open = <<>> /\ in.close = <<>>
         /\ in.open # <<>> => in.close = <<>>
         /\ in.open # <<>> =>
              /\ in.open = <<in.open[1]>> /\ in.open[1] \in Norm
              /\ slots[in.open[1]] = {} /\ tx[in.open[1]] = "none"
              /\ PosFire(in) = <<>>
         /\ in.close # <<>> =>
              /\ in.close = <<in.close[1]>> /\ in.close[1] \in Norm
              /\ tx[in.close[1]] \in {"open", "answered"}
<1>1. Len(in.task) + Len(in.open) + Len(in.close) <= 1
  BY DEF ReplInputs
<1>2. /\ Len(in.task) \in Nat /\ (in.task # <<>> => Len(in.task) = 1)
      /\ Len(in.open) \in Nat /\ (in.open # <<>> => Len(in.open) = 1)
      /\ Len(in.close) \in Nat /\ (in.close # <<>> => Len(in.close) = 1)
  BY Inputs, OptIsSeq
<1>3. ASSUME in.open # <<>>
      PROVE  /\ in.open = <<in.open[1]>> /\ in.open[1] \in Norm
             /\ slots[in.open[1]] = {} /\ tx[in.open[1]] = "none"
             /\ PosFire(in) = <<>>
  <2>1. in.open[1] \in Openable /\ in.open = <<in.open[1]>>
    BY <1>3, Inputs, OptItem
  <2>2. in.open[1] \in FreeSlots \cap Norm /\ At("ReqPos") = {}
    BY <2>1 DEF Openable
  <2>3. in.open[1] \in Norm /\ slots[in.open[1]] = {}
    BY <2>2 DEF FreeSlots
  <2>4. tx[in.open[1]] = "none"
    BY <2>3, SlotNames DEF IInv, SlotsHeld
  <2>5. PosFire(in) = <<>>
    <3>1. \A e \in Entry : entries[e].state # "ReqPos"
      BY <2>2 DEF At
    <3> QED BY <3>1, PosGrant DEF IInv
  <2> QED BY <2>1, <2>3, <2>4, <2>5
<1>4. ASSUME in.close # <<>>
      PROVE  /\ in.close = <<in.close[1]>> /\ in.close[1] \in Norm
             /\ tx[in.close[1]] \in {"open", "answered"}
  <2>1. in.close[1] \in Closeable /\ in.close = <<in.close[1]>>
    BY <1>4, Inputs, OptItem
  <2> QED BY <2>1 DEF Closeable
<1>5. /\ in.task # <<>> => in.open = <<>> /\ in.close = <<>>
      /\ in.open # <<>> => in.close = <<>>
  <2> DEFINE a == Len(in.task)  b == Len(in.open)  c == Len(in.close)
  <2>1. a + b + c <= 1 /\ a \in Nat /\ b \in Nat /\ c \in Nat
    BY <1>1, <1>2
  <2>2. (in.task # <<>> => a = 1) /\ (in.open # <<>> => b = 1) /\ (in.close # <<>> => c = 1)
    BY <1>2
  <2> HIDE DEF a, b, c
  <2> QED BY <2>1, <2>2
<1> QED BY <1>3, <1>4, <1>5

\* The one whose answer is sent.
LEMMA Answering ==
  ASSUME IInv, NEW in \in ReplInputs, NEW s, Map(LAMBDA e : entries[e].hn, Served({"RespCmt"}, in)) = <<s>>
  PROVE  \E e \in Entry : /\ Served({"RespCmt"}, in) = <<e>> /\ entries[e].state = "RespCmt"
                          /\ entries[e].hn = s /\ Owes(e)
<1>1. Served({"RespCmt"}, in) # <<>>
  BY DEF Map
<1>2. PICK e \in Entry : Served({"RespCmt"}, in) = <<e>> /\ entries[e].state = "RespCmt"
  BY <1>1, ServedOne DEF IInv
<1>3. entries[e].hn = s
  BY <1>2 DEF Map
<1>4. Owes(e)
  BY <1>2 DEF IInv, EntryShape, ShapeOf, Owes, Owing
<1> QED BY <1>2, <1>3, <1>4

LEMMA TxStep ==
  ASSUME IInv, NEW in \in ReplInputs, ReplEnv(in), NEW s \in Norm
  PROVE  /\ in.open = <<s>> => tx'[s] = "open"
         /\ in.close = <<s>> => tx'[s] = "none"
         /\ in.open # <<s>> /\ in.close # <<s>> => (tx'[s] = "none" <=> tx[s] = "none")
         /\ AllocFire(in) # <<>> /\ in.task[1].hn = s => tx'[s] = "asked"
         /\ tx[s] = "asked" =>
              \/ tx'[s] = "asked"
              \/ \E e \in Entry : Served({"RespCmt"}, in) = <<e>> /\ Owes(e) /\ entries[e].hn = s
         /\ tx'[s] = "answered" =>
              \/ tx[s] = "answered" /\ ~(AllocFire(in) # <<>> /\ in.task[1].hn = s)
              \/ \E e \in Entry : Served({"RespCmt"}, in) = <<e>> /\ Owes(e) /\ entries[e].hn = s
         /\ tx'[s] \in {"none", "open", "asked", "answered"}
<1> DEFINE alloc == AllocFire(in) # <<>> /\ in.task[1].hn = s
           answer == Map(LAMBDA e : entries[e].hn, Served({"RespCmt"}, in)) = <<s>>
<1>1. tx'[s] = IF in.open = <<s>> THEN "open"
               ELSE IF in.close = <<s>> THEN "none"
               ELSE IF alloc THEN "asked"
               ELSE IF answer THEN "answered" ELSE tx[s]
  BY DEF ReplEnv
<1>2. answer => /\ tx[s] = "asked"
                /\ \E e \in Entry : Served({"RespCmt"}, in) = <<e>> /\ Owes(e) /\ entries[e].hn = s
  <2> SUFFICES ASSUME answer
               PROVE  /\ tx[s] = "asked"
                      /\ \E e \in Entry : Served({"RespCmt"}, in) = <<e>> /\ Owes(e) /\ entries[e].hn = s
    OBVIOUS
  <2>1. PICK e \in Entry : Served({"RespCmt"}, in) = <<e>> /\ entries[e].hn = s /\ Owes(e)
    BY Answering
  <2>2. tx[s] = "asked"
    BY <2>1 DEF IInv, TxOwned
  <2> QED BY <2>1, <2>2
<1>3. alloc => in.task # <<>> /\ tx[s] = "open"
  <2>1. AllocFire(in) # <<>> => in.task # <<>>
    BY DEF AllocFire
  <2>2. in.task # <<>> => tx[in.task[1].hn] = "open"
    <3> SUFFICES ASSUME in.task # <<>> PROVE tx[in.task[1].hn] = "open"
      OBVIOUS
    <3>1. PICK n \in Norm, k \in Kinds :
            /\ tx[n] = "open" /\ left > 0
            /\ in.task[1] = [state |-> "Free", hn |-> n, repl |-> n, sf |-> k.sf, llc |-> k.llc,
                             needSnp |-> FALSE, alrSF |-> FALSE]
      BY NewTask
    <3>2. in.task[1].hn = n
      BY <3>1
    <3> QED BY <3>1, <3>2
  <2> QED BY <2>1, <2>2
<1>4. tx[s] \in {"none", "open", "asked", "answered"}
  BY DEF IInv, TxOwned
<1>5. /\ in.open = <<s>> => tx[s] = "none" /\ in.close = <<>>
      /\ in.close = <<s>> => tx[s] \in {"open", "answered"}
  <2>1. in.open = <<s>> => in.open # <<>> /\ in.open[1] = s
    OBVIOUS
  <2>2. in.close = <<s>> => in.close # <<>> /\ in.close[1] = s
    OBVIOUS
  <2> QED BY <2>1, <2>2, TxInputs
<1>6. in.task # <<>> => in.open # <<s>> /\ in.close # <<s>>
  BY TxInputs
<1> HIDE DEF alloc, answer
<1> QED BY <1>1, <1>2, <1>3, <1>4, <1>5, <1>6 DEF alloc

\* A slot at an edge: released, granted, opened, closed, or left as it is.
LEMMA SlotStep ==
  ASSUME IInv, NEW in \in ReplInputs, ReplTick(in), NEW s \in Slot
  PROVE  /\ \A e \in Entry : s \in Released(e, in) => slots'[s] = {}
         /\ PosFire(in) # <<>> /\ PosFire(in)[1].slot = s =>
              slots[s] = {} /\ slots'[s] = {PosFire(in)[1].ch}
         /\ in.open = <<s>> => slots[s] = {} /\ slots'[s] = {"req"}
         /\ in.close = <<s>> => slots'[s] = {}
         /\ \/ slots'[s] = slots[s]
            \/ \E e \in Entry : s \in Released(e, in)
            \/ PosFire(in) # <<>> /\ PosFire(in)[1].slot = s
            \/ in.open = <<s>>
            \/ in.close = <<s>>
<1> DEFINE gone == Cleaned(in)
           got == PosFire(in)
           lost == IF gone # <<>> /\ gone[1].slot = s THEN {gone[1].ch} ELSE {}
           new == IF got # <<>> /\ got[1].slot = s THEN {got[1].ch} ELSE {}
           opened == IF in.open = <<s>> THEN {"req"} ELSE {}
           closed == IF in.close = <<s>> THEN {"req"} ELSE {}
           released == \E e \in Entry : s \in Released(e, in)
           granted == got # <<>> /\ got[1].slot = s
<1>1. slots'[s] = ((slots[s] \cup new \cup opened) \ lost) \ closed
  BY DEF ReplTick, NextSlot
<1>2. released <=> gone # <<>> /\ gone[1].slot = s
  <2>1. CASE gone = <<>>
    <3>1. Served(Clean, in) = <<>>
      BY <2>1, CleanOf DEF IInv
    <3> QED BY <2>1, <3>1 DEF Released
  <2>2. CASE gone # <<>>
    <3>1. PICK e \in Entry : Served(Clean, in) = <<e>> /\ gone = <<Release(e)>>
      BY <2>2, CleanOf DEF IInv
    <3>2. \A f \in Entry : Released(f, in) = IF f = e THEN {Release(e).slot} ELSE {}
      BY <3>1 DEF Released
    <3> QED BY <2>2, <3>1, <3>2
  <2> QED BY <2>1, <2>2
<1>3. released => slots[s] = lost /\ \A c \in slots[s] : slots[s] = {c}
  <2> SUFFICES ASSUME released PROVE slots[s] = lost /\ slots[s] = {gone[1].ch}
    OBVIOUS
  <2>1. gone # <<>> /\ gone[1].slot = s
    BY <1>2
  <2>2. PICK e \in Entry : Served(Clean, in) = <<e>> /\ gone = <<Release(e)>>
    BY <2>1, CleanOf DEF IInv
  <2>3. s \in Holds(e) /\ gone[1].ch = HeldFor(entries[e], s)
    BY <2>1, <2>2, ReleasedFor
  <2> QED BY <2>1, <2>3 DEF IInv, SlotsHeld
<1>4. granted => slots[s] = {} /\ in.open = <<>>
  <2> SUFFICES ASSUME granted PROVE slots[s] = {} /\ in.open = <<>>
    OBVIOUS
  <2>1. slots[s] = {}
    <3>1. PICK e \in Entry, x \in FreeSlots : got = <<[slot |-> x, ch |-> Channel(entries[e])]>>
      BY PosGrant DEF IInv
    <3> QED BY <3>1 DEF FreeSlots
  <2>2. in.open = <<>>
    BY TxInputs
  <2> QED BY <2>1, <2>2
<1>5. in.open = <<s>> => slots[s] = {} /\ in.close = <<>> /\ got = <<>>
  <2>1. in.open = <<s>> => in.open # <<>> /\ in.open[1] = s
    OBVIOUS
  <2> QED BY <2>1, TxInputs
<1>6. in.close = <<s>> => slots[s] = {"req"}
  <2> SUFFICES ASSUME in.close = <<s>> PROVE slots[s] = {"req"}
    OBVIOUS
  <2>1. s \in Norm /\ tx[s] \in {"open", "answered"}
    BY TxInputs
  <2> QED BY <2>1 DEF IInv, TxOwned
<1>7. released => slots[s] # {}
  <2> SUFFICES ASSUME released PROVE slots[s] # {}
    OBVIOUS
  <2> QED BY <1>2, <1>3
<1>8. released => new = {} /\ opened = {}
  BY <1>4, <1>5, <1>7
<1>9. granted => lost = {} /\ closed = {} /\ opened = {}
  <2> SUFFICES ASSUME granted PROVE lost = {} /\ closed = {} /\ opened = {}
    OBVIOUS
  <2>1. slots[s] = {} /\ in.open # <<s>>
    BY <1>4
  <2>2. lost = {}
    BY <1>2, <1>7, <2>1
  <2>3. in.close # <<s>>
    BY <1>6, <2>1
  <2> QED BY <2>1, <2>2, <2>3
<1>10. in.open = <<s>> => lost = {} /\ closed = {} /\ new = {}
  BY <1>2, <1>5, <1>7
<1>11. in.close = <<s>> => new = {} /\ opened = {}
  BY <1>4, <1>5, <1>6
<1> HIDE DEF gone, got
<1> QED BY <1>1, <1>2, <1>3, <1>4, <1>5, <1>6, <1>8, <1>9, <1>10, <1>11 DEF gone, got

-----------------------------------------------------------------------------
(* Each part of the invariant.                                             *)

\* What an edge brings an entry beyond what it had.
LEMMA OwnsStep ==
  ASSUME IInv, NEW in \in ReplInputs, ReplTick(in), NEW e \in Entry, NEW s \in Owns(e)'
  PROVE  \/ s \in Owns(e) /\ s \notin Released(e, in)
         \/ posResp = <<s>> /\ entries[e].state = "WaitPos"
         \/ AllocFire(in) = <<e>> /\ s = in.task[1].hn /\ s \in Norm /\ tx[s] = "open"
<1>1. CASE s \in Holds(e)'
  <2>1. s \in Holds(e) \cup Granted(e) /\ s \notin Released(e, in)
    BY <1>1, HoldsStep
  <2>2. s \in Granted(e) => posResp = <<s>> /\ entries[e].state = "WaitPos"
    BY GrantApart DEF Granted
  <2> QED BY <2>1, <2>2 DEF Owns
<1>2. CASE Owes(e)' /\ s = entries'[e].hn
  <2>1. CASE AllocFire(in) = <<e>>
    BY <1>2, <2>1, OwesStep
  <2>2. CASE AllocFire(in) # <<e>>
    <3>1. Owes(e) /\ s = entries[e].hn /\ s \in Owns(e)
      BY <1>2, <2>2, OwesStep DEF Owns
    <3>2. s \notin Holds(e)
      BY <3>1, SlotNames DEF IInv, TxOwned
    <3>3. Released(e, in) \subseteq Holds(e)
      BY ReleasedFor DEF Released
    <3> QED BY <3>1, <3>2, <3>3
  <2> QED BY <2>1, <2>2
<1> QED BY <1>1, <1>2 DEF Owns

LEMMA ApartStep ==
  ASSUME IInv, NEW in \in ReplInputs, ReplTick(in)
  PROVE  Apart'
<1> SUFFICES ASSUME NEW e \in Entry, NEW f \in Entry, e # f, NEW s \in Owns(e)', s \in Owns(f)'
             PROVE  FALSE
  BY DEF Apart
<1> DEFINE old(x) == s \in Owns(x)
           new(x) == posResp = <<s>> /\ entries[x].state = "WaitPos"
           task(x) == AllocFire(in) = <<x>> /\ s \in Norm /\ tx[s] = "open"
<1>1. (old(e) \/ new(e) \/ task(e)) /\ (old(f) \/ new(f) \/ task(f))
  BY OwnsStep
<1>2. ~(old(e) /\ old(f))
  BY DEF IInv, Apart
<1>3. ~(new(e) /\ new(f))
  BY DEF IInv, OneLocks
<1>4. ~(task(e) /\ task(f))
  <2>1. AllocFire(in) = <<e>> => AllocFire(in) # <<f>>
    OBVIOUS
  <2> QED BY <2>1
<1>5. posResp = <<s>> => ~old(e) /\ ~old(f) /\ ~task(e) /\ ~task(f)
  <2>1. posResp = <<s>> => posResp # <<>> /\ posResp[1] = s
    OBVIOUS
  <2> QED BY <2>1, GrantApart DEF IInv, TxOwned
<1>6. s \in Norm /\ tx[s] = "open" => ~old(e) /\ ~old(f)
  BY DEF Owns, IInv, TxOwned
<1> QED BY <1>1, <1>2, <1>3, <1>4, <1>5, <1>6

\* A slot that is held or granted is left alone but by its own clean.
LEMMA KeptSlot ==
  ASSUME IInv, NEW in \in ReplInputs, ReplTick(in), NEW s \in Slot, slots[s] # {},
         ~ \E e \in Entry : s \in Released(e, in),
         s \in Norm => tx[s] = "none"
  PROVE  slots'[s] = slots[s] /\ (PosFire(in) # <<>> => PosFire(in)[1].slot # s)
<1>1. in.close # <<s>>
  <2> SUFFICES ASSUME in.close = <<s>> PROVE FALSE
    OBVIOUS
  <2>1. s \in Norm /\ tx[s] \in {"open", "answered"}
    BY TxInputs
  <2> QED BY <2>1
<1>2. PosFire(in) # <<>> => PosFire(in)[1].slot # s
  BY SlotStep
<1>3. in.open # <<s>>
  BY SlotStep
<1> QED BY <1>1, <1>2, <1>3, SlotStep

\* Held slots belong to no transaction.
LEMMA HeldNoTx ==
  ASSUME IInv, NEW e \in Entry, NEW s \in Holds(e)
  PROVE  (s \in Norm => tx[s] = "none") /\ posResp # <<s>> /\ s \in Slot /\ slots[s] # {}
<1>1. s \in Slot
  BY DEF IInv, ReplTypeOK, Holds
<1> QED BY <1>1 DEF IInv, TxOwned, OneLocks, SlotsHeld

LEMMA SlotsHeldStep ==
  ASSUME IInv, NEW in \in ReplInputs, ReplTick(in), ReplEnv(in)
  PROVE  SlotsHeld'
<1>1. ASSUME NEW e \in Entry, NEW s \in Holds(e)'
      PROVE  slots'[s] = {HeldFor(entries'[e], s)}
  <2>1. s \in Holds(e) \cup Granted(e) /\ s \notin Released(e, in)
    BY HoldsStep
  <2>2. \A f \in Entry : Released(f, in) \subseteq Holds(f)
    BY ReleasedFor DEF Released
  <2>3. CASE s \in Holds(e) /\ s \notin Granted(e)
    <3>1. \A f \in Entry : s \notin Released(f, in)
      BY <2>1, <2>2, <2>3 DEF IInv, Apart, Owns
    <3>2. slots'[s] = slots[s]
      BY <2>3, <3>1, HeldNoTx, KeptSlot
    <3> QED BY <2>3, <3>2, HeldForStep DEF IInv, SlotsHeld
  <2>4. CASE s \in Granted(e)
    <3>1. posResp # <<>> /\ s = posResp[1] /\ entries[e].state = "WaitPos"
      BY <2>4 DEF Granted
    <3>2. s \in Slot /\ posResp = <<s>> /\ \A f \in Entry : s \notin Owns(f)
      BY <3>1, GrantApart
    <3>3. slots[s] = {Channel(entries[e])}
      BY <3>1, <3>2 DEF IInv, OneLocks
    <3>4. \A f \in Entry : s \notin Released(f, in)
      BY <2>2, <3>2 DEF Owns
    <3>5. s \in Norm => tx[s] = "none"
      BY <3>2 DEF IInv, TxOwned
    <3>6. slots'[s] = slots[s]
      BY <3>2, <3>3, <3>4, <3>5, KeptSlot
    <3> QED BY <2>4, <3>3, <3>6, HeldForStep
  <2> QED BY <2>1, <2>3, <2>4
<1>2. ASSUME NEW s \in Slot
      PROVE  slots'[s] = {} <=>
               (s \in Norm => tx'[s] = "none") /\ posResp' # <<s>> /\ \A e \in Entry : s \notin Holds(e)'
  <2> DEFINE has(e) == s \in Holds(e)'
             fate == (s \in Norm => tx'[s] = "none") /\ posResp' # <<s>> /\ \A e \in Entry : ~has(e)
             granted == PosFire(in) # <<>> /\ PosFire(in)[1].slot = s
             released == \E e \in Entry : s \in Released(e, in)
  <2>1. posResp' = <<s>> <=> granted
    BY DEF ReplTick
  <2>2. \A e \in Entry : has(e) <=> (s \in Holds(e) \/ s \in Granted(e)) /\ s \notin Released(e, in)
    BY HoldsStep
  <2>3. \A e \in Entry : s \in Granted(e) <=> entries[e].state = "WaitPos" /\ posResp = <<s>>
    BY GrantApart DEF Granted
  <2>4. slots[s] = {} <=> (s \in Norm => tx[s] = "none") /\ posResp # <<s>> /\ \A e \in Entry : s \notin Holds(e)
    BY DEF IInv, SlotsHeld
  <2>5. posResp = <<s>> => \E e \in Entry : s \in Granted(e)
    BY <2>3 DEF IInv, OneLocks
  <2>6. CASE released
    <3>1. PICK e \in Entry : s \in Released(e, in)
      BY <2>6
    <3>2. s \in Holds(e) /\ slots'[s] = {}
      BY <3>1, ReleasedFor, SlotStep DEF Released
    <3>3. (s \in Norm => tx[s] = "none") /\ posResp # <<s>> /\ slots[s] # {}
      BY <3>2, HeldNoTx
    <3>4. ~granted /\ in.open # <<s>>
      BY <3>3, SlotStep
    <3>5. s \in Norm => tx'[s] = "none"
      BY <3>3, <3>4, TxStep
    <3>6. \A f \in Entry : f # e => s \notin Holds(f)
      BY <3>2 DEF IInv, Apart, Owns
    <3> QED BY <2>1, <2>2, <2>3, <3>1, <3>2, <3>3, <3>4, <3>5, <3>6
  <2>7. CASE granted
    <3>1. slots'[s] # {}
      BY <2>7, SlotStep
    <3> QED BY <2>1, <2>7, <3>1
  <2>8. CASE in.open = <<s>>
    <3>1. slots'[s] # {}
      BY <2>8, SlotStep
    <3>2. s \in Norm
      <4>1. in.open # <<>> /\ in.open[1] = s
        BY <2>8
      <4> QED BY <4>1, TxInputs
    <3>3. tx'[s] = "open"
      BY <2>8, <3>2, TxStep
    <3> QED BY <3>1, <3>2, <3>3
  <2>9. CASE in.close = <<s>>
    <3>1. slots'[s] = {}
      BY <2>9, SlotStep
    <3>2. s \in Norm /\ tx[s] # "none"
      <4>1. in.close # <<>> /\ in.close[1] = s
        BY <2>9
      <4> QED BY <4>1, TxInputs
    <3>3. tx'[s] = "none"
      BY <2>9, <3>2, TxStep
    <3>4. ~granted
      BY <3>1, SlotStep
    <3>5. posResp # <<s>> /\ \A e \in Entry : s \notin Holds(e)
      BY <3>2 DEF IInv, TxOwned
    <3> QED BY <2>1, <2>2, <2>3, <3>1, <3>3, <3>4, <3>5
  <2>10. CASE ~released /\ ~granted /\ in.open # <<s>> /\ in.close # <<s>>
    <3>1. slots'[s] = slots[s]
      BY <2>10, SlotStep
    <3>2. s \in Norm => (tx'[s] = "none" <=> tx[s] = "none")
      BY <2>10, TxStep
    <3>3. \A e \in Entry : has(e) <=> s \in Holds(e) \/ s \in Granted(e)
      BY <2>2, <2>10
    <3>4. (\E e \in Entry : has(e)) <=> (\E e \in Entry : s \in Holds(e)) \/ posResp = <<s>>
      BY <2>3, <2>5, <3>3
    <3>5. posResp' # <<s>>
      BY <2>1, <2>10
    <3>6. slots'[s] = {} <=> fate
      BY <2>4, <3>1, <3>2, <3>4, <3>5
    <3> QED BY <3>6
  <2> QED BY <2>6, <2>7, <2>8, <2>9, <2>10
<1> QED BY <1>1, <1>2 DEF SlotsHeld

LEMMA TxOwnedStep ==
  ASSUME IInv, NEW in \in ReplInputs, ReplTick(in), ReplEnv(in)
  PROVE  TxOwned'
<1>1. tx' \in [Norm -> {"none", "open", "asked", "answered"}]
  <2>1. \A s \in Norm : tx'[s] \in {"none", "open", "asked", "answered"}
    BY TxStep
  <2>2. tx' = [s \in Norm |-> tx'[s]]
    BY DEF ReplEnv
  <2> QED BY <2>1, <2>2
<1>2. ASSUME NEW e \in Entry, Owes(e)'
      PROVE  entries'[e].hn \in Norm /\ tx'[entries'[e].hn] = "asked"
  <2>1. CASE AllocFire(in) = <<e>>
    <3>1. entries'[e].hn = in.task[1].hn /\ in.task[1].hn \in Norm /\ AllocFire(in) # <<>>
      BY <1>2, <2>1, OwesStep
    <3> QED BY <3>1, TxStep
  <2>2. CASE AllocFire(in) # <<e>>
    <3> DEFINE s == entries[e].hn
    <3>1. Owes(e) /\ entries'[e].hn = s /\ Served({"RespCmt"}, in) # <<e>>
      BY <1>2, <2>2, OwesStep
    <3>2. s \in Norm /\ tx[s] = "asked"
      BY <3>1 DEF IInv, TxOwned
    <3>3. ASSUME NEW f \in Entry, Served({"RespCmt"}, in) = <<f>>, Owes(f), entries[f].hn = s
          PROVE  FALSE
      <4>1. e = f
        BY <3>1, <3>3 DEF Owns, IInv, Apart
      <4> QED BY <3>1, <3>3, <4>1
    <3>4. tx'[s] = "asked"
      BY <3>2, <3>3, TxStep
    <3> QED BY <3>1, <3>2, <3>4
  <2> QED BY <2>1, <2>2
<1>3. ASSUME NEW s \in Norm, tx'[s] # "none"
      PROVE  slots'[s] = {"req"} /\ posResp' # <<s>> /\ \A e \in Entry : s \notin Holds(e)'
  <2>1. posResp' = <<s>> => PosFire(in) # <<>> /\ PosFire(in)[1].slot = s
    BY DEF ReplTick
  <2>2. s \in Slot
    BY SlotNames
  <2>3. posResp = <<s>> => tx[s] = "none" /\ slots[s] # {}
    BY <2>2 DEF IInv, TxOwned, OneLocks
  <2>4. \A e \in Entry : s \in Granted(e) => posResp = <<s>>
    BY GrantApart DEF Granted
  <2>5. CASE in.open = <<s>>
    <3>1. slots[s] = {} /\ slots'[s] = {"req"}
      BY <2>2, <2>5, SlotStep
    <3>2. PosFire(in) = <<>>
      <4>1. in.open # <<>>
        BY <2>5
      <4> QED BY <4>1, TxInputs
    <3>3. \A e \in Entry : s \notin Holds(e)
      BY <2>2, <3>1, HeldNoTx
    <3>4. \A e \in Entry : s \notin Granted(e)
      BY <2>3, <2>4, <3>1
    <3> QED BY <2>1, <3>1, <3>2, <3>3, <3>4, HoldsStep
  <2>6. CASE in.open # <<s>>
    <3>1. in.close # <<s>>
      BY <1>3, TxStep
    <3>2. tx[s] # "none"
      BY <1>3, <2>6, <3>1, TxStep
    <3>3. slots[s] = {"req"} /\ posResp # <<s>> /\ \A e \in Entry : s \notin Holds(e)
      BY <3>2 DEF IInv, TxOwned
    <3>4. \A e \in Entry : s \notin Released(e, in)
      BY <3>3, ReleasedFor DEF Released
    <3>5. ~(PosFire(in) # <<>> /\ PosFire(in)[1].slot = s)
      BY <2>2, <3>3, SlotStep
    <3>6. slots'[s] = slots[s]
      BY <2>2, <2>6, <3>1, <3>4, <3>5, SlotStep
    <3>7. \A e \in Entry : s \notin Granted(e)
      BY <2>4, <3>3
    <3> QED BY <2>1, <3>3, <3>5, <3>6, <3>7, HoldsStep
  <2> QED BY <2>5, <2>6
<1> QED BY <1>1, <1>2, <1>3 DEF TxOwned

LEMMA OneLocksStep ==
  ASSUME IInv, NEW in \in ReplInputs, ReplTick(in)
  PROVE  OneLocks'
<1> DEFINE asks(e) == Served({"ReqPos"}, in) = <<e>>
<1>0. ReplTypeOK
  BY DEF IInv
<1>1. ASSUME NEW e \in Entry, entries'[e].state = "WaitPos"
      PROVE  entries[e].state = "ReqPos" /\ asks(e) /\ AllocFire(in) # <<e>>
  <2>1. AllocFire(in) # <<e>>
    BY <1>1, AllocFields
  <2>2. entries[e].state = "ReqPos"
    BY <1>1, <2>1, EntryMoves DEF Leads, AfterVictim
  <2> QED BY <1>1, <2>1, <2>2, MovesWhen
<1>2. ASSUME NEW e \in Entry, Locks(e)'
      PROVE  \/ Locks(e) /\ ~DirHit(e, in)
             \/ PosFire(in) # <<>> /\ asks(e)
  <2>1. CASE entries'[e].state = "WaitPos" /\ posResp' # <<>>
    <3>1. PosFire(in) # <<>>
      BY <2>1 DEF ReplTick
    <3> QED BY <1>1, <2>1, <3>1
  <2>2. CASE IsReplDIR(entries'[e]) /\ entries'[e].state \in {"WriDir", "WaitDir"}
    <3> DEFINE r == entries[e]
               n == entries'[e]
    <3>1. AllocFire(in) # <<e>>
      BY <2>2, AllocFields
    <3>2. Leads(r, n.state) /\ Keeps(r, n) /\ ShapeOf(r)
      BY <2>2, <3>1, EntryMoves DEF IInv, EntryShape
    <3>3. /\ r.state \in {"WaitPos", "WriDir", "WaitDir"}
          /\ r.state = "WaitPos" => posResp # <<>>
          /\ r.state = "WaitDir" => n.state = "WaitDir"
          /\ IsReplDIR(r)
      <4> HIDE DEF r, n
      <4> QED BY <2>2, <3>2 DEF r, n, Leads, Keeps, IsReplDIR, IsReplSF, ShapeOf
    <3>4. ~DirHit(e, in)
      <4>1. DirHit(e, in) => r.state = "WaitDir" /\ n.state # "WaitDir"
        BY MovesWhen DEF DirHit
      <4> QED BY <3>3, <4>1
    <3> QED BY <3>3, <3>4 DEF Locks
  <2> QED BY <1>2, <2>1, <2>2 DEF Locks
<1>3. PosFire(in) # <<>> => ~lock
  BY <1>0, PosGrant
<1>4. ASSUME NEW e \in Entry, Locks(e)' PROVE lock'
  <2>1. CASE PosFire(in) # <<>>
    BY <2>1 DEF ReplTick
  <2>2. CASE PosFire(in) = <<>>
    <3>1. Locks(e) /\ ~DirHit(e, in)
      BY <1>2, <1>4, <2>2
    <3>2. lock
      BY <3>1 DEF IInv, OneLocks
    <3>3. \A f \in Entry : DirHit(f, in) => Locks(f)
      BY DEF IInv, EntryShape, ShapeOf, DirHit, Locks
    <3>4. \A f \in Entry : ~DirHit(f, in)
      BY <3>1, <3>3 DEF IInv, OneLocks
    <3>5. UpdTag(in) = {}
      BY <3>4 DEF UpdTag
    <3> QED BY <3>2, <3>5 DEF ReplTick
  <2> QED BY <2>1, <2>2
<1>5. ASSUME NEW e \in Entry, NEW f \in Entry, asks(e), asks(f) PROVE e = f
  <2>1. <<e>> = <<f>>
    BY <1>5
  <2> QED BY <2>1
<1>6. ASSUME NEW e \in Entry, NEW f \in Entry, Locks(e)', Locks(f)' PROVE e = f
  <2>1. (Locks(e) => lock) /\ (Locks(f) => lock) /\ (Locks(e) /\ Locks(f) => e = f)
    BY DEF IInv, OneLocks
  <2>2. (Locks(e) \/ (PosFire(in) # <<>> /\ asks(e))) /\ (Locks(f) \/ (PosFire(in) # <<>> /\ asks(f)))
    BY <1>2, <1>6
  <2> QED BY <1>3, <1>5, <2>1, <2>2
<1>7. ASSUME NEW s \in Slot, posResp' = <<s>>
      PROVE  /\ \E e \in Entry : entries'[e].state = "WaitPos" /\ slots'[s] = {Channel(entries'[e])}
             /\ \A e \in Entry : s \notin Holds(e)'
  <2>1. PosFire(in) # <<>> /\ PosFire(in)[1].slot = s
    BY <1>7 DEF ReplTick
  <2>2. PICK e \in Entry : /\ entries[e].state = "ReqPos" /\ asks(e)
                           /\ PosFire(in)[1].ch = Channel(entries[e])
    <3>1. PICK e \in Entry, x \in FreeSlots :
            /\ ~lock /\ entries[e].state = "ReqPos" /\ Served({"ReqPos"}, in) = <<e>>
            /\ PosFire(in) = <<[slot |-> x, ch |-> Channel(entries[e])]>>
      BY <1>0, <2>1, PosGrant
    <3>2. PosFire(in)[1].ch = Channel(entries[e])
      BY <3>1
    <3> QED BY <3>1, <3>2
  <2>3. slots[s] = {} /\ slots'[s] = {Channel(entries[e])}
    BY <2>1, <2>2, SlotStep
  <2>4. AllocFire(in) # <<e>> /\ entries'[e].state # "ReqPos"
    BY <1>0, <2>2, AllocTo, MovesWhen
  <2>5. entries'[e].state = "WaitPos" /\ Keeps(entries[e], entries'[e])
    BY <2>2, <2>4, EntryMoves DEF Leads
  <2>6. Channel(entries'[e]) = Channel(entries[e])
    BY <2>2, <2>5 DEF Keeps, Channel, IsReplSF
  <2>7. \A f \in Entry : s \notin Holds(f) /\ s \notin Granted(f)
    <3>1. \A f \in Entry : s \notin Holds(f)
      BY <2>3, HeldNoTx
    <3>2. posResp # <<s>>
      BY <2>3 DEF IInv, OneLocks
    <3> QED BY <3>1, <3>2, GrantApart DEF Granted
  <2> QED BY <2>3, <2>5, <2>6, <2>7, HoldsStep
<1> QED BY <1>1, <1>4, <1>5, <1>6, <1>7 DEF OneLocks

\* An address stays in a slot that is held, unless the victim is looked up.
LEMMA TagKept ==
  ASSUME IInv, NEW in \in ReplInputs, ReplTick(in), NEW e \in Entry, SlotsHeld',
         NEW s \in Holds(e)', s \in Holds(e),
         s \in tagVal \/ (DirHit(e, in) /\ in.dir[1].victim # "none"),
         DirHit(e, in) => s = entries[e].repl /\ in.dir[1].victim # "none"
  PROVE  s \in tagVal'
<1>1. s \in Slot /\ slots[s] # {}
  BY HeldNoTx
<1>2. NextSlot(s, in) # {}
  <2>1. slots'[s] # {}
    BY DEF SlotsHeld
  <2> QED BY <1>1, <2>1 DEF ReplTick
<1>3. PosFire(in) # <<>> => PosFire(in)[1].slot # s
  BY <1>1, SlotStep
<1>4. s \in UpdTag(in) => in.dir[1].victim # "none"
  <2> SUFFICES ASSUME s \in UpdTag(in) PROVE in.dir[1].victim # "none"
    OBVIOUS
  <2>1. PICK f \in Entry : DirHit(f, in) /\ s = entries[f].repl
    BY DEF UpdTag
  <2>2. s \in Owns(f) /\ s \in Owns(e)
    BY <2>1, ReplOwned DEF DirHit, Owns, IInv
  <2>3. e = f
    BY <2>2 DEF IInv, Apart
  <2> QED BY <2>1, <2>3
<1>5. s \notin UpdTag(in) => s \in tagVal
  BY DEF UpdTag
<1> QED BY <1>1, <1>2, <1>3, <1>4, <1>5 DEF ReplTick, NextTagVal

GuardStates == {"ReqDB", "Snoop", "WaitRSnp", "CopyId", "UpdateId", "Write", "WaitRWri"}
NeedsTag(r) == r.state \in GuardStates \/ (r.state = "RespCmt" /\ IsReplSF(r) /\ r.needSnp)

LEMMA GuardedStep ==
  ASSUME IInv, NEW in \in ReplInputs, ReplTick(in), SlotsHeld'
  PROVE  Guarded'
<1> SUFFICES ASSUME NEW e \in Entry, NeedsTag(entries'[e]) PROVE entries'[e].repl \in tagVal'
  BY DEF Guarded, NeedsTag, GuardStates
<1> DEFINE r == entries[e]
           n == entries'[e]
<1>1. AllocFire(in) # <<e>>
  BY AllocFields DEF NeedsTag, GuardStates
<1>2. ShapeOf(r) /\ ShapeOf(n) /\ Leads(r, n.state) /\ n.state # "Free" /\ Keeps(r, n)
  <2>1. n.state # "Free"
    BY DEF NeedsTag, GuardStates
  <2> QED BY <1>1, <2>1, ShapeStep, EntryMoves DEF IInv, EntryShape
<1>3. r.state = "WaitDir" /\ n.state = "RespCmt" => n.needSnp = (in.dir[1].victim = "moves")
  <2>1. r.state = "WaitDir" /\ n.state = "RespCmt" => IsReplSF(r)
    BY <1>2 DEF Leads
  <2> QED BY <1>1, <2>1, NextFields
<1>4. r.state = "WaitDir" /\ n.state = "UpdateId" => in.dir[1].victim = "moves"
  <2>1. ReplTypeOK
    BY DEF IInv
  <2>2. n.state = NextState(e, in)
    BY <1>1, NextFields
  <2> QED BY <2>1, <2>2, NextStates
<1>5. DirHit(e, in) <=> r.state = "WaitDir" /\ n.state # r.state
  BY MovesWhen DEF DirHit
<1>6. /\ NeedsTag(r) \/ (DirHit(e, in) /\ in.dir[1].victim = "moves")
      /\ DirHit(e, in) => in.dir[1].victim = "moves"
      /\ n.repl = r.repl
      /\ IsReplDIR(r) /\ r.state \notin {"ReqPos", "WaitPos"}
      /\ IsReplDIR(n) /\ n.state \notin {"ReqPos", "WaitPos"}
  <2>1. NeedsTag(n)
    OBVIOUS
  <2> HIDE DEF r, n
  <2> QED BY <1>2, <1>3, <1>4, <1>5, <2>1
          DEF NeedsTag, GuardStates, Leads, Keeps, IsReplDIR, IsReplSF, Second, ShapeOf
<1>7. n.repl \in Holds(e) /\ n.repl \in Holds(e)'
  BY <1>6 DEF Holds
<1>8. NeedsTag(r) => r.repl \in tagVal
  BY DEF IInv, Guarded, NeedsTag, GuardStates
<1> QED BY <1>6, <1>7, <1>8, TagKept

\* The slot of the line that an entry works on is the entry's, too.
LEMMA HnOwned ==
  ASSUME IInv, NEW e \in Entry, entries[e].state \in {"WriDir", "WaitDir", "WaitWriDir", "WaitResp"}
  PROVE  entries[e].hn \in Owns(e)
<1>1. ShapeOf(entries[e])
  BY DEF IInv, EntryShape
<1> QED BY <1>1 DEF Owns, Owes, Owing, Holds, Second, ShapeOf

\* The front of the queue of directory writes is answered.
LEMMA DirRest ==
  ASSUME IInv, NEW in \in ReplInputs
  PROVE  LET rest == IF in.dir = <<>> THEN dirQ ELSE Tail(dirQ)
         IN /\ rest \in Seq([hn : Slot, dir : {"sf", "llc", "direct"}])
            /\ \A i \in DOMAIN rest : /\ \E j \in DOMAIN dirQ : rest[i] = dirQ[j]
                                      /\ in.dir # <<>> => rest[i].hn # in.dir[1].hn
            /\ \A i, j \in DOMAIN rest : i # j => rest[i].hn # rest[j].hn
<1> DEFINE D == [hn : Slot, dir : {"sf", "llc", "direct"}]
<1>0. dirQ \in Seq(D) /\ \A i, j \in DOMAIN dirQ : i # j => dirQ[i].hn # dirQ[j].hn
  BY DEF IInv, Awaited
<1>1. CASE in.dir = <<>>
  BY <1>0, <1>1
<1>2. CASE in.dir # <<>>
  <2>1. in.dir[1] \in DirAnswers
    BY <1>2, Inputs, OptItem
  <2>2. dirQ # <<>>
    BY <2>1 DEF DirAnswers
  <2>3. in.dir[1].hn = dirQ[1].hn
    BY <2>1, <2>2 DEF DirAnswers
  <2>4. /\ Tail(dirQ) \in Seq(D) /\ 1 \in DOMAIN dirQ
        /\ \A i \in DOMAIN Tail(dirQ) : /\ i + 1 \in DOMAIN dirQ /\ i + 1 # 1
                                        /\ Tail(dirQ)[i] = dirQ[i + 1]
        /\ \A i, j \in DOMAIN Tail(dirQ) : i # j => i + 1 # j + 1
    <3> HIDE DEF D
    <3> QED BY <1>0, <2>2
  <2> QED BY <1>0, <1>2, <2>3, <2>4
<1> QED BY <1>1, <1>2

\* The entry that is served puts its write at the end.
LEMMA DirNew ==
  ASSUME IInv, NEW in \in ReplInputs
  PROVE  \/ DirWrites(in) = <<>>
         \/ \E e \in Entry :
              /\ Served({"WriDir"}, in) = <<e>> /\ entries[e].state = "WriDir"
              /\ IsReplDIR(entries[e]) \/ entries[e].sf = "direct"
              /\ DirWrites(in) = <<DirWrite(e)>> /\ DirWrite(e).hn = entries[e].hn
              /\ DirWrite(e) \in [hn : Slot, dir : {"sf", "llc", "direct"}]
<1>0. ReplTypeOK
  BY DEF IInv
<1> SUFFICES ASSUME DirWrites(in) # <<>>
             PROVE  \E e \in Entry :
                      /\ Served({"WriDir"}, in) = <<e>> /\ entries[e].state = "WriDir"
                      /\ IsReplDIR(entries[e]) \/ entries[e].sf = "direct"
                      /\ DirWrites(in) = <<DirWrite(e)>> /\ DirWrite(e).hn = entries[e].hn
                      /\ DirWrite(e) \in [hn : Slot, dir : {"sf", "llc", "direct"}]
  OBVIOUS
<1>1. Served({"WriDir"}, in) # <<>>
  BY DEF DirWrites
<1>2. PICK e \in Entry : Served({"WriDir"}, in) = <<e>> /\ entries[e].state = "WriDir"
  BY <1>0, <1>1, ServedOne
<1>3. IsReplDIR(entries[e]) \/ entries[e].sf = "direct"
  BY <1>2 DEF DirWrites
<1>4. DirWrites(in) = <<DirWrite(e)>>
  BY <1>2, <1>3 DEF DirWrites, Map
<1>5. entries[e].hn \in Slot
  BY <1>0 DEF ReplTypeOK
<1>6. DirWrite(e).hn = entries[e].hn /\ DirWrite(e) \in [hn : Slot, dir : {"sf", "llc", "direct"}]
  BY <1>5 DEF DirWrite
<1> QED BY <1>2, <1>3, <1>4, <1>6

\* A write that is not answered yet stays awaited.
LEMMA DirKept ==
  ASSUME IInv, NEW in \in ReplInputs, ReplTick(in), ReplEnv(in),
         NEW j \in DOMAIN dirQ, in.dir # <<>> => dirQ[j].hn # in.dir[1].hn
  PROVE  \E e \in Entry : /\ entries[e].state \in {"WaitDir", "WaitWriDir"}
                          /\ entries'[e].state \in {"WaitDir", "WaitWriDir"}
                          /\ entries[e].hn = dirQ[j].hn /\ entries'[e].hn = dirQ[j].hn
<1>0. ReplTypeOK
  BY DEF IInv
<1>1. PICK e \in Entry : entries[e].state \in {"WaitDir", "WaitWriDir"} /\ entries[e].hn = dirQ[j].hn
  BY DEF IInv, Awaited
<1>2. ~DirHit(e, in) /\ ~DoneHit(entries[e], in)
  BY <1>1 DEF DirHit, DoneHit
<1>3. entries'[e].state = entries[e].state
  BY <1>1, <1>2, MovesWhen
<1>4. AllocFire(in) # <<e>>
  BY <1>0, <1>1, NotAlloc
<1>5. entries'[e].hn = entries[e].hn
  BY <1>1, <1>3, <1>4, EntryMoves DEF Keeps
<1> QED BY <1>1, <1>3, <1>5

LEMMA DirQStep ==
  ASSUME IInv, NEW in \in ReplInputs, ReplTick(in), ReplEnv(in)
  PROVE  /\ dirQ' \in Seq([hn : Slot, dir : {"sf", "llc", "direct"}])
         /\ \A i \in DOMAIN dirQ' : \E e \in Entry :
              entries'[e].state \in {"WaitDir", "WaitWriDir"} /\ entries'[e].hn = dirQ'[i].hn
         /\ \A i, j \in DOMAIN dirQ' : i # j => dirQ'[i].hn # dirQ'[j].hn
<1> DEFINE D == [hn : Slot, dir : {"sf", "llc", "direct"}]
           rest == IF in.dir = <<>> THEN dirQ ELSE Tail(dirQ)
<1>0. ReplTypeOK
  BY DEF IInv
<1>1. /\ rest \in Seq(D)
      /\ \A i \in DOMAIN rest : /\ \E j \in DOMAIN dirQ : rest[i] = dirQ[j]
                                /\ in.dir # <<>> => rest[i].hn # in.dir[1].hn
      /\ \A i, j \in DOMAIN rest : i # j => rest[i].hn # rest[j].hn
  BY DirRest
<1>2. dirQ' = rest \o DirWrites(in)
  BY DEF ReplEnv
<1> HIDE DEF rest
<1>3. ASSUME NEW i \in DOMAIN rest
      PROVE  \E e \in Entry : /\ entries[e].state \in {"WaitDir", "WaitWriDir"}
                              /\ entries'[e].state \in {"WaitDir", "WaitWriDir"}
                              /\ entries[e].hn = rest[i].hn /\ entries'[e].hn = rest[i].hn
  <2>1. PICK j \in DOMAIN dirQ : rest[i] = dirQ[j]
    BY <1>1
  <2>2. in.dir # <<>> => dirQ[j].hn # in.dir[1].hn
    BY <1>1, <2>1
  <2> QED BY <2>1, <2>2, DirKept
<1>4. CASE DirWrites(in) = <<>>
  <2>1. dirQ' = rest
    <3> HIDE DEF D
    <3> QED BY <1>1, <1>2, <1>4, ConcatEmptySeq
  <2> QED BY <1>1, <1>3, <2>1
<1>5. CASE DirWrites(in) # <<>>
  <2>1. PICK e \in Entry :
          /\ Served({"WriDir"}, in) = <<e>> /\ entries[e].state = "WriDir"
          /\ IsReplDIR(entries[e]) \/ entries[e].sf = "direct"
          /\ DirWrites(in) = <<DirWrite(e)>> /\ DirWrite(e).hn = entries[e].hn
          /\ DirWrite(e) \in D
    BY <1>5, DirNew
  <2>2. AllocFire(in) # <<e>> /\ entries'[e].state = NextState(e, in)
    BY <1>0, <2>1, NotAlloc, NextFields
  <2>3. entries'[e].state \in {"WaitDir", "WaitWriDir"}
    BY <1>0, <2>1, <2>2, NextStates
  <2>4. entries'[e].hn = entries[e].hn
    BY <2>1, <2>2, <2>3, EntryMoves DEF Keeps
  <2> DEFINE n == Len(rest)
  <2>5. /\ dirQ' \in Seq(D) /\ DOMAIN dirQ' = DOMAIN rest \cup {n + 1} /\ n + 1 \notin DOMAIN rest
        /\ dirQ'[n + 1] = DirWrite(e) /\ \A i \in DOMAIN rest : dirQ'[i] = rest[i]
    <3>1. DirWrite(e) \in D /\ dirQ' = rest \o <<DirWrite(e)>>
      BY <1>2, <2>1
    <3> HIDE DEF D
    <3> QED BY <1>1, <3>1
  <2>6. ASSUME NEW i \in DOMAIN rest PROVE rest[i].hn # entries[e].hn
    <3>1. PICK f \in Entry : entries[f].state \in {"WaitDir", "WaitWriDir"} /\ entries[f].hn = rest[i].hn
      BY <1>3
    <3>2. entries[f].hn \in Owns(f) /\ entries[e].hn \in Owns(e) /\ e # f
      BY <2>1, <3>1, HnOwned
    <3> QED BY <3>1, <3>2 DEF IInv, Apart
  <2>7. dirQ'[n + 1].hn = entries[e].hn
    BY <2>1, <2>5
  <2> HIDE DEF n, D
  <2>8. ASSUME NEW i \in DOMAIN dirQ'
        PROVE  \E f \in Entry : entries'[f].state \in {"WaitDir", "WaitWriDir"} /\ entries'[f].hn = dirQ'[i].hn
    BY <1>3, <2>3, <2>4, <2>5, <2>7
  <2>9. ASSUME NEW i \in DOMAIN dirQ', NEW j \in DOMAIN dirQ', i # j PROVE dirQ'[i].hn # dirQ'[j].hn
    <3>1. CASE i \in DOMAIN rest /\ j \in DOMAIN rest
      BY <1>1, <2>5, <2>9, <3>1
    <3>2. CASE i = n + 1 /\ j \in DOMAIN rest
      BY <2>5, <2>6, <2>7, <3>2
    <3>3. CASE i \in DOMAIN rest /\ j = n + 1
      BY <2>5, <2>6, <2>7, <3>3
    <3> QED BY <2>5, <2>9, <3>1, <3>2, <3>3
  <2> QED BY <2>5, <2>8, <2>9 DEF D
<1> QED BY <1>4, <1>5

\* What is under way is kept apart by the slots of those who wait for it.
LEMMA AwaitedStep ==
  ASSUME IInv, NEW in \in ReplInputs, ReplTick(in), ReplEnv(in)
  PROVE  Awaited'
<1>0. ReplTypeOK
  BY DEF IInv
<1>1. ASSUME NEW c \in cms'
      PROVE  \E e \in Entry :
               /\ entries'[e].repl = c.slot
               /\ \/ c.kind = "snp" /\ entries'[e].state = "WaitRSnp"
                  \/ c.kind = "wri" /\ entries'[e].state = "WaitRWri"
  <2> DEFINE repl(e) == entries[e].repl
             some(o) == {o[i] : i \in DOMAIN o}
  <2>1. \/ c \in cms /\ (in.cm = <<>> \/ c.slot # in.cm[1].slot)
        \/ \E s \in some(Map(repl, Served({"Snoop"}, in))) : c = [slot |-> s, kind |-> "snp"]
        \/ \E s \in some(Map(repl, Served({"Write"}, in))) : c = [slot |-> s, kind |-> "wri"]
    BY DEF ReplEnv
  <2>2. CASE c \in cms /\ (in.cm = <<>> \/ c.slot # in.cm[1].slot)
    <3>1. PICK e \in Entry :
            /\ entries[e].repl = c.slot
            /\ \/ c.kind = "snp" /\ entries[e].state = "WaitRSnp"
               \/ c.kind = "wri" /\ entries[e].state = "WaitRWri"
      BY <2>2 DEF IInv, Awaited
    <3>2. ~CmRespHit(entries[e], in)
      BY <2>2, <3>1 DEF CmRespHit
    <3>3. entries'[e].state = entries[e].state
      BY <3>1, <3>2, MovesWhen
    <3>4. AllocFire(in) # <<e>>
      BY <1>0, <3>1, NotAlloc
    <3>5. entries'[e].repl = entries[e].repl
      BY <3>1, <3>3, <3>4, EntryMoves DEF Keeps
    <3> QED BY <3>1, <3>3, <3>5
  <2>3. ASSUME NEW st \in {"Snoop", "Write"}, NEW s \in some(Map(repl, Served({st}, in)))
        PROVE  \E e \in Entry : /\ entries'[e].repl = s
                                /\ entries'[e].state = IF st = "Snoop" THEN "WaitRSnp" ELSE "WaitRWri"
    <3>1. Served({st}, in) # <<>>
      <4>1. ASSUME Served({st}, in) = <<>> PROVE FALSE
        <5>1. Map(repl, Served({st}, in)) = <<>>
          BY <4>1 DEF Map
        <5>2. some(<<>>) = {}
          OBVIOUS
        <5> QED BY <2>3, <5>1, <5>2
      <4> QED BY <4>1
    <3>2. PICK e \in Entry : Served({st}, in) = <<e>> /\ entries[e].state = st
      BY <1>0, <3>1, ServedOne
    <3>3. s = entries[e].repl
      BY <3>2 DEF Map
    <3>4. entries'[e].state # entries[e].state
      BY <3>2, MovesWhen
    <3>5. AllocFire(in) # <<e>>
      BY <1>0, <3>2, NotAlloc
    <3>6. entries'[e].repl = entries[e].repl
          /\ entries'[e].state = IF st = "Snoop" THEN "WaitRSnp" ELSE "WaitRWri"
      BY <3>2, <3>4, <3>5, EntryMoves DEF Keeps, Leads
    <3> QED BY <3>3, <3>6
  <2>4. CASE \E s \in some(Map(repl, Served({"Snoop"}, in))) : c = [slot |-> s, kind |-> "snp"]
    <3>1. PICK s \in some(Map(repl, Served({"Snoop"}, in))) : c = [slot |-> s, kind |-> "snp"]
      BY <2>4
    <3>2. c.slot = s /\ c.kind = "snp"
      BY <3>1
    <3> HIDE DEF some, repl
    <3> QED BY <2>3, <3>2
  <2>5. CASE \E s \in some(Map(repl, Served({"Write"}, in))) : c = [slot |-> s, kind |-> "wri"]
    <3>1. PICK s \in some(Map(repl, Served({"Write"}, in))) : c = [slot |-> s, kind |-> "wri"]
      BY <2>5
    <3>2. c.slot = s /\ c.kind = "wri"
      BY <3>1
    <3> HIDE DEF some, repl
    <3> QED BY <2>3, <3>2
  <2> QED BY <2>1, <2>2, <2>4, <2>5
<1>2. ASSUME NEW s \in saves'
      PROVE  \E e \in Entry : entries'[e].state = "WaitResp" /\ entries'[e].hn = s
  <2> DEFINE hn(e) == entries[e].hn
             some(o) == {o[i] : i \in DOMAIN o}
  <2>1. s \in (saves \ some(in.data)) \cup some(Map(hn, Served({"SaveData"}, in)))
    BY DEF ReplEnv
  <2>2. CASE s \in saves /\ s \notin some(in.data)
    <3>1. PICK e \in Entry : entries[e].state = "WaitResp" /\ entries[e].hn = s
      BY <2>2 DEF IInv, Awaited
    <3>2. ~DataRespHit(entries[e], in)
      BY <2>2, <3>1 DEF DataRespHit
    <3>3. entries'[e].state = entries[e].state
      BY <3>1, <3>2, MovesWhen
    <3>4. AllocFire(in) # <<e>>
      BY <1>0, <3>1, NotAlloc
    <3> QED BY <3>1, <3>3, <3>4, EntryMoves DEF Keeps
  <2>3. CASE s \in some(Map(hn, Served({"SaveData"}, in)))
    <3>1. Served({"SaveData"}, in) # <<>>
      BY <2>3 DEF Map
    <3>2. PICK e \in Entry : Served({"SaveData"}, in) = <<e>> /\ entries[e].state = "SaveData"
      BY <1>0, <3>1, ServedOne
    <3>3. s = entries[e].hn
      BY <2>3, <3>2 DEF Map
    <3>4. entries'[e].state # entries[e].state
      BY <3>2, MovesWhen
    <3>5. AllocFire(in) # <<e>>
      BY <1>0, <3>2, NotAlloc
    <3> QED BY <3>2, <3>3, <3>4, <3>5, EntryMoves DEF Keeps, Leads
  <2> QED BY <2>1, <2>2, <2>3
<1>3. /\ dirQ' \in Seq([hn : Slot, dir : {"sf", "llc", "direct"}])
      /\ \A i \in DOMAIN dirQ' : \E e \in Entry :
           entries'[e].state \in {"WaitDir", "WaitWriDir"} /\ entries'[e].hn = dirQ'[i].hn
      /\ \A i, j \in DOMAIN dirQ' : i # j => dirQ'[i].hn # dirQ'[j].hn
  BY DirQStep
<1> QED BY <1>1, <1>2, <1>3 DEF Awaited

-----------------------------------------------------------------------------
(* The theorem.                                                            *)

LEMMA TypeStep ==
  ASSUME IInv, NEW in \in ReplInputs, ReplTick(in)
  PROVE  ReplTypeOK'
<1>0. ReplTypeOK
  BY DEF IInv
<1>1. entries' \in [Entry -> EntrySet]
  <2>1. entries' = [e \in Entry |-> NextEntry(e, in)]
    BY DEF ReplTick
  <2>2. \A e \in Entry : entries'[e] \in EntrySet
    BY EntryType
  <2> QED BY <2>1, <2>2
<1>2. \A e \in Entry : Release(e).ch \in {"req", "snp"} /\ Channel(entries[e]) \in {"req", "snp"}
  BY DEF Release, Channel
<1>3. \A e \in Entry, s \in Slot : LET g == [slot |-> s, ch |-> Channel(entries[e])]
                                   IN g.slot \in Slot /\ g.ch \in {"req", "snp"}
  BY <1>2
<1>4. PosFire(in) # <<>> => PosFire(in)[1].slot \in Slot /\ PosFire(in)[1].ch \in {"req", "snp"}
  BY <1>0, <1>2, PosGrant DEF FreeSlots
<1>5. slots' \in [Slot -> SUBSET {"req", "snp"}]
  <2>1. slots' = [s \in Slot |-> NextSlot(s, in)]
    BY DEF ReplTick
  <2>2. ASSUME NEW s \in Slot PROVE NextSlot(s, in) \in SUBSET {"req", "snp"}
    <3>1. slots[s] \subseteq {"req", "snp"}
      BY <1>0 DEF ReplTypeOK
    <3> QED BY <1>4, <3>1 DEF NextSlot
  <2> QED BY <2>1, <2>2
<1>6. tagVal' \subseteq Slot
  BY DEF ReplTick, NextTagVal
<1>7. lock' \in BOOLEAN
  BY DEF ReplTick
<1>8. posResp' \in Opt(Slot)
  BY <1>4 DEF ReplTick, Opt
<1> QED BY <1>1, <1>5, <1>6, <1>7, <1>8 DEF ReplTypeOK, EntrySet

LEMMA ReplInductive == IInv /\ [ReplNext]_replVars => IInv'
<1> SUFFICES ASSUME IInv, [ReplNext]_replVars PROVE IInv'
  OBVIOUS
<1>1. CASE ReplNext
  <2>1. PICK in \in ReplInputs : ReplTick(in) /\ ReplEnv(in)
    BY <1>1 DEF ReplNext
  <2>2. ReplTypeOK'
    BY <2>1, TypeStep
  <2>3. EntryShape'
    BY <2>1, ShapeStep DEF EntryShape
  <2>4. Apart'
    BY <2>1, ApartStep
  <2>5. TxOwned'
    BY <2>1, TxOwnedStep
  <2>6. OneLocks'
    BY <2>1, OneLocksStep
  <2>7. SlotsHeld'
    BY <2>1, SlotsHeldStep
  <2>8. Guarded'
    BY <2>1, <2>7, GuardedStep
  <2>9. Awaited'
    BY <2>1, AwaitedStep
  <2> QED BY <2>2, <2>3, <2>4, <2>5, <2>6, <2>7, <2>8, <2>9 DEF IInv
<1>2. CASE UNCHANGED replVars
  <2>1. \A e \in Entry : /\ Holds(e)' = Holds(e) /\ Owes(e)' = Owes(e) /\ Owns(e)' = Owns(e)
                         /\ Locks(e)' = Locks(e)
    BY <1>2 DEF replVars, Holds, Owes, Owns, Locks
  <2>2. ReplTypeOK' /\ EntryShape' /\ Apart' /\ Guarded' /\ Awaited'
    BY <1>2, <2>1 DEF replVars, IInv, ReplTypeOK, EntryShape, Apart, Guarded, Awaited
  <2>3. TxOwned'
    BY <1>2, <2>1 DEF replVars, IInv, TxOwned
  <2>4. OneLocks'
    BY <1>2, <2>1 DEF replVars, IInv, OneLocks
  <2>5. SlotsHeld'
    BY <1>2, <2>1 DEF replVars, IInv, SlotsHeld
  <2> QED BY <2>2, <2>3, <2>4, <2>5 DEF IInv
<1> QED BY <1>1, <1>2

LEMMA ReplStarts == ReplInit => IInv
<1> SUFFICES ASSUME ReplInit PROVE IInv
  OBVIOUS
<1>1. \A e \in Entry : entries[e] = NoReg
  BY DEF ReplInit
<1>2. \A e \in Entry : entries[e].state = "Free" /\ ~IsReplDIR(entries[e]) /\ ~Second(entries[e])
  BY <1>1 DEF NoReg, IsReplDIR, Second
<1>3. \A e \in Entry : Holds(e) = {} /\ ~Owes(e) /\ Owns(e) = {} /\ ~Locks(e)
  BY <1>2 DEF Holds, Owes, Owing, Owns, Locks
<1>4. ReplTypeOK
  <2>1. NoReg \in EntrySet
    BY SlotNames DEF NoReg, EntrySet, States
  <2> QED BY <2>1 DEF ReplInit, ReplTypeOK, EntrySet, Opt
<1>5. EntryShape
  <2>1. ShapeOf(NoReg)
    BY DEF ShapeOf, NoReg, IsReplDIR, IsReplSF, Second
  <2> QED BY <1>1, <2>1 DEF EntryShape
<1>6. Apart /\ TxOwned /\ OneLocks /\ Guarded
  BY <1>2, <1>3 DEF Apart, TxOwned, OneLocks, Guarded, ReplInit
<1>7. SlotsHeld
  BY <1>3 DEF SlotsHeld, ReplInit
<1>8. Awaited
  BY DEF Awaited, ReplInit
<1> QED BY <1>4, <1>5, <1>6, <1>7, <1>8 DEF IInv

\* What is in use, free, guarded and answered, read off the invariant.
LEMMA SlotsAccountedHolds == IInv => SlotsAccounted
<1> SUFFICES ASSUME IInv PROVE SlotsAccounted
  OBVIOUS
<1>1. \A e, f \in Entry : e # f => Holds(e) \cap Holds(f) = {}
  BY DEF IInv, Apart, Owns
<1>2. \A e \in Entry : \A s \in Holds(e) : slots[s] = {HeldFor(entries[e], s)}
  BY DEF IInv, SlotsHeld
<1>3. \A s \in Slot : (\E i \in DOMAIN posResp : posResp[i] = s) <=> posResp = <<s>>
  BY DEF IInv, ReplTypeOK, Opt
<1>4. FreeSlots = ((Slot \ {s \in Norm : tx[s] # "none"}) \ UNION {Holds(e) : e \in Entry})
                    \ {posResp[i] : i \in DOMAIN posResp}
  BY <1>3, SlotNames DEF IInv, SlotsHeld, FreeSlots
<1> QED BY <1>1, <1>2, <1>4 DEF SlotsAccounted

LEMMA VictimGuardedHolds == IInv => VictimGuarded
BY DEF IInv, OneLocks, Locks, Guarded, VictimGuarded

LEMMA AnsweredWhenDoneHolds == IInv => AnsweredWhenDone
<1> SUFFICES ASSUME IInv PROVE AnsweredWhenDone
  OBVIOUS
<1>1. \A e \in Entry : ShapeOf(entries[e]) /\ entries[e].state \in States
  BY DEF IInv, EntryShape, ReplTypeOK
<1>2. ASSUME NEW s \in Norm, tx[s] = "answered", NEW e \in Entry, entries[e].hn = s
      PROVE  ~Owes(e) /\ s \notin Holds(e)
  BY <1>2 DEF IInv, TxOwned
<1>3. ASSUME NEW s \in Norm, tx[s] = "answered", NEW e \in Entry, entries[e].hn = s
      PROVE  entries[e].state \notin {"WaitDir", "WaitWriDir", "WaitResp"}
  <2>1. entries[e].hn \notin Owns(e)
    BY <1>2, <1>3 DEF Owns
  <2> QED BY <2>1, HnOwned
<1>4. ASSUME NEW s \in Norm, tx[s] = "answered" PROVE s \notin saves /\ \A i \in DOMAIN dirQ : dirQ[i].hn # s
  BY <1>3, <1>4 DEF IInv, Awaited
<1>5. ASSUME NEW s \in Norm, tx[s] = "answered",
             NEW e \in Entry, entries[e].hn = s, ~Second(entries[e]), entries[e].state # "Free"
      PROVE  entries[e].state \in {"ReqDB", "Snoop", "WaitRSnp", "CopyId", "CleanPosR"}
  BY <1>1, <1>2, <1>5 DEF Owes, Owing, States, ShapeOf
<1>6. ASSUME NEW e \in Entry, entries[e].state = "RespCmt"
      PROVE  ~Second(entries[e]) /\ entries[e].hn \in Norm /\ tx[entries[e].hn] = "asked"
  BY <1>1, <1>6 DEF ShapeOf, Owes, Owing, IInv, TxOwned
<1> QED BY <1>4, <1>5, <1>6 DEF AnsweredWhenDone

\* Slots, guards and answers: every slot of the set belongs to one
\* transaction or one entry and is free when they are done, the address of a
\* line that leaves is in the set while it leaves, and no transaction is
\* answered before its line has its way.
THEOREM ReplIsSafe == ReplSpec => []ReplInv
<1>1. IInv => ReplInv
  BY SlotsAccountedHolds, VictimGuardedHolds, AnsweredWhenDoneHolds DEF ReplInv, IInv
<1> QED BY <1>1, ReplStarts, ReplInductive, PTL DEF ReplSpec

\* One victim of a set is looked up at a time: the address that comes from
\* the directory is that of the slot granted last.
THEOREM OneLookup ==
  ReplSpec => [](\A e, f \in Entry :
                   /\ IsReplDIR(entries[e]) /\ entries[e].state \in {"WriDir", "WaitDir"}
                   /\ IsReplDIR(entries[f]) /\ entries[f].state \in {"WriDir", "WaitDir"}
                   => e = f)
<1> DEFINE One == \A e, f \in Entry :
                    /\ IsReplDIR(entries[e]) /\ entries[e].state \in {"WriDir", "WaitDir"}
                    /\ IsReplDIR(entries[f]) /\ entries[f].state \in {"WriDir", "WaitDir"}
                    => e = f
<1>1. IInv => One
  BY DEF IInv, OneLocks, Locks
<1> HIDE DEF One
<1>2. ReplSpec => []One
  BY <1>1, ReplStarts, ReplInductive, PTL DEF ReplSpec
<1> QED BY <1>2 DEF One
=============================================================================
