------------------------------ MODULE Replace ------------------------------
(***************************************************************************)
(* The replacement engine (ReplaceCM, model/dj/replace.cpp) and the PoS    *)
(* set it takes slots of.  A task writes the directories for a transaction *)
(* (commit): a way it knows, or a way whose line has to go.  In that case  *)
(* the engine first asks for another slot of the set, under which the      *)
(* victim leaves:                                                          *)
(*   victim of the snoop filter   snooped out of its owner; if data comes  *)
(*                                back, that goes to LLC, which may have   *)
(*                                to give up a line in turn (CopyId)       *)
(*   victim of LLC                written to memory, or overwritten        *)
(* The set keeps one slot for each of the two (frontend.cpp), so that a    *)
(* set full of transactions does not stop the replacements they wait for.  *)
(* The transaction is answered as soon as its line has its way; the slots  *)
(* come back later.                                                        *)
(*                                                                         *)
(* One set.  What is on its way outside (the directory, the channel        *)
(* machines, the data block) is a set or a queue that answers at some      *)
(* edge.  An arbiter grants in.first, else the lowest that asks.  A clean  *)
(* takes effect when it is granted.  The tasks are those of the decode     *)
(* tables: no line is in both directories, so a task replaces in one.      *)
(***************************************************************************)
EXTENDS Integers, Sequences, FiniteSetsExt, Fifo

CONSTANTS
  Norm,    \* slots a request can have: ways 0 .. 13 of the set
  Entry,   \* entries of the engine, numbers
  Tasks    \* bound on the tasks

ASSUME ReplAssumption ==
  /\ Norm \cap {"snp", "req"} = {}   \* none is one of the slots kept for victims
  /\ Entry \subseteq Nat
  /\ Tasks \in Nat

VARIABLES
  entries,  \* entries of ReplaceCM
  slots,    \* PosTable: what a slot is in use for (req, snp)
  tagVal,   \* PosTable: slots with an address
  lock,     \* PosTable: s1.lock, from a grant on until a tag arrives
  posResp,  \* PosTable: the slot granted at the edge before
  tx,       \* surroundings: the transaction of a slot
  left,     \* surroundings: tasks to come
  dirQ,     \* surroundings: directory writes that somebody waits for
  cms,      \* surroundings: snoops and memory writes under way
  saves     \* surroundings: LLC writes under way, by slot

replVars == <<entries, slots, tagVal, lock, posResp, tx, left, dirQ, cms, saves>>

SnpSlot == "snp"   \* way 14
ReqSlot == "req"   \* way 15
Slot == Norm \cup {SnpSlot, ReqSlot}

NoReg == [state |-> "Free", hn |-> ReqSlot, repl |-> ReqSlot, sf |-> "no", llc |-> "no",
          needSnp |-> FALSE, alrSF |-> FALSE]
States == {"Free", "ReqPos", "WaitPos", "WriDir", "WaitDir", "UpdateId", "RespCmt", "ReqDB",
           "Write", "Snoop", "WaitRWri", "WaitRSnp", "CopyId", "SaveData", "WaitResp",
           "CleanPosT", "CleanPosR", "WaitWriDir"}
Kinds == {k \in [sf : {"no", "hit", "direct", "repl"}, llc : {"no", "hit", "repl"}] :
            /\ k.sf # "no" \/ k.llc # "no"
            /\ k.sf = "hit" => k.llc # "hit"
            /\ k.sf \in {"direct", "repl"} => k.llc # "repl"}

ReplInit ==
  /\ entries = [e \in Entry |-> NoReg]
  /\ slots = [s \in Slot |-> {}] /\ tagVal = {}
  /\ lock = FALSE /\ posResp = <<>>
  /\ tx = [s \in Norm |-> "none"] /\ left = Tasks
  /\ dirQ = <<>> /\ cms = {} /\ saves = {}

-----------------------------------------------------------------------------
(* Outputs.  The wires below are sequences of at most one element.         *)

At(state) == {e \in Entry : entries[e].state = state}
IsReplSF(r) == r.sf = "repl"
IsReplDIR(r) == r.sf = "repl" \/ r.llc = "repl"
Map(f(_), o) == IF o = <<>> THEN <<>> ELSE <<f(o[1])>>

\* Who is served of those in some states; nobody while the receiver stalls.
Served(states, in) ==
  LET ask == UNION {At(st) : st \in states}
  IN IF ask = {} \/ in.stall \in states THEN <<>>
     ELSE <<IF in.first \in ask THEN in.first ELSE Min(ask)>>
Clean == {"CleanPosT", "CleanPosR"}

\* reqPoS: the set has one slot for victims of either directory, then the
\* normal ones.
Channel(r) == IF IsReplSF(r) THEN "snp" ELSE "req"
FreeSlots == {s \in Slot : slots[s] = {}}
ReplSelWayNoReserve(ch) == FreeSlots \cap Norm  \* faulty variant
ReplSelWay(ch) ==
  LET own == IF ch = "snp" THEN SnpSlot ELSE ReqSlot
  IN IF own \in FreeSlots THEN {own} ELSE FreeSlots \cap Norm
PosFire(in) ==
  LET grant(e) == [slot |-> CHOOSE s \in ReplSelWay(Channel(entries[e])) : TRUE,
                   ch |-> Channel(entries[e])]
      asks == Served({"ReqPos"}, in)
  IN IF lock \/ asks = <<>> \/ ReplSelWay(Channel(entries[asks[1]])) = {} THEN <<>>
     ELSE Map(grant, asks)

\* The address of the victim goes to the slot it leaves under.
DirHit(e, in) == entries[e].state = "WaitDir" /\ in.dir # <<>> /\ in.dir[1].hn = entries[e].hn
UpdTagOfTask(in) == {entries[e].hn : e \in {f \in Entry : DirHit(f, in)}}  \* faulty variant
UpdTag(in) == {entries[e].repl : e \in {f \in Entry : DirHit(f, in)}}

\* What a clean releases: the slot of the line that was snooped out, then the
\* other.
Release(e) ==
  LET r == entries[e]
  IN IF r.state = "CleanPosT" THEN [slot |-> r.hn, ch |-> "snp"]
     ELSE [slot |-> r.repl, ch |-> Channel(r)]
Cleaned(in) == Map(Release, Served(Clean, in))

-----------------------------------------------------------------------------
(* Entries.                                                                *)

PosRespHit(r) == r.state = "WaitPos" /\ posResp # <<>>
CmRespHit(r, in) == r.state # "Free" /\ in.cm # <<>> /\ in.cm[1].slot = r.repl
DataRespHit(r, in) == r.state # "Free" /\ in.data = <<r.hn>>
DoneHit(r, in) == r.state = "WaitWriDir" /\ in.dir # <<>> /\ in.dir[1].hn = r.hn

\* Once the victim of LLC is gone: nobody waits for a line that a snoop brought.
AfterVictimAlwaysAnswer(r) == "RespCmt"  \* faulty variant
AfterVictim(r) == IF r.alrSF THEN "CleanPosT" ELSE "RespCmt"
AfterResp(r) ==
  IF IsReplSF(r) THEN IF r.needSnp THEN "ReqDB" ELSE "CleanPosR"
  ELSE IF r.llc = "repl" THEN "CleanPosR" ELSE "Free"

NextState(e, in) ==
  LET r == entries[e]
      On(c, st) == IF c THEN st ELSE r.state
      served == Served(IF r.state \in Clean THEN Clean ELSE {r.state}, in) = <<e>>
  IN CASE r.state = "Free"       -> "Free"
       [] r.state = "ReqPos"     -> On(served, "WaitPos")
       [] r.state = "WaitPos"    -> IF PosRespHit(r) THEN "WriDir" ELSE "ReqPos"
       [] r.state = "WriDir"     -> On(served, IF IsReplDIR(r) THEN "WaitDir"
                                               ELSE IF r.sf = "direct" THEN "WaitWriDir"
                                               ELSE "RespCmt")
       [] r.state = "WaitWriDir" -> On(DoneHit(r, in), "RespCmt")
       [] r.state = "WaitDir"    -> On(DirHit(e, in),
                                       IF IsReplSF(r) THEN "RespCmt"
                                       ELSE IF in.dir[1].victim = "moves" THEN "UpdateId"
                                       ELSE "SaveData")
       [] r.state = "UpdateId"   -> "Write"
       [] r.state = "RespCmt"    -> On(served, AfterResp(r))
       [] r.state = "ReqDB"      -> On(served, "Snoop")
       [] r.state = "Write"      -> On(served, "WaitRWri")
       [] r.state = "Snoop"      -> On(served, "WaitRSnp")
       [] r.state = "WaitRWri"   -> On(CmRespHit(r, in), AfterVictim(r))
       [] r.state = "WaitRSnp"   -> On(CmRespHit(r, in),
                                       IF in.cm[1].data THEN "CopyId" ELSE "CleanPosR")
       [] r.state = "CopyId"     -> "ReqPos"
       [] r.state = "SaveData"   -> On(served, "WaitResp")
       [] r.state = "WaitResp"   -> On(DataRespHit(r, in), AfterVictim(r))
       [] r.state = "CleanPosT"  -> On(served, "CleanPosR")
       [] r.state = "CleanPosR"  -> On(served, "Free")

\* Alloc: a task goes to a free entry.
AllocFire(in) == IF in.task = <<>> \/ At("Free") = {} THEN <<>> ELSE <<Min(At("Free"))>>

NextEntry(e, in) ==
  LET r == entries[e]
      st == NextState(e, in)
      data == CmRespHit(r, in) /\ in.cm[1].data
      sfHit == DirHit(e, in) /\ IsReplSF(r)
      new == [in.task[1] EXCEPT !.state = IF IsReplDIR(in.task[1]) THEN "ReqPos" ELSE "WriDir"]
  IN IF AllocFire(in) = <<e>> THEN new
     ELSE IF st = "Free" THEN NoReg
     ELSE [state |-> st,
           hn |-> IF r.state = "CopyId" THEN r.repl ELSE r.hn,
           repl |-> IF PosRespHit(r) THEN posResp[1] ELSE r.repl,
           sf |-> IF data THEN "no" ELSE r.sf,
           llc |-> IF data THEN "repl" ELSE r.llc,
           needSnp |-> IF sfHit THEN in.dir[1].victim = "moves" ELSE r.needSnp,
           alrSF |-> r.alrSF \/ sfHit]

-----------------------------------------------------------------------------
(* The PoS set: a request opens a transaction in a normal slot, commit     *)
(* closes it.                                                              *)

NextSlot(s, in) ==
  LET gone == Cleaned(in)  got == PosFire(in)
      lost == IF gone # <<>> /\ gone[1].slot = s THEN {gone[1].ch} ELSE {}
      new == IF got # <<>> /\ got[1].slot = s THEN {got[1].ch} ELSE {}
  IN ((slots[s] \cup new \cup (IF in.open = <<s>> THEN {"req"} ELSE {})) \ lost)
       \ (IF in.close = <<s>> THEN {"req"} ELSE {})

NextTagVal(in) ==
  LET got == PosFire(in)
      has(s) == IF s \in UpdTag(in) THEN in.dir[1].victim # "none"
                ELSE s \in tagVal \/ in.open = <<s>>
  IN {s \in Slot : NextSlot(s, in) # {} /\ has(s) /\ (got # <<>> => got[1].slot # s)}

ReplTick(in) ==
  /\ entries' = [e \in Entry |-> NextEntry(e, in)]
  /\ slots' = [s \in Slot |-> NextSlot(s, in)]
  /\ tagVal' = NextTagVal(in)
  /\ lock' = (PosFire(in) # <<>> \/ (lock /\ UpdTag(in) = {}))
  /\ posResp' = IF PosFire(in) = <<>> THEN <<>> ELSE <<PosFire(in)[1].slot>>

-----------------------------------------------------------------------------
(* The surroundings.  The victim is none (the way was empty), moves (it    *)
(* has to be snooped, or written to memory) or, in LLC only, drops (a      *)
(* clean line of this chip's memory).                                      *)

DirWrite(e) == [hn |-> entries[e].hn,
                dir |-> IF IsReplSF(entries[e]) THEN "sf"
                        ELSE IF entries[e].llc = "repl" THEN "llc" ELSE "direct"]
DirWrites(in) ==
  LET w == Served({"WriDir"}, in)
  IN IF w = <<>> \/ ~(IsReplDIR(entries[w[1]]) \/ entries[w[1]].sf = "direct") THEN <<>>
     ELSE Map(DirWrite, w)

ReplEnv(in) ==
  LET repl(e) == entries[e].repl  hn(e) == entries[e].hn
      some(o) == {o[i] : i \in DOMAIN o}
  IN /\ tx' = [s \in Norm |->
          IF in.open = <<s>> THEN "open"
          ELSE IF in.close = <<s>> THEN "none"
          ELSE IF AllocFire(in) # <<>> /\ in.task[1].hn = s THEN "asked"
          ELSE IF Map(hn, Served({"RespCmt"}, in)) = <<s>> THEN "answered" ELSE tx[s]]
     /\ left' = left - Len(AllocFire(in))
     /\ dirQ' = (IF in.dir = <<>> THEN dirQ ELSE Tail(dirQ)) \o DirWrites(in)
     /\ cms' = {c \in cms : in.cm = <<>> \/ c.slot # in.cm[1].slot}
               \cup {[slot |-> s, kind |-> "snp"] : s \in some(Map(repl, Served({"Snoop"}, in)))}
               \cup {[slot |-> s, kind |-> "wri"] : s \in some(Map(repl, Served({"Write"}, in)))}
     /\ saves' = (saves \ some(in.data)) \cup some(Map(hn, Served({"SaveData"}, in)))

Outputs == {"WriDir", "ReqDB", "Write", "Snoop", "SaveData", "CleanPosT", "CleanPosR"}
NewTasks == {[NoReg EXCEPT !.hn = s, !.repl = s, !.sf = k.sf, !.llc = k.llc] :
               s \in {n \in Norm : tx[n] = "open" /\ left > 0}, k \in Kinds}
DirAnswers ==
  IF dirQ = <<>> THEN {}
  ELSE {[hn |-> dirQ[1].hn, victim |-> v] :
          v \in CASE dirQ[1].dir = "sf" -> {"none", "moves"}
                  [] dirQ[1].dir = "llc" -> {"none", "moves", "drops"}
                  [] OTHER -> {"none"}}
CmAnswers == {[slot |-> c.slot, data |-> d] : c \in cms, d \in BOOLEAN}

\* Only a snoop brings data; requests wait while a slot is asked for.
Possible(in) ==
  /\ in.cm # <<>> /\ in.cm[1].data => [slot |-> in.cm[1].slot, kind |-> "snp"] \in cms
  /\ in.stall \in Outputs => At(in.stall) # {}
  /\ in.first = Min(Entry) \/ \E st \in States \ {"Free"} : in.first \in At(st) /\ At(st) # {in.first}

Openable == IF lock \/ At("ReqPos") # {} THEN {} ELSE FreeSlots \cap Norm
Closeable == {s \in Norm : tx[s] \in {"open", "answered"}}

ReplInputs ==
  {in \in [first : Entry, stall : Outputs \cup {"none"}, task : Opt(NewTasks), open : Opt(Openable),
           close : Opt(Closeable), dir : Opt(DirAnswers), cm : Opt(CmAnswers), data : Opt(saves)] :
     Possible(in) /\ Len(in.task) + Len(in.open) + Len(in.close) <= 1}

ReplNext == \E in \in ReplInputs : ReplTick(in) /\ ReplEnv(in)

\* Nothing that is on its way stays there for ever.
Prompt ==
  \E in \in ReplInputs :
    /\ in.stall = "none"
    /\ (dirQ # <<>> => in.dir # <<>>) /\ (cms # {} => in.cm # <<>>) /\ (saves # {} => in.data # <<>>)
    /\ ReplTick(in) /\ ReplEnv(in)

\* Nothing is on its way, and the clock alone changes nothing.
Resting ==
  LET none == [first |-> Min(Entry), stall |-> "none", task |-> <<>>, open |-> <<>>, close |-> <<>>,
               dir |-> <<>>, cm |-> <<>>, data |-> <<>>]
  IN dirQ = <<>> /\ cms = {} /\ saves = {} /\ ~ENABLED <<ReplTick(none) /\ ReplEnv(none)>>_replVars

ReplSpec == ReplInit /\ [][ReplNext]_replVars /\ ([]<>Resting \/ []<><<Prompt>>_replVars)

-----------------------------------------------------------------------------
(* What an entry holds: the slot its victim leaves under, and for a line   *)
(* that a snoop brought also the slot that line left under.                *)

Second(r) == r.alrSF /\ ~IsReplSF(r)
Holds(e) ==
  LET r == entries[e]
      granted == IF r.state \in {"ReqPos", "WaitPos"} THEN {} ELSE {r.repl}
  IN IF ~IsReplDIR(r) THEN {}
     ELSE IF Second(r) /\ r.state \notin {"CopyId", "CleanPosR"} THEN granted \cup {r.hn} ELSE granted

HeldFor(r, s) ==
  IF IsReplSF(r) \/ (Second(r) /\ (r.state = "CopyId" \/ s = r.hn)) THEN "snp" ELSE "req"

(* Every slot of the set belongs to one transaction or one entry, is in    *)
(* use for the channel it will be cleaned of, and is free once they are    *)
(* done: a slot released twice, for the wrong channel, or never, shows.    *)
SlotsAccounted ==
  /\ \A e, f \in Entry : e # f => Holds(e) \cap Holds(f) = {}
  /\ \A e \in Entry : \A s \in Holds(e) : slots[s] = {HeldFor(entries[e], s)}
  /\ FreeSlots = ((Slot \ {s \in Norm : tx[s] # "none"}) \ UNION {Holds(e) : e \in Entry})
                   \ {posResp[i] : i \in DOMAIN posResp}

(* From the grant of a slot until its victim is known no request enters    *)
(* the set, and while the victim is snooped or written its address is in   *)
(* the slot: no request can find the line unguarded.                       *)
VictimGuarded ==
  \A e \in Entry :
    LET r == entries[e]
    IN /\ IsReplDIR(r) /\ r.state \in {"WriDir", "WaitDir"} => lock
       /\ r.state \in {"ReqDB", "Snoop", "WaitRSnp", "CopyId", "UpdateId", "Write", "WaitRWri"} =>
            r.repl \in tagVal

(* A transaction is answered once, and not before its line has its way and *)
(* the data of LLC has its place.                                          *)
AnsweredWhenDone ==
  /\ \A s \in Norm : tx[s] = "answered" =>
       /\ s \notin saves /\ \A i \in DOMAIN dirQ : dirQ[i].hn # s
       /\ \A e \in Entry : entries[e].hn = s /\ ~Second(entries[e]) /\ entries[e].state # "Free" =>
            entries[e].state \in {"ReqDB", "Snoop", "WaitRSnp", "CopyId", "CleanPosR"}
  /\ \A e \in Entry : entries[e].state = "RespCmt" =>
       ~Second(entries[e]) /\ entries[e].hn \in Norm /\ tx[entries[e].hn] = "asked"

(* The entries hold states of the code and slots of the set.               *)
ReplTypeOK ==
  /\ entries \in [Entry -> [state : States, hn : Slot, repl : Slot, sf : {"no", "hit", "direct", "repl"},
                            llc : {"no", "hit", "repl"}, needSnp : BOOLEAN, alrSF : BOOLEAN]]
  /\ slots \in [Slot -> SUBSET {"req", "snp"}]
  /\ tagVal \subseteq Slot /\ lock \in BOOLEAN /\ posResp \in Opt(Slot)

(* Together: slots, guards and answers of the replacement engine.          *)
ReplInv == ReplTypeOK /\ SlotsAccounted /\ VictimGuarded /\ AnsweredWhenDone

(* Every replacement ends, though a set full of transactions waits for     *)
(* their replacements, which wait for slots of the same set.               *)
ReplacementsEnd == \A e \in Entry : entries[e].state # "Free" ~> entries[e].state = "Free"
=============================================================================
