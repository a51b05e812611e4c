--------------------------- MODULE AxiDataBuffer ---------------------------
(***************************************************************************)
(* The write data buffer of the memory bridge                              *)
(* (model/bridge/axi_data_buffer.cpp): a circular list of free slots, a    *)
(* control entry per machine that names the slots of its write, the RAM,   *)
(* and a two stage pipeline that reads a finished write out to the W       *)
(* channel.                                                                *)
(*                                                                         *)
(* One step is one clock edge with the inputs in: alloc, a write asking    *)
(* for its slots; icn, a beat of write data; from, the machine whose W     *)
(* turn it is; wRdy, the AXI slave.  A beat of data is named by the       *)
(* machine and the half it is written for; a slot nobody will read again   *)
(* holds NoData.  phase, got and due are not in the code: phase is what    *)
(* the machine of the bridge knows of its write, got the halves it sent,   *)
(* due the beats the W channel owes.  stalls never changes: a slave that   *)
(* does not stall takes every beat at once.                                *)
(***************************************************************************)
EXTENDS Integers, Fifo, FiniteSets

CONSTANTS Slots,   \* kSize (64)
          CM       \* machines of the bridge (64)

ASSUME BufferAssumption == Slots \in Nat /\ Slots > 1

VARIABLES
  fl, head, tail, avail,  \* free list
  rel,      \* rel_entries: slots on their way back to the list
  ctrl,     \* ctrl table: buf, recv_max, recv_cnt, data_id_offset
  ram,      \* data_ram
  rx,       \* rx_vld_reg, rx_bits_reg
  tx,       \* tx_req_vld, tx_bits, tx_ctrl, tx_cnt
  s1, s2,   \* stage1, stage2
  phase, got, due,
  stalls    \* whether the AXI slave may make a beat wait

freeVars == <<fl, head, tail, avail, rel>>
ghostVars == <<phase, got, due, stalls>>
adbVars == <<freeVars, ctrl, ram, rx, tx, s1, s2, ghostVars>>

Slot == 0 .. Slots - 1
NoSlot == Slots
Stage == [n |-> 1, flow |-> FALSE, pipe |-> TRUE]
NoData == <<>>
RangeOf(s) == {s[k] : k \in DOMAIN s}
NoCtrl == [buf |-> <<>>, cnt |-> 0, off |-> 0]

AdbInit ==
  /\ fl = [k \in Slot |-> k] /\ head = 0 /\ tail = 0 /\ avail = Slots
  /\ rel = <<>>
  /\ ctrl = [c \in CM |-> NoCtrl]
  /\ ram = [k \in Slot |-> NoData]
  /\ rx = <<>> /\ tx = <<>> /\ s1 = <<>> /\ s2 = <<>>
  /\ phase = [c \in CM |-> "idle"]
  /\ got = [c \in CM |-> {}] /\ due = <<>>
  /\ stalls \in BOOLEAN

-----------------------------------------------------------------------------
AllocFire(in) == in.alloc # <<>> /\ avail >= in.alloc[1].num

\* to_cm: all beats of a write are there, or it is cancelled.
NoticeAtMax == IF rx # <<>> /\ (rx[1].cancel \/ ctrl[rx[1].cm].cnt = Len(ctrl[rx[1].cm].buf) - 1)  \* faulty variant
               THEN {rx[1].cm} ELSE {}
Notice == IF rx # <<>> /\ (rx[1].cancel \/ ctrl[rx[1].cm].cnt = Len(ctrl[rx[1].cm].buf))
          THEN {rx[1].cm} ELSE {}
Cancel == rx # <<>> /\ rx[1].cancel

\* readDataReq: the next slot to read goes to stage1; the last one gives the
\* slots of the write back.
S1Out(in) == EnqRdy(Stage, s2, in.wRdy)
RdrFire(in) == tx # <<>> /\ EnqRdy(Stage, s1, S1Out(in))
RdrLast == tx # <<>> /\ tx[1].cnt + 1 = Len(tx[1].ctrl.buf)
Release(in) == RdrFire(in) /\ RdrLast
AllowNew(in) == Release(in) \/ tx = <<>>
FromFire(in) == AllowNew(in) /\ in.from # <<>>

NextRelNoCancel(in) == IF Release(in) THEN tx[1].ctrl.buf ELSE <<>>  \* faulty variant
NextRel(in) ==
  (IF Release(in) THEN tx[1].ctrl.buf ELSE <<>>)
  \o (IF Cancel THEN ctrl[rx[1].cm].buf ELSE <<>>)

\* The beats of write c, in the order W owes them.
Burst(c) ==
  [k \in 1 .. Len(ctrl[c].buf) |->
     [val |-> <<c, ((ctrl[c].off + k) - 1) % 2>>, last |-> k = Len(ctrl[c].buf)]]

WOut(in) == Given(Stage, s2, <<>>, in.wRdy)

\* The machine asks, is notified, takes its turn, and is free again after
\* the slave has its last beat (B) or after a cancel.
NextPhase(c, in) ==
  IF AllocFire(in) /\ in.alloc[1].cm = c THEN "wait"
  ELSE IF c \in Notice THEN IF Cancel THEN "idle" ELSE "full"
  ELSE IF in.from = <<c>> /\ FromFire(in) THEN "sent"
  ELSE IF WOut(in) # <<>> /\ WOut(in)[1].last /\ Head(due).val[1] = c THEN "idle"
  ELSE phase[c]

\* Entry k of the list after num slots were taken; one that is not free is
\* not read: NoSlot.
NextFl(k, num) ==
  LET back  == {j \in DOMAIN rel : k = ((tail + j) - 1) % Slots}
      taken == {(head + j) % Slots : j \in 0 .. num - 1}
  IN  IF back # {} THEN rel[CHOOSE j \in back : TRUE] ELSE IF k \in taken THEN NoSlot ELSE fl[k]

FreeTick(in) ==
  LET num == IF AllocFire(in) THEN in.alloc[1].num ELSE 0
  IN  /\ fl' = [k \in Slot |-> NextFl(k, num)]
      /\ head' = (head + num) % Slots
      /\ tail' = (tail + Len(rel)) % Slots
      /\ avail' = avail + Len(rel) - num
      /\ rel' = NextRel(in)

\* The entry of a machine without a write in hand is not read: normal form.
NextCtrl(c, in) ==
  IF AllocFire(in) /\ in.alloc[1].cm = c
  THEN [buf |-> [k \in 1 .. in.alloc[1].num |-> fl[((head + k) - 1) % Slots]],
        cnt |-> 0, off |-> in.alloc[1].off]
  ELSE IF NextPhase(c, in) \in {"sent", "idle"} THEN NoCtrl
  ELSE IF in.icn # <<>> /\ in.icn[1].cm = c THEN [ctrl[c] EXCEPT !.cnt = @ + 1]
  ELSE ctrl[c]

\* The slot a beat belongs to: halves count from the first one asked for.
SlotForNoOff(d) == ctrl[d.cm].buf[1 + (d.half % Len(ctrl[d.cm].buf))]  \* faulty variant
SlotFor(d) == ctrl[d.cm].buf[1 + ((d.half - ctrl[d.cm].off) % 2)]

NextTx(in) ==
  IF FromFire(in) THEN <<[cm |-> in.from[1], ctrl |-> ctrl[in.from[1]], cnt |-> 0]>>
  ELSE IF AllowNew(in) THEN <<>>
  ELSE IF RdrFire(in) THEN <<[tx[1] EXCEPT !.cnt = @ + 1]>> ELSE tx

S1Enq == IF tx = <<>> THEN <<>> ELSE <<[set |-> tx[1].ctrl.buf[1 + tx[1].cnt], last |-> RdrLast]>>
\* The RAM is read on the way from stage1 to stage2.
S2Enq == IF s1 = <<>> THEN <<>> ELSE <<[val |-> ram[s1[1].set], last |-> s1[1].last]>>

\* A beat is written only with the gate open, which looks at icn.  ToRead:
\* the slots that are still to be read after this edge.
BufSlots(t) == IF t = <<>> THEN {} ELSE RangeOf(t[1].ctrl.buf)
ToRead == (UNION {RangeOf(ctrl'[c].buf) : c \in CM}) \cup BufSlots(tx')
          \cup {s1'[k].set : k \in DOMAIN s1'}
RamTick(in) ==
  ram' = [k \in Slot |->
            IF in.icn # <<>> /\ ~in.icn[1].cancel /\ k = SlotFor(in.icn[1])
            THEN <<in.icn[1].cm, in.icn[1].half>>
            ELSE IF k \in ToRead THEN ram[k] ELSE NoData]

-----------------------------------------------------------------------------
GhostTick(in) ==
  /\ phase' = [c \in CM |-> NextPhase(c, in)]
  /\ got' = [c \in CM |->
               IF AllocFire(in) /\ in.alloc[1].cm = c THEN {}
               ELSE IF in.icn # <<>> /\ in.icn[1].cm = c
               THEN got[c] \cup {in.icn[1].half}
               ELSE IF NextPhase(c, in) # "wait" THEN {} ELSE got[c]]
  /\ stalls' = stalls
  /\ due' = (IF WOut(in) # <<>> THEN Tail(due) ELSE due)
            \o (IF FromFire(in) THEN Burst(in.from[1]) ELSE <<>>)

\* Static gate of the whole block; the two stages have a clock of their own.
AdbAnyNoRel(in) ==  \* faulty variant
  AllocFire(in) \/ RdrFire(in) \/ in.icn # <<>> \/ in.from # <<>> \/ rx # <<>>
AdbAny(in) ==
  AllocFire(in) \/ RdrFire(in) \/ in.icn # <<>> \/ in.from # <<>> \/ rel # <<>> \/ rx # <<>>

RegsTick(in) ==
  /\ FreeTick(in)
  /\ ctrl' = [c \in CM |-> NextCtrl(c, in)]
  /\ rx' = in.icn
  /\ tx' = NextTx(in)

AdbTick(in) ==
  /\ IF AdbAny(in) THEN RegsTick(in) ELSE UNCHANGED <<freeVars, ctrl, rx, tx>>
  /\ s1' = QNext(Stage, s1, S1Enq, S1Out(in))
  /\ s2' = QNext(Stage, s2, S2Enq, in.wRdy)
  /\ RamTick(in)
  /\ GhostTick(in)

\* What the bridge may present: one write per machine at a time; its beats
\* once each, in any order and mixed with those of other writes; a write of
\* one beat may be cancelled instead.
Allocs == {a \in [cm : CM, num : {1, 2}, off : {0, 1}] : phase[a.cm] = "idle"}
Cancelled(c) == rx # <<>> /\ rx[1].cm = c /\ rx[1].cancel
Halves(c) == IF Len(ctrl[c].buf) = 2 THEN {0, 1} ELSE {ctrl[c].off}
Icns == {d \in [cm : CM, half : {0, 1}, cancel : BOOLEAN] :
           /\ phase[d.cm] = "wait" /\ ~Cancelled(d.cm)
           /\ d.half \in Halves(d.cm) \ got[d.cm]
           /\ d.cancel => Len(ctrl[d.cm].buf) = 1}

AdbNext == \E alloc \in Opt(Allocs), icn \in Opt(Icns),
              from \in Opt({c \in CM : phase[c] = "full"}), wRdy \in {TRUE, ~stalls} :
             AdbTick([alloc |-> alloc, icn |-> icn, from |-> from, wRdy |-> wRdy])

AdbSpec == AdbInit /\ [][AdbNext]_adbVars

-----------------------------------------------------------------------------
Live(c) == IF phase[c] \in {"wait", "full"} THEN ctrl[c].buf ELSE <<>>
InTx == IF tx = <<>> THEN <<>> ELSE tx[1].ctrl.buf
Free == {fl[(head + k) % Slots] : k \in 0 .. avail - 1}

(* The registers keep their types; the counter of received beats included, *)
(* which counts cancels too.                                               *)
AdbTypeOK ==
  /\ fl \in [Slot -> Slot \cup {NoSlot}] /\ head \in Slot /\ tail \in Slot /\ avail \in 0 .. Slots
  /\ rel \in Seq(Slot) /\ Len(rel) <= 4
  /\ \A c \in CM : /\ ctrl[c].buf \in Seq(Slot) /\ Len(ctrl[c].buf) <= 2
                   /\ ctrl[c].cnt \in 0 .. 2 /\ ctrl[c].off \in {0, 1}
  /\ ram \in [Slot -> {NoData} \cup (CM \X {0, 1})]
  /\ tx # <<>> => tx[1].cnt \in 0 .. Len(tx[1].ctrl.buf) - 1
  /\ Len(rx) <= 1 /\ Len(tx) <= 1 /\ Len(s1) <= 1 /\ Len(s2) <= 1

(* No slot is lost or given out twice: free list, slots on their way back, *)
(* slots of live writes and of the write being read out are disjoint and   *)
(* all there are, also when a read-out and a cancel give back in one cycle *)
(* and an allocation takes.                                                *)
SlotsConserved ==
  /\ tail = (head + avail) % Slots
  /\ LET liveSets == {RangeOf(Live(c)) : c \in CM}
         all == (UNION liveSets) \cup Free \cup RangeOf(rel) \cup RangeOf(InTx)
     IN  /\ all = Slot
         /\ Cardinality(Free) = avail
         /\ avail + Len(rel) + Len(InTx)
              + Cardinality(UNION liveSets) = Slots
         /\ \A c, d \in CM : c # d => RangeOf(Live(c)) \cap RangeOf(Live(d)) = {}

(* The machine is told that its write is complete exactly when it is: no   *)
(* notice before the last beat is in the RAM, none that was not asked for. *)
NoticeWhenComplete ==
  \A c \in Notice : /\ phase[c] = "wait"
                    /\ Cancel \/ \A h \in Halves(c) : h \in got[c]

\* Whole bursts in the order of the turns, each with its last beat marked.
BurstsWhole ==
  LET out == s2 \o s1
  IN  /\ Len(out) <= Len(due)
      /\ \A k \in DOMAIN out : out[k].last = due[k].last
      /\ Len(due) = Len(out) + IF tx = <<>> THEN 0 ELSE Len(tx[1].ctrl.buf) - tx[1].cnt

(* A slave that never stalls gets whole bursts in the order of the turns,  *)
(* each beat with its own data; order and last marks hold for every slave. *)
WFollowsTurns == BurstsWhole /\ (~stalls /\ s2 # <<>> => s2[1].val = due[1].val)

(* The W channel carries the data of the write whose turn it is            *)
(* (snode_axi_bridge.h:11): every beat is what the writer sent for it.     *)
WCarriesOwnData == s2 # <<>> => s2[1].val = due[1].val

(* A closed gate skips no change.                                          *)
AdbQuiet == [alloc |-> <<>>, icn |-> <<>>, from |-> <<>>, wRdy |-> FALSE]
AdbGateLosesNothing ==
  ~AdbAny(AdbQuiet) => /\ rel = <<>> /\ NextRel(AdbQuiet) = rel
                    /\ NextTx(AdbQuiet) = tx /\ rx = <<>>

(* Every slot has one owner, and the gate may be closed.                   *)
AdbInv == AdbTypeOK /\ SlotsConserved /\ AdbGateLosesNothing
=============================================================================
