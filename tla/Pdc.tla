-------------------------------- MODULE Pdc --------------------------------
(***************************************************************************)
(* One channel of the CC socket (model/cc/pdc.h): PdcTx, which sends only  *)
(* on a token, and PdcRx, which queues what arrives and returns a token    *)
(* for every item it hands over.  cc_socket.h wires seven such channels,   *)
(* each independent of the others, by buildChan.                           *)
(*                                                                         *)
(*   enq -> tx (register) -> rx (register) -> q -> deq                     *)
(*   tokens <- rxg (register) <- txg (register) <- deq.fire                *)
(*                                                                         *)
(* One step is one clock edge with inputs enq (a sequence of at most one   *)
(* flit) and deqRdy.  A Valid register is such a sequence too; its bits    *)
(* without valid are read by nobody.  sent and got record what passed the   *)
(* two ends at the edge.                                                   *)
(***************************************************************************)
EXTENDS Integers, Fifo

CONSTANTS Flit,    \* what the channel carries
          Tokens   \* kPdcTokens, also the depth of the queue (5 in the code)

ASSUME PdcAssumption == Tokens \in Nat \ {0}

VARIABLES
  tx,  \* PdcTx: tokens, sends still allowed; rxg, a token came back in the
       \* last cycle; txd, the flit on the line
  rx,  \* PdcRx: rxd, the flit taken from the line; txg, a flit was handed
       \* over in the last cycle
  q,   \* PdcRx: contents of rxq
  sent, got

pdcVars == <<tx, rx, q, sent, got>>

RxQ == [n |-> Tokens, flow |-> TRUE, pipe |-> FALSE]

PdcInit ==
  /\ tx = [tokens |-> Tokens, rxg |-> FALSE, txd |-> <<>>]
  /\ rx = [rxd |-> <<>>, txg |-> FALSE]
  /\ q = <<>> /\ sent = <<>> /\ got = <<>>

EnqFire(enq) == enq # <<>> /\ tx.tokens # 0

\* What the reader takes in this cycle; a flit that arrives at an empty
\* queue can be taken at once.
DeqFire(deqRdy) == Given(RxQ, q, rx.rxd, deqRdy)

\* Static gates: in other cycles the whole update is skipped.
TxAnyNoRxg(enq) == EnqFire(enq) \/ rx.txg \/ tx.txd # <<>>  \* faulty variant
TxAny(enq) == EnqFire(enq) \/ rx.txg \/ tx.txd # <<>> \/ tx.rxg
RxAnyNoRxv(deqRdy) == tx.txd # <<>> \/ DeqFire(deqRdy) # <<>> \/ rx.txg  \* faulty variant
RxAny(deqRdy) ==
  tx.txd # <<>> \/ DeqFire(deqRdy) # <<>> \/ rx.rxd # <<>> \/ rx.txg

\* A send and a returning token in the same cycle cancel out.
NextTokens(enq) ==
  IF EnqFire(enq) /\ ~tx.rxg THEN tx.tokens - 1
  ELSE IF ~EnqFire(enq) /\ tx.rxg THEN tx.tokens + 1
  ELSE tx.tokens

NextTx(enq) ==
  [tokens |-> NextTokens(enq), rxg |-> rx.txg,
   txd |-> IF EnqFire(enq) THEN enq ELSE <<>>]

NextRxOnArrival(deqRdy) == [rxd |-> tx.txd, txg |-> rx.rxd # <<>>]  \* faulty variant
NextRxQueued(deqRdy) == [rxd |-> tx.txd, txg |-> q # <<>> /\ deqRdy]  \* faulty variant
NextRx(deqRdy) == [rxd |-> tx.txd, txg |-> DeqFire(deqRdy) # <<>>]

PdcTick(enq, deqRdy) ==
  /\ tx' = IF TxAny(enq) THEN NextTx(enq) ELSE tx
  /\ rx' = IF RxAny(deqRdy) THEN NextRx(deqRdy) ELSE rx
  /\ q' = QNext(RxQ, q, rx.rxd, deqRdy)
  /\ sent' = IF EnqFire(enq) THEN enq ELSE <<>>
  /\ got' = DeqFire(deqRdy)

PdcNext == \E enq \in Opt(Flit), deqRdy \in BOOLEAN : PdcTick(enq, deqRdy)

PdcSpec == PdcInit /\ [][PdcNext]_pdcVars

\* The clock runs on and the reader is ready again and again.  The reader
\* of the REQ channel towards the cluster never is (cc_socket.h:14).
PdcRead == \E enq \in Opt(Flit) : PdcTick(enq, TRUE)
PdcFairSpec == PdcSpec /\ WF_pdcVars(PdcRead)

-----------------------------------------------------------------------------
Flits == q \o rx.rxd \o tx.txd
One(b) == IF b THEN 1 ELSE 0

(* The registers keep their types.                                         *)
PdcTypeOK ==
  /\ tx \in [tokens : 0 .. Tokens, rxg : BOOLEAN, txd : Opt(Flit)]
  /\ rx \in [rxd : Opt(Flit), txg : BOOLEAN]
  /\ q \in Seq(Flit) /\ Len(q) <= Tokens
  /\ sent \in Opt(Flit) /\ got \in Opt(Flit)

(* Every token is in one place: still with the sender, with a flit on the  *)
(* line, in the queue, or on its way back.  The counter is never moved     *)
(* without the flit, in the cycles where both ends act at once included.   *)
Credits ==
  tx.tokens + Len(tx.txd) + Len(rx.rxd) + Len(q) + One(rx.txg) + One(tx.rxg)
    = Tokens

(* The queue of PdcRx is never full when a flit arrives, although its      *)
(* enq_rdy is left open: the assertion of the RTL, pdc.h:15 and pdc.h:145. *)
NeverRefused == rx.rxd # <<>> => EnqRdy(RxQ, q, FALSE)

(* The channel is a FIFO of at most Tokens flits: the skipped updates, the *)
(* bypass of the empty queue and the ignored enq_rdy lose, repeat and      *)
(* reorder nothing.                                                        *)
LinkChan == INSTANCE Channel WITH Item <- Flit, Cap <- Tokens, items <- Flits, acc <- sent, out <- got
LinkIsChannel == LinkChan!ChanSpec

(* Five tokens cover the round trip of a flit and its token: the sender    *)
(* never waits unless the reader has left a flit in the queue.             *)
StallsBehindReader == Tokens >= 5 => (tx.tokens = 0 => q # <<>>)

(* A closed gate skips no change.                                          *)
PdcGatesLoseNothing ==
  /\ \A enq \in Opt(Flit) : ~TxAny(enq) => NextTx(enq) = tx
  /\ \A deqRdy \in BOOLEAN : ~RxAny(deqRdy) => NextRx(deqRdy) = rx

(* Nothing refused on arrival, full rate, gates that may be closed.        *)
PdcSafe == NeverRefused /\ StallsBehindReader /\ PdcGatesLoseNothing

(* With a reader that is ready again and again, a sender without tokens    *)
(* gets one.                                                               *)
TokensReturn == tx.tokens = 0 ~> tx.tokens > 0
=============================================================================
