----------------------------- MODULE FastQueue -----------------------------
(***************************************************************************)
(* The FastQueue of prefab/fastq.h between any writer and any reader.  Its *)
(* enq_rdy is a register, which must never promise a place that is not     *)
(* there nor withhold one that is.                                         *)
(*                                                                         *)
(* One step is one clock edge; fqAcc and fqOut record what passed the      *)
(* ports.                                                                  *)
(***************************************************************************)
EXTENDS Fifo

CONSTANTS FqItem,    \* what the queue carries
          FqDeepest  \* the depths N are 2 .. FqDeepest

ASSUME FqAssumption == FqDeepest \in Nat

VARIABLES depth, fq, fqAcc, fqOut
fqVars == <<depth, fq, fqAcc, fqOut>>

FqInit == depth \in 2 .. FqDeepest /\ fq = FqEmpty /\ fqAcc = <<>> /\ fqOut = <<>>

\* w_enq_fire || w_deq_fire: otherwise the whole update is skipped.
WChgEnqOnly(enq, deqRdy) == enq # <<>> /\ fq.rdy  \* faulty variant
WChg(enq, deqRdy) == (enq # <<>> /\ fq.rdy) \/ (fq.items # <<>> /\ deqRdy)

FqTick(enq, deqRdy) ==
  /\ fq' = IF WChg(enq, deqRdy) THEN FqNext(depth, fq, enq, deqRdy) ELSE fq
  /\ fqAcc' = IF fq.rdy THEN enq ELSE <<>>
  /\ fqOut' = IF deqRdy /\ fq.items # <<>> THEN <<Head(fq.items)>> ELSE <<>>
  /\ depth' = depth

FqSpecNext == \E enq \in Opt(FqItem), deqRdy \in BOOLEAN : FqTick(enq, deqRdy)
FqSpec == FqInit /\ [][FqSpecNext]_fqVars

-----------------------------------------------------------------------------
(* The registered enq_rdy is always what a plain queue of the same depth   *)
(* (chisel Queue, neither flow nor pipe) would compute, and every edge     *)
(* changes the contents as that queue does.                                *)
Plain == [n |-> depth, flow |-> FALSE, pipe |-> FALSE]
FastIsPlainQueue ==
  \A enq \in Opt(FqItem), deqRdy \in BOOLEAN :
    /\ fq.rdy = EnqRdy(Plain, fq.items, deqRdy)
    /\ FqNext(depth, fq, enq, deqRdy).items = QNext(Plain, fq.items, enq, deqRdy)

(* Nothing is lost, duplicated or reordered, the static gate included.     *)
FqChan == INSTANCE Channel WITH Item <- FqItem, items <- fq.items, Cap <- FqDeepest,
                                acc <- fqAcc, out <- fqOut
FastIsChannel == FqChan!ChanSpec
=============================================================================
