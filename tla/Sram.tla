-------------------------------- MODULE Sram --------------------------------
(***************************************************************************)
(* The memories of the model (prefab/sram.h): SpSram has one port, DpSram  *)
(* one for reads and one for writes.  A configuration fixes                *)
(*   dual    DpSram                  isc     edges the inputs stay stable  *)
(*   lat     latency of the macro    out     register behind it            *)
(*   bypass  BypassWrite             sweep   zeroed entry by entry at the  *)
(*                                           start (ShouldReset)           *)
(* and with them when a port is ready, when a write reaches the array,     *)
(* when a read samples it and when the response appears.                   *)
(*                                                                         *)
(* One way: a write changes the ways of its mask, a read brings all, and   *)
(* no way depends on another.  The sweep is the counter that keeps the     *)
(* ports shut; the array holds zeros from the start.                       *)
(***************************************************************************)
EXTENDS Integers, FiniteSets, Fifo

CONSTANTS
  Row,     \* addresses (kSets of them)
  Word,    \* what an entry can hold
  Zero,    \* the word of the sweep
  SramKinds  \* configurations

\* The static_assert of the templates.
ASSUME SramAssumption ==
  /\ Zero \in Word
  /\ \A k \in SramKinds : /\ k.isc \in Nat \ {0} /\ k.lat \in Nat \ {0}
                           /\ {k.dual, k.out, k.bypass, k.sweep} \subseteq BOOLEAN

VARIABLES
  cfg,     \* the configuration; never changes
  mem,     \* the array
  intv,    \* edges until a port is ready again; one port in SpSram
  rstLeft, \* edges of the sweep left
  capPipe, \* reads that have not sampled, newest first
  holdPipe, \* words that have been sampled, newest first
  wrPipe,  \* writes that have not reached the array, newest first
  now,     \* what the writes accepted so far make of the array; history only
  brings   \* what the accepted reads must bring, newest first; history only

sramVars == <<cfg, mem, intv, rstLeft, capPipe, holdPipe, wrPipe, now, brings>>

Interval(k)  == IF k.lat > k.isc THEN k.lat ELSE k.isc
RamDelay(k)  == IF k.isc = 1 THEN k.lat ELSE k.isc + k.lat
ReadDelay(k) == RamDelay(k) + (IF k.out THEN 1 ELSE 0)
WrDelay(k)   == k.isc - 1
TailWr(k)      == IF k.isc > 1 THEN 1 ELSE 0   \* resetState is registered
RstCycles(k) == IF k.sweep THEN 4 + Cardinality(Row) * k.isc + TailWr(k) ELSE 0
SweepLastWr(k) == IF k.sweep THEN k.isc + TailWr(k) ELSE 0

\* A read of DpSram samples one edge late even where its inputs need not be
\* held.
CapDelayAtOnce(k) == IF k.isc = 1 THEN 0 ELSE k.isc \* faulty variant
CapDelay(k) == IF k.isc > 1 THEN k.isc ELSE IF k.dual THEN 1 ELSE 0
HoldDelay(k) == ReadDelay(k) - CapDelay(k)

Port(op) == IF cfg.dual THEN op ELSE "port"
SramPorts(k) == IF k.dual THEN {"read", "write"} ELSE {"port"}

\* A shift register of depth d, empty; the same after an edge that takes in x.
Blanks(d) == [i \in 1 .. d |-> <<>>]
Shifted(pipe, x) == [i \in DOMAIN pipe |-> IF i = 1 THEN x ELSE pipe[i - 1]]
Oldest(pipe, x) == IF pipe = <<>> THEN x ELSE pipe[Len(pipe)]

SramInit ==
  /\ cfg \in SramKinds
  /\ mem = [a \in Row |-> Zero]
  /\ intv = [p \in SramPorts(cfg) |-> 0]
  /\ rstLeft = RstCycles(cfg)
  /\ capPipe = Blanks(CapDelay(cfg)) /\ holdPipe = Blanks(HoldDelay(cfg))
  /\ wrPipe = Blanks(WrDelay(cfg))
  /\ now = mem /\ brings = Blanks(ReadDelay(cfg))

Ready(p) == intv[p] = 0 /\ rstLeft = 0

\* The request that fires at this edge.
RdFire(in) == IF Ready(Port("read")) THEN in.rd ELSE <<>>
WrFire(in) == IF Ready(Port("write")) THEN in.wr ELSE <<>>

Written(m, wr) == IF wr = <<>> THEN m ELSE [m EXCEPT ![wr[1].row] = wr[1].word]

\* A read on its way, with the word of a write to its row at the same edge.
Captured(in) ==
  LET rd == RdFire(in)  wr == WrFire(in)
  IN IF rd = <<>> THEN <<>>
     ELSE <<[row |-> rd[1],
             fwd |-> IF cfg.bypass /\ wr # <<>> /\ wr[1].row = rd[1] THEN <<wr[1].word>>
                     ELSE <<>>]>>
Sampled(rd) ==
  IF rd = <<>> THEN <<>> ELSE IF rd[1].fwd # <<>> THEN rd[1].fwd ELSE <<mem[rd[1].row]>>

\* resp: out of the last register; where there is none, what is sampled now.
SramResp == IF holdPipe = <<>> THEN Sampled(Oldest(capPipe, <<>>)) ELSE Oldest(holdPipe, <<>>)

NextIntv(in, p) ==
  LET fire == \/ Port("write") = p /\ WrFire(in) # <<>>
              \/ Port("read") = p /\ RdFire(in) # <<>>
      swept == cfg.sweep /\ rstLeft = SweepLastWr(cfg) /\ p # "read"
  IN IF fire \/ swept THEN Interval(cfg) - 1 ELSE IF intv[p] > 0 THEN intv[p] - 1 ELSE 0

\* clk_en holds the sweep, but for its first edge.
SramTick(in) ==
  /\ cfg' = cfg
  /\ intv' = [p \in SramPorts(cfg) |-> NextIntv(in, p)]
  /\ rstLeft' = IF (rstLeft = RstCycles(cfg) \/ in.clkEn) /\ rstLeft > 0 THEN rstLeft - 1 ELSE rstLeft
  /\ capPipe' = Shifted(capPipe, Captured(in))
  /\ holdPipe' = Shifted(holdPipe, Sampled(Oldest(capPipe, Captured(in))))
  /\ wrPipe' = Shifted(wrPipe, WrFire(in))
  /\ mem' = Written(mem, Oldest(wrPipe, WrFire(in)))
  /\ now' = Written(now, WrFire(in))
  /\ brings' = Shifted(brings, IF RdFire(in) = <<>> THEN <<>> ELSE <<now'[RdFire(in)[1]]>>)

\* SpSram is asked one thing at a time.
SramInputs ==
  {in \in [rd : Opt(Row), wr : Opt([row : Row, word : Word]), clkEn : BOOLEAN] :
     cfg.dual \/ in.rd = <<>> \/ in.wr = <<>>}

SramNext == \E in \in SramInputs : SramTick(in)
SramSpec == SramInit /\ [][SramNext]_sramVars

\* A memory serves a read ReadDelay edges after it took it, with what the
\* writes it took up to the same edge have left, however many edges the write
\* and the sample are put off, and whatever was written in between.
SramIsMemory == SramResp = brings[ReadDelay(cfg)]
=============================================================================
