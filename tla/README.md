# TLA+ model of the XiangShan L3 (Zhujiang) WolvicMod model

This directory specifies the cycle-level C++ model of the XiangShan L3 cache in
`src/proj-xiangshan-l3` and checks it: TLA+ modules, TLC configurations for
small instances, and proofs for every instance.  `PROJECT.json` lists the runs,
the source lines each definition stands for, the hazards and the theorems.

Paths below are relative to `src/proj-xiangshan-l3/`.

## 1. The system

A CPU cluster reaches memory through a ring (the Xijiang NoC).  On the ring sit
the CC socket (towards the cluster), four home nodes (DongJiang, the L3
proper), a bridge to the AXI memory bus and one to the AXI-Lite device bus.
Everything is synchronous: a `wolvicmod` module has registers (`REG`) that take
their next value at a clock edge from old values, and wires (`WIRE`) computed
between edges.  The concurrency that matters is not that of threads: it is many
small state machines, all stepping at every edge, each deciding with what it
could see a cycle ago.

| Component | State it keeps | Operations | Talks to |
|---|---|---|---|
| Frontend PoS table (`model/dj/frontend.cpp`, `PosTable`) | 4 sets of 16 slots: who holds the slot (req, snp), the address; per set: the request in s1, its way, sleep/block, posResp, lock; a wakeup pulse | look up and choose (s0), commit (s1), reqPoS grant, updTag, clean | Block (verdict), ReplaceCM (reqPoS, updTag, clean), Commit (clean), task buffers (wakeup) |
| Frontend task buffer (`model/dj/frontend.h`, `TaskBuffer`) | per entry: state, task, nid, retryNum, timeout, validD1; buffer lock; arbiter pointer | accept, send to s0, take the verdict (pass, retry, sleep), wake | PoS table, Block, the other task buffer (shared port) |
| Frontend block (`Block`, `Frontend`) | the task in s1; decode pipe s2, s3 | s1 verdict, directory read, data buffer request, early response | Directory, DataBlock, response queue, Commit |
| Home crossbar (`model/dj/chixbar.cpp`) | none | routes by bank and QoS | ring, two frontends |
| Directory (`model/dj/directory.h`) | tag, meta, replacement SRAMs; pipeline d0..d4; lock and reservation tables | read, write, replacement read, unlock | Frontend, ReplaceCM, Backend |
| ReplaceCM (`model/dj/replace.cpp`) | per entry: a state machine of 18 states | directory write, victim slot, victim data, snoop, write-back | PoS table, Directory, DataBlock, channel machines, Commit |
| Commit (`model/dj/commit.cpp`) | 112 entries: task, flags still owed, early arrivals (alrGet), error | decode, send to the machines, collect answers, respond, clean | every backend machine, ring |
| SnoopCM, ReadCM, WriteCM (`model/dj/cm.cpp`) | per entry: a small state machine | snoop, read, write on the ring | Commit, ReplaceCM, ring, DataBlock |
| DataBlock (`model/dj/datacm.cpp`, `data.cpp`) | 64 data control machines; ids in two queues; data buffer; beat storage | reserve ids, move beats between ring, buffer and storage, release | Commit, ReplaceCM, ring |
| Home shell (`model/home/*`) | two lanes of queues; the `woken` latch that gates the clock | wiring | ring, DongJiang |
| Ring (`model/ring/*`) | per stop, channel and direction: the passing slot, injection state and counter; injection queue; eject buffers with a VIP table | inject, pass, eject | all nodes |
| CC socket (`model/cc/*`) | PdcTx tokens and register; PdcRx register and queue | send, receive, return a credit | ring, cluster |
| AXI bridges (`model/bridge/*`) | per entry: what is still owed upstream and downstream, the number of older same-address entries; data buffer free list | accept, order by address, issue AXI, answer | ring, AXI |
| Prefabs (`prefab/*`) | FastQueue, FifoState, arbiters, SRAM timing | | everything |
| Chip top, C++ API, DPI (`model/wolvic_zj_top.*`, `cpp/`, `dpi/`) | wiring, a cycle counter | one call per cycle | simulators |

The `wolvicmod` framework itself (registers, wires, `Queue`, `Pipe`, round-robin
arbiter) is a git submodule that is not part of the tree; where the code uses
it, it is modelled from that use.

### What is hard here

* A decision is made in one cycle with registers that other machines change
  before the decision is carried out in the next (s0/s1 of the PoS table, the
  waiting counters of the bridges, the credit counters).
* Pulses last one cycle (wakeup, posResp, clean).  Whoever does not look in that
  cycle has missed them for good.
* The performance work added *static gates*: a block of registers is not updated
  at all in cycles in which, somebody argued, nothing can change.
* Resources are reserved, refused and retried: PoS slots, ids, data buffers,
  eject places.  Deadlock freedom rests on a few reserved places (the last two
  ways of a PoS set, the last place of an eject buffer) and starvation freedom on
  a few counters (retry timeout, injection reservation).

### What makes each component correct

| Component | Properties |
|---|---|
| PoS table | one request per address at a time, whatever replacements are told to evict: a request comes only to an address that no slot has and none may still be given; a release is always announced; gates lose nothing |
| Task buffer | tasks of an address leave in order of arrival, none is left behind; one verdict, one task |
| Frontend | a verdict means the same to buffer, table, directory and data buffer; a task that passes has its line alone, under the number that goes with it; a sleeper can still be woken; nobody starves |
| Directory | a way chosen for one transaction is not chosen for another while locked or reserved |
| ReplaceCM, Commit, machines | every owed flag is answered once; no deadlock around reserved ways; no answer for a former owner of the entry |
| DataBlock | ids are neither lost nor duplicated; data is released only when no move of it is pending |
| Ring | no flit lost or duplicated; marks and VIP table describe what really travels; every flit arrives |
| Socket, queues | nothing overflows although `enq_rdy` is ignored; order preserved; every credit comes back |
| Bridges | same-address transactions reach AXI one after another in order of arrival; slots of the data buffer conserved |

## 2. Modules

How a module reads: one TLA+ step is one clock edge.  The inputs of the edge
are a record `in`; the combinational wires of the code are operators of the
same name in upper case (`w_block_s0` is `BlockS0(in, s, a)`); the register
update is `...Tick(in)`, in which every primed variable is computed from
unprimed ones, as the code's update lambdas read old values.  The next-state
relation chooses the inputs freely among those the surroundings can present.  A
`Valid<T>` wire or register is a set or a sequence of at most one element.  Fields
that are read only under a valid bit are kept in a normal form when the bit is off.

| Module | What it is |
|---|---|
| `AddrLock` | abstract: a lock per address with owners of two kinds: a host gets only a free address, a guest is let in first and joins whoever owns the address it turns out to be about |
| `PosTable` | the PoS table of a directory bank; refines `AddrLock`, with requests as hosts and replacements as guests |
| `PerAddrFifo` | abstract: items of one address leave in the order they came |
| `VipArb` | the VIP arbiter of `prefab/xsarb.h` as two operators |
| `TaskBuffer` | the task buffer; refines `PerAddrFifo` |
| `Frontend` | two instances of `TaskBuffer`, the `PosTable` and the s1 logic of `Block`, composed as `Frontend::Frontend` wires them |
| `Directory` | one directory (snoop filter or LLC): pipeline, locks, reservations, way choice, writes and replacement reads |
| `ReplTree` | the PLRU memory of a directory, its forwarding and `plruReplaceWay`/`plruNextState` |
| `Replace` | the replacement engine together with the slots of one PoS set |
| `ChanMach` | `SnoopCM`, `ReadCM`, `WriteCM`, their task queues and the shared answer pipe |
| `Commit` | the commit stage with its two decoders, on top of `ChanMach` |
| `DataBlock` | data control machines, data buffer, beat storage, and the ports between them |
| `Dbid` | the data buffer id pool, its two queues and the `woken` gate of the home shell |
| `Channel` | abstract: a FIFO channel that loses, duplicates and reorders nothing |
| `Fifo` | the queues of the prefabs as operators on sequences (`EnqRdy`, `Deq`, `QNext`; `FqState`, `FqNextRdy`, `FqNext` for `FastQueue`), for modules that use queues |
| `FifoState` | `prefab/fifo_state.h` with its pointers and flags, in its four kinds; agrees port by port with `Fifo` and refines `Channel` |
| `FastQueue` | `prefab/fastq.h` with its shift vector and registered outputs; equals the plain queue of `Fifo` and refines `Channel` |
| `Sram` | `prefab/sram.h`: when a port is ready, when a write reaches the array, when a read samples it and answers |
| `Pdc` | one channel of the CC socket: `PdcTx`, the wire, `PdcRx`; refines `Channel` |
| `BridgeCm` | the control machines of both AXI bridges with their arbiters; refines `PerAddrFifo` per line |
| `AxiDataBuffer` | the write data buffer of the memory bridge: free list, control table, RAM, read-out pipeline |
| `RingChan` | one channel of the ring: N stops, two lanes, injection with the reservation token, eject buffers with the VIP table |
| `Basics_proofs` (encoder, arbiter, queue steps, sequences without repetition, counting), `Frontend_proofs` (the PoS table and the assembled frontend), `TaskBuffer_proofs`, `Storage_proofs` (the two queues, the memories, the id pool, the write data buffer and the control of the bridges), `DirRing_proofs` (the directory, a channel of the ring), `Replace_proofs`, `Commit_proofs` (the commit stage with its channel machines), `DataBlock_proofs` (the data block, the socket channel) | theorems and proofs |
| `MCFrontend`, `MCReplace`, `MCCommit`, `MCAxiDataBuffer`, `MCRing` | constants for TLC |
| `MCPosBuf`, `MCQueues`, `MCPorts`, `MCDataBlock`, `MCDirectory` | two or more components side by side, each by itself: a variable that never changes says which of them a behaviour is about |

Components that interact are composed where the code shares state between them:
`Frontend` holds two `TaskBuffer`s and a `PosTable`; `Replace` holds the slots of the
PoS set it competes for; `Commit` holds the channel machines; `DataBlock`, `Dbid`, `Pdc`,
`BridgeCm` and `RingChan` contain their queues.  `BridgeCm` and `AxiDataBuffer` meet
only in three one-cycle signals (allocate, complete, read out); each is checked
with the other as a free environment that keeps that protocol.  `Commit`, `Replace`,
`DataBlock` and `Directory` talk through queues and broadcast answers; each is
checked against the others as sets of requests under way that are answered in
any order.

Definitions named for an omission (`BlockS0NoLock`, `NextTimeoutNever`, ...) are
broken variants of the definition that follows them.  They take part in no
specification; `PROJECT.json` pairs each with the property that notices it.

### Correspondence and abstractions

`PosTable`: `slot[s][w]` is `entries[16*s+w].state`, `s1[s]` is `PosSetS1`, and
the 64 `wakeup` bits and addresses are the one pulse `wakeup` (at most one slot is
cleaned per cycle).  The offset and the address of a free slot are dropped.
`hold` and `repl` are not registers of the table: they remember, for the
replacement engine, which reserved slot still waits for its `updTag` and which
slots it has been granted.  The environment is taken from the code around the
table: updTag comes once per granted slot (`replace.cpp:114-127`); a clean comes
from the owner of the slot through the channel that owns it (`replace.cpp:128-144`,
`commit.cpp:394-406`); a request that the table blocks is retried
(`frontend.cpp:69-78`).  The victim is any line of the set that the directory may
hold, a line with a live slot included: the directory passes over ways that are
locked, reserved or just promised (`directory.h:393-406`), but a way allocated
directly is none of these after its write (`directory.h:506`, `481-490`), and
`updTag` is written without a look at the other slots (`frontend.cpp:310-313`).

`TaskBuffer`: all registers of `EntryV`.  `retryNum` of a free entry is read (the
timeout of the successor is computed from it), so it is kept, but only as far as
it matters: whether it is saturated.  Its specification `BufSpec` accepts any
verdicts and wakeups whatsoever.

`Frontend`: `st` is `Block.st`.  What a request needs in s1 (directory read, read
receipt, data buffer id) is the constant `Kind`.  `due` counts replacements that
the accepted cacheable requests may still cause (at most two each: snoop filter
and LLC), so that the replacement engine does not ask out of nothing.  The
receive queues in front of the buffers add delay only (`chi_task_in` is any
request at any time) and are left out; so is the decode pipe behind s1, which
cannot push back.

`Directory`: `sf` chooses the snoop filter (with reservations) or LLC once and for
all.  `sft` is the shift register of stages d0 to d4, `entry[s][w]` the line that tag
and meta memory name together; `lock` and `rsv` are the two tables by slot.  The way
the PLRU proposes is any way (`pick`): what the tree itself guarantees is
`ReplTree`'s matter.  The memories have been swept (`rst_done`).  The surroundings
have one live transaction per line.  For requests this is what `Serialised` of
the PoS table shows; that a line is not evicted while a request on it goes on is
an assumption here and in `Replace` (section 6).  `tx` and `evicted` are
theirs.  A way the snoop filter has given out without a victim loses its
reservation at the directory write and is not locked again before the unlock
(`directory.h:506`): from then on (`st = "free"`) nothing is claimed about it.

`ReplTree`: read in d2, used in d3, written in d4; the two forwarding paths
(`newReplMes` of d4, `bp`) are the definition `ReplMes`.  `recent` is a history.

`Replace`: `entries` are those of `ReplaceCM`; `slots`, `tagVal`, `lock`, `posResp` are the
parts of `PosTable` it meets.  One set.  Of a task only what is done to the two
directories counts, and no line is in both of them, so a task replaces in one.  The victim
is none, moves (snoop, or write to memory) or is dropped.  A clean takes effect
when it is granted.  What is under way at the directory, the machines and the
data block is a queue or a set that answers at some edge.  An arbiter serves one
chosen entry, any of them; one port at a time may stall.

`ChanMach`: `cms[k][i]` is an `EntryV` of the pool `k`; the states that no task of this
configuration reaches (`kPreSnp`, `kCanNest`, `kCantNest`, `kSendAck`) are left out, as
are `respErr` and all fields that are only copied.  `got` is `getResp`/`getData` of
`SnoopCM` and `alrGetComp` of `WriteCM`.  Task queues are plain queues of two.

`Commit`: the rows of the decode tables are plans (`MCPlans` has one for every shape
that the flags tell apart), the flags of an entry are the set `flag` under the code's
names, `alrGet` is `got`, and `inst` what `taskInst` has collected.  Requester, owner and
memory answer in any order, as CHI makes them; a write beat that also carries
the CompAck is `NCBWrDataCompAck`.  A reply to something the frontend has sent
early comes no sooner than the entry is allocated, since that takes one stage and
the reply leaves the chip first.  Left out: `respErr`, the rewriting of flit
fields, and the tasks of the replacement engine in the same pools (they return
to it by `toRepl`).

`DataBlock`: `dc[m]` is `DataCtrlV` with its six bitmaps `s_*` and `w_*`; `chiD`, `dsD` the read
pipes of the buffer; `chiQ`, `dsQ` the output queues; `rdPipe` the reads of storage under
way.  The data is one bit of one byte of one beat (`watch`): moves and masks work
bytewise.  The storage of a transaction not in use holds 0, ids are taken lowest
first, and all requests are of one class of QoS.  Commit, the write machine and
ReplaceCM have one thing in hand for a transaction at a time, which is what
`OneDataTask` of `Commit` shows.  `goal` is a history; `still` only lets the clock go
on while nothing else changes.

`Dbid`: a step is a clock edge of the pool that the gate lets through.  The
surroundings ask for ids only when the shell is awake, and return ids that are
held (`datacm.cpp:87-97`).  An edge in the waking cycle itself is not told apart
from one more edge of the prefill.

`FifoState` keeps slots, pointers and the full flag; `Fifo` is what they amount
to.  `IsChannel` is the refinement of `Channel` with the history of what was
accepted and delivered.

`Sram`: `capPipe`, `holdPipe`, `wrPipe` are the `ValidPipe`s of the template; which of them
exist follows from the configuration `cfg`, as the template's `if constexpr` decide.
One way is followed: a write mask selects ways and no way depends on another.  The
sweep is the counter that keeps the ports shut.

`Pdc`: the registers of the transmitter (`tokens`, the outgoing flit), of the
receiver (arriving flit, its queue) and the two wires between them.  The queue
behind the receiver is `Fifo`'s, and its `enq_rdy` is not looked at, as in
`pdc.h`; `NeverRefused`, a part of `PdcSafe`, says that this is all right.

`BridgeCm`: `cms[i]` is `CmSt`; what `UState` and `DState` have not ticked off are the
sets `owes` and `axi`.  `sn` chooses the bridge (`Tr::kSn`) once and for all.  Of a
machine that is not valid, and of `tag_match` in a cycle in which nobody reads it,
a normal form is kept.  `CondVipArb` registers the chosen port a cycle ahead; its
best class (QoS) is modelled, the rotating pointer inside the class is left
open, so the properties hold for any choice within a class.  Beats of read data before the
last one and the count of them (`readCnt`) are left out, as are AXI ids, masks
and sizes.  `waiting` has 32 bits; the model wraps it at `2 * N`.  The ring side
keeps the protocol of the senders: write data and CompAck come after their
invitation and never in the same cycle
(`docs/wolvicmod-zhujiang-model.md:232`); a write of two beats is never cancelled.

`AxiDataBuffer`: `ctrl[c]` keeps the slots of the write of machine `c`, the beats
received and the offset; of a slot or an entry nobody reads again a normal
form is kept (`NoSlot`, `NoData`, `NoCtrl`).  A beat is named by the machine and the
half it was written for, which is all a W beat can be checked against.  `phase`,
`got` and `due` are histories for the properties.  `stalls` chooses once and for all
whether the slave ever makes a beat wait.

`RingChan`: `st[i]` is `ChanStop` of stop `i`; `Rx(i, d)` is the register of the
neighbour; the wires of `chanComb` are operators of nearly the same name and
`NextStop` is `chanNext`.  A valid bit and its value are one set-like sequence of
at most one element, so a value without a valid bit does not exist; `upd_rel` and `upd_tag` are
kept with `upd_valid`.  The four channels are instances with different stops,
buffer depths and tags (`Src`, `Tgt`, `EjD`, `Tag`; `Port` 1 is the second source of
HRQ at a home node).  A flit comes with its target: the address decode of REQ
(`rnDecode`) is left out.  `Half` is the table of `dirMasks` for any number of stops.
A transaction is not repeated while one of its flits is under way (`Job`), so
the tags in a buffer tell the flits apart, as source and transaction number do.

## 3. Runs

| Run | Question | Bounds |
|---|---|---|
| `PosBuf` | Does the PoS table serialise the requests of a line, whatever is evicted, and announce every release, does the task buffer keep the order of an address, and do their gates lose nothing, in any legal surroundings? | the two addresses are interchangeable (symmetry); table: one set (sets are independent but for the input ports), four ways (two normal, both reserved ones), two addresses, either of which may be named as a victim at any time: a replacement slot joins a live request, and two replacements one line; buffer: three entries (an arrival, a release and a waiting task of one address at once), two addresses, `RetryMax = 2` instead of 7 (the counter is only compared with its maximum) |
| `FrontendHpr` | Lost wakeups; agreement of the four users of a verdict; the two buffers and the shared port; does a task that passes have its line alone? | one entry in each buffer, an HPR request of the same address as an ordinary one, each of the directory and response ports ready or not, three ways so that one transaction fills the set |
| `FrontendLive` | No ordinary request starves | two entries, no HPR request, ready lines up, `RetryMax = 2` |
| `Directory` | Does what a transaction was told (hit way, promised way, absence) stay true until it unlocks?  Is a line in one way only?  Is the victim never a recently touched way? | both kinds of directory; two transactions, three ways, four lines in one set (one more than fit) and one in another; tree of four ways in two sets |
| `Replace` | Does every replacement end though the set is full?  Are slots conserved and victims guarded? | two request ways (14 in the code) and the two kept ones; two entries, two tasks that can each hold a request way while waiting: the deadlock of `ReplSelWayNoReserve` occurs |
| `Commit` | Does anything reach an entry that already belongs to another transaction?  Does every transaction end? | two slots, two entries per machine, twelve plans, three transactions: reuse of a slot, two side by side using both decoders and every machine |
| `DataBlock` | No credit exceeded, every awaited beat on its way, right data, every task answered; ids neither lost nor doubled, also while the pool fills itself and the clock is gated | two machines, four slots, the real read latency of 5; one transaction with every task and choice of beats and a change of id, or two that meet at every port (the second beat watched); half a pool of three ids (32), requests for one and two beats |
| `Queues` | Do pointers, flags and bypass of the four queue kinds, and the outputs `FastQueue` registers a cycle ahead, make a FIFO?  Does an SRAM answer with what was written?  Does the AXI write buffer conserve slots and keep turns? | depths 1 to 3 (one slot, even and odd wrap), `FastQueue` 2 to 4; two items; the five memory configurations of the code and one more, two rows; three slots for three machines with one or two beats: two writes of two beats do not fit |
| `Ports` | Order by line in both bridges, no machine forgotten; the socket channel never overflows, runs at full rate, returns its credits | memory bridge with three machines (64 in the code), device bridge with two (8): a line can have a chain of three beside another line; two QoS classes; the real five tokens, two flits |
| `Ring3` | No flit lost or doubled; exactly one mark per waiting stop; the VIP table names only flits that still come; gate; every flit arrives | three stops, eject buffers of two places (5 or 3 in the code), a reservation after one refused cycle (8): three flits to one stop fill its buffer, keep its last room for an elected one and have others refused; two injecting stops in one lane, a stop with two sources, both lanes |
| `AxiBufStall` | expected violation, see section 6 | two slots |
| `RingMark` | expected violation, see section 6 | as `Ring3` |

A bound is enough when the situations named in the last column occur in it; the
broken variants confirm it: every property is violated by at least one
plausible mistake in the code under these very bounds.

The safety property of a component is a conjunction of named parts:

| Property | Parts |
|---|---|
| `PosSafe` | `PosInv` (types, `Serialised`, `ChoiceStaysGood`, `LockWindow`, `ReplKnown`, `OneOwner`, `PulsesTogether`, `TagInSet`), `GatesLoseNothing` |
| `BufSafe` | `OneWait`, `BufGateLosesNothing` |
| `DirInv` | types, `OneCopy`, `HoldsOwned` |
| `ReplInv` | types, `SlotsAccounted`, `VictimGuarded`, `AnsweredWhenDone` |
| `CommitInv` | types, `NothingComesLate`, `DecodedWhole`, `OneDataTask` |
| `DataInv` | types, `QueuesHaveRoom`, `Accounted` |
| `DbidInv` | types, `Conserved`, `NoIdTwice` |
| `AdbInv` | types, `SlotsConserved`, `AdbGateLosesNothing` |
| `BridgeInv` | types, `WaitCountsOlder`, `AwQueueExact`, `NoStaleGrant`, `CmsGateLosesNothing` |
| `PdcSafe` | `NeverRefused`, `StallsBehindReader`, `PdcGatesLoseNothing` |
| `RingInv` | types, `OneMarkEach`, `VipNamesTravellers`, `RingGateLosesNothing` |

Why `RetryMax = 2` for liveness: a task that arrives in the slot of a timed-out
one inherits its timeout for one cycle (`NextTimeout` reads the old counter),
and the buffer is locked for that cycle.  With a maximum of 1 that spurious lock
lets two tasks lock each other out for ever, which a maximum of 2 already
excludes; the code has 7.  `MaxDue = 1` bounds the replacements owed at a time.
`Cached = {a1}` in the frontend runs: only cacheable requests bring lines into
the directory, so the line of the non-cacheable request is never a victim.

`Commit`, `Replace` and `Directory` may stop (their transactions are bounded, or a
request may be absent for ever); their runs do not check for deadlock, and
`TransactionsEnd` and `ReplacementsEnd` say what a deadlock would violate.

## 4. Fairness

Ring: the clock runs as long as a flit is somewhere else than in the last queue
of its reader, and a reader with a flit to take takes one again and again.
Both are written without ENABLED (`[]<>Resting \/ []<><<TRUE>>_ringVars`): a tick changes
something unless the ring is at rest, and a reader can always take.  Nothing is
assumed of lanes, marks or the VIP table; with a VIP pointer that does not move
(`VipPtrStays`) a flit goes round for ever.

`Pdc`: the clock runs and the reader behind the receiver is ready again and
again.  The channels out of the socket have no such guarantee towards the
cluster, which is why only the return of credits is claimed, and only under it.

Frontend.  `ClockRuns`: edges keep coming while an edge can
change something.  The rest is the surroundings' share: every transaction ends
and cleans its slot (`CleansFair`), every victim is named (`NamesFair`), every
replacement that is due and could be granted is granted in the end
(`GrantsFair`, strong, since its set may be locked again and again).  Nothing is
assumed about the frontend itself: that the oldest task of an address gets
through is a consequence of the timeout lock, and fails without it (the
`NextTimeoutNever` variant).  HPR requests are absent from that run: an endless
stream of them starves the ordinary ones by design of `w_select_req`.

`DataBlock`: the clock goes on, and the ring does not refuse one and the same flit
for ever (`Served`).  Nothing is assumed about storage, buffer or arbiters.

`Replace`: as long as an edge or an answer can change something, there are again
and again edges at which whatever is under way outside answers and no port
stalls (`Prompt`).  Directory, machines and data block do answer (`TasksAnswered`,
`TransactionsEnd`); which entry an arbiter takes at such an edge, and whether
transactions close or new ones take slots, is left open.  `CleansFair` and
`GrantsFair` of the frontend are what `TransactionsEnd` and `ReplacementsEnd` show.

`Commit`: nothing stays under way outside and no port stalls for ever
(`[]<>Settled`: the transactions are bounded, so a behaviour comes to rest in which
only a lost answer or a forgotten flag can leave an entry busy).  That the
machines themselves come to rest is not assumed away: a state that cycles for ever
would need input, and an entry still asking for something is not at rest.

## 5. Proofs

All proofs are checked by TLAPS for every value of the constants that satisfies
the modules' assumptions:

| Assumption | What it says, and why it holds |
|---|---|
| `PosAssumption` | a set per address, at least three ways (`kPosWay` is 16) |
| `BufAssumption` | at least one entry, a positive retry bound |
| `FrontAssumption` | a request has one address, and needs a read receipt or a data buffer id, never both |
| `FifoAssumption`, `FqAssumption` | depths are natural numbers |
| `SramAssumption` | `kInputSetup` and `kLatency` are positive: the `static_assert` of both templates (`sram.h:106`, `sram.h:279`) |
| `DbidAssumption` | at least two ids per queue |
| `PdcAssumption` | at least one token |
| `BridgeAssumption` | at least two machines; a request is a write or a read |
| `BufferAssumption` | at least two slots (64), so that a write of two beats can ever be taken |
| `DataAssumption` | at least one machine and one slot; beats and tasks as `DataOp` has them |
| `DirAssumption` | finitely many ways, and no fewer than there are slots with a lock (16 against 14 and 15) |
| `ReplAssumption` | the two kept slots are none of the others; entries are numbered |
| `CommitAssumption` | a slot 0; a number of transactions |
| `PlansAssumption` | every row of the decode tables answers its requester in one way, and fits the stage in six more points (`RowOK`); it holds of all paths through `dj_decode_table.inc`, and TLC evaluates it on the plans of the run |
| `RingAssumption` | at least three stops, eject buffers of two places or more (10; 5 or 3), a positive limit of refusals; no flit is for its own source |

**PoS table.**  `Serialised`, the property of interest, says that of two live
slots with one address one at least is the replacement engine's; it has to hold
whatever lines of the set are named as victims.  It is not inductive.  A
request writes its slot one cycle after it has looked, so one needs
`ChoiceStaysGood`: the chosen way is still free, unreserved, and no slot has
taken the address since.  That in turn needs `LockWindow`: while a reserved slot
waits for the address of its victim no request is on its way into the set, or
the two could meet on that address.  `ReplKnown` says that the slots which wait for an
address are among those of the replacement engine, and these live: a slot becomes
theirs only by a grant, which finds it free, and ceases to be only by a clean
(`ReplStep`).  `OneOwner`, `TagInSet` and
`PulsesTogether` support the case analysis (a clean frees a slot; a tag belongs
to its set; the pulses are visible to the gates).  Their conjunction `PosInv` is
inductive (`PosInvariant`).  From it follow `PosSerialises`, `PosGatesSound` (a
closed gate suppresses no change, so the gated update equals the ungated one;
this is proved first, as `GatesHarmless`, and lets every other proof ignore the
gates), `PosIsSafe`, `PosReleaseWakes`, and the refinement `PosImplementsLock`.
For this `Enters` says what an edge at which a request comes to an address looks like
(no slot has the address, none waits for one in the set, and only the chosen way has it
afterwards), `AddressStep` that whoever else comes waited for an address, and
`GuestStep` that replacement slots come and go without one.

**Task buffer.**  `BufInv` is the type invariant, `OneWait`, and the normal form
of free entries.  `OneWait` holds because at most one entry is sent per cycle
(`SendsOne`) and the waiting one leaves in the next.  `BufIsSafe` adds the gate.
The order of an address rests on `NidsDense`: the numbers `nid` of its waiting entries
are 1, 2, ... without a gap.  It is inductive together with two facts, that a
`kWait` entry has number 0 and that no two entries of an address share one
(`OrderInv`).  A newcomer counts the entries before it, so the step needs the
cardinality of what is there less what leaves at the same edge; a release takes
one off every number of that address at once.  `BufIsFifo` is the refinement of
`PerAddrFifo`: place `n` of the abstract queue is the entry with number `n`, and
an edge is a departure, an arrival, both or neither.

**Frontend.**  `FrontImplementsPos`: the assembly, with its two buffers and
`Block`, drives the table only as `PosSpec` allows: one address at a time, and a
retry whenever the table blocks.  Everything proved of the table carries over
(`FrontSerialises`, `FrontImplementsLock`), and through `INSTANCE` of its proofs
also what is proved of a buffer (`FrontKeepsOrder`).  What couples them is `FrontInv`.
`OneJudged`: of all entries of both buffers one waits, and its task is in `Block`.
`TableFollows`: the s1 registers of the table are about the address of that task.
From these `FrontInStep` and `FrontAgreement`.  `FrontEntersAlone` puts the parts together: an
entry that is freed was accepted (`WaitingMoves`), so its request is in s1 of the table, its way
was not taken from it, and `Enters` applies (`EntersAlone`).  A lost wakeup could come from a
pulse that passes while the task is on its way to sleep.  `WakeBlocks` says that
a pulse which comes with the verdict belonged to a slot that was live at the look-up, so
the verdict was to retry; `SleepHasCause` that a task put to sleep has an owner of
its address, or the pulse just now, before it.  With both, `FrontNoLostWakeup`.

**Directory.**  A request is chosen a way from the row it read and from what was
held when it came by, and both may be stale when the choice is made.  They
are stale only where it does not matter: whoever writes a way holds it, the holder
was seen at d2, and so the row is exact in every way the choice can fall on
(`RowTells`).  `DirIInv` adds what this needs: what each slot holds, told from its
transaction (`HoldsKnown`), that no two slots hold one way (`HoldsApart`), which
transaction is at which stage (`Spaced`, `TxKnows`), and what an entry that is held
contains.  That a way is left to choose is a count: every slot holds one way at
most, the asking one holds none, and there are no fewer ways than slots.  From it follow
`DirIsSafe` and `DirWayKept`, the action property that what a transaction was told of its
line stays true until it unlocks.

**Replacement engine.**  `SlotsAccounted` says who holds a slot and what for; the step
needs the reason why no one else can.  `Owns` is what an entry holds and, until it
has answered, the slot of its transaction; no two entries own one slot (`Apart`), and what a
transaction has is in use for requests and held by no entry (`TxOwned`).  A slot changes hands
at two places.  A grant is on its way for one cycle (`posResp`): `OneLocks` says
that there is then one entry in `WaitPos`, whose channel the slot is in use for, and that until the
victim of a grant is known nobody else is looked up.  A clean gives the slot of the
snooped line back for the snoop filter and later the other for its own
channel (`HeldFor`, `ReleasedFor`).  An entry hears answers by slot numbers alone, so `Awaited`
has for everything under way an entry that waits for it and owns its slot; with `Apart` this is
the only one that hears it (`CmOnly`, `DirKept`).  Each register is followed once, in
`EntryMoves`, and what an entry holds before and after an edge in `HoldsStep`; the other steps
go by those two.  The conjunction `IInv` is inductive and TLC has checked it on the
instance of the run; `ReplIsSafe` and `OneLookup` follow.

**Queues.**  `FifoPortsAgree` and `FifoNextAgrees`: every output and every
update of the pointer queue equals that of the sequence in `Fifo`, for every
depth and kind; the invariant relates pointers and full flag to the length.
`FifoIsChannel` follows.  `OptIsSeq`, `HeadTailSplit`, `QTypes`, `QConserves` and
`QLen` are the lemmas on `Fifo` that other proofs cite.  `FqIsPlainQueue`: the
`enq_rdy` that `FastQueue` registers a cycle ahead is exact before an edge, hence after it,
and its update is that of the plain queue; `FqIsChannel` adds that an edge the
static gate skips would have changed nothing.

**Memories.**  A read samples the array some edges after it was taken, and a write
reaches it some edges after it was taken.  `SramInv` says what is between: the port that took
a write stays shut for as long as the write is under way, so at most one is (`OneWrite`); what a
row holds once the writes of a certain age are in is told by the array and that
write (`Holds`), and this does not change when everything moves on by an edge
(`HoldsOn`).  A read that comes out of the pipe is older than any write left in
it, so it finds exactly its due.  `SramServes` states it for every number of rows,
every interval and latency, one port or two, with and without bypass and output register.

**Bridges.**  A machine counts the older ones of its line once, when it arrives, and
counts down on their pulses.  `WaitCountsOlder` says that the count is exact; it would
break if two machines of a line woke in one cycle, for a cycle takes off one.  They do not: of
two live machines of a line one is older (`OlderSame`), and one that waits has not
touched AXI yet, so only the oldest can finish.  `PhasesOK` says what of a transaction comes
before what, `AwExact` and `AllocExact` who stands in the two queues; all this is
inductive (`BridgeInvariant`).  Consequences are `BridgeIsSafe`, `BridgeForgetsNobody` (a machine that is
not done asks for something, is owed something, stands in a queue or waits for an older one)
and the refinement of `PerAddrFifo` by lines, `BridgeKeepsOrder`.

**Write data buffer.**  The circular list, read from `head`, is a queue of slots
(`FreeSeq`): an edge takes the first of it and appends what comes back, and this is where
`%` is dealt with (`ListMove`, `ListSplits`).  After that everything moves in whole
sequences.  `Apart` and `Covered` say that every slot is in exactly one place: the list, the
slots on their way back, the write that is read out, a live write.  An edge keeps this
also when a read-out and a cancel give back while an allocation takes
(`PlacesStep`); that the list has room for what comes back is a count (`SlotsCount`).
`AdbGate` comes first: a closed gate skips no change.  `MachineOK` ties the counter of a
control entry to the set of halves that came, so a full counter means all of them
(`HalvesCard`, `AdbNotifies`).  `DueOK` says where the beats lie that the W channel owes: the two
stages, then the rest of the burst being read.  `RamOK` says what the slots hold: a
beat is written to a slot of a live write, which no read-out or stage has (`RamKeeps`).
A stage holds a slot that may already be on its way back, never one that
is free, as long as the slave takes each beat; with a slave that stalls this fails, which is the
finding `WCarriesOwnData`, and `RamOK` claims nothing of it.  `AdbIInv` is inductive
(`AdbInvariant`) and gives `AdbIsSafe`, `AdbNotifies` and `AdbFollowsTurns`.

**Socket.**  `PdcCredits`: tokens, flits on the way, flits queued and credits on
the way back add up to the depth of the queue.  It is inductive with the types
and gives `PdcNeverRefuses` (the queue has room for whatever is on the way),
`PdcFullRate`, `PdcGatesSound`, together `PdcIsSafe`, and `PdcIsChannel`.

**Id pool.**  `Conserved` says where the ids are, not that there is room for those
that come back, and nobody looks at the `enq_rdy` of the two queues.  Two ids that
come back at once go one to each queue, so both must have room; since the ids in
queues and in use add up to twice the depth (`Sizes`), this holds if the lengths of
the queues differ by one at most: `Balanced`, which is what the steering of single
ids by length is for.  `Filling` says what the queues hold while the counter fills
them, and that a filled pool is `woken` keeps a closed gate from swallowing an id.
`QueueStep` is the lemma on `FastQueue`: with room, its registered `enq_rdy` is exact
and the queue keeps every id.  `DbidIInv` is inductive (`DbidInductive`) and gives
`DbidIsSafe` and `DbidRefusesOnlyWhenShort`.

**Ring.**  All stops move at one edge, so each step of the proof follows one thing:
where a flit is next, by where it was (`PlaceStep`), what becomes of a mark, what of an
entry of the table.  `GateHarmless` comes first: a closed gate skips nothing, and every stop
may be taken to move (`AllMove`).  `Rooms` counts the places of an eject buffer, which makes
`eject_fire` (free rooms) and `ipipe_enq_fire` (the two queues) the same condition
(`EjectIs`).  `Spread`, one place for each flit under way, keeps the queues free of doubles.
`Marks` holds because a stop passes on a mark that is not its own and does not put
its own on a marked place.  `Vips` needs the upd register: who is in the table comes
round again, or the release is under way.  The conjunction `RingIInv` is inductive
(`RingInvariant`); TLC has checked it on the instance of `Ring3`.  That the table always has
room is a count (`TableHasRoom`): it has as many entries as the lane has places, each entry
is a flit on the lane, and the newcomer is one more.  From these `RingIsSafe` and
`RingLosesNothing`.

**Data block.**  A machine knows of each beat of its task whether it is to be asked for
(`s_*`) and whether it is awaited (`w_*`); what is in between is in two shift
registers, two queues and the pipeline of storage.  `Stages` relates the two: for every
machine and way, awaited is to be asked for or on the way, and never both (`Ledger`), and in each state
only the beats of that state's way are (`Stage`).  A request leaves the first set and enters the second
(`AskedBy`), an arrival leaves the second, and a beat that goes from storage to the output at
once leaves two ways in one edge; for this `AtOnce` tasks await at the output all they read (`Works`).
`OnTheWay` says that a beat is on its way once, and counts: steps and queue together hold two
beats at most (`Roomy`), which is what `Room` in the grant preserves (`PipeStep`), so that nobody
needs the queues' `enq_rdy`.  `TaskFits` and `OneMachine` say who an input is for: a task, which is registered for an
edge, finds its machine between tasks.  Their conjunction `FlowInv` is
inductive (`FlowStep`; TLC has checked it on the bounds of the run) and gives `DataIsSafe`.

Where the data end up needs a second invariant beside it, `RightInv`, for the watched beat.
`OneHolder`: a slot belongs to one beat of one machine, since a new machine takes slots that no
machine holds; only its holder is then written into the slot (`SlotStep`), and `clean` of a slot
handed out never meets one in use (`NotCleaned`).  `Contents` says for a machine at work what its
slot, the mask, the exchange bit `replVec` and its line contain (`Fills`), by what is still to be read and saved:
before the read the slot has what came from the network, after it what the task is to send,
and after the save the line has what was to be saved.  An exchange needs the bit: the old
line must overwrite a full slot, but not before the slot's request has gone out, which is why
both readers are asked in one edge (`AskedRepl`).  `Carried` says the same of every beat
on its way, by where it is: a request that reads the slot one or two edges later finds there what its
task is about, since nothing writes the slot in between (`ChiKeeps`, `DsKeeps`).  `SlotsFit` hands
over what the surroundings have looked at when they sent a task, an edge before it is taken.
`RightStep` proves it inductive with `FlowInv` (TLC has checked it first), and
`DataIsRight` follows.

**Commit.**  An entry leaves by its own flags alone; the tasks, flits and answers of its
transaction are elsewhere, and nothing in the entry counts them.  So `NothingComesLate` is far
from inductive.  `StageInv` says for every slot what each flag stands for.  While
`wCmResp` is set the task is at one place, and one only: still with the entry, in a
queue, in a pool or in the answer register (`QueueOK`, `PoolOK`, `PipeOK`), and a machine that has it
knows exactly which flits are due for it (`ForeignOK`: `SnpDue`, `RdDue`, `WrDue`; a snoop
may be answered by two beats or by one response, a write by two responses in any order or by
one).  A beat of write data is due only if `wXCB0` or `wXCB1` waits for it (`XcbOK`), an ack only
if `wCompAck` does, and the requester has its answer then (`AckOK`); data tasks and
directory writes have their flags too (`DataOK`, `ReplOK`).  The one awkward place is
the edge before the entry is filled: the front end may have answered already, so what comes of
it may be due although there is no entry yet (`AllocHit` in these parts).  `AnswerOK` gives
the number of answers: a row has one way of answering (`AnsweredBy`), and `Answered` says from
state, flags and the place of the task whether it was taken.  `StateOK` and `FlagOK` relate
flags, state and row, `InstOK` and `DecOK` what a decoder looks up and what was brought.  `EntryCase`
then reduces an edge to four cases for each slot: a free entry stays free, an entry is
filled, it hears of its decoding, or it runs on and only loses flags; and each part is kept on its own
(`PlacesKept`, `ForeignKept`, `StateKept` and so on; TLC has checked `StageInv` on the bounds of
the run first).  `NothingOut` reads off that an entry without a flag has nothing under way,
and `StageIsSafe` follows.

Model-checked only: the PLRU tree (`VictimNotRecent`; the tree is recursive over its levels), and
all liveness, which is out of reach of the prover: `ReqAccepted`, `TokensReturn`, `TasksAnswered`,
`EveryFlitArrives`, `ReplacementsEnd`, `TransactionsEnd`.

## 6. Findings

`RingMark`.  `docs/zhujiang-primer.md:568-571` says that a waiting stop marks an empty
place, that the place is still empty when the mark comes home, and that an
injection therefore waits for two rounds at most.  `chanNext` (`ring_chan.h:351-355`) marks the
next place without a mark, empty or not; a flit in it that its target refuses
comes round with the mark, and the stop waits again.  The stop is not starved by
it (`EveryFlitArrives`), but the bound is not two rounds.  For the same reason a
refused flit is overtaken by a later one of the same source, target and lane,
which line 579 of that document excludes.

`AxiBufStall`.  `w_release` (`axi_data_buffer.cpp:71`) gives back the slots of a write
when its last slot number enters `stage1`, but the RAM is read on the way into
`stage2`.  If the AXI slave stalls in between, another write can get the slot
and overwrite it, and the W channel carries foreign data.  The free list is
circular, so all other slots must be in use at that time: 64 writes of two
beats ask for twice as many slots as there are.

`docs/wolvicmod-zhujiang-model.md:646` says that the HPR buffer always idles and
`selectReq` is constantly true; `chixbar.cpp:20-29` routes requests of QoS 15 to the HPR
port, so it is not.  Line 255 of the same document corrects it.  Likewise its
line 222 and `snode_axi_bridge.h:5` call the order of the memory bridge one of 32 KB
blocks, while the tag compared is `addr[37:6]`, a line of 64 bytes; line 224 says so.

Not a contradiction of any document, but worth knowing: an HPR task that times
out loses its lock when it goes to sleep, because only `kSend` and `kWait` entries
count as locking (`frontend.h:364-373`); in the cycle of its wakeup pulse an
ordinary request of the same address can be looked up and take the slot.  If the
timing repeats for ever, the HPR task starves although its buffer has priority.

A way of the snoop filter that was given out without a victim is held by nothing
between its directory write and the unlock of its transaction (`directory.h:506`
clears the reservation; a lock is set only by a read that hits or by a
replacement, lines 481-490).  In that window a lookup of the same set may name it
as a victim although the line still has a live slot.  The write has just
renewed the PLRU state, but if the way PLRU names is in use, the lowest way
not in use is taken instead (`directory.h:446-459`), and that may be the fresh
one.  `updTag` then gives the replacement slot the address of a live
request.  `docs/zhujiang-primer.md` excludes this: a way once chosen is locked until the
transaction ends (line 684), an eviction queues behind the transactions of the victim's
address (639), and an address has one transaction at most (686).  What the
table does guarantee without it is `Serialised` and `LockSpec`: requests never
share an address, with replacements or not.  What the eviction and the request then do
to the line is outside the models: `Directory` and `Replace` assume one live transaction
per line.  No run shows that the directory does name such a way, which takes the
directory and the table composed; this is reading of the code.

## 7. Not modelled, and the plan

Not modelled, with the reason: the assembly of the directories of a bank
(`directory.cpp`: routing by type and response queues; only the queue in front of
the memories could matter, since a write waits there while the transaction goes
on), the QoS layers of `QosRRArb` (choices are left open, or of one class), the
crossbar of the home node (combinational), the wiring of `DongJiang` and `HomeShell`
beyond the `woken` latch (in `Dbid`) and their pipe queues (instances of `FifoState`),
error bits (`respErr` is only accumulated and passed on), flit field layout, decode
tables (they come in as plans), DPI packing, the C++ API and chip top (wiring and a
call per cycle), tests and tools.

What would add most next:

1. `Commit`, `Replace` and `DataBlock` composed, with the tasks of the replacement
   engine in the channel machines: the assumptions each makes about the others
   (one data task at a time, an answer for every request) become consequences.
2. `Directory` behind the queues of `directory.cpp`, composed with `PosTable`: whether
   a line in service is ever named as a victim, and what becomes of it then, which
   `Directory` and `Replace` assume away.
3. The QoS layer of the arbiters, with starvation of the lower class as the question.

Every safety invariant of the runs but the one on the PLRU tree has a theorem; with the
compositions above, what each proof assumes of its surroundings would be next.

Open in what is modelled: starvation freedom of an injection that relies on the
reservation token alone needs more than three stops and more flits than TLC
can follow (with three stops a refused flit always leaves a gap in time);
`Ring3` checks the token's safety (`OneMarkEach`) and arrival within its bounds.
An HPR task can starve as section 6 describes; nothing claims a bound.
