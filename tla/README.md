# packet-pro in TLA+

packet-pro is a packet-processing framework. Java threads poll the receive
queues of a network card through a JNI library written against DPDK 2.0,
inspect each packet in place in native memory, and send it on or free it. The
repository holds two versions of the framework (`apps/DpdkJava`, and
`apps/DpdkJava-R`, the revised one), applications on top of them (`Firewall`,
`PacketCap`), the same applications in C (`apps/c_apps`), the DPDK sources they
are built on, and the reports.

All paths below are relative to `src/`. "Revised" is DpdkJava-R, "first" is
DpdkJava. An mbuf is DPDK's packet buffer; it lives in a pool (a mempool) and is
handed by pointer from ring to list to ring.

## The parts and how they interact

| Part | Source | Modules |
|---|---|---|
| Receive and transmit rings of the em driver, mbuf reference counts | `dpdk-2.0.0/lib/librte_pmd_e1000/em_rxtx.c`, `librte_mbuf/rte_mbuf.h` | `EthDev` |
| Packet path of the revised framework and its firewall | `apps/DpdkJava-R/src` | `DpdkJavaR` |
| Packet path of the first framework, firewall and capture | `apps/DpdkJava/src`, `apps/java_apps` | `DpdkJava` |
| Life of an mbuf, as the revised firewall promises it | | `MbufLife`, implemented by `DpdkJavaR` |
| Packet path of firewall and capture in C | `apps/c_apps/firewall`, `apps/c_apps/pktcapture` | `CFirewall` |
| Lcore threads of the EAL | `librte_eal` (`eal.c`, `eal_thread.c`, `eal_common_launch.c`) | `Lcores`, inside `CMain` |
| Periodic timer, statistics of the C programs | `librte_timer/rte_timer.c`, `do_stats` | `StatsTimer`, inside `CMain` |
| `main` of the C programs | `apps/c_apps/*/main.c` | `CMain` |
| Start-up: configuration, threads, EAL, pool, port, queues | `ApplicationStarter.java`, `AffinityThread.java`, `Firewall.java`, `DpdkAccess.c` | `Startup` |
| EAL command line | `DpdkAccess.c` of both frameworks, `eal.c` | `EalArgs`, inside `Startup` |
| Link status polling | `DpdkAccess.c` | `LinkStatus`, inside `Startup` |
| Java statistics | `Stats.java` and the counters it reads | `Stats` |
| Native statistics | `do_stats`, `em_ethdev.c` | `NativeStats` |
| Native memory as bytes | `Utils.c`, `Utils.java`, `UnsafeAccess.java` | `NativeMemory` |
| Receive buffer and send list in native memory | `ReceivePoller.java`, `PacketList.java`, `PacketListCreate.java` | `PacketBuffers`, abstract: `BurstChannel` |
| Header accessors | `Packet.java`, `Ipv4Packet.java`, `Ipv6Packet.java` | `PacketHeader`, abstract: `HeaderRecord` |
| Firewall rules | `FirewallProcessor.java`, `Utils.java` | `Blacklist` |
| mempool on the lock-free ring | `librte_mempool`, `librte_ring/rte_ring.h` | `MemPool`, abstract: `ObjectPool` |

`Startup` and, for the C programs, `CMain` end where the packet path begins. The packet path is `EthDev` plus
one of its three users (`DpdkJavaR`, `DpdkJava`, `CFirewall`, each EXTENDS
`EthDev`). The path treats three things as atomic or abstract, and each has a
module of its own:

* taking an mbuf from the pool or putting one back is one step: `MemPool`
  implements `ObjectPool`, in which it is;
* handing a burst to Java and a list to C moves a sequence of mbufs:
  `PacketBuffers` implements `BurstChannel`, in which it does;
* a frame is one of a few kinds, and "blacklisted" is one of them: `Blacklist`
  says which addresses the lookup really stops.

The files `Utils.c`, `Utils.java`, `UnsafeAccess.java`, the packet classes and
`Stats.java` are the same in both frameworks; they are modelled once.

## The modules

**EthDev.** For every queue: the software ring of the receive queue from
`rx_tail` on (`rxRing`), the leading descriptors the NIC has written back
(`rxDone`), those re-armed and not yet returned to it (`rxHold`, `nb_rx_hold`),
the transmit ring's mbufs, oldest first (`txRing`), `nb_tx_free` and the
descriptors transmitted but not cleaned (`txDone`). The pool, the reference
counts and the frame in each buffer are global. Its actions are those of the
NIC (external) and single turns of the driver's loops (`RxPacket`, `TxPacket`,
the cleanup in `TxBegin`), so threads interleave between any two packets of a
burst. The thresholds of the driver (`tx_free_thresh`, `tx_rs_thresh`,
`rx_free_thresh`) are constants. The em driver has one queue; several queues
stand for its relatives igb and ixgbe, which keep their rings the same way.

**DpdkJavaR.** One processor thread per queue: poll, inspect every packet of the
burst, put it on the send list or the free list, flush the list that became
full. `sendBurst` forgets what the driver did not take, and so does `Sent`.

**DpdkJava.** The same path with its differences: `getBurst` keeps its list and
returns it again when a poll receives nothing (`GotNothing`), and lists are
also flushed by a one-second clock. The clock is a free choice at each packet,
since nothing bounds the time between two packets. `MaxStale` bounds the polls
that return the previous list; `BeyondBound` marks where it ends the
exploration.

**CFirewall.** `main_loop` of the C firewall, with `rx_mbufs` and `send_list` as
the globals they are, and `send_packet` split at its reads and writes of
`send_list.len`. With every frame dropped it is the capture program. `overlap`
becomes true when an lcore begins a burst while another has one; the properties
speak of the time before. Each lcore has a queue of its own, which `main_loop`
gives when one of two workers is lcore 1. Data offsets inside an mbuf
(`rte_pktmbuf_adj`) are not modelled.

**MbufLife.** What the revised firewall promises about one buffer: armed,
filled by the NIC, received, accepted or rejected on the frame it holds, sent or
freed, or lost. `DpdkJavaR!Stage` is the refinement mapping. A step of the rings
and lists is a step of this life cycle or a stutter.

**Lcores**, **StatsTimer** and **CMain.** `Lcores` is the handshake of the EAL: a
byte in each of two pipes, and `state` of `lcore_config`, one step per access of
either side. `CMain` is the master: it creates the threads, has all of them run
`sync_func` and waits, sets up port 0 with every call free to fail, launches
`main_loop` on the workers below 32 and then runs the timer. A worker that cannot
set its affinity ends the process. `app` tells the two programs apart: two
queues or one, and the queue a worker polls. `StatsTimer` has the one timer the
programs have, with time relative to the clock, and the received-packet counter
from the register to the printed line.

**Startup** with **EalArgs** and **LinkStatus**. `Firewall.main` call by call.
Each call may fail as the library allows; a failure only clears `working`, and
the next call is made all the same. A call that DPDK would make through an unset
pointer ends in "crashed". Affinity is that of the operating system's threads:
the constructor of `AffinityThread` changes its caller's, and a new thread
inherits its creator's. `EalArgs` builds the argument vector of either framework
(`revised`) and reads it as getopt does; words never written (7 and 8 in the
revised one) are taken to be some text that is not an option. `LinkStatus` is
the polling loop, with links that change at any time. Promiscuous mode and the
MAC addresses change nothing the model has and are not steps.

**Stats.** The pollers' `packet_interval += count` and the timer thread's get and
reset are two steps each. **NativeStats.** The card's registers, cleared by
reading, the driver's sums (which wrap) and the difference `do_stats` prints.

**NativeMemory**, **PacketBuffers**, **PacketHeader**, **Blacklist.** Numbers are
sequences of bytes, least significant first, as on x86. `PacketHeader` has the
accessors through their one shared cursor. `Blacklist` adds the rules and
`inspect`; a setter there also stands for the NIC writing a frame. The pollers
only ever create `Ipv4Packet` objects; `Ipv6Packet` is modelled as an API.

**MemPool.** `__rte_ring_mp_do_enqueue` and `__rte_ring_mc_do_dequeue`, one step
per access to shared memory, under the interleaving semantics that x86 gives
them here (stores in order, loads in order, locked compare-and-set). Indices
wrap at `IndexWrap`. `NotLapped` names the one bound on behaviours: no thread
sleeps through a whole turn of the index (2^32 operations in the code) between
reading a head and moving it. Java threads are not EAL threads and so
bypass the per-lcore cache, which is why it is not here; the C applications do
use it.

## The runs

| Run | Checks | States |
|---|---|---|
| `r_path` | revised path, one queue, 8 mbufs, receive ring 3, transmit ring 3, bursts and lists of 2. `ExclusiveOwnership`, `RefcntsExact`: no mbuf is in two places, no double free. `ImplementsLife`: the path implements `MbufLife`, so a frame is judged once and is still there when the NIC sends it. `ListsFit`, `RingsConsistent`: lists and rings stay in their memory. `NoFreeInFlight`: the lazy cleanup never frees what the NIC reads. `LostOnlyToFullRing`: an mbuf disappears only at a `sendBurst` that finds the ring full | 3,001 |
| `r_sent` | violation, on the instance of `r_path`: `SentOrFreed` | |
| `r_live` | two processors that share the pool. `ExclusiveOwnership`. `FrameInspected`: a received frame is inspected unless the pool is empty. `FullListFlushed` | 102,072 |
| `j_path` | first framework: `OwnedUntilStale`, one owner and an exact count for every mbuf until the first poll that returns the previous list. `ListsFit` even after that. `FlushedUnderTraffic`: no list keeps its packets while packets are added to it, dropped or forwarded without end | 75,914 |
| `c_path` | C firewall on two lcores until their bursts overlap: `NothingLost` (nothing leaks, counts exact), `VerdictHolds` (what waits or is in the transmit ring passed the blacklist) | 14,444 |
| `c_main` | `main` of both C programs, every core mask of four lcores: `NeverRefused` (no launch finds a busy worker), `PollsOnlyReady` (workers poll only what is set up), `PrintsWhatArrived` (each line is exact), `WorkersPoll` (the program exits or every worker gets to poll), `StatsKeepComing` (however late the master is) | 23,640 |
| `startup` | start-up: `RunsOnlyWhenReady`, `CrashOnlyAfterFailure`, `ThreadsShareCore`, `LastPortCutOff`, `EveryPortReported`, `StartupEnds`. After it the Java statistics: `DriftOnlyOnOverlap`, in every step what the totals gain is what one poller hands over, unless the step falls between the other thread's two accesses | 550,184 |
| `startup_cores` | violation: `ThreadsOnTheirCores` | |
| `startup_ports` | violation: `ListedPortsExcluded` | |
| `native` | native statistics: `NothingMiscounted`, `EverythingPrinted`. Shared buffers: `ImplementsChannel`. Headers and rules: `ImplementsRecord`, `PrintedAsRead`, `StopsReversed` | 27,236 |
| `blacklist_listed` | violation: `ListedAreDropped` | |
| `mempool` | `ImplementsPool`, `PutNeverFails`, `FailsOnlyIfShort`, `WaitEnds` | 493,316 |

`startup`, `native` (for `Blacklist`) and `mempool` also check a `TypeOK`. These three are proved
as well, and so are, without a run, those of `DpdkJavaR`, `DpdkJava`, `CFirewall`
and `NativeStats`; those of `CMain`, `Stats` and `PacketBuffers` document the state.
Every property has a mutant, an operator next to the definition it changes, that
makes it fail.

### Bounds

The driver keeps one receive descriptor back, so a receive ring of 3 is the
smallest with bursts of two packets; `r_path` has one. A slot of the transmit
ring is used again, and the mbuf in it freed, once all three are occupied and a
further packet is on the send list: next to a full receive ring that takes seven
mbufs, and `r_path` has eight. The other packet-path runs have receive rings of
2, so their bursts have one packet. `j_path` has seven mbufs, the fewest with which
packets are forwarded for ever; dropped packets and stale polls, which multiply the
states, are explored after another port's queue has taken three of the seven
(`OtherPort` in `MCDpdkJava`), forwarding alone without that. It has no symmetry, and
instead allocates one mbuf of the pool, the next one in a fixed order, since they
are interchangeable. `r_live` and `c_path` have two queues, with
two and three mbufs to spare: enough for lists to be filled by one processor
while the other waits for the pool, and in `c_path`, with a list of three for
two free descriptors, for part of a burst to be refused. They do not use a
transmit slot again. Where an instance stops short, the theorems below are for
every size. The real thresholds (32, and rings of 2048) are scaled down.

What a buffer of the pool holds no longer matters, so `FreeMbuf` forgets it.
`RxInit` says which mbufs the receive rings start with. Mbufs are
interchangeable: `r_path` and `c_path` reduce by all their permutations. The
initial state is one of those that permutations turn into each other, which is
enough since no step and no property tells mbufs apart. Runs with liveness have
no symmetry. Frames that are not accepted take one branch whatever they are:
`r_path` has blacklisted frames, `r_live` IPv6 ones.

In `c_main` lcores are 0 to 3 and the bound of `main`'s loop, 32 in the code, is
3, so that a mask can contain a worker the loop passes over. The timer has a
period of two ticks, `rte_timer_manage` may last three, so that the expiry it sets
may be already past, and counters wrap at 3.
`startup` has two ports, two queues and five sets of online
processors, one without the master core, one without the statistics core. `Stats`
shares nothing with start-up, so it is followed after one successful start
(`StatsFollowed` in `MCStartup`). The three components of `native` share nothing
either: each is followed while the others stay where they began. Its counters wrap
at 3 with 6 events, so sums wrap twice. In `mempool` two
threads move up to two objects with indices that wrap at 8, twice the ring.

### Fairness

Processor threads are endless polling loops: weak fairness of each. The NIC
transmits what it is given: weak fairness of `NicTransmit`. No frame ever has to
arrive. In `j_path` a processor is followed to its first poll that returns the
previous list and through the packets of that list (`MaxStale = 1`); where
`BeyondBound` ends the exploration both lists are short of full. In `startup` the main thread runs; links change as they
like. In `c_main` the master and every lcore thread run, as threads pinned to
processors of their own do, and the clock advances; no packet has to arrive. In
`native` the thread wakes from every sleep. In `mempool` a thread that is inside
an operation goes on.

## The proofs

Every safety invariant, action property and refinement that a run checks is also
proved, for every value of the constants that the assumptions admit. What is left
to TLC alone is liveness, which is outside the prover: `FrameInspected`,
`FullListFlushed`, `FlushedUnderTraffic`, `WorkersPoll`, `StatsKeepComing`,
`StartupEnds`, `EverythingPrinted` and `WaitEnds`. (`SentOrFreed`,
`ThreadsOnTheirCores`, `ListedPortsExcluded` and `ListedAreDropped` are the properties
that the code violates.)

Eight modules hold the proofs. Two or three components share one where their
arguments are short.

**The packet paths.** These theorems hold for any number of processors that share
the pool and for rings, lists and bursts of any size. `EthDevProofs` has the lemmas
on the driver's steps; they are about `EthDev` alone and hold under any of its
users.

* `DpdkJavaRProofs!ListsNeverOverflow`: `Spec => [](TypeOK /\ RingsConsistent /\
  ListsFit)`. The inductive invariant is `TInv`: the driver's typing and ring
  equations, the application's types and `ListsFit`. `ListsFit` has to say that
  lists are short of full whenever the thread is polling or inspecting, or the
  next packet could overrun them. `RingsStayConsistent` states the driver's part
  of it by itself.
* `DpdkJavaRProofs!NoSharedMbuf`: `Spec => [](ExclusiveOwnership /\
  RefcntsExact)`. The inductive invariant `OInv` adds to `TInv` that the family
  of all rings and lists is injective and disjoint from the pool. Every step
  moves one mbuf from one end of one sequence to another sequence or to the
  pool, or drops one; lemmas say that such moves keep the family injective.
  The counts need the ownership (a free is of an mbuf with count 1), and the
  ownership needs the counts (a free really returns the mbuf). `FreesExact` states
  the counts by themselves.
* `DpdkJavaRProofs!FirewallImplementsLife`: `Spec => ImplementsLife`. The stages
  of `MbufLife` are six sets (pool, armed, received, accepted, rejected, sent)
  that `OInv` makes disjoint; a lemma for each action says which mbufs it moves
  between them. `FrameInv` supplies what the buffers hold: those of the pool
  nothing, an armed one a frame exactly if its descriptor is done.
  `InFlightKept` (`NoFreeInFlight`) and `OnlyFullRingLoses`
  (`LostOnlyToFullRing`) follow from `OInv`: an mbuf whose slot is reused is older
  than all that are pending, and the six sets lose a member only in `Sent`.
* `DpdkJavaProofs!BuffersNeverOverflow`: `Spec => [](TypeOK /\ ListsFit)` with any
  number of stale polls. `OwnedBeforeStale`: `Spec => []OwnedUntilStale`. The
  invariant is conditional on no poll having been stale, and needs `Consumed`:
  when a poll begins, the previous list has been gone through.
* `CProgramProofs!NothingIsLost`: `Spec => [](TypeOK /\ NothingLost)`, for any
  number of lcores. `Solo` says that before an overlap at most one lcore has a
  burst, so that the shared arrays have one reader; under it `Owning` makes the
  pool, the armed mbufs, the burst, the list and the transmit rings five disjoint
  sets that cover all mbufs. `OnlyPassedWait`: `Spec => []VerdictHolds`, by the
  frames of the last two.

**`main` of the C programs** (`CProgramProofs`). `LaunchesAccepted`: `MainSpec =>
[]NeverRefused`, for any number of lcores and any core mask. `HandInv` gives each
lcore a phase (not made, fresh, sent a command, acknowledged, idle) for every call
of the master; the point is that an acknowledged worker is already RUNNING, so the
wait cannot pass it by. `WorkersFindPortReady`: `MainSpec => []PollsOnlyReady`, from
the same phases and what each call leaves set up. `LinesAreExact`: `MainSpec =>
PrintsWhatArrived`, for counters of any width.

**Start-up of the Java programs** (`StartupProofs`), for any number of ports,
threads, queues and processors, and every combination of failing calls.

* `PortsExcluded`: `Spec => []LastPortCutOff`. `ArgsInv` says what the argument
  vector and the count are from the call that builds them on; lemmas on the layout
  of the vector say at which positions getopt meets `-b` and its value.
* `LinksReported`: `Spec => []EveryPortReported`. `CheckInv` relates, at every poll,
  the port, the lines printed and whether this is the printing pass; the polls of
  a pass see links that change in between.
* `StartupTypes`: `Spec => []TypeOK`, and `OneCoreForAll`: `Spec => []ThreadsShareCore`,
  by `CoreInv`: a thread that is created has the affinity of its creator, whatever
  its constructor asked for.
* `ReadyBeforeRunning`: `Spec => []RunsOnlyWhenReady`. `ReadyInv` says for each call
  what a `working` that is still true vouches for: `ThreadsInv` for the threads and
  their cores, `DeviceInv` for the pool, the queues and the port, `RunInv` for what
  runs.
* `CrashMeansFailure`: `TxNum >= RxNum => (Spec => []CrashOnlyAfterFailure)`. The
  hypothesis is needed: `dpdk_configure_dev` configures `rx_num` queues in both
  directions, so with fewer transmit queues one of them is never set up and the
  start of the port uses it all the same, no call having reported a failure.

**Statistics** (`StartupProofs`). `CountsExact`: `NativeSpec => [](NativeTypeOK /\
NothingMiscounted)`, for any number of counters and any wrap. It is inductive
together with `SettledCounters`: outside the report of a counter its difference is
zero, so that none spans two readings. `DriftNeedsOverlap`: `StatsSpec =>
DriftOnlyOnOverlap`, for any number of pollers. The property compares each poller
with the totals in a single step; summed over a run without overlaps it gives that
each packet is counted once. `CollectInv` has the types, and that nothing is
collected outside a round.

**Shared memory** (`SharedMemoryProofs`).

* `AccessorsImplementRecord`: `Spec => ImplementsRecord`, for any number of frames at
  any addresses. The cells of two fields, of one header or of two, are disjoint,
  and reading back what was written undoes the change of byte order; so a setter
  changes one field of the record. A getter reads through a signed type and masks:
  its result is the field with zeros in front.
* `RulesPrintedAsRead`: `Spec => []PrintedAsRead`, `InspectStopsReversed`: `Spec =>
  []StopsReversed`, `BlacklistTypes`: `Spec => []TypeOK`, for every file. `RulesInv`
  says that the set of longs is the image of the lines read (an address is printed
  as written; a number above 255 keeps its low byte), `VerdictInv` that the
  last verdict is about the bytes of the frame read backwards.
* `BuffersImplementChannel`: `BufferSpec => ImplementsChannel`, for bursts and lists
  of any length. `BufferInv` says where the two cursors are; `Queue` and `Batch` read
  the two sequences off the bytes, and are the refinement mapping. `Store`, which
  copies a burst into the buffer, is a closed form of the copying loop; that the
  two agree needs induction over the loop, so TLC evaluates it (`StoreIsTheLoop` in
  `MCPacketBuffers`).

**The pool** (`MemPoolInvariance`, `MemPoolProofs`), for any number of threads,
objects and objects per call.

* `PutsFindRoom`: `[](TypeOK /\ PutNeverFails)`. `GetsFailOnlyIfShort`:
  `FailsOnlyIfShort`. `RingImplementsPool`: `ImplementsPool`.
* The indices wrap, so their order says nothing by itself. `RingInv` says that they
  are the remainders of natural numbers `ct <= ch <= pt <= ph`, and that the heads
  the threads have read are those of numbers `h[t]` not above the present heads.
  These numbers are no variables: the invariant is that they exist. The ranges
  that gets and puts under way have reserved are disjoint and lie between `ct` and
  `ch`, and between `pt` and `ph`; the slots from `ct` to `pt` hold different
  objects, none of them in a thread's hands. `PutNeverFails` is a counting argument
  on this (`Room`): the objects in the ring, in hands and being put are at most all
  there are, and the ring is larger than that.
* All three have the hypothesis `LongIndices`, `IndexWrap >= 4 * RingSize`: the
  entries that a stale head seems to leave are a difference modulo `IndexWrap`, and
  it must not be mistaken for a small number. In the code indices have 32 bits and
  `RTE_RING_SZ_MASK` keeps a ring below 2^28 slots, so the ratio is above 16. The
  run has indices of twice the ring, where the properties still hold.
* `NotLapped` is part of the model (see above), so the proofs assume it.

**Assumptions.** `DeviceAssumption` (receive rings start with different mbufs, and
the threshold conditions the driver's queue set-up checks), positive burst sizes
(`BurstAssumption`, `PathAssumption`, `FirewallAssumption`), `LcoreAssumption`,
`LaunchAssumption`, `TimerAssumption`, `NativeAssumption`, `StatsAssumption`,
`EalAssumption`, `LinkAssumption`, `StartupAssumption`, `BlacklistAssumption`,
`HeaderAssumption` (headers lie in memory and do not overlap), `BufferAssumption`
(lengths fit a short) and `PoolAssumption`. Of the last, `RingSize >
Cardinality(Objects)` and `IndexWrap % RingSize = 0` are facts about rounding up to a
power of two that would need induction. TLC evaluates all of them on every run.

## Where code and documentation disagree

Checked as violations, each with a property that holds and says what the code
does instead:

* `sendBurst` will "send burst of packets and also frees them via dpdk library"
  (`PacketSender.java:51`; `implementation.tex:97` has a loop that frees them): what
  a full ring refuses is neither sent nor freed (`r_sent`). `LostOnlyToFullRing`
  says that nothing else is lost.
* `core` is the "core value to run thread on" (`AffinityThread.java:16`; "each thread
  is set to only run on 1 core", `implementation.tex:55`): threads do not run on
  the core they were given (`startup_cores`). `ThreadsShareCore` says on which one
  they all run.
* Listed ports "won't be counted as active ports on EAL initialisation"
  (`design.tex:326`): in the revised framework the last of them is, its arguments
  being cut off (`startup_ports`). `LastPortCutOff` says exactly which are excluded.
* If the checks against the rules fail "the packet is dropped and freed from memory"
  (`implementation.tex:198`): a listed address is stopped only if it reads the same
  backwards, because a rule has its first number most significant and the address
  is read from memory in the machine's order (`blacklist_listed`). `StopsReversed`
  says exactly what is stopped.

Characterised by a property that holds:

* The first framework's `getBurst` returns its previous list after an empty
  poll (`OwnedUntilStale`).
* The Java procedures "also handle error checking" (`implementation.tex:44`):
  set-up goes on after a failure, into a crash if the pool is missing
  (`CrashOnlyAfterFailure`).

Noticed while modelling, not the subject of a run: `dpdk_configure_dev` passes
`rx_num` for both counts; `sendBurst` of the revised framework changes no
counter although its comment says so; its `sendPacket` looks at no clock
although its comment says so, and a list that is not full waits for the next
packets; the first framework's receive buffer is sized for 32 packets and its
native burst by the configuration; `Ipv6Packet.getVersion` shifts `vtc_flow` as
read, in machine order; the C firewall's worker lcores share `rx_mbufs` and
`send_list` without a lock, so `NothingLost` and `VerdictHolds` end with the first
overlap of two bursts, and all its workers but lcore 1 poll the same queue; main
of the C programs looks only at lcores below 32; `free_entries` in `rte_ring.h` can leave its
documented range when the head read is older than the tail read, after which the
compare-and-set fails.

## Not modelled

* GUI classes: output only.
* Byte counters of the statistics: same steps as the packet counters.
* In the C programs: two lcores on one queue, what the shared arrays hold after
  an overlap, and the data offset that `rte_pktmbuf_adj` moves.
* `rte_timer` with several timers or lcores (its skip list and its status
  changes by compare-and-set): the programs have one timer, used by one lcore.
* The per-lcore mempool cache; single-producer and single-consumer rings.
* Scattered receive, offload contexts and multi-segment packets.
* `apps/java_apps/old`, benchmarks, experiments, pktgen, scripts: not part of the
  framework.

Most of the repository is vendored: DPDK 2.0 with drivers for a dozen cards, and
pktgen. Of it the project models the functions the applications run on their
packet path, at start-up and for their statistics. Measured against all C and
Java files the share modelled is therefore small; of the two frameworks and the
applications it is nearly everything that changes state.

## Plan

1. `MbufLife` implemented by `DpdkJava` and `CFirewall` as well, up to the first
   stale list and the first overlap.
2. `MemPool`: the per-lcore cache that EAL threads put in front of the ring.
3. An instance of the C firewall in which transmit slots are used again.
