------------------------------- MODULE Startup -------------------------------
(***************************************************************************)
(* The start of a Java application: Firewall.main calls ApplicationStarter *)
(* once for every step, each of which goes down to DPDK through JNI.  A    *)
(* step that fails clears the flag "working" and the next step is called   *)
(* all the same; only startAll looks at the flag.                          *)
(*                                                                         *)
(* Affinity is the affinity of a thread of the operating system: the one   *)
(* that calls pthread_setaffinity_np changes its own, and a new thread     *)
(* inherits the one of the thread that started it.                         *)
(***************************************************************************)
EXTENDS LinkStatus, EalArgs, FiniteSets

CONSTANTS
  NumCores,   \* cores selected by the "numcores" key
  CoreSets,   \* the sets of online processors to consider
  Threads,    \* the core wanted by each processor thread, in list order
  StatsCore,  \* the core wanted by the native statistics thread
  RxNum,      \* receive queues the application asks for
  TxNum       \* transmit queues the application asks for

ASSUME StartupAssumption ==
  /\ NumCores \in Nat /\ CoreSets \subseteq SUBSET Nat
  /\ Threads \in Seq(Nat) /\ StatsCore \in Nat
  /\ RxNum \in Nat \ {0} /\ TxNum \in Nat \ {0}
  /\ \A S \in SUBSET PciPorts : Cardinality(S) \in 0..MaxPorts

MasterCore == 0   \* core mask 0x1
AnyCore    == -1  \* a thread that nothing pinned

VARIABLES
  cores,       \* processors that are online
  pc,          \* the next call of main
  k,           \* its index: thread or queue
  status,      \* the process: "up", "exited" by exit(-1) or an exception,
               \* "panicked" in the EAL, or "crashed" on a pointer that was never set
  working,     \* ApplicationStarter.working
  mainCore,    \* affinity of the main thread
  affThreads,  \* aff_threads: the cores the created threads were given
  poolMade,    \* pktmbuf_pool # NULL
  nbRx, nbTx,  \* nb_rx_queues and nb_tx_queues of port 0
  rxReady,     \* receive queues set up
  txReady,     \* transmit queues set up
  devStarted,  \* dev_started of port 0
  running      \* running[t]: the core the started thread t runs on

devVars == <<numPorts, poolMade, nbRx, nbTx, rxReady, txReady, devStarted>>
appVars == <<status, working, mainCore, affThreads, devVars, running>>
vars    == <<cores, pc, k, appVars, ealVars, linkVars>>

Calls == {"config", "send", "threads", "args", "eal", "mempool", "ports",
          "configure", "rx", "tx", "start", "link", "stats", "startAll", "run", "done"}

TypeOK ==
  /\ EalTypeOK /\ LinkTypeOK
  /\ cores \in CoreSets
  /\ pc \in Calls /\ k \in Nat
  /\ status \in {"up", "exited", "panicked", "crashed"}
  /\ working \in BOOLEAN /\ poolMade \in BOOLEAN /\ devStarted \in BOOLEAN
  /\ mainCore \in Nat \cup {AnyCore}
  /\ affThreads \in Seq(Nat)
  /\ numPorts \in 0..MaxPorts
  /\ nbRx \in 0..RxNum /\ nbTx \in 0..RxNum
  /\ rxReady \subseteq 0..RxNum - 1 /\ txReady \subseteq 0..RxNum - 1
  /\ running \in Seq(Nat \cup {AnyCore})

Init ==
  /\ EalInit /\ LinkInit
  /\ cores \in CoreSets
  /\ pc = "config" /\ k = 0 /\ status = "up" /\ working = TRUE
  /\ mainCore = AnyCore /\ affThreads = <<>> /\ running = <<>>
  /\ numPorts = 0 /\ poolMade = FALSE /\ nbRx = 0 /\ nbTx = 0
  /\ rxReady = {} /\ txReady = {} /\ devStarted = FALSE

\* main is about to make call c, and goes on to call d with index i.
At(c)     == status = "up" /\ pc = c
Go(d, i)  == pc' = d /\ k' = i /\ UNCHANGED cores

-----------------------------------------------------------------------------
(* Threads.                                                                *)

\* Mutant: the thread stays where it is.
SetThreadAffinityNever(core) == mainCore' = mainCore

\* pthread_setaffinity_np on pthread_self(); it refuses a core that is offline.
SetThreadAffinity(core) == mainCore' = IF core \in cores THEN core ELSE mainCore

\* The constructor of AffinityThread pins the thread it runs in.
NewAffinityThread(core) ==
  /\ SetThreadAffinity(core)
  /\ affThreads' = Append(affThreads, core)

CreateAffinityThreads ==
  /\ At("threads")
  /\ \/ /\ Len(Threads) > Cardinality(cores)
        /\ working' = FALSE
        /\ Go("args", 0)
        /\ UNCHANGED <<mainCore, affThreads>>
     \/ /\ Len(Threads) <= Cardinality(cores)
        /\ k < Len(Threads)
        /\ NewAffinityThread(Threads[k + 1])
        /\ working' = (working /\ Threads[k + 1] \in cores)
        /\ Go("threads", k + 1)
     \/ /\ k = Len(Threads)
        /\ Go("args", 0)
        /\ UNCHANGED <<working, mainCore, affThreads>>
  /\ UNCHANGED <<status, devVars, running>>

\* The result of the constructor is not looked at.
StartNativeStats ==
  /\ At("stats")
  /\ NewAffinityThread(StatsCore)
  /\ Go("startAll", 0)
  /\ UNCHANGED <<status, working, devVars, running>>

-----------------------------------------------------------------------------
(* The environment abstraction layer, the pool and the ports.              *)

\* Too many cores selected, or no file: then config_map is null and
\* sendDPDKInformation throws.
ReadConfig ==
  /\ At("config")
  /\ \/ status' = "exited"
     \/ NumCores <= Cardinality(cores) /\ UNCHANGED status
  /\ Go("send", 0)
  /\ UNCHANGED <<working, mainCore, affThreads, devVars, running>>

SendDPDKInformation ==
  /\ At("send")
  /\ SetBlacklist
  /\ Go("threads", 0)
  /\ UNCHANGED <<appVars, linkVars>>

NatInitEalArgs ==
  /\ At("args")
  /\ BuildArgs
  /\ Go("eal", 0)
  /\ UNCHANGED <<appVars, linkVars>>

ParseArgs ==
  /\ At("eal")
  /\ ParseOption \/ ParseOther
  /\ UNCHANGED <<cores, pc, k, appVars, linkVars>>

\* rte_eal_init pins the main thread and probes the ports that are not
\* excluded; whatever goes wrong ends the process.
InitEal ==
  /\ At("eal") /\ ArgsRead
  /\ \/ /\ MasterCore \in cores
        /\ mainCore' = MasterCore
        /\ numPorts' \in 0..Cardinality(PciPorts \ excluded)
        /\ UNCHANGED status
     \/ /\ status' = "panicked"
        /\ UNCHANGED <<mainCore, numPorts>>
  /\ Go("mempool", 0)
  /\ UNCHANGED <<working, affThreads, poolMade, nbRx, nbTx, rxReady, txReady,
                 devStarted, running>>

\* Mutant: the result of rte_mempool_create is not looked at.
CreateMempoolUnchecked ==
  /\ At("mempool")
  /\ poolMade' \in BOOLEAN
  /\ Go("ports", 0)
  /\ UNCHANGED <<status, working, mainCore, affThreads, numPorts, nbRx, nbTx,
                 rxReady, txReady, devStarted, running>>

CreateMempool ==
  /\ At("mempool")
  /\ poolMade' \in BOOLEAN
  /\ working' = (working /\ poolMade')
  /\ Go("ports", 0)
  /\ UNCHANGED <<status, mainCore, affThreads, numPorts, nbRx, nbTx, rxReady,
                 txReady, devStarted, running>>

CheckPorts ==
  /\ At("ports")
  /\ working' = (working /\ numPorts > 0)
  /\ Go("configure", 0)
  /\ UNCHANGED <<status, mainCore, affThreads, devVars, running>>

\* rx_num is passed for both counts.
ConfigureDev ==
  /\ At("configure")
  /\ \E ok \in BOOLEAN :
       /\ ok => numPorts > 0
       /\ nbRx' = IF ok THEN RxNum ELSE nbRx
       /\ nbTx' = IF ok THEN RxNum ELSE nbTx
       /\ working' = (working /\ ok)
  /\ Go("rx", 0)
  /\ UNCHANGED <<status, mainCore, affThreads, numPorts, poolMade, rxReady,
                 txReady, devStarted, running>>

-----------------------------------------------------------------------------
(* The queues and the device.  main sets up receive queue k, then transmit *)
(* queue k, for every pair it asked for.                                   *)

\* Mutant: queue ids start at 1.
ConfigureRxQueueNext ==
  /\ At("rx")
  /\ IF k >= RxNum \/ numPorts = 0 \/ nbRx = 0 \/ ~poolMade
       THEN UNCHANGED <<status, working, rxReady>>
       ELSE rxReady' = rxReady \cup {k + 1} /\ UNCHANGED <<status, working>>
  /\ Go("tx", k)
  /\ UNCHANGED <<mainCore, affThreads, numPorts, poolMade, nbRx, nbTx, txReady,
                 devStarted, running>>

ConfigureRxQueue ==
  /\ At("rx")
  /\ IF k >= RxNum
       THEN UNCHANGED <<status, working, rxReady>>
       ELSE \/ /\ numPorts = 0 \/ k >= nbRx \/ poolMade
               /\ working' = FALSE   \* no such port or queue, or no memory
               /\ UNCHANGED <<status, rxReady>>
            \/ /\ numPorts > 0 /\ k < nbRx /\ ~poolMade
               /\ status' = "crashed"
               /\ UNCHANGED <<working, rxReady>>
            \/ /\ numPorts > 0 /\ k < nbRx /\ poolMade
               /\ rxReady' = rxReady \cup {k}
               /\ UNCHANGED <<status, working>>
  /\ Go("tx", k)
  /\ UNCHANGED <<mainCore, affThreads, numPorts, poolMade, nbRx, nbTx, txReady,
                 devStarted, running>>

ConfigureTxQueue ==
  /\ At("tx")
  /\ IF k >= TxNum
       THEN UNCHANGED <<working, txReady>>
       ELSE \/ /\ working' = FALSE
               /\ UNCHANGED txReady
            \/ /\ numPorts > 0 /\ k < nbTx
               /\ txReady' = txReady \cup {k}
               /\ UNCHANGED working
  /\ IF k + 1 < RxNum \/ k + 1 < TxNum THEN Go("rx", k + 1) ELSE Go("start", 0)
  /\ UNCHANGED <<status, mainCore, affThreads, numPorts, poolMade, nbRx, nbTx,
                 rxReady, devStarted, running>>

\* The driver initialises every configured queue, set up or not.
QueuesReady == rxReady = 0..nbRx - 1 /\ txReady = 0..nbTx - 1

\* Mutant: a device that does not start goes unnoticed.
DevStartUnchecked ==
  /\ At("start")
  /\ devStarted' \in {FALSE, numPorts > 0 /\ QueuesReady}
  /\ Go("link", 0)
  /\ UNCHANGED <<status, working, mainCore, affThreads, numPorts, poolMade, nbRx,
                 nbTx, rxReady, txReady, running>>

DevStart ==
  /\ At("start")
  /\ \/ /\ working' = FALSE          \* no such port, or the hardware refuses
        /\ UNCHANGED <<status, devStarted>>
     \/ /\ numPorts > 0 /\ ~QueuesReady
        /\ status' = "crashed"
        /\ UNCHANGED <<working, devStarted>>
     \/ /\ numPorts > 0 /\ QueuesReady
        /\ devStarted' = TRUE
        /\ UNCHANGED <<status, working>>
  /\ Go("link", 0)
  /\ UNCHANGED <<mainCore, affThreads, numPorts, poolMade, nbRx, nbTx, rxReady,
                 txReady, running>>

-----------------------------------------------------------------------------
CheckLinks ==
  /\ At("link")
  /\ \/ CheckLinkStatus /\ UNCHANGED <<cores, pc, k>>
     \/ stage = "done" /\ Go("stats", 0) /\ UNCHANGED linkVars
  /\ UNCHANGED <<appVars, ealVars>>

\* Links change whenever they like; only the call above looks at them.
Link ==
  /\ At("link") /\ stage # "done"
  /\ \E p \in Ports : LinkChanges(p)
  /\ UNCHANGED <<cores, pc, k, appVars, ealVars>>

-----------------------------------------------------------------------------
StartAll ==
  /\ At("startAll")
  /\ IF working THEN Go("run", 0) /\ UNCHANGED status
                ELSE Go("done", 0) /\ status' = "exited"
  /\ UNCHANGED <<working, mainCore, affThreads, devVars, running>>

StartThread ==
  /\ At("run")
  /\ IF k < Len(affThreads)
       THEN running' = Append(running, mainCore) /\ Go("run", k + 1)
       ELSE Go("done", 0) /\ UNCHANGED running
  /\ UNCHANGED <<status, working, mainCore, affThreads, devVars>>

\* main has returned, or the process is gone.
Finished == (pc = "done" \/ status # "up") /\ UNCHANGED vars

\* The calls that leave the command line and the link check alone.
Call ==
  \/ ReadConfig \/ CreateAffinityThreads \/ InitEal \/ CreateMempool
  \/ CheckPorts \/ ConfigureDev \/ ConfigureRxQueue \/ ConfigureTxQueue
  \/ DevStart \/ StartNativeStats \/ StartAll \/ StartThread

Main ==
  \/ SendDPDKInformation \/ NatInitEalArgs \/ ParseArgs \/ CheckLinks
  \/ Call /\ UNCHANGED <<ealVars, linkVars>>

Next == Main \/ Link \/ Finished

Spec == Init /\ [][Next]_vars

\* The main thread runs.
LiveSpec == Spec /\ WF_vars(Main)

-----------------------------------------------------------------------------
(* Properties.                                                             *)

(***************************************************************************)
(* startAll is the only call that looks at "working", a dozen calls after  *)
(* the first one that may clear it.  When a processor thread runs, the     *)
(* pool exists, the port is started and has every queue that was asked     *)
(* for, and every thread was given a core that is online.                  *)
(***************************************************************************)
RunsOnlyWhenReady == running # <<>> =>
  /\ status = "up" /\ working
  /\ poolMade /\ numPorts > 0 /\ devStarted
  /\ rxReady = 0..RxNum - 1 /\ 0..TxNum - 1 \subseteq txReady
  /\ \A t \in 1..Len(Threads) : affThreads[t] = Threads[t] /\ Threads[t] \in cores

(***************************************************************************)
(* A call that finds a pointer unset is always the consequence of a call   *)
(* that failed and said so: with as many transmit as receive queues asked  *)
(* for, as the applications do, and every call so far successful, DPDK is  *)
(* never handed something that does not exist.                             *)
(***************************************************************************)
CrashOnlyAfterFailure == status = "crashed" => ~working

(***************************************************************************)
(* The constructor of an AffinityThread pins the main thread, and a thread *)
(* inherits the affinity of the one that starts it.  So all threads end up *)
(* on one core: the one given to the last constructor, or, when that core  *)
(* is offline, the one the EAL left the main thread on.                    *)
(***************************************************************************)
ThreadsShareCore == \A t \in 1..Len(running) :
  running[t] = IF StatsCore \in cores THEN StatsCore ELSE MasterCore

(***************************************************************************)
(* An AffinityThread is given the "core value to run thread on"            *)
(* (AffinityThread.java), and "each thread is set to only run on 1 core"   *)
(* (final report, implementation): a thread runs on the core it was given. *)
(***************************************************************************)
ThreadsOnTheirCores == \A t \in 1..Len(running) : running[t] = affThreads[t]

(***************************************************************************)
(* Start-up always comes to an end, whatever the links do: the threads are *)
(* started, or the process is gone.                                        *)
(***************************************************************************)
StartupEnds == <>(pc = "done" \/ status # "up")

=============================================================================
