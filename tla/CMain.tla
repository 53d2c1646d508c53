-------------------------------- MODULE CMain --------------------------------
(***************************************************************************)
(* main of the C applications firewall and pktcapture, from the creation   *)
(* of the lcore threads in rte_eal_init on: it waits for the threads to be *)
(* ready, sets up port 0, gives every worker main_loop and then prints     *)
(* statistics from a timer for ever.  The two programs differ in the       *)
(* number of queues and in the queue a worker polls.                       *)
(*                                                                         *)
(* What main_loop does with packets is the subject of CFirewall.           *)
(***************************************************************************)
EXTENDS Lcores, StatsTimer

CONSTANT LaunchBound  \* main looks at the lcores below 32 only

ASSUME LaunchAssumption == LaunchBound \in Nat

VARIABLES
  app,      \* the program
  nextCall, \* the next call of the master
  todo,     \* the lcores, or queues, its loop has still to visit
  poolMade, \* rx_pool # NULL
  ready,    \* the queues of port 0 set up: <<"rx", q>> and <<"tx", q>>
  started   \* rte_eth_dev_start succeeded

portVars    == <<poolMade, ready, started>>
mainVars    == <<app, nextCall, todo, portVars>>
programVars == <<lcoreVars, timerVars, countVars, mainVars>>

AppQueues == IF app = "firewall" THEN {0, 1} ELSE {0}

\* The queue main_loop polls, and in the firewall sends on, on lcore l.
QueueOf(l) == IF app = "firewall" /\ l # 1 THEN 1 ELSE 0

\* The calls in the order of main; each loop of launches waits in the call
\* named after it for the acknowledgement.
Calls == {"create", "check", "sync", "syncAck", "wait", "configure", "mempool", "rx",
          "tx", "start", "link", "launch", "launchAck", "timer", "manage",
          "stats", "reload", "gone"}

MainTypeOK ==
  /\ LcoreTypeOK /\ StatsTypeOK
  /\ app \in {"firewall", "pktcapture"} /\ nextCall \in Calls
  /\ todo \subseteq LcoreIds \cup {0, 1}
  /\ poolMade \in BOOLEAN /\ started \in BOOLEAN
  /\ ready \subseteq {"rx", "tx"} \X {0, 1}

MainInit ==
  /\ LcoreInit /\ StatsInit
  /\ app \in {"firewall", "pktcapture"}
  /\ nextCall = "create" /\ todo = Workers
  /\ poolMade = FALSE /\ ready = {} /\ started = FALSE

At(c) == nextCall = c /\ UNCHANGED app

\* The master visits x, the first left in todo, and stays in the loop c.
Visit(x, c) == First(x, todo) /\ todo' = todo \ {x} /\ nextCall' = c

\* The loop is over: on to call c, which visits S.
Leave(c, S) == todo = {} /\ nextCall' = c /\ todo' = S

\* rte_panic, or rte_exit, which ends every thread of the process.
Exit == nextCall' = "gone" /\ UNCHANGED <<todo, lcoreVars, portVars>>

-----------------------------------------------------------------------------
(* The end of rte_eal_init.                                                *)

CreateThreads ==
  /\ At("create")
  /\ \/ Exit
     \/ /\ \E l \in LcoreIds : Visit(l, "create") /\ CreateThread(l)
        /\ UNCHANGED portVars
     \/ Leave("check", {}) /\ UNCHANGED <<lcoreVars, portVars>>

\* rte_eal_mp_remote_launch looks at every worker before it launches one;
\* its result is not looked at.
MpCheck ==
  /\ At("check")
  /\ Leave(IF \A l \in Workers : state[l] = "WAIT" THEN "sync" ELSE "wait", Workers)
  /\ UNCHANGED <<lcoreVars, portVars>>

\* A loop of rte_eal_remote_launch(f) in call c, up to the wait for the
\* acknowledgement, and on to call next, which visits S.  A launch that is
\* refused is passed over.
Launch(c, f, ack, next, S) ==
  /\ At(c)
  /\ \/ \E l \in LcoreIds :
          \/ First(l, todo) /\ Send(l, f) /\ nextCall' = ack /\ UNCHANGED todo
          \/ state[l] # "WAIT" /\ Visit(l, c) /\ UNCHANGED lcoreVars
     \/ Leave(next, S) /\ UNCHANGED lcoreVars
  /\ UNCHANGED portVars

\* The end of rte_eal_remote_launch.
Acknowledge(ack, c) ==
  /\ At(ack)
  /\ \E l \in LcoreIds : Visit(l, c) /\ GetAck(l)
  /\ UNCHANGED portVars

SyncLaunch == Launch("sync", "sync_func", "syncAck", "wait", Workers)

\* rte_eal_mp_wait_lcore, which spins on a worker that runs, then the probe of
\* the ports, which may panic.
MpWaitLcore ==
  /\ At("wait")
  /\ \/ /\ \E l \in LcoreIds : Visit(l, "wait") /\ WaitLcore(l)
        /\ UNCHANGED portVars
     \/ /\ \E l \in todo : First(l, todo) /\ state[l] = "RUNNING"
        /\ UNCHANGED <<nextCall, todo, lcoreVars, portVars>>
     \/ Leave("configure", {}) /\ UNCHANGED <<lcoreVars, portVars>>
     \/ todo = {} /\ Exit

-----------------------------------------------------------------------------
(* Port 0.  Every call may fail, and then the program exits.               *)

Configure ==
  /\ At("configure")
  /\ Exit \/ (Leave("mempool", {}) /\ UNCHANGED <<lcoreVars, portVars>>)

CreateMempool ==
  /\ At("mempool")
  /\ \/ Exit
     \/ /\ poolMade' = TRUE
        /\ Leave("rx", AppQueues)
        /\ UNCHANGED <<lcoreVars, ready, started>>

\* Mutant: a queue that fails is passed over.
QueueSetupUnchecked(dir, next) ==
  /\ At(dir)
  /\ \/ /\ \E q \in AppQueues : Visit(q, dir)
        /\ ready' \in {ready} \cup {ready \cup {<<dir, q>>} : q \in todo \ todo'}
     \/ Leave(next, IF next = "tx" THEN AppQueues ELSE {}) /\ UNCHANGED ready
  /\ UNCHANGED <<lcoreVars, poolMade, started>>

\* No error of rte_eth_rx_queue_setup is -1, so "ret < -1" is "ret < 0".
QueueSetup(dir, next) ==
  /\ At(dir)
  /\ \/ Exit
     \/ /\ \E q \in AppQueues : Visit(q, dir) /\ ready' = ready \cup {<<dir, q>>}
        /\ UNCHANGED <<lcoreVars, poolMade, started>>
     \/ /\ Leave(next, IF next = "tx" THEN AppQueues ELSE {})
        /\ UNCHANGED <<lcoreVars, portVars>>

DevStart ==
  /\ At("start")
  /\ \/ Exit
     \/ /\ started' = TRUE
        /\ Leave("link", {})
        /\ UNCHANGED <<lcoreVars, poolMade, ready>>

\* A link that is down ends the program.
CheckLink ==
  /\ At("link")
  /\ \/ Exit
     \/ /\ Leave("launch", {l \in Workers : l < LaunchBound})
        /\ UNCHANGED <<lcoreVars, portVars>>

-----------------------------------------------------------------------------
(* The workers and the timer.                                              *)

\* A refused launch prints ERROR.
LaunchMainLoop == Launch("launch", "main_loop", "launchAck", "timer", {})

\* The steps of the master that concern the timer, from call c to call d.
TimerStep(c, d, A) ==
  /\ At(c) /\ A
  /\ nextCall' = d
  /\ UNCHANGED <<todo, lcoreVars, portVars>>

TimerSetup == TimerStep("timer", "manage", ResetTimer)

\* The loop that calls rte_timer_manage.
TimerManage ==
  \/ TimerStep("manage", "manage", NotExpired)
  \/ TimerStep("manage", "stats", Expire)
  \/ TimerStep("stats", "reload", DoStats)
  \/ TimerStep("reload", "manage", Reload)

Master ==
  \/ /\ \/ CreateThreads \/ MpCheck \/ SyncLaunch \/ Acknowledge("syncAck", "sync")
        \/ MpWaitLcore
        \/ Configure \/ CreateMempool \/ QueueSetup("rx", "tx")
        \/ QueueSetup("tx", "start") \/ DevStart \/ CheckLink
        \/ LaunchMainLoop \/ Acknowledge("launchAck", "launch")
     /\ UNCHANGED <<timerVars, countVars>>
  \/ TimerSetup \/ TimerManage

Worker(l) ==
  /\ nextCall # "gone"
  /\ EalThreadLoop(l)
  /\ UNCHANGED <<timerVars, countVars, mainVars>>

\* A thread that cannot find its lcore or set its affinity panics.
WorkerPanics(l) ==
  /\ nextCall # "gone" /\ at[l] = "start"
  /\ Exit
  /\ UNCHANGED <<app, timerVars, countVars>>

\* The clock runs, and packets arrive once the port is started.
World ==
  /\ nextCall # "gone"
  /\ Tick \/ (started /\ CountPacket)
  /\ UNCHANGED <<lcoreVars, mainVars>>

\* The process is gone.
Gone == nextCall = "gone" /\ UNCHANGED programVars

MainNext == Master \/ (\E l \in LcoreIds : Worker(l) \/ WorkerPanics(l)) \/ World \/ Gone

MainSpec == MainInit /\ [][MainNext]_programVars

\* Every thread runs, and the clock.
LiveSpec == /\ MainSpec
            /\ WF_programVars(Master)
            /\ \A l \in LcoreIds : WF_programVars(Worker(l))
            /\ WF_programVars(Tick /\ UNCHANGED <<lcoreVars, mainVars>>)

-----------------------------------------------------------------------------
(* Properties.                                                             *)

(***************************************************************************)
(* rte_eal_remote_launch refuses an lcore whose state is not WAIT, and the *)
(* callers only print or ignore it, so a refused launch is a worker that   *)
(* silently never starts.  It never happens: the worker sets RUNNING       *)
(* before it acknowledges, so the wait after the first launch cannot end   *)
(* before its function has, and no worker finds a NULL function.           *)
(***************************************************************************)
NeverRefused ==
  /\ nextCall \in {"sync", "launch"} => \A l \in todo : state[l] = "WAIT"
  /\ \A l \in LcoreIds : at[l] # "panic"

(***************************************************************************)
(* A worker that polls finds the port started and its own queue set up in  *)
(* both directions, although the queue comes from the number of the lcore  *)
(* and not from the queues main has set up.                                *)
(***************************************************************************)
PollsOnlyReady == \A l \in LcoreIds : at[l] = "main_loop" =>
  started /\ poolMade /\ {<<"rx", QueueOf(l)>>, <<"tx", QueueOf(l)>>} \subseteq ready

(***************************************************************************)
(* A line of do_stats shows exactly the packets received since the line    *)
(* before, across the wrap of the counters.                                *)
(***************************************************************************)
PrintsWhatArrived == [][nextCall = "stats" /\ nextCall' = "reload" => printed' = fresh]_programVars

(***************************************************************************)
(* Nobody waits for ever: the program exits, or every worker main looks at *)
(* ends up in main_loop.                                                   *)
(***************************************************************************)
WorkersPoll == <>(\/ nextCall = "gone"
                  \/ \A l \in Workers : l < LaunchBound => at[l] = "main_loop")

(***************************************************************************)
(* From then on there is always another line: the timer reloads itself,    *)
(* however late the master is, even if rte_timer_manage takes longer than  *)
(* the period and the expiry it sets is already past.                      *)
(***************************************************************************)
StatsKeepComing == nextCall = "timer" ~> []<>(nextCall = "stats")

=============================================================================
