---------------------------- MODULE CProgramProofs ----------------------------
(***************************************************************************)
(* The C programs.  main, for any number of lcores and any core mask: the  *)
(* handshake between the master and the lcore threads, the order in which  *)
(* main prepares port 0, and the statistics.                               *)
(*                                                                         *)
(* NothingLost and VerdictHolds of CFirewall for any number of lcores and  *)
(* any sizes.  The argument: until two bursts overlap at most one lcore    *)
(* has packets of a burst (Solo), so it alone uses the shared arrays, and  *)
(* every step moves mbufs between five disjoint sets that make up the      *)
(* pool (Owning).  MainLoopSteps sorts the steps of main_loop into those   *)
(* that leave the five sets alone (Quiet) and the five that move an mbuf.  *)
(***************************************************************************)
EXTENDS CMain, CFirewall, EthDevProofs

\* A leaf names Zenon where it needs no arithmetic.
USE SMTT(30), ZenonT(30)


-----------------------------------------------------------------------------
(* How far the thread of an lcore is with the command it was last given.   *)

PipesEmpty(l) == m2s[l] = 0 /\ s2m[l] = 0

NotMade(l) == PipesEmpty(l) /\ at[l] = "none" /\ state[l] = "WAIT"

\* Created, and given nothing to do yet.
Fresh(l) == PipesEmpty(l) /\ at[l] \in {"start", "read"} /\ state[l] = "WAIT"

Idle(l) == PipesEmpty(l) /\ at[l] = "read" /\ state[l] = "WAIT"

\* f has been sent, and the acknowledgement not been read.
Commanded(l, f) ==
  /\ fn[l] = f
  /\ \/ /\ at[l] = "read" \/ (f = "sync_func" /\ at[l] = "start")
        /\ m2s[l] = 1 /\ s2m[l] = 0 /\ state[l] = "WAIT"
     \/ at[l] = "running" /\ PipesEmpty(l) /\ state[l] = "WAIT"
     \/ at[l] = "ack" /\ PipesEmpty(l) /\ state[l] = "RUNNING"
     \/ at[l] \in {"call", f} /\ m2s[l] = 0 /\ s2m[l] = 1 /\ state[l] = "RUNNING"
     \/ /\ f = "sync_func" /\ at[l] = "read"
        /\ m2s[l] = 0 /\ s2m[l] = 1 /\ state[l] = "FINISHED"

\* The master knows that f was received.
Acked(l, f) ==
  /\ fn[l] = f /\ PipesEmpty(l)
  /\ \/ at[l] \in {"call", f} /\ state[l] = "RUNNING"
     \/ f = "sync_func" /\ at[l] = "read" /\ state[l] = "FINISHED"

MayPoll(l) == Idle(l) \/ Acked(l, "main_loop")

PortCalls == {"configure", "mempool", "rx", "tx", "start", "link"}
LoopCalls == {"timer", "manage", "stats", "reload"}

Phase(l) ==
  /\ nextCall = "create" => IF l \in todo THEN NotMade(l) ELSE Fresh(l)
  /\ nextCall = "check" => Fresh(l)
  /\ nextCall = "sync" => IF l \in todo THEN Fresh(l) ELSE Acked(l, "sync_func")
  /\ nextCall = "syncAck" => IF First(l, todo) THEN Commanded(l, "sync_func")
                       ELSE IF l \in todo THEN Fresh(l) ELSE Acked(l, "sync_func")
  /\ nextCall = "wait" => IF l \in todo THEN Acked(l, "sync_func") ELSE Idle(l)
  /\ nextCall \in PortCalls => Idle(l)
  /\ nextCall = "launch" => IF l \in todo THEN Idle(l) ELSE MayPoll(l)
  /\ nextCall = "launchAck" => IF First(l, todo) THEN Commanded(l, "main_loop")
                         ELSE IF l \in todo THEN Idle(l) ELSE MayPoll(l)
  /\ nextCall \in LoopCalls => MayPoll(l)
  /\ nextCall = "gone" => at[l] \notin {"panic", "main_loop"}

LcoreLoops == {"create", "sync", "syncAck", "wait", "launch", "launchAck"}

HandInv ==
  /\ LcoreTypeOK /\ nextCall \in Calls
  /\ nextCall \in LcoreLoops => todo \subseteq Workers
  /\ \A l \in LcoreIds \ Workers : NotMade(l)
  /\ \A l \in Workers : Phase(l)

LEMMA InitHandInv == MainInit => HandInv
  BY DEF MainInit, LcoreInit, HandInv, LcoreTypeOK, Functions, Places, Calls, Workers,
         Phase, NotMade, PipesEmpty, PortCalls, LoopCalls, LcoreLoops

\* What is true of an lcore stays true when nothing of it changes.
SameAt(l) == /\ state'[l] = state[l] /\ fn'[l] = fn[l] /\ at'[l] = at[l]
             /\ m2s'[l] = m2s[l] /\ s2m'[l] = s2m[l]

LEMMA SamePhases ==
  ASSUME NEW l, SameAt(l)
  PROVE  /\ NotMade(l)' = NotMade(l) /\ Fresh(l)' = Fresh(l) /\ Idle(l)' = Idle(l)
         /\ \A f : Commanded(l, f)' = Commanded(l, f) /\ Acked(l, f)' = Acked(l, f)
         /\ MayPoll(l)' = MayPoll(l) /\ at[l]' = at[l]
  BY DEF SameAt, NotMade, Fresh, Idle, Commanded, Acked, MayPoll, PipesEmpty

-----------------------------------------------------------------------------
(* A worker.                                                               *)

LEMMA WorkerSame ==
  ASSUME LcoreTypeOK, NEW k \in LcoreIds, EalThreadLoop(k)
  PROVE  /\ enabled' = enabled
         /\ \A l \in LcoreIds : l # k => SameAt(l)
  BY ZenonT(30) DEF LcoreTypeOK, EalThreadLoop, EnterLoop, ReadCommand, SetRunning, SendAck, Call,
         Finish, Goes, SameAt

LEMMA WorkerPhases ==
  ASSUME LcoreTypeOK, NEW k \in LcoreIds, EalThreadLoop(k)
  PROVE  /\ ~NotMade(k) /\ ~Idle(k) /\ (Fresh(k) => Fresh(k)')
         /\ \A f \in {"sync_func", "main_loop"} :
              (Commanded(k, f) => Commanded(k, f)') /\ (Acked(k, f) => Acked(k, f)')
<1>1. ~NotMade(k) /\ ~Idle(k) /\ (Fresh(k) => Fresh(k)')
  BY DEF LcoreTypeOK, EalThreadLoop, EnterLoop, ReadCommand, SetRunning, SendAck, Call,
         Finish, Goes, NotMade, Fresh, Idle, PipesEmpty
<1>2. ASSUME NEW f \in {"sync_func", "main_loop"}, Commanded(k, f) PROVE Commanded(k, f)'
  <2>1. CASE ReadCommand(k)
    BY <1>2, <2>1 DEF LcoreTypeOK, ReadCommand, Goes, Commanded, PipesEmpty
  <2>2. CASE SetRunning(k)
    BY <1>2, <2>2, ZenonT(30) DEF LcoreTypeOK, SetRunning, Goes, Commanded, PipesEmpty
  <2>3. CASE SendAck(k)
    BY <1>2, <2>3 DEF LcoreTypeOK, SendAck, Goes, Commanded, PipesEmpty
  <2>4. CASE Call(k)
    BY <1>2, <2>4, ZenonT(30) DEF LcoreTypeOK, Call, Goes, Commanded, PipesEmpty
  <2>5. CASE Finish(k)
    BY <1>2, <2>5, ZenonT(30) DEF LcoreTypeOK, Finish, Goes, Commanded, PipesEmpty
  <2>6. CASE EnterLoop(k)
    BY <1>2, <2>6, ZenonT(30) DEF LcoreTypeOK, EnterLoop, Goes, Commanded, PipesEmpty
  <2> QED BY <2>1, <2>2, <2>3, <2>4, <2>5, <2>6, ZenonT(30) DEF EalThreadLoop
<1>3. ASSUME NEW f \in {"sync_func", "main_loop"}, Acked(k, f) PROVE Acked(k, f)'
  BY <1>3 DEF LcoreTypeOK, EalThreadLoop, EnterLoop, ReadCommand, SetRunning, SendAck,
              Call, Finish, Goes, Acked, PipesEmpty
<1> QED BY <1>1, <1>2, <1>3, ZenonT(30)

LEMMA WorkerType ==
  ASSUME HandInv, NEW k \in LcoreIds, EalThreadLoop(k), nextCall # "gone"
  PROVE  LcoreTypeOK'
<1>1. LcoreTypeOK
  BY ZenonT(30) DEF HandInv
<1>2. CASE SendAck(k)
  <2>1. s2m[k] = 0
    BY <1>2, ZenonT(30) DEF SendAck, HandInv, Phase, Commanded, Acked, Fresh, Idle, NotMade,
       MayPoll, PipesEmpty, Calls, PortCalls, LoopCalls
  <2> QED BY <1>1, <1>2, <2>1 DEF SendAck, Goes, LcoreTypeOK, Places
<1>3. CASE EnterLoop(k) \/ ReadCommand(k)
  BY <1>1, <1>3 DEF EnterLoop, ReadCommand, Goes, LcoreTypeOK, Places
<1>4. CASE SetRunning(k) \/ Finish(k)
  BY <1>1, <1>4, ZenonT(30) DEF SetRunning, Finish, Goes, LcoreTypeOK, Places
<1>5. CASE Call(k)
  BY <1>1, <1>5, ZenonT(30) DEF Call, Goes, LcoreTypeOK, Places, Functions
<1> QED BY <1>2, <1>3, <1>4, <1>5, ZenonT(30) DEF EalThreadLoop

LEMMA WorkerHandInv ==
  ASSUME HandInv, NEW k \in LcoreIds, Worker(k)
  PROVE  HandInv'
<1>1. /\ LcoreTypeOK /\ LcoreTypeOK' /\ EalThreadLoop(k)
      /\ UNCHANGED <<enabled, nextCall, todo>> /\ Workers' = Workers
      /\ nextCall # "gone"
  <2>1. EalThreadLoop(k) /\ UNCHANGED <<nextCall, todo>> /\ nextCall # "gone"
    BY ZenonT(30) DEF Worker, mainVars
  <2>2. LcoreTypeOK /\ LcoreTypeOK' /\ enabled' = enabled
    BY <2>1, WorkerType, WorkerSame, ZenonT(30) DEF HandInv
  <2> QED BY <2>1, <2>2, ZenonT(30) DEF Workers, First
<1>2. k \in Workers
  BY <1>1, WorkerPhases, ZenonT(30) DEF HandInv
<1>3. \A l \in LcoreIds \ Workers : NotMade(l)'
  BY <1>1, <1>2, WorkerSame, SamePhases, ZenonT(30) DEF HandInv
<1>4. ASSUME NEW l \in Workers PROVE Phase(l)'
  <2>1. Phase(l) /\ l \in LcoreIds
    BY <1>1, ZenonT(30) DEF HandInv, Workers, LcoreTypeOK
  <2>2. First(l, todo)' = First(l, todo)
    BY <1>1, ZenonT(30) DEF First
  <2>3. CASE l # k
    <3>1. SameAt(l)
      BY <1>1, <2>1, <2>3, WorkerSame, ZenonT(30)
    <3> QED BY <1>1, <2>1, <2>2, <3>1, SamePhases, ZenonT(30) DEF Phase
  <2>4. CASE l = k
    BY <1>1, <2>1, <2>2, <2>4, WorkerPhases, ZenonT(30) DEF Phase, MayPoll
  <2> QED BY <2>3, <2>4, ZenonT(30)
<1> QED BY <1>1, <1>3, <1>4, ZenonT(30) DEF HandInv

-----------------------------------------------------------------------------
(* The master.                                                             *)

LEMMA FirstOne ==
  ASSUME HandInv, NEW k, NEW l, First(k, todo), First(l, todo), nextCall \in LcoreLoops
  PROVE  k = l
<1>1. k \in LcoreIds /\ l \in LcoreIds /\ k <= l /\ l <= k
  BY ZenonT(30) DEF HandInv, First, Workers, LcoreTypeOK
<1> QED BY <1>1, LcoreAssumption DEF LcoreIds

\* Steps that leave the lcores alone.
LEMMA StillHandInv ==
  ASSUME HandInv, UNCHANGED lcoreVars, nextCall' \in Calls,
         nextCall' \in LcoreLoops => todo' \subseteq Workers,
         \A l \in Workers : Phase(l)'
  PROVE  HandInv'
<1>1. LcoreTypeOK' /\ Workers' = Workers
  BY ZenonT(30) DEF HandInv, LcoreTypeOK, lcoreVars, Workers, First
<1>2. \A l \in LcoreIds \ Workers : NotMade(l)'
  BY SamePhases, ZenonT(30) DEF HandInv, lcoreVars, SameAt
<1> QED BY <1>1, <1>2, ZenonT(30) DEF HandInv

LEMMA StillPhases ==
  ASSUME UNCHANGED lcoreVars, NEW l
  PROVE  /\ NotMade(l)' = NotMade(l) /\ Fresh(l)' = Fresh(l) /\ Idle(l)' = Idle(l)
         /\ \A f : Commanded(l, f)' = Commanded(l, f) /\ Acked(l, f)' = Acked(l, f)
         /\ MayPoll(l)' = MayPoll(l) /\ at[l]' = at[l]
  BY SamePhases, ZenonT(30) DEF lcoreVars, SameAt

LEMMA ExitHandInv ==
  ASSUME HandInv, Exit, nextCall \in PortCalls \cup {"create", "check", "sync", "syncAck", "wait"}
  PROVE  HandInv'
<1>1. UNCHANGED lcoreVars /\ nextCall' = "gone" /\ nextCall' \in Calls /\ nextCall' \notin LcoreLoops
  BY ZenonT(30) DEF Exit, Calls, LcoreLoops
<1>2. \A l \in Workers : at[l] \notin {"panic", "main_loop"}
  BY ZenonT(30) DEF HandInv, Phase, NotMade, Fresh, Idle, Commanded, Acked
<1>3. \A l \in Workers : Phase(l)'
  BY <1>1, <1>2, StillPhases, ZenonT(30) DEF Phase, PortCalls, LoopCalls
<1> QED BY <1>1, <1>3, StillHandInv, ZenonT(30)

LEMMA CreateHandInv ==
  ASSUME HandInv, CreateThreads
  PROVE  HandInv'
<1>1. nextCall = "create"
  BY ZenonT(30) DEF CreateThreads, At
<1>2. CASE Exit
  BY <1>1, <1>2, ExitHandInv, ZenonT(30)
<1>3. ASSUME NEW k \in LcoreIds, Visit(k, "create"), CreateThread(k) PROVE HandInv'
  <2>1. /\ k \in todo /\ todo' = todo \ {k} /\ nextCall' = "create" /\ todo \subseteq Workers
        /\ enabled' = enabled /\ Workers' = Workers /\ NotMade(k) /\ LcoreTypeOK
    BY <1>1, <1>3, ZenonT(30) DEF Visit, First, CreateThread, HandInv, Workers, Phase, LcoreLoops
  <2>2. LcoreTypeOK' /\ \A l \in LcoreIds : l # k => SameAt(l)
    BY <1>3, <2>1, ZenonT(30) DEF CreateThread, Goes, LcoreTypeOK, Places, SameAt
  <2>3. Fresh(k)'
    BY <1>3, <2>1, ZenonT(30) DEF CreateThread, Goes, LcoreTypeOK, NotMade, Fresh, PipesEmpty
  <2>4. \A l \in LcoreIds \ Workers : NotMade(l)'
    BY <2>1, <2>2, SamePhases, ZenonT(30) DEF HandInv
  <2>5. ASSUME NEW l \in Workers PROVE Phase(l)'
    <3>1. Phase(l) /\ l \in LcoreIds
      BY <2>1, ZenonT(30) DEF HandInv, Workers, LcoreTypeOK
    <3>2. IF l \in todo' THEN NotMade(l)' ELSE Fresh(l)'
      BY <1>1, <2>1, <2>2, <2>3, <3>1, SamePhases, ZenonT(30) DEF Phase
    <3> QED BY <2>1, <3>2, ZenonT(30) DEF Phase, PortCalls, LoopCalls
  <2> QED BY <2>1, <2>2, <2>4, <2>5, ZenonT(30) DEF HandInv, Calls
<1>4. CASE Leave("check", {}) /\ UNCHANGED lcoreVars
  <2>1. nextCall' = "check" /\ todo = {}
    BY <1>4, ZenonT(30) DEF Leave
  <2>2. \A l \in Workers : Phase(l)'
    BY <1>1, <1>4, <2>1, StillPhases, ZenonT(30) DEF HandInv, Phase, PortCalls, LoopCalls
  <2> QED BY <1>4, <2>1, <2>2, StillHandInv, ZenonT(30) DEF Calls, LcoreLoops
<1> QED BY <1>2, <1>3, <1>4, ZenonT(30) DEF CreateThreads

\* mp_remote_launch finds every worker waiting.
LEMMA CheckHandInv ==
  ASSUME HandInv, MpCheck
  PROVE  HandInv'
<1>1. nextCall = "check" /\ UNCHANGED lcoreVars
  BY ZenonT(30) DEF MpCheck, At
<1>2. \A l \in Workers : Fresh(l)
  BY <1>1, ZenonT(30) DEF HandInv, Phase
<1>3. nextCall' = "sync" /\ todo' = Workers
  BY <1>2, ZenonT(30) DEF MpCheck, Leave, Fresh
<1>4. \A l \in Workers : Phase(l)'
  BY <1>1, <1>2, <1>3, StillPhases, ZenonT(30) DEF Phase, PortCalls, LoopCalls
<1> QED BY <1>1, <1>3, <1>4, StillHandInv, ZenonT(30) DEF Calls

\* A byte and a function are sent to an lcore that waits for them.
LEMMA SendPhases ==
  ASSUME LcoreTypeOK, NEW k \in LcoreIds, NEW f \in {"sync_func", "main_loop"},
         Idle(k) \/ (f = "sync_func" /\ Fresh(k)), Send(k, f)
  PROVE  /\ LcoreTypeOK' /\ enabled' = enabled /\ Workers' = Workers
         /\ Commanded(k, f)' /\ \A l \in LcoreIds : l # k => SameAt(l)
<1>1. /\ fn' = [fn EXCEPT ![k] = f] /\ m2s' = [m2s EXCEPT ![k] = 1]
      /\ UNCHANGED <<enabled, state, s2m, at>>
  <2>1. m2s[k] = 0
    BY ZenonT(30) DEF Fresh, Idle, PipesEmpty
  <2> QED BY <2>1 DEF Send
<1>2. LcoreTypeOK'
  BY <1>1 DEF LcoreTypeOK, Functions
<1>3. Commanded(k, f)'
  BY <1>1, ZenonT(30) DEF LcoreTypeOK, Fresh, Idle, PipesEmpty, Commanded
<1>4. \A l \in LcoreIds : l # k => SameAt(l)
  BY <1>1, ZenonT(30) DEF LcoreTypeOK, SameAt
<1> QED BY <1>1, <1>2, <1>3, <1>4, ZenonT(30) DEF Workers, First

LEMMA AckPhases ==
  ASSUME LcoreTypeOK, NEW k \in LcoreIds, NEW f \in {"sync_func", "main_loop"},
         Commanded(k, f), GetAck(k)
  PROVE  /\ LcoreTypeOK' /\ enabled' = enabled /\ Workers' = Workers
         /\ Acked(k, f)' /\ \A l \in LcoreIds : l # k => SameAt(l)
<1>1. s2m' = [s2m EXCEPT ![k] = 0] /\ UNCHANGED <<enabled, state, fn, m2s, at>>
  <2>1. s2m[k] = 1
    BY DEF GetAck, LcoreTypeOK
  <2> QED BY <2>1 DEF GetAck
<1>2. LcoreTypeOK'
  BY <1>1 DEF LcoreTypeOK
<1>3. Acked(k, f)'
  BY <1>1 DEF LcoreTypeOK, GetAck, Commanded, Acked, PipesEmpty
<1>4. \A l \in LcoreIds : l # k => SameAt(l)
  BY <1>1, ZenonT(30) DEF LcoreTypeOK, SameAt
<1> QED BY <1>1, <1>2, <1>3, <1>4, ZenonT(30) DEF Workers, First

LEMMA SyncHandInv ==
  ASSUME HandInv, SyncLaunch
  PROVE  HandInv'
<1>1. nextCall = "sync" /\ todo \subseteq Workers /\ LcoreTypeOK
  BY ZenonT(30) DEF SyncLaunch, Launch, At, HandInv, LcoreLoops
<1>2. \A l \in todo : Fresh(l)
  BY <1>1, ZenonT(30) DEF HandInv, Phase
<1>3. ASSUME NEW k \in LcoreIds, First(k, todo), Send(k, "sync_func"), nextCall' = "syncAck",
             todo' = todo
      PROVE  HandInv'
  <2>1. /\ LcoreTypeOK' /\ enabled' = enabled /\ Workers' = Workers
        /\ Commanded(k, "sync_func")' /\ \A l \in LcoreIds : l # k => SameAt(l)
    BY <1>1, <1>2, <1>3, SendPhases, ZenonT(30) DEF First
  <2>2. \A l : First(l, todo)' => l = k
    BY <1>1, <1>3, FirstOne, ZenonT(30) DEF First, LcoreLoops
  <2>3. \A l \in LcoreIds \ Workers : NotMade(l)'
    BY <1>1, <1>3, <2>1, SamePhases, ZenonT(30) DEF HandInv, First
  <2>4. ASSUME NEW l \in Workers PROVE Phase(l)'
    <3>1. Phase(l) /\ l \in LcoreIds
      BY <1>1, ZenonT(30) DEF HandInv, Workers, LcoreTypeOK
    <3>2. CASE l = k
      BY <1>3, <2>1, <3>2, ZenonT(30) DEF Phase, First, PortCalls, LoopCalls
    <3>3. CASE l # k
      <4>1. IF l \in todo THEN Fresh(l) ELSE Acked(l, "sync_func")
        BY <1>1, <3>1, ZenonT(30) DEF Phase
      <4>2. IF l \in todo THEN Fresh(l)' ELSE Acked(l, "sync_func")'
        BY <2>1, <3>1, <3>3, <4>1, SamePhases, ZenonT(30)
      <4> QED BY <1>3, <2>2, <3>3, <4>2, ZenonT(30) DEF Phase, PortCalls, LoopCalls
    <3> QED BY <3>2, <3>3, ZenonT(30)
  <2> QED BY <1>1, <1>3, <2>1, <2>3, <2>4, ZenonT(30) DEF HandInv, Calls
<1>4. CASE Leave("wait", Workers) /\ UNCHANGED lcoreVars
  <2>1. nextCall' = "wait" /\ todo = {} /\ todo' = Workers
    BY <1>4, ZenonT(30) DEF Leave
  <2>2. ASSUME NEW l \in Workers PROVE Phase(l)'
    <3>1. Acked(l, "sync_func")
      BY <1>1, <2>1, ZenonT(30) DEF HandInv, Phase
    <3>2. Acked(l, "sync_func")'
      BY <1>4, <3>1, StillPhases, ZenonT(30)
    <3> QED BY <2>1, <3>2, ZenonT(30) DEF Phase, PortCalls, LoopCalls
  <2> QED BY <1>4, <2>1, <2>2, StillHandInv, ZenonT(30) DEF Calls
<1>5. ~ \E l \in LcoreIds : state[l] # "WAIT" /\ Visit(l, "sync")
  BY <1>2, ZenonT(30) DEF Visit, First, Fresh
<1> QED BY <1>3, <1>4, <1>5, ZenonT(30) DEF SyncLaunch, Launch

LEMMA MainLoopHandInv ==
  ASSUME HandInv, LaunchMainLoop
  PROVE  HandInv'
<1>1. nextCall = "launch" /\ todo \subseteq Workers /\ LcoreTypeOK
  BY ZenonT(30) DEF LaunchMainLoop, Launch, At, HandInv, LcoreLoops
<1>2. \A l \in todo : Idle(l)
  BY <1>1, ZenonT(30) DEF HandInv, Phase
<1>3. ASSUME NEW k \in LcoreIds, First(k, todo), Send(k, "main_loop"), nextCall' = "launchAck",
             todo' = todo
      PROVE  HandInv'
  <2>1. /\ LcoreTypeOK' /\ enabled' = enabled /\ Workers' = Workers
        /\ Commanded(k, "main_loop")' /\ \A l \in LcoreIds : l # k => SameAt(l)
    BY <1>1, <1>2, <1>3, SendPhases, ZenonT(30) DEF First
  <2>2. \A l : First(l, todo)' => l = k
    BY <1>1, <1>3, FirstOne, ZenonT(30) DEF First, LcoreLoops
  <2>3. \A l \in LcoreIds \ Workers : NotMade(l)'
    BY <1>1, <1>3, <2>1, SamePhases, ZenonT(30) DEF HandInv, First
  <2>4. ASSUME NEW l \in Workers PROVE Phase(l)'
    <3>1. Phase(l) /\ l \in LcoreIds
      BY <1>1, ZenonT(30) DEF HandInv, Workers, LcoreTypeOK
    <3>2. CASE l = k
      BY <1>3, <2>1, <3>2, ZenonT(30) DEF Phase, First, PortCalls, LoopCalls
    <3>3. CASE l # k
      <4>1. IF l \in todo THEN Idle(l) ELSE MayPoll(l)
        BY <1>1, <3>1, ZenonT(30) DEF Phase
      <4>2. IF l \in todo THEN Idle(l)' ELSE MayPoll(l)'
        BY <2>1, <3>1, <3>3, <4>1, SamePhases, ZenonT(30)
      <4> QED BY <1>3, <2>2, <3>3, <4>2, ZenonT(30) DEF Phase, PortCalls, LoopCalls
    <3> QED BY <3>2, <3>3, ZenonT(30)
  <2> QED BY <1>1, <1>3, <2>1, <2>3, <2>4, ZenonT(30) DEF HandInv, Calls
<1>4. CASE Leave("timer", {}) /\ UNCHANGED lcoreVars
  <2>1. nextCall' = "timer" /\ todo = {}
    BY <1>4, ZenonT(30) DEF Leave
  <2>2. \A l \in Workers : Phase(l)'
    BY <1>1, <1>4, <2>1, StillPhases, ZenonT(30) DEF HandInv, Phase, PortCalls, LoopCalls
  <2> QED BY <1>4, <2>1, <2>2, StillHandInv, ZenonT(30) DEF Calls, LcoreLoops
<1>5. ~ \E l \in LcoreIds : state[l] # "WAIT" /\ Visit(l, "launch")
  BY <1>2, ZenonT(30) DEF Visit, First, Idle
<1> QED BY <1>3, <1>4, <1>5, ZenonT(30) DEF LaunchMainLoop, Launch

LEMMA AckHandInv ==
  ASSUME HandInv,
         NEW ack, NEW c, NEW f \in {"sync_func", "main_loop"},
         \/ ack = "syncAck" /\ c = "sync" /\ f = "sync_func"
         \/ ack = "launchAck" /\ c = "launch" /\ f = "main_loop",
         Acknowledge(ack, c)
  PROVE  HandInv'
<1>1. nextCall = ack /\ todo \subseteq Workers /\ LcoreTypeOK /\ Workers \subseteq LcoreIds
  BY ZenonT(30) DEF Acknowledge, At, HandInv, LcoreLoops, Workers, LcoreTypeOK
<1>2. PICK k \in LcoreIds : Visit(k, c) /\ GetAck(k)
  BY ZenonT(30) DEF Acknowledge
<1>3. First(k, todo) /\ k \in Workers /\ todo' = todo \ {k} /\ nextCall' = c
  BY <1>1, <1>2, ZenonT(30) DEF Visit, First
<1>4. Commanded(k, f)
  BY <1>1, <1>3, ZenonT(30) DEF HandInv, Phase
<1>5. /\ LcoreTypeOK' /\ enabled' = enabled /\ Workers' = Workers
      /\ Acked(k, f)' /\ \A l \in LcoreIds : l # k => SameAt(l)
  BY <1>1, <1>2, <1>4, AckPhases, ZenonT(30)
<1>6. \A l : First(l, todo) => l = k
  BY <1>1, <1>3, FirstOne, ZenonT(30) DEF LcoreLoops
<1>7. \A l \in LcoreIds \ Workers : NotMade(l)'
  BY <1>3, <1>5, SamePhases, ZenonT(30) DEF HandInv
<1>8. ASSUME NEW l \in Workers PROVE Phase(l)'
  <2>1. Phase(l) /\ l \in LcoreIds
    BY <1>1, ZenonT(30) DEF HandInv
  <2>2. CASE l = k
    BY <1>3, <1>5, <2>2, ZenonT(30) DEF Phase, MayPoll, PortCalls, LoopCalls
  <2>3. CASE l # k
    <3>1. SameAt(l) /\ ~First(l, todo) /\ (l \in todo' <=> l \in todo)
      BY <1>3, <1>5, <1>6, <2>1, <2>3, ZenonT(30)
    <3>2. CASE ack = "syncAck"
      <4>1. IF l \in todo THEN Fresh(l) ELSE Acked(l, "sync_func")
        BY <1>1, <2>1, <3>1, <3>2, ZenonT(30) DEF Phase
      <4>2. IF l \in todo' THEN Fresh(l)' ELSE Acked(l, "sync_func")'
        BY <3>1, <4>1, SamePhases, ZenonT(30)
      <4> QED BY <1>3, <3>2, <4>2, ZenonT(30) DEF Phase, PortCalls, LoopCalls
    <3>3. CASE ack = "launchAck"
      <4>1. IF l \in todo THEN Idle(l) ELSE MayPoll(l)
        BY <1>1, <2>1, <3>1, <3>3, ZenonT(30) DEF Phase
      <4>2. IF l \in todo' THEN Idle(l)' ELSE MayPoll(l)'
        BY <3>1, <4>1, SamePhases, ZenonT(30)
      <4> QED BY <1>3, <3>3, <4>2, ZenonT(30) DEF Phase, PortCalls, LoopCalls
    <3> QED BY <3>2, <3>3, ZenonT(30)
  <2> QED BY <2>2, <2>3, ZenonT(30)
<1> QED BY <1>1, <1>3, <1>5, <1>7, <1>8, ZenonT(30) DEF HandInv, Calls

\* The wait ends for a worker when its function has returned.
LEMMA WaitHandInv ==
  ASSUME HandInv, MpWaitLcore
  PROVE  HandInv'
<1>1. nextCall = "wait" /\ todo \subseteq Workers /\ LcoreTypeOK /\ Workers \subseteq LcoreIds
  BY ZenonT(30) DEF MpWaitLcore, At, HandInv, LcoreLoops, Workers, LcoreTypeOK
<1>2. ASSUME NEW k \in LcoreIds, Visit(k, "wait"), WaitLcore(k) PROVE HandInv'
  <2>1. k \in Workers /\ k \in todo /\ todo' = todo \ {k} /\ nextCall' = "wait"
    BY <1>1, <1>2, ZenonT(30) DEF Visit, First
  <2>2. Acked(k, "sync_func")
    BY <1>1, <2>1, ZenonT(30) DEF HandInv, Phase
  <2>3. /\ state' = [state EXCEPT ![k] = "WAIT"] /\ state[k] # "RUNNING"
        /\ UNCHANGED <<enabled, fn, m2s, s2m, at>>
    BY <1>2, ZenonT(30) DEF WaitLcore
  <2>4. LcoreTypeOK' /\ Workers' = Workers /\ \A l \in LcoreIds : l # k => SameAt(l)
    BY <1>1, <2>3, ZenonT(30) DEF LcoreTypeOK, Workers, First, SameAt
  <2>5. Idle(k)'
    BY <1>1, <2>2, <2>3, ZenonT(30) DEF Acked, Idle, PipesEmpty, LcoreTypeOK
  <2>6. \A l \in LcoreIds \ Workers : NotMade(l)'
    BY <2>1, <2>4, SamePhases, ZenonT(30) DEF HandInv
  <2>7. ASSUME NEW l \in Workers PROVE Phase(l)'
    <3>1. Phase(l) /\ l \in LcoreIds
      BY <1>1, ZenonT(30) DEF HandInv
    <3>2. IF l \in todo' THEN Acked(l, "sync_func")' ELSE Idle(l)'
      BY <1>1, <2>1, <2>4, <2>5, <3>1, SamePhases, ZenonT(30) DEF Phase
    <3> QED BY <2>1, <3>2, ZenonT(30) DEF Phase, PortCalls, LoopCalls
  <2> QED BY <1>1, <2>1, <2>4, <2>6, <2>7, ZenonT(30) DEF HandInv, Calls
<1>3. CASE Leave("configure", {}) /\ UNCHANGED lcoreVars
  <2>1. nextCall' = "configure" /\ todo = {}
    BY <1>3, ZenonT(30) DEF Leave
  <2>2. ASSUME NEW l \in Workers PROVE Phase(l)'
    <3>1. Idle(l)
      BY <1>1, <2>1, ZenonT(30) DEF HandInv, Phase
    <3>2. Idle(l)'
      BY <1>3, <3>1, StillPhases, ZenonT(30)
    <3> QED BY <2>1, <3>2, ZenonT(30) DEF Phase, PortCalls, LoopCalls
  <2> QED BY <1>3, <2>1, <2>2, StillHandInv, ZenonT(30) DEF Calls, LcoreLoops
<1>4. CASE todo = {} /\ Exit
  BY <1>1, <1>4, ExitHandInv, ZenonT(30)
<1>5. CASE UNCHANGED <<nextCall, todo, lcoreVars>>
  <2>1. ASSUME NEW l \in Workers PROVE Phase(l)'
    <3>1. IF l \in todo THEN Acked(l, "sync_func") ELSE Idle(l)
      BY <1>1, ZenonT(30) DEF HandInv, Phase
    <3>2. IF l \in todo' THEN Acked(l, "sync_func")' ELSE Idle(l)'
      BY <1>5, <3>1, StillPhases, ZenonT(30)
    <3> QED BY <1>1, <1>5, <3>2, ZenonT(30) DEF Phase, PortCalls, LoopCalls
  <2> QED BY <1>1, <1>5, <2>1, StillHandInv, ZenonT(30) DEF HandInv
<1> QED BY <1>2, <1>3, <1>4, <1>5, ZenonT(30) DEF MpWaitLcore

\* The calls that prepare the port leave the workers waiting.
LEMMA PortHandInv ==
  ASSUME HandInv,
         \/ Configure \/ CreateMempool \/ QueueSetup("rx", "tx")
         \/ QueueSetup("tx", "start") \/ DevStart \/ CheckLink
  PROVE  HandInv'
<1>1. nextCall \in PortCalls
  BY ZenonT(30) DEF Configure, CreateMempool, QueueSetup, DevStart, CheckLink, At, PortCalls
<1>2. CASE Exit
  BY <1>1, <1>2, ExitHandInv, ZenonT(30)
<1>3. CASE /\ UNCHANGED lcoreVars
           /\ \/ nextCall' \in PortCalls
              \/ nextCall' = "launch" /\ todo' = {l \in Workers : l < LaunchBound}
  <2>1. \A l \in Workers : Idle(l)
    BY <1>1, ZenonT(30) DEF HandInv, Phase
  <2>2. \A l \in Workers : Phase(l)'
    BY <1>3, <2>1, StillPhases, ZenonT(30) DEF Phase, MayPoll, PortCalls, LoopCalls
  <2>3. nextCall' \in Calls /\ (nextCall' \in LcoreLoops => todo' \subseteq Workers)
    BY <1>3, ZenonT(30) DEF Calls, PortCalls, LcoreLoops
  <2> QED BY <1>3, <2>2, <2>3, StillHandInv, ZenonT(30)
<1> QED BY <1>2, <1>3, ZenonT(30) DEF Configure, CreateMempool, QueueSetup, DevStart, CheckLink,
           Leave, Visit, PortCalls

\* So do the timer, the clock and the packets.
LEMMA TimerHandInv ==
  ASSUME HandInv, TimerSetup \/ TimerManage \/ World \/ UNCHANGED programVars
  PROVE  HandInv'
<1>1. CASE TimerSetup \/ TimerManage
  <2>1. UNCHANGED lcoreVars /\ nextCall \in LoopCalls /\ nextCall' \in LoopCalls
    BY <1>1, ZenonT(30) DEF TimerSetup, TimerManage, TimerStep, At, LoopCalls
  <2>2. \A l \in Workers : MayPoll(l)
    BY <2>1, ZenonT(30) DEF HandInv, Phase
  <2>3. \A l \in Workers : Phase(l)'
    BY <2>1, <2>2, StillPhases, ZenonT(30) DEF Phase, PortCalls, LoopCalls
  <2> QED BY <2>1, <2>3, StillHandInv, ZenonT(30) DEF LoopCalls, LcoreLoops, Calls
<1>2. CASE World \/ UNCHANGED programVars
  <2>1. UNCHANGED <<lcoreVars, nextCall, todo>>
    BY <1>2, ZenonT(30) DEF World, programVars, mainVars
  <2>2. \A l \in Workers : First(l, todo)' = First(l, todo)
    BY <2>1, ZenonT(30) DEF First
  <2>3. \A l \in Workers : Phase(l)'
    BY <2>1, <2>2, StillPhases, ZenonT(30) DEF HandInv, Phase
  <2> QED BY <2>1, <2>3, StillHandInv, ZenonT(30) DEF HandInv
<1> QED BY <1>1, <1>2, ZenonT(30)

\* Only a thread that has not been given a command can panic.
LEMMA PanicHandInv ==
  ASSUME HandInv, NEW k \in LcoreIds, WorkerPanics(k)
  PROVE  HandInv'
<1>1. k \in Workers /\ nextCall \in Calls
  BY ZenonT(30) DEF HandInv, WorkerPanics, NotMade
<1>2. nextCall \in {"create", "check", "sync", "syncAck"}
  BY <1>1, ZenonT(30) DEF HandInv, WorkerPanics, Phase, Calls, PortCalls, LoopCalls, Idle, Commanded,
              Acked, MayPoll
<1> QED BY <1>2, ExitHandInv, ZenonT(30) DEF WorkerPanics

LEMMA NextHandInv == HandInv /\ [MainNext]_programVars => HandInv'
<1> SUFFICES ASSUME HandInv, [MainNext]_programVars PROVE HandInv'
  BY ZenonT(30)
<1>1. CASE Acknowledge("syncAck", "sync")
  BY <1>1, AckHandInv, ZenonT(30)
<1>2. CASE Acknowledge("launchAck", "launch")
  BY <1>2, AckHandInv, ZenonT(30)
<1>3. ASSUME NEW l \in LcoreIds, Worker(l) PROVE HandInv'
  BY <1>3, WorkerHandInv, ZenonT(30)
<1>4. ASSUME NEW l \in LcoreIds, WorkerPanics(l) PROVE HandInv'
  BY <1>4, PanicHandInv, ZenonT(30)
<1> QED BY <1>1, <1>2, <1>3, <1>4, CreateHandInv, CheckHandInv, SyncHandInv, WaitHandInv,
           PortHandInv, MainLoopHandInv, TimerHandInv, ZenonT(30) DEF MainNext, Master, Gone

LEMMA HandNeverRefused == HandInv => NeverRefused
<1> SUFFICES ASSUME HandInv PROVE NeverRefused
  BY ZenonT(30)
<1>1. nextCall \in {"sync", "launch"} => \A l \in todo : state[l] = "WAIT"
  BY ZenonT(30) DEF HandInv, Phase, LcoreLoops, Fresh, Idle
<1>2. \A l \in LcoreIds : at[l] # "panic"
  BY ZenonT(30) DEF HandInv, Phase, Calls, PortCalls, LoopCalls, NotMade, Fresh, Idle, Commanded,
         Acked, MayPoll
<1> QED BY <1>1, <1>2, ZenonT(30) DEF NeverRefused

(***************************************************************************)
(* rte_eal_remote_launch is never refused and eal_thread_loop never finds  *)
(* a NULL function, for any number of lcores and any core mask: neither    *)
(* the launch of sync_func in rte_eal_init nor that of main_loop in main   *)
(* can meet a worker that has not finished with the command before.        *)
(***************************************************************************)
THEOREM LaunchesAccepted == MainSpec => []NeverRefused
  BY InitHandInv, NextHandInv, HandNeverRefused, PTL DEF MainSpec

-----------------------------------------------------------------------------
(* The port.                                                               *)

AfterTx   == {"start", "link", "launch", "launchAck"} \cup LoopCalls
AfterRx   == AfterTx \cup {"tx"}
AfterLink == {"launch", "launchAck"} \cup LoopCalls

AllReady(dir) == \A q \in AppQueues : <<dir, q>> \in ready

PortInv ==
  /\ nextCall \in AfterRx \cup {"rx"} => poolMade
  /\ nextCall = "rx" => \A q \in AppQueues \ todo : <<"rx", q>> \in ready
  /\ nextCall \in AfterRx => AllReady("rx")
  /\ nextCall = "tx" => \A q \in AppQueues \ todo : <<"tx", q>> \in ready
  /\ nextCall \in AfterTx => AllReady("tx")
  /\ nextCall \in AfterLink \cup {"link"} => started

LEMMA InitPortInv == MainInit => PortInv
  BY ZenonT(30) DEF MainInit, PortInv, AfterRx, AfterTx, AfterLink, LoopCalls

LEMMA NextPortInv == PortInv /\ [MainNext]_programVars => PortInv'
<1> SUFFICES ASSUME PortInv, [MainNext]_programVars PROVE PortInv'
  BY ZenonT(30)
<1> USE DEF PortInv, AfterRx, AfterTx, AfterLink, LoopCalls, AllReady
<1>1. AppQueues' = AppQueues
  BY ZenonT(30) DEF MainNext, Master, CreateThreads, MpCheck, SyncLaunch, LaunchMainLoop, Launch,
         Acknowledge, MpWaitLcore, Configure, CreateMempool, QueueSetup, DevStart,
         CheckLink, TimerSetup, TimerManage, TimerStep, At, Worker, WorkerPanics,
         World, Gone, programVars, mainVars, AppQueues
<1>2. CASE CreateThreads \/ MpCheck \/ MpWaitLcore \/ Configure
  BY <1>2, ZenonT(30) DEF CreateThreads, MpCheck, MpWaitLcore, Configure, Exit, Visit, Leave, At
<1>3. CASE SyncLaunch \/ Acknowledge("syncAck", "sync")
  BY <1>3, ZenonT(30) DEF SyncLaunch, Launch, Acknowledge, Visit, Leave, At
<1>4. CASE LaunchMainLoop \/ Acknowledge("launchAck", "launch")
  BY <1>1, <1>4, ZenonT(30) DEF LaunchMainLoop, Launch, Acknowledge, Visit, Leave, At, portVars
<1>5. CASE CreateMempool
  BY <1>1, <1>5, ZenonT(30) DEF CreateMempool, Exit, Leave, At
<1>6. CASE QueueSetup("rx", "tx")
  BY <1>1, <1>6, ZenonT(30) DEF QueueSetup, Exit, Visit, Leave, At, portVars
<1>7. CASE QueueSetup("tx", "start")
  BY <1>1, <1>7, ZenonT(30) DEF QueueSetup, Exit, Visit, Leave, At, portVars
<1>8. CASE DevStart
  BY <1>1, <1>8, ZenonT(30) DEF DevStart, Exit, Leave, At
<1>9. CASE CheckLink
  BY <1>1, <1>9, ZenonT(30) DEF CheckLink, Exit, Leave, At, portVars
<1>10. CASE TimerSetup \/ TimerManage
  BY <1>1, <1>10, ZenonT(30) DEF TimerSetup, TimerManage, TimerStep, At, portVars
<1>11. CASE World \/ Gone \/ UNCHANGED programVars \/ \E l \in LcoreIds : Worker(l)
  BY <1>1, <1>11, ZenonT(30) DEF World, Gone, Worker, programVars, mainVars, portVars
<1>12. CASE \E l \in LcoreIds : WorkerPanics(l)
  BY <1>1, <1>12, ZenonT(30) DEF WorkerPanics, Exit
<1> QED BY <1>2, <1>3, <1>4, <1>5, <1>6, <1>7, <1>8, <1>9, <1>10, <1>11, <1>12, ZenonT(30)
           DEF MainNext, Master

LEMMA HandPollsReady == HandInv /\ PortInv => PollsOnlyReady
<1> SUFFICES ASSUME HandInv, PortInv, NEW l \in LcoreIds, at[l] = "main_loop"
             PROVE  /\ started /\ poolMade
                    /\ {<<"rx", QueueOf(l)>>, <<"tx", QueueOf(l)>>} \subseteq ready
  BY ZenonT(30) DEF PollsOnlyReady
<1>1. nextCall \in AfterLink
  BY ZenonT(30) DEF HandInv, Phase, Calls, PortCalls, LoopCalls, AfterLink, NotMade, Fresh, Idle,
         Commanded, Acked, MayPoll
<1>2. QueueOf(l) \in AppQueues
  BY ZenonT(30) DEF QueueOf, AppQueues
<1> QED BY <1>1, <1>2, ZenonT(30) DEF PortInv, AllReady, AfterRx, AfterTx, AfterLink

(***************************************************************************)
(* No worker of firewall or pktcapture polls before main has made the      *)
(* pool, set up both directions of the worker's own queue and started the  *)
(* port, whatever its number and however late it is to begin.              *)
(***************************************************************************)
THEOREM WorkersFindPortReady == MainSpec => []PollsOnlyReady
<1>1. MainInit => HandInv /\ PortInv
  BY InitHandInv, InitPortInv, ZenonT(30)
<1>2. HandInv /\ PortInv /\ [MainNext]_programVars => HandInv' /\ PortInv'
  BY NextHandInv, NextPortInv, ZenonT(30)
<1> QED BY <1>1, <1>2, HandPollsReady, PTL DEF MainSpec

-----------------------------------------------------------------------------
(* The statistics.                                                         *)

\* Arithmetic modulo M on numbers below M.
LEMMA ModAdd ==
  ASSUME NEW M \in Nat, M > 0, NEW a \in 0..M - 1, NEW b \in 0..M - 1
  PROVE  (a + b) % M = IF a + b < M THEN a + b ELSE a + b - M
  OBVIOUS

LEMMA ModSub ==
  ASSUME NEW M \in Nat, M > 0, NEW a \in 0..M - 1, NEW b \in 0..M - 1
  PROVE  (a - b) % M = IF a >= b THEN a - b ELSE a - b + M
  OBVIOUS

\* What is counted and not yet printed is in the register.
CountInv ==
  /\ gprc \in 0..Modulus - 1 /\ ipackets \in 0..Modulus - 1
  /\ fresh = gprc /\ pre = ipackets

LEMMA InitCountInv == MainInit => CountInv
  BY TimerAssumption DEF MainInit, StatsInit, CountInv

LEMMA DoStatsPrints ==
  ASSUME CountInv, DoStats
  PROVE  printed' = fresh /\ CountInv'
<1> DEFINE sum == (ipackets + gprc) % Modulus
<1>1. Modulus \in Nat /\ Modulus > 1
  BY TimerAssumption, ZenonT(30)
<1>2. sum = IF ipackets + gprc < Modulus THEN ipackets + gprc
            ELSE ipackets + gprc - Modulus
  BY <1>1, ModAdd DEF CountInv
<1>3. sum \in 0..Modulus - 1
  BY <1>1, <1>2 DEF CountInv
<1>4. ipackets' = sum /\ printed' = (sum - ipackets) % Modulus /\ pre' = sum
      /\ gprc' = 0 /\ fresh' = 0
  BY ZenonT(30) DEF DoStats, StatsGet, CountInv
<1> HIDE DEF sum
<1>5. (sum - ipackets) % Modulus = IF sum >= ipackets THEN sum - ipackets
                                   ELSE sum - ipackets + Modulus
  BY <1>1, <1>3, ModSub DEF CountInv
<1>6. (sum - ipackets) % Modulus = gprc
  BY <1>1, <1>2, <1>3, <1>5 DEF CountInv
<1> QED BY <1>1, <1>3, <1>4, <1>6 DEF CountInv

LEMMA NextCountInv == CountInv /\ [MainNext]_programVars => CountInv'
<1> SUFFICES ASSUME CountInv, [MainNext]_programVars PROVE CountInv'
  BY ZenonT(30)
<1>1. CASE DoStats
  BY <1>1, DoStatsPrints, ZenonT(30)
<1>2. CASE CountPacket
  BY <1>2, TimerAssumption DEF CountPacket, CountInv
<1>3. CASE UNCHANGED countVars
  BY <1>3, ZenonT(30) DEF countVars, CountInv
<1>4. CASE Master
  BY <1>1, <1>3, <1>4, ZenonT(30) DEF Master, TimerSetup, TimerManage, TimerStep, ResetTimer,
                          NotExpired, Expire, Reload
<1>5. CASE World
  BY <1>2, <1>3, <1>5, ZenonT(30) DEF World, Tick
<1> QED BY <1>3, <1>4, <1>5, ZenonT(30) DEF MainNext, Worker, WorkerPanics, Gone, programVars

(***************************************************************************)
(* do_stats prints exactly the packets received since it last ran.  The    *)
(* register that a read clears, the driver's sum and pre_ipackets wrap     *)
(* around independently, and the difference is right all the same, for     *)
(* counters of any width.                                                  *)
(***************************************************************************)
THEOREM LinesAreExact == MainSpec => PrintsWhatArrived
<1>1. MainSpec => []CountInv
  BY InitCountInv, NextCountInv, PTL DEF MainSpec
<1>2. CountInv /\ [MainNext]_programVars => [nextCall = "stats" /\ nextCall' = "reload" => printed' = fresh]_programVars
  <2> SUFFICES ASSUME CountInv, MainNext, nextCall = "stats", nextCall' = "reload"
               PROVE  printed' = fresh
    BY ZenonT(30)
  <2>1. DoStats
    BY ZenonT(30) DEF MainNext, Master, CreateThreads, MpCheck, SyncLaunch, LaunchMainLoop, Launch,
           Acknowledge, MpWaitLcore, Configure, CreateMempool, QueueSetup, DevStart,
           CheckLink, TimerSetup, TimerManage, TimerStep, At, Exit, Worker,
           WorkerPanics, World, Gone, programVars, mainVars
  <2> QED BY <2>1, DoStatsPrints, ZenonT(30)
<1> QED BY <1>1, <1>2, PTL DEF MainSpec, PrintsWhatArrived


-----------------------------------------------------------------------------
(* The entries of an array.                                                *)

Arr(a, S) == {a[k] : k \in S}

Distinct(a, S) == \A k, l \in S : a[k] = a[l] => k = l

LEMMA ArrDrop ==
  ASSUME NEW a, NEW S, Distinct(a, S), NEW k \in S
  PROVE  /\ Arr(a, S \ {k}) = Arr(a, S) \ {a[k]}
         /\ Distinct(a, S \ {k})
  BY ZenonT(30) DEF Arr, Distinct

LEMMA ArrStore ==
  ASSUME NEW a \in [Slots -> Mbufs \cup {Null}], NEW S \in SUBSET Slots,
         Distinct(a, S), NEW k \in Slots \ S, NEW v, v \notin Arr(a, S)
  PROVE  /\ Arr([a EXCEPT ![k] = v], S \cup {k}) = Arr(a, S) \cup {v}
         /\ Distinct([a EXCEPT ![k] = v], S \cup {k})
<1> DEFINE b == [a EXCEPT ![k] = v]
<1>1. b[k] = v /\ \A l \in S : b[l] = a[l]
  BY ZenonT(30)
<1>2. Arr(b, S \cup {k}) = Arr(a, S) \cup {v}
  BY <1>1, ZenonT(30) DEF Arr
<1>3. Distinct(b, S \cup {k})
  BY <1>1, ZenonT(30) DEF Distinct, Arr
<1> QED BY <1>2, <1>3, ZenonT(30)

-----------------------------------------------------------------------------
(* The inductive invariant.                                                *)

\* The types of the locals and of the arrays.
LocalsOK ==
  /\ pc \in [Queues -> Locations]
  /\ m \in [Queues -> Mbufs \cup {Null}]
  /\ recvCnt \in [Queues -> 0..MaxPktBurst]
  /\ len \in [Queues -> 0..MaxPktBurst]
  /\ ret \in [Queues -> 0..MaxPktBurst]
  /\ i \in [Queues -> 0..MaxPktBurst]
  /\ \A q \in Queues : i[q] <= recvCnt[q]

ArraysOK ==
  /\ rxMbufs \in [Slots -> Mbufs \cup {Null}]
  /\ sendArr \in [Slots -> Mbufs \cup {Null}]
  /\ sendLen \in 0..MaxPktBurst - 1

\* One lcore at a time has a burst, and where it is in it.
Solo ==
  /\ \A q, r \in Queues : Busy(q) /\ Busy(r) => q = r
  /\ \A q \in Queues :
       /\ pc[q] = "poll" => i[q] = 0
       /\ pc[q] \notin {"poll", "inspect"} => i[q] < recvCnt[q]
       /\ pc[q] \in {"free", "read", "store"} => m[q] = rxMbufs[i[q] + 1]
       /\ pc[q] = "store" => len[q] = sendLen
       /\ pc[q] = "write" => len[q] < MaxPktBurst

Armed  == Elems(rxRing)
Unseen == UNION {BurstSlots(q) : q \in Queues}
Bursts == Arr(rxMbufs, Unseen)
List   == Arr(sendArr, ListSlots)
Given  == Elems(txRing)

\* The sets are disjoint and leave no mbuf out.
Apart(P, A, B, L, T) ==
  /\ P \cap A = {} /\ P \cap B = {} /\ P \cap L = {} /\ P \cap T = {}
  /\ A \cap B = {} /\ A \cap L = {} /\ A \cap T = {}
  /\ B \cap L = {} /\ B \cap T = {}
  /\ L \cap T = {}
  /\ P \cup A \cup B \cup L \cup T = Mbufs

Singles ==
  /\ OneEach(rxRing) /\ OneEach(txRing)
  /\ Distinct(rxMbufs, Unseen) /\ Distinct(sendArr, ListSlots)

Owning ==
  /\ Singles
  /\ Apart(pool, Armed, Bursts, List, Given)
  /\ RefcntsExact

CInv ==
  /\ DevInv /\ LocalsOK /\ ArraysOK /\ overlap \in BOOLEAN
  /\ ~overlap => Solo /\ Owning

LEMMA CInvTypes == CInv => TypeOK
  BY ZenonT(30) DEF CInv, TypeOK, LocalsOK, ArraysOK, DevInv

LEMMA RingLists ==
  ASSUME CInv
  PROVE  rxRing \in Lists /\ txRing \in Lists
  BY ZenonT(30) DEF CInv, DevInv, DevTypeOK, Lists

LEMMA BurstSize == MaxPktBurst \in Nat /\ MaxPktBurst > 0
  BY FirewallAssumption

\* The sets of the next state are those of the next arrays.
LEMMA NextSets ==
  /\ Armed' = Elems(rxRing') /\ Given' = Elems(txRing')
  /\ Bursts' = Arr(rxMbufs', Unseen') /\ List' = Arr(sendArr', ListSlots')
  /\ Singles' <=> /\ OneEach(rxRing') /\ OneEach(txRing')
                  /\ Distinct(rxMbufs', Unseen') /\ Distinct(sendArr', ListSlots')
  BY ZenonT(30) DEF Armed, Given, Bursts, List, Singles, Elems, Arr, Distinct, OneEach

\* Steps that leave the mbufs and the live entries where they are.
Still ==
  /\ UNCHANGED <<pool, refcnt, rxRing, txRing, rxMbufs, sendArr>>
  /\ UNCHANGED <<Unseen, ListSlots>>

Unmoved == UNCHANGED <<Bursts, List, Given>>

LEMMA StillOwning ==
  ASSUME Owning, Still
  PROVE  Owning' /\ Unmoved
<1>1. UNCHANGED <<Armed, Bursts, List, Given>>
  BY NextSets, ZenonT(30) DEF Still, Armed, Bursts, List, Given
<1>2. Singles'
  BY NextSets, ZenonT(30) DEF Still, Owning, Singles
<1>3. RefcntsExact'
  BY ZenonT(30) DEF Still, Owning, RefcntsExact
<1>4. Apart(pool, Armed, Bursts, List, Given)'
  BY <1>1, ZenonT(30) DEF Still, Owning, Apart
<1> QED BY <1>1, <1>2, <1>3, <1>4, ZenonT(30) DEF Owning, Unmoved

LEMMA StillCInv ==
  ASSUME CInv, ~overlap, UNCHANGED overlap, DevInv', LocalsOK', ArraysOK', Solo', Still
  PROVE  CInv' /\ Unmoved
<1>1. Owning' /\ Unmoved
  BY StillOwning, ZenonT(30) DEF CInv
<1> QED BY <1>1, ZenonT(30) DEF CInv

\* Nothing but the lcore's own place in the burst and the list matters.
LEMMA SameSlots ==
  ASSUME UNCHANGED sendLen,
         \A r \in Queues : /\ BurstSlots(r)' = BurstSlots(r)
                           /\ Sending(r)' <=> Sending(r)
                           /\ SeenSlots(r)' = SeenSlots(r)
  PROVE  UNCHANGED <<Unseen, ListSlots>>
<1>1. UNCHANGED Unseen
  BY ZenonT(30) DEF Unseen
<1>2. UNCHANGED ListSlots
  BY ZenonT(30) DEF ListSlots
<1> QED BY <1>1, <1>2, ZenonT(30)

\* When the other lcores have no burst, q decides which entries are live.
OnlyLive(q) == \A r \in Queues \ {q} : ~Sending(r) /\ BurstSlots(r) = {}

LEMMA Alone ==
  ASSUME NEW q \in Queues, OnlyLive(q)
  PROVE  /\ Unseen = BurstSlots(q)
         /\ ListSlots = IF Sending(q) THEN SeenSlots(q) ELSE 1..sendLen
<1>1. Unseen = BurstSlots(q)
  BY ZenonT(30) DEF OnlyLive, Unseen
<1>2. ListSlots = IF Sending(q) THEN SeenSlots(q) ELSE 1..sendLen
  BY ZenonT(30) DEF OnlyLive, ListSlots
<1> QED BY <1>1, <1>2, ZenonT(30)

LEMMA NextAlone ==
  ASSUME NEW q \in Queues, OnlyLive(q)'
  PROVE  /\ Unseen' = BurstSlots(q)'
         /\ ListSlots' = IF Sending(q)' THEN SeenSlots(q)' ELSE 1..sendLen'
<1>1. Unseen' = BurstSlots(q)'
  BY ZenonT(30) DEF OnlyLive, Unseen
<1>2. ListSlots' = IF Sending(q)' THEN SeenSlots(q)' ELSE 1..sendLen'
  BY ZenonT(30) DEF OnlyLive, ListSlots
<1> QED BY <1>1, <1>2, ZenonT(30)

\* A lcore without a burst has nothing in the arrays.
LEMMA IdleOthers ==
  ASSUME LocalsOK, Solo, NEW q \in Queues, \A r \in Queues \ {q} : ~Busy(r)
  PROVE  OnlyLive(q)
<1> SUFFICES ASSUME NEW r \in Queues \ {q}
             PROVE  ~Sending(r) /\ BurstSlots(r) = {}
  BY ZenonT(30) DEF OnlyLive
<1>1. recvCnt[r] = 0 /\ i[r] = 0
  BY BurstSize DEF Busy, LocalsOK
<1>2. pc[r] \in {"poll", "inspect"}
  BY <1>1 DEF Solo
<1>3. ~Sending(r)
  BY <1>2, ZenonT(30) DEF Sending
<1> QED BY <1>1, <1>3 DEF BurstSlots

\* A lcore in the middle of a packet has the burst, and the others none.
LEMMA BusyAlone ==
  ASSUME LocalsOK, Solo, NEW q \in Queues, pc[q] \notin {"poll", "inspect"}
  PROVE  /\ i[q] < recvCnt[q] /\ Busy(q) /\ OnlyLive(q)
         /\ \A r \in Queues \ {q} : ~Busy(r) /\ pc[r] \in {"poll", "inspect"}
<1>1. i[q] < recvCnt[q]
  BY ZenonT(30) DEF Solo
<1>2. Busy(q)
  BY <1>1 DEF LocalsOK, Busy
<1>3. \A r \in Queues \ {q} : ~Busy(r)
  BY <1>2, ZenonT(30) DEF Solo
<1>4. \A r \in Queues \ {q} : recvCnt[r] = 0 /\ i[r] = 0
  BY <1>3, BurstSize DEF Busy, LocalsOK
<1>5. \A r \in Queues \ {q} : pc[r] \in {"poll", "inspect"}
  BY <1>4 DEF Solo
<1> QED BY <1>1, <1>2, <1>3, <1>5, IdleOthers, ZenonT(30)

\* A step of the lcore that has the burst.
LEMMA ActsAlone ==
  ASSUME NEW q \in Queues, OnlyLive(q),
         \A r \in Queues \ {q} : /\ pc'[r] = pc[r] /\ i'[r] = i[r]
                                 /\ recvCnt'[r] = recvCnt[r]
  PROVE  /\ Unseen = BurstSlots(q)
         /\ ListSlots = IF Sending(q) THEN SeenSlots(q) ELSE 1..sendLen
         /\ Unseen' = BurstSlots(q)'
         /\ ListSlots' = IF Sending(q)' THEN SeenSlots(q)' ELSE 1..sendLen'
<1>1. OnlyLive(q)'
  BY ZenonT(30) DEF OnlyLive, Sending, BurstSlots
<1> QED BY <1>1, Alone, NextAlone, ZenonT(30)

LEMMA InitCInv == Init => CInv
<1> SUFFICES ASSUME Init PROVE CInv
  BY ZenonT(30)
<1>1. DevInv
  BY DevInitInv, ZenonT(30) DEF Init
<1>2. LocalsOK /\ ArraysOK /\ overlap \in BOOLEAN
  <2>1. LocalsOK
    BY BurstSize DEF Init, LocalsOK, Locations
  <2>2. ArraysOK
    BY BurstSize DEF Init, ArraysOK
  <2>3. overlap \in BOOLEAN
    BY ZenonT(30) DEF Init
  <2> QED BY <2>1, <2>2, <2>3, ZenonT(30)
<1>3. Solo
  BY DEF Init, Solo, Busy
<1>4. \A q \in Queues : ~Sending(q) /\ BurstSlots(q) = {}
  BY DEF Init, Sending, BurstSlots
<1>5. Unseen = {}
  BY <1>4, ZenonT(30) DEF Unseen
<1>6. ListSlots = {}
  <2>1. sendLen = 0
    BY ZenonT(30) DEF Init
  <2> QED BY <1>4, <2>1 DEF ListSlots
<1>7. Bursts = {} /\ List = {} /\ Distinct(rxMbufs, Unseen) /\ Distinct(sendArr, ListSlots)
  BY <1>5, <1>6, ZenonT(30) DEF Bursts, List, Arr, Distinct
<1>8. \A q \in Queues : txRing[q] = <<>>
  BY ZenonT(30) DEF Init, DevInit
<1>9. Given = {} /\ OneEach(txRing)
  BY <1>8 DEF Given, Elems, OneEach, Range
<1>10. pool = Mbufs \ Armed /\ Armed \subseteq Mbufs
  <2>1. pool = Mbufs \ Armed
    BY ZenonT(30) DEF Init, DevInit, Armed, Elems
  <2>2. rxRing \in Lists
    BY <1>1, ZenonT(30) DEF DevInv, DevTypeOK, Lists
  <2>3. \A q \in Queues : \A k \in 1..Len(rxRing[q]) : rxRing[q][k] \in Mbufs
    BY <2>2 DEF Lists
  <2> QED BY <2>1, <2>2, <2>3, ElemsAt DEF Armed
<1>11. OneEach(rxRing)
  BY DeviceAssumption DEF OneEach, NbRxDesc, Init, DevInit
<1>12. RefcntsExact
  BY ZenonT(30) DEF Init, DevInit, RefcntsExact
<1>13. Owning
  BY <1>7, <1>9, <1>10, <1>11, <1>12, ZenonT(30) DEF Owning, Singles, Apart
<1> QED BY <1>1, <1>2, <1>3, <1>13, ZenonT(30) DEF CInv

-----------------------------------------------------------------------------
(* Steps that move no mbuf.                                                *)

\* Outside send_packet only the rest of the burst matters.
LEMMA QuietStep ==
  ASSUME LocalsOK, NEW q \in Queues, NEW l, pc' = [pc EXCEPT ![q] = l],
         pc[q] \in {"poll", "inspect", "free", "read", "store"},
         l \in {"poll", "inspect", "free", "read", "store"},
         i'[q] + 1 .. recvCnt'[q] = i[q] + 1 .. recvCnt[q],
         \A r \in Queues \ {q} : /\ i'[r] = i[r] /\ recvCnt'[r] = recvCnt[r]
                                 /\ len'[r] = len[r],
         UNCHANGED <<sendLen, ret>>
  PROVE  UNCHANGED <<Unseen, ListSlots>>
<1> SUFFICES ASSUME NEW r \in Queues
             PROVE  /\ BurstSlots(r)' = BurstSlots(r)
                    /\ Sending(r)' <=> Sending(r)
                    /\ SeenSlots(r)' = SeenSlots(r)
  BY SameSlots, ZenonT(30)
<1>1. pc'[r] = IF r = q THEN l ELSE pc[r]
  BY ZenonT(30) DEF LocalsOK
<1>2. Sending(r)' <=> Sending(r)
  BY <1>1, ZenonT(30) DEF Sending
<1>3. r = q => ~Sending(r)
  BY ZenonT(30) DEF Sending
<1>4. BurstSlots(r)' = BurstSlots(r)
  BY <1>2, <1>3, ZenonT(30) DEF BurstSlots
<1>5. SeenSlots(r)' = SeenSlots(r)
  <2>1. CASE r = q
    BY <1>1, <2>1, ZenonT(30) DEF SeenSlots
  <2>2. CASE r # q
    BY <1>1, <2>2, ZenonT(30) DEF SeenSlots, Slots
  <2> QED BY <2>1, <2>2, ZenonT(30)
<1> QED BY <1>2, <1>4, <1>5, ZenonT(30)

\* What a step of main_loop that moves no mbuf leaves alone.
LEMMA LeavesRings ==
  ASSUME NEW q \in Queues,
         UNCHANGED devVars \/ RxReturn(q) \/ TxBegin(q)
  PROVE  UNCHANGED <<pool, refcnt, frame, rxRing, rxDone, txRing>>
  BY ZenonT(30) DEF devVars, memVars, rxVars, txVars, RxReturn, TxBegin

\* The steps of main_loop that move no mbuf.
Quiet(q) ==
  \/ GotBurst(q) \/ Inspect(q) \/ Inspected(q) \/ ReadLen(q) \/ WriteLen(q)
  \/ BeginSend(q) \/ Transmitted(q) \/ Sent(q)

LEMMA QuietCInv ==
  ASSUME CInv, ~overlap, NEW q \in Queues, Quiet(q), UNCHANGED overlap
  PROVE  CInv' /\ Unmoved
<1>1. DevInv /\ LocalsOK /\ ArraysOK /\ Solo
  BY ZenonT(30) DEF CInv
<1>2. /\ DevInv' /\ UNCHANGED <<pool, refcnt, rxRing, txRing>>
      /\ UNCHANGED <<rxMbufs, sendArr>>
  <2>1. UNCHANGED devVars \/ RxReturn(q) \/ TxBegin(q)
    BY ZenonT(30) DEF Quiet, GotBurst, Inspect, Inspected, ReadLen, WriteLen, BeginSend,
           Transmitted, Sent
  <2>2. DevInv'
    BY <1>1, <2>1, DevStutterInv, RxReturnInv, TxBeginInv, ZenonT(30)
  <2>3. UNCHANGED <<rxMbufs, sendArr>>
    BY ZenonT(30) DEF Quiet, GotBurst, Inspect, Inspected, ReadLen, WriteLen, BeginSend,
           Transmitted, Sent, sharedVars
  <2> QED BY <2>1, <2>2, <2>3, LeavesRings, ZenonT(30)
<1> SUFFICES LocalsOK' /\ ArraysOK' /\ Solo' /\ UNCHANGED <<Unseen, ListSlots>>
  BY <1>2, StillCInv, ZenonT(30) DEF Still
<1>3. CASE GotBurst(q)
  <2>1. /\ pc[q] = "poll" /\ pc' = [pc EXCEPT ![q] = "inspect"]
        /\ UNCHANGED <<rxMbufs, sendArr, sendLen, recvCnt, i, m, len, ret>>
    BY <1>3, ZenonT(30) DEF GotBurst, Goto, sharedVars
  <2>2. LocalsOK' /\ ArraysOK'
    BY <1>1, <2>1, ZenonT(30) DEF LocalsOK, ArraysOK, Locations
  <2>3. Solo'
    BY <1>1, <2>1, ZenonT(30) DEF LocalsOK, Solo, Busy
  <2> QED BY <1>1, <2>1, <2>2, <2>3, QuietStep, ZenonT(30)
<1>4. CASE Inspect(q)
  <2> DEFINE l == IF frame[m'[q]] \in Drop THEN "free" ELSE "read"
  <2>1. /\ pc[q] = "inspect" /\ pc' = [pc EXCEPT ![q] = l] /\ i[q] < recvCnt[q]
        /\ m' = [m EXCEPT ![q] = rxMbufs[i[q] + 1]]
        /\ UNCHANGED <<rxMbufs, sendArr, sendLen, recvCnt, i, len, ret>>
    BY <1>4, ZenonT(30) DEF Inspect, Goto, sharedVars
  <2>2. l \in {"free", "read"}
    BY ZenonT(30)
  <2> HIDE DEF l
  <2>3. i[q] + 1 \in Slots
    BY <1>1, <2>1, BurstSize DEF LocalsOK, Slots
  <2>4. LocalsOK' /\ ArraysOK'
    BY <1>1, <2>1, <2>2, <2>3, ZenonT(30) DEF LocalsOK, ArraysOK, Locations
  <2>5. Solo'
    BY <1>1, <2>1, <2>2, ZenonT(30) DEF LocalsOK, Solo, Busy
  <2> QED BY <1>1, <2>1, <2>2, <2>4, <2>5, QuietStep, ZenonT(30)
<1>5. CASE Inspected(q)
  <2>1. /\ pc[q] = "inspect" /\ pc' = [pc EXCEPT ![q] = "poll"] /\ i[q] = recvCnt[q]
        /\ recvCnt' = [recvCnt EXCEPT ![q] = 0] /\ i' = [i EXCEPT ![q] = 0]
        /\ UNCHANGED <<rxMbufs, sendArr, sendLen, m, len, ret>>
    BY <1>5, ZenonT(30) DEF Inspected, Goto, sharedVars
  <2>2. LocalsOK' /\ ArraysOK'
    BY <1>1, <2>1, BurstSize DEF LocalsOK, ArraysOK, Locations
  <2>3. Solo'
    BY <1>1, <2>1 DEF LocalsOK, Solo, Busy
  <2>4. /\ i'[q] + 1 .. recvCnt'[q] = i[q] + 1 .. recvCnt[q]
        /\ \A r \in Queues \ {q} : i'[r] = i[r] /\ recvCnt'[r] = recvCnt[r]
    <3>1. /\ i'[q] = 0 /\ recvCnt'[q] = 0 /\ i[q] \in Nat /\ recvCnt[q] = i[q]
          /\ \A r \in Queues \ {q} : i'[r] = i[r] /\ recvCnt'[r] = recvCnt[r]
      BY <1>1, <2>1 DEF LocalsOK
    <3>2. i'[q] + 1 .. recvCnt'[q] = {} /\ i[q] + 1 .. recvCnt[q] = {}
      BY ONLY <3>1, SMTT(30)
    <3> QED BY <3>1, <3>2, ZenonT(30)
  <2> QED BY <1>1, <2>1, <2>2, <2>3, <2>4, QuietStep, ZenonT(30)
<1>6. CASE ReadLen(q)
  <2>1. /\ pc[q] = "read" /\ pc' = [pc EXCEPT ![q] = "store"]
        /\ len' = [len EXCEPT ![q] = sendLen]
        /\ UNCHANGED <<rxMbufs, sendArr, sendLen, recvCnt, i, m, ret>>
    BY <1>6, ZenonT(30) DEF ReadLen, Goto, sharedVars
  <2>2. LocalsOK' /\ ArraysOK'
    BY <1>1, <2>1, BurstSize DEF LocalsOK, ArraysOK, Locations
  <2>3. Solo'
    BY <1>1, <2>1, ZenonT(30) DEF LocalsOK, Solo, Busy
  <2>4. \A r \in Queues \ {q} : len'[r] = len[r]
    BY <1>1, <2>1, ZenonT(30) DEF LocalsOK
  <2> QED BY <1>1, <2>1, <2>2, <2>3, <2>4, QuietStep, ZenonT(30)
<1>7. ASSUME pc[q] \notin {"poll", "inspect"},
             \A r \in Queues \ {q} : pc'[r] = pc[r] /\ i'[r] = i[r] /\ recvCnt'[r] = recvCnt[r],
             Sending(q), BurstSlots(q)' = BurstSlots(q),
             SeenSlots(q) = IF Sending(q)' THEN SeenSlots(q)' ELSE 1..sendLen'
      PROVE  UNCHANGED <<Unseen, ListSlots>>
  <2>1. OnlyLive(q)
    BY <1>1, <1>7, BusyAlone, ZenonT(30)
  <2> QED BY <1>7, <2>1, ActsAlone, ZenonT(30)
<1>8. CASE WriteLen(q)
  <2>1. /\ pc[q] = "write" /\ pc' = [pc EXCEPT ![q] = "inspect"] /\ sendLen' = len[q]
        /\ i' = [i EXCEPT ![q] = @ + 1] /\ m' = [m EXCEPT ![q] = Null]
        /\ len' = [len EXCEPT ![q] = 0] /\ ret' = [ret EXCEPT ![q] = 0]
        /\ UNCHANGED <<rxMbufs, sendArr, recvCnt>>
    BY <1>8, ZenonT(30) DEF WriteLen, Goto
  <2>2. i[q] < recvCnt[q] /\ len[q] < MaxPktBurst
    BY <1>1, <2>1, ZenonT(30) DEF Solo
  <2>3. /\ pc'[q] = "inspect" /\ i'[q] = i[q] + 1
        /\ \A r \in Queues \ {q} : pc'[r] = pc[r] /\ i'[r] = i[r] /\ recvCnt'[r] = recvCnt[r]
    BY <1>1, <2>1, ZenonT(30) DEF LocalsOK
  <2>4. LocalsOK' /\ ArraysOK'
    <3>1. len[q] \in 0..MaxPktBurst - 1
      BY <1>1, <2>2, BurstSize DEF LocalsOK
    <3>2. i[q] + 1 \in 0..MaxPktBurst /\ i[q] + 1 <= recvCnt[q]
      BY <1>1, <2>2, BurstSize DEF LocalsOK
    <3>3. ArraysOK'
      BY <1>1, <2>1, <3>1, ZenonT(30) DEF ArraysOK
    <3>4. LocalsOK'
      BY <1>1, <2>1, <3>2, BurstSize DEF LocalsOK, Locations
    <3> QED BY <3>3, <3>4, ZenonT(30)
  <2>5. Solo'
    <3>1. \A r \in Queues \ {q} : pc[r] \in {"poll", "inspect"}
      BY <1>1, <2>1, BusyAlone, ZenonT(30)
    <3> QED BY <1>1, <2>1, <3>1, ZenonT(30) DEF LocalsOK, Solo, Busy
  <2>6. Sending(q) /\ ~Sending(q)' /\ SeenSlots(q) = 1..sendLen'
    BY <2>1, <2>3, ZenonT(30) DEF Sending, SeenSlots
  <2>7. BurstSlots(q)' = BurstSlots(q)
    <3>1. i[q] \in Nat /\ i'[q] + 1 = i[q] + 2 /\ recvCnt'[q] = recvCnt[q]
      BY <1>1, <2>1, <2>3 DEF LocalsOK
    <3> QED BY <2>6, <3>1, ZenonT(30) DEF BurstSlots
  <2> QED BY <1>7, <2>1, <2>3, <2>4, <2>5, <2>6, <2>7, ZenonT(30)
<1>9. CASE BeginSend(q)
  <2>1. /\ pc[q] = "send" /\ pc' = [pc EXCEPT ![q] = "xmit"]
        /\ ret' = [ret EXCEPT ![q] = 0]
        /\ UNCHANGED <<rxMbufs, sendArr, sendLen, recvCnt, i, m, len>>
    BY <1>9, ZenonT(30) DEF BeginSend, Goto, sharedVars
  <2>2. LocalsOK' /\ ArraysOK'
    BY <1>1, <2>1, BurstSize DEF LocalsOK, ArraysOK, Locations
  <2>3. Solo'
    BY <1>1, <2>1, ZenonT(30) DEF LocalsOK, Solo, Busy
  <2>4. pc'[q] = "xmit" /\ ret'[q] = 0 /\ \A r \in Queues \ {q} : pc'[r] = pc[r]
    BY <1>1, <2>1, ZenonT(30) DEF LocalsOK
  <2>5. Sending(q) /\ Sending(q)' /\ SeenSlots(q)' = SeenSlots(q)
    BY <2>1, <2>4 DEF Sending, SeenSlots, Slots
  <2>6. BurstSlots(q)' = BurstSlots(q)
    BY <2>1, <2>5, ZenonT(30) DEF BurstSlots
  <2> QED BY <1>7, <2>1, <2>2, <2>3, <2>4, <2>5, <2>6, ZenonT(30)
<1>10. CASE Transmitted(q)
  <2>1. /\ pc[q] = "xmit" /\ pc' = [pc EXCEPT ![q] = "rest"]
        /\ UNCHANGED <<rxMbufs, sendArr, sendLen, recvCnt, i, m, len, ret>>
    BY <1>10, ZenonT(30) DEF Transmitted, Goto, sharedVars
  <2>2. LocalsOK' /\ ArraysOK'
    BY <1>1, <2>1, ZenonT(30) DEF LocalsOK, ArraysOK, Locations
  <2>3. Solo'
    BY <1>1, <2>1, ZenonT(30) DEF LocalsOK, Solo, Busy
  <2>4. pc'[q] = "rest" /\ \A r \in Queues \ {q} : pc'[r] = pc[r]
    BY <1>1, <2>1, ZenonT(30) DEF LocalsOK
  <2>5. Sending(q) /\ Sending(q)' /\ SeenSlots(q)' = SeenSlots(q)
    BY <2>1, <2>4, ZenonT(30) DEF Sending, SeenSlots
  <2>6. BurstSlots(q)' = BurstSlots(q)
    BY <2>1, <2>5, ZenonT(30) DEF BurstSlots
  <2> QED BY <1>7, <2>1, <2>2, <2>3, <2>4, <2>5, <2>6, ZenonT(30)
<1>11. CASE Sent(q)
  <2>1. /\ pc[q] = "rest" /\ pc' = [pc EXCEPT ![q] = "write"] /\ ret[q] = MaxPktBurst
        /\ len' = [len EXCEPT ![q] = 0]
        /\ UNCHANGED <<rxMbufs, sendArr, sendLen, recvCnt, i, m, ret>>
    BY <1>11, ZenonT(30) DEF Sent, Goto, sharedVars
  <2>2. LocalsOK' /\ ArraysOK'
    BY <1>1, <2>1, BurstSize DEF LocalsOK, ArraysOK, Locations
  <2>3. Solo'
    BY <1>1, <2>1, BurstSize, ZenonT(30) DEF LocalsOK, Solo, Busy
  <2>4. pc'[q] = "write" /\ len'[q] = 0 /\ \A r \in Queues \ {q} : pc'[r] = pc[r]
    BY <1>1, <2>1, ZenonT(30) DEF LocalsOK
  <2>5. Sending(q) /\ Sending(q)' /\ SeenSlots(q)' = SeenSlots(q)
    BY <2>1, <2>4, BurstSize DEF Sending, SeenSlots
  <2>6. BurstSlots(q)' = BurstSlots(q)
    BY <2>1, <2>5, ZenonT(30) DEF BurstSlots
  <2> QED BY <1>7, <2>1, <2>2, <2>3, <2>4, <2>5, <2>6, ZenonT(30)
<1> QED BY <1>3, <1>4, <1>5, <1>6, <1>8, <1>9, <1>10, <1>11, ZenonT(30) DEF Quiet

LEMMA NicCInv ==
  ASSUME CInv, ~overlap, NEW q \in Queues, Nic(q)
  PROVE  CInv' /\ Unmoved
<1>1. DevInv /\ LocalsOK /\ ArraysOK /\ Solo
  BY ZenonT(30) DEF CInv
<1>2. DevInv'
  BY <1>1, NicReceiveInv, NicTransmitInv, ZenonT(30) DEF Nic
<1>3. UNCHANGED <<pool, refcnt, rxRing, txRing>>
  BY ZenonT(30) DEF Nic, NicReceive, NicTransmit, memVars, rxVars, txVars
<1>4. UNCHANGED <<rxMbufs, sendArr, sendLen, pc, recvCnt, i, m, len, ret, overlap>>
  BY ZenonT(30) DEF Nic, sharedVars, localVars
<1>5. LocalsOK' /\ ArraysOK'
  BY <1>1, <1>4, ZenonT(30) DEF LocalsOK, ArraysOK
<1>6. Solo'
  BY <1>1, <1>4, ZenonT(30) DEF Solo, Busy
<1>7. UNCHANGED <<Unseen, ListSlots>>
  BY <1>4, ZenonT(30) DEF Unseen, ListSlots, BurstSlots, SeenSlots, Sending, Slots
<1> QED BY <1>2, <1>3, <1>4, <1>5, <1>6, <1>7, StillCInv, ZenonT(30) DEF Still

-----------------------------------------------------------------------------
(* Steps that move an mbuf from one set to another.                        *)

LEMMA FreedOwning ==
  ASSUME DevInv, Owning, NEW x \in Mbufs, x \notin pool, FreeMbuf(x)
  PROVE  pool' = pool \cup {x} /\ RefcntsExact'
  BY FreeMbufExact, ZenonT(30) DEF Owning, DevInv

\* The parts of the invariant for the next state, from those of this one.
LEMMA MovedCInv ==
  ASSUME DevInv', LocalsOK', ArraysOK', ~overlap', overlap' \in BOOLEAN,
         Solo', Singles', RefcntsExact',
         Apart(pool, Armed, Bursts, List, Given)'
  PROVE  CInv'
  BY ZenonT(30) DEF CInv, Owning

\* The packet in hand leaves the burst when the lcore has dealt with it.
LEMMA TakePacket ==
  ASSUME CInv, ~overlap, NEW q \in Queues, pc[q] \in {"free", "store"},
         \A r \in Queues \ {q} : /\ pc'[r] = pc[r] /\ i'[r] = i[r]
                                 /\ recvCnt'[r] = recvCnt[r],
         BurstSlots(q)' = i[q] + 2 .. recvCnt[q],
         UNCHANGED rxMbufs
  PROVE  /\ m[q] \in Bursts /\ m[q] \in Mbufs
         /\ Bursts' = Bursts \ {m[q]} /\ Distinct(rxMbufs', Unseen')
         /\ ListSlots = 1..sendLen
         /\ ListSlots' = IF Sending(q)' THEN SeenSlots(q)' ELSE 1..sendLen'
<1> DEFINE k == i[q] + 1
<1>1. LocalsOK /\ Solo /\ Owning
  BY ZenonT(30) DEF CInv
<1>2. i[q] < recvCnt[q] /\ OnlyLive(q) /\ m[q] = rxMbufs[k] /\ ~Sending(q)
  BY <1>1, BusyAlone, ZenonT(30) DEF Solo, Sending
<1>3. BurstSlots(q) = k .. recvCnt[q]
  BY <1>2, ZenonT(30) DEF BurstSlots
<1>4. i[q] + 2 .. recvCnt[q] = (k .. recvCnt[q]) \ {k} /\ k \in k .. recvCnt[q]
  BY <1>1, <1>2 DEF LocalsOK
<1>5. /\ Unseen' = Unseen \ {k} /\ k \in Unseen /\ ListSlots = 1..sendLen
      /\ ListSlots' = IF Sending(q)' THEN SeenSlots(q)' ELSE 1..sendLen'
  BY <1>2, <1>3, <1>4, ActsAlone, ZenonT(30)
<1> HIDE DEF k
<1>6. m[q] \in Bursts
  BY <1>2, <1>5, ZenonT(30) DEF Bursts, Arr
<1>7. m[q] \in Mbufs
  BY <1>1, <1>6, ZenonT(30) DEF Owning, Apart
<1>8. /\ Arr(rxMbufs, Unseen \ {k}) = Arr(rxMbufs, Unseen) \ {rxMbufs[k]}
      /\ Distinct(rxMbufs, Unseen \ {k})
  BY <1>1, <1>5, ArrDrop, ZenonT(30) DEF Owning, Singles
<1>9. Bursts' = Bursts \ {m[q]} /\ Distinct(rxMbufs', Unseen')
  BY <1>2, <1>5, <1>8, NextSets, ZenonT(30) DEF Bursts
<1> QED BY <1>5, <1>6, <1>7, <1>9, ZenonT(30)

LEMMA FreePacketCInv ==
  ASSUME CInv, ~overlap, NEW q \in Queues, FreePacket(q), UNCHANGED overlap
  PROVE  /\ CInv' /\ m[q] \in Bursts /\ refcnt[m[q]] = 1
         /\ Bursts' = Bursts \ {m[q]} /\ UNCHANGED <<List, Given>>
<1> DEFINE x == m[q]
<1>1. DevInv /\ LocalsOK /\ ArraysOK /\ overlap \in BOOLEAN /\ Solo /\ Owning
  BY ZenonT(30) DEF CInv
<1>2. /\ pc[q] = "free" /\ pc' = [pc EXCEPT ![q] = "inspect"] /\ FreeMbuf(x)
      /\ i' = [i EXCEPT ![q] = @ + 1] /\ m' = [m EXCEPT ![q] = Null]
      /\ UNCHANGED <<rxMbufs, sendArr, sendLen, recvCnt, len, ret>>
      /\ UNCHANGED <<rxVars, txVars>>
  BY ZenonT(30) DEF FreePacket, Goto, sharedVars
<1>3. UNCHANGED <<rxRing, txRing>>
  BY <1>2, ZenonT(30) DEF rxVars, txVars
<1>4. /\ pc'[q] = "inspect" /\ i'[q] = i[q] + 1
      /\ \A r \in Queues \ {q} : pc'[r] = pc[r] /\ i'[r] = i[r] /\ recvCnt'[r] = recvCnt[r]
  BY <1>1, <1>2, ZenonT(30) DEF LocalsOK
<1>5. ~Sending(q)'
  BY <1>4, ZenonT(30) DEF Sending
<1>6. BurstSlots(q)' = i[q] + 2 .. recvCnt[q]
  <2>1. i[q] + 1 + 1 = i[q] + 2
    BY <1>1 DEF LocalsOK
  <2> QED BY <1>2, <1>4, <1>5, <2>1, ZenonT(30) DEF BurstSlots
<1>7. /\ x \in Bursts /\ x \in Mbufs
      /\ Bursts' = Bursts \ {x} /\ Distinct(rxMbufs', Unseen') /\ UNCHANGED ListSlots
  BY <1>2, <1>4, <1>5, <1>6, TakePacket, ZenonT(30)
<1> HIDE DEF x
<1>8. x \notin pool
  BY <1>1, <1>7, ZenonT(30) DEF Owning, Apart
<1>9. DevInv' /\ pool' = pool \cup {x} /\ RefcntsExact'
  BY <1>1, <1>2, <1>7, <1>8, FreedOwning, FreeMbufInv, ZenonT(30)
<1>10. LocalsOK' /\ ArraysOK'
  <2>1. i[q] + 1 \in 0..MaxPktBurst /\ i[q] + 1 <= recvCnt[q]
    BY <1>1, <1>2, BurstSize, BusyAlone DEF LocalsOK
  <2>2. LocalsOK'
    BY <1>1, <1>2, <2>1, ZenonT(30) DEF LocalsOK, Locations
  <2>3. ArraysOK'
    BY <1>1, <1>2, ZenonT(30) DEF ArraysOK
  <2> QED BY <2>2, <2>3, ZenonT(30)
<1>11. Solo'
  BY <1>1, <1>2, ZenonT(30) DEF LocalsOK, Solo, Busy
<1>12. UNCHANGED <<Armed, List, Given>>
  BY <1>2, <1>3, <1>7, NextSets, ZenonT(30) DEF Armed, List, Given
<1>13. Apart(pool, Armed, Bursts, List, Given)'
  BY <1>1, <1>7, <1>9, <1>12 DEF Owning, Apart
<1>14. Singles'
  BY <1>1, <1>2, <1>3, <1>7, NextSets, ZenonT(30) DEF Owning, Singles
<1>15. refcnt[x] = 1
  BY <1>1, <1>7, <1>8, ZenonT(30) DEF Owning, RefcntsExact
<1>16. CInv'
  BY <1>1, <1>9, <1>10, <1>11, <1>13, <1>14, MovedCInv, ZenonT(30)
<1> QED BY <1>7, <1>12, <1>15, <1>16, ZenonT(30) DEF x

LEMMA StoreCInv ==
  ASSUME CInv, ~overlap, NEW q \in Queues, Store(q), UNCHANGED overlap
  PROVE  /\ CInv' /\ m[q] \in Bursts
         /\ Bursts' = Bursts \ {m[q]} /\ List' = List \cup {m[q]} /\ UNCHANGED Given
<1> DEFINE x == m[q]
           k == len[q] + 1
           l == IF k = MaxPktBurst THEN "send" ELSE "write"
<1>1. DevInv /\ LocalsOK /\ ArraysOK /\ overlap \in BOOLEAN /\ Solo /\ Owning
  BY ZenonT(30) DEF CInv
<1>2. /\ pc[q] = "store" /\ pc' = [pc EXCEPT ![q] = l]
      /\ sendArr' = [sendArr EXCEPT ![k] = x] /\ len' = [len EXCEPT ![q] = k]
      /\ UNCHANGED <<rxMbufs, sendLen, recvCnt, i, m, ret>>
      /\ UNCHANGED devVars
  BY ZenonT(30) DEF Store, Goto
<1>3. UNCHANGED <<pool, refcnt, rxRing, txRing>>
  BY <1>2, LeavesRings, ZenonT(30)
<1>4. DevInv'
  BY <1>1, <1>2, DevStutterInv, ZenonT(30)
<1>5. len[q] = sendLen /\ k \in Slots /\ k = sendLen + 1 /\ sendLen \in Nat
  <2>1. len[q] = sendLen
    BY <1>1, <1>2, ZenonT(30) DEF Solo
  <2>2. sendLen \in 0..MaxPktBurst - 1
    BY <1>1, ZenonT(30) DEF ArraysOK
  <2> QED BY <2>1, <2>2, BurstSize DEF Slots
<1>6. /\ pc'[q] = l /\ len'[q] = k
      /\ \A r \in Queues \ {q} : pc'[r] = pc[r]
  BY <1>1, <1>2, ZenonT(30) DEF LocalsOK
<1>7. l \in {"send", "write"} /\ (l = "write" <=> k # MaxPktBurst)
  BY ZenonT(30)
<1> HIDE DEF l
<1>8. Sending(q)' /\ SeenSlots(q)' = 1..k
  BY <1>6, <1>7, ZenonT(30) DEF Sending, SeenSlots, Slots
<1>9. BurstSlots(q)' = i[q] + 2 .. recvCnt[q]
  BY <1>2, <1>8, ZenonT(30) DEF BurstSlots
<1>10. /\ x \in Bursts /\ x \in Mbufs
       /\ Bursts' = Bursts \ {x} /\ Distinct(rxMbufs', Unseen')
       /\ ListSlots = 1..sendLen /\ ListSlots' = 1..k
  BY <1>2, <1>6, <1>8, <1>9, TakePacket, ZenonT(30)
<1> HIDE DEF x
<1>11. LocalsOK' /\ ArraysOK'
  <2>1. LocalsOK'
    BY <1>1, <1>2, <1>5, <1>7 DEF LocalsOK, Locations, Slots
  <2>2. ArraysOK'
    BY <1>1, <1>2, <1>10, ZenonT(30) DEF ArraysOK
  <2> QED BY <2>1, <2>2, ZenonT(30)
<1>12. Solo'
  <2>1. l = "write" => k < MaxPktBurst
    BY <1>5, <1>7, BurstSize DEF Slots
  <2> HIDE DEF k
  <2> QED BY <1>1, <1>2, <1>6, <1>7, <2>1, ZenonT(30) DEF LocalsOK, Solo, Busy
<1>13. List' = List \cup {x} /\ Distinct(sendArr', ListSlots')
  <2>1. sendArr \in [Slots -> Mbufs \cup {Null}] /\ Distinct(sendArr, ListSlots)
    BY <1>1, ZenonT(30) DEF ArraysOK, Owning, Singles
  <2>2. ListSlots \in SUBSET Slots /\ k \in Slots \ ListSlots /\ ListSlots' = ListSlots \cup {k}
    BY <1>5, <1>10, BurstSize DEF Slots
  <2> HIDE DEF k
  <2>3. x \notin Arr(sendArr, ListSlots)
    BY <1>1, <1>10, ZenonT(30) DEF Owning, Apart, List
  <2>4. /\ Arr([sendArr EXCEPT ![k] = x], ListSlots \cup {k}) = Arr(sendArr, ListSlots) \cup {x}
        /\ Distinct([sendArr EXCEPT ![k] = x], ListSlots \cup {k})
    BY <2>1, <2>2, <2>3, ArrStore, ZenonT(30)
  <2> QED BY <1>2, <2>2, <2>4, NextSets, ZenonT(30) DEF List
<1>14. UNCHANGED <<Armed, Given>>
  BY <1>3, NextSets, ZenonT(30) DEF Armed, Given
<1>15. Apart(pool, Armed, Bursts, List, Given)'
  BY <1>1, <1>3, <1>10, <1>13, <1>14, ZenonT(30) DEF Owning, Apart
<1>16. Singles' /\ RefcntsExact'
  BY <1>1, <1>3, <1>10, <1>13, NextSets, ZenonT(30) DEF Owning, Singles, RefcntsExact
<1>17. CInv'
  BY <1>1, <1>4, <1>11, <1>12, <1>15, <1>16, MovedCInv, ZenonT(30)
<1> QED BY <1>10, <1>13, <1>14, <1>17, ZenonT(30) DEF x


LEMMA ShiftedIn ==
  ASSUME NEW S, NEW P, NEW s \in Seq(S), s # <<>>, NEW n \in S, NEW d \in Nat, d > 0,
         d < Len(s) + 1, \A k \in 1..Len(s) : k <= d => s[k] \in P
  PROVE  /\ Head(s) \in P
         /\ \A k \in 1..Len(Append(Tail(s), n)) : k <= d - 1 => Append(Tail(s), n)[k] \in P
<1> DEFINE t == Append(Tail(s), n)
<1>1. Head(s) = s[1] /\ 1 \in 1..Len(s) /\ Len(s) \in Nat
  OBVIOUS
<1>2. Len(t) = Len(s) /\ \A k \in 1..Len(s) : k < Len(s) => t[k] = s[k + 1]
  OBVIOUS
<1> HIDE DEF t
<1>3. ASSUME NEW k \in 1..Len(t), k <= d - 1 PROVE t[k] \in P
  <2>1. k + 1 \in 1..Len(s) /\ k + 1 <= d /\ k < Len(s) /\ k \in 1..Len(s)
    BY <1>1, <1>2, <1>3
  <2> QED BY <1>2, <2>1, ZenonT(30)
<1> QED BY <1>1, <1>3 DEF t

LEMMA MemTyped ==
  ASSUME CInv
  PROVE  /\ frame \in [Mbufs -> FrameKinds \cup {NoFrame}] /\ pool \subseteq Mbufs
         /\ pc \in [Queues -> Locations] /\ rxDone \in [Queues -> Nat]
         /\ m \in [Queues -> Mbufs \cup {Null}]
  BY ZenonT(30) DEF CInv, DevInv, LocalsOK, DevTypeOK, MemTypeOK

-----------------------------------------------------------------------------
(* rte_eth_rx_burst.                                                       *)

LEMMA ReceiveLocals ==
  ASSUME CInv, ~overlap, NEW q \in Queues, Receive(q)
  PROVE  LET c == recvCnt[q] + 1
         IN  /\ LocalsOK' /\ overlap' \in BOOLEAN /\ c \in Slots
             /\ ~overlap' => /\ Solo' /\ Unseen = 1..recvCnt[q] /\ Unseen' = 1..c
                             /\ ListSlots = 1..sendLen /\ ListSlots' = 1..sendLen
<1> DEFINE c == recvCnt[q] + 1
<1>1. LocalsOK /\ Solo
  BY ZenonT(30) DEF CInv
<1>2. pc[q] = "poll" /\ recvCnt[q] < MaxPktBurst /\ recvCnt' = [recvCnt EXCEPT ![q] = c]
  BY ZenonT(30) DEF Receive
<1>3. pc' = pc /\ i' = i /\ m' = m /\ len' = len /\ ret' = ret /\ sendLen' = sendLen
  BY ZenonT(30) DEF Receive
<1>4. overlap' = \E r \in Queues \ {q} : Busy(r)
  BY ZenonT(30) DEF Receive
<1>5. recvCnt \in [Queues -> 0..MaxPktBurst] /\ \A r \in Queues : i[r] <= recvCnt[r]
  BY <1>1, ZenonT(30) DEF LocalsOK
<1>6. i[q] = 0
  BY <1>1, <1>2, ZenonT(30) DEF Solo
<1>7. /\ c \in Slots /\ recvCnt[q] \in Nat /\ recvCnt'[q] = c
      /\ recvCnt' \in [Queues -> 0..MaxPktBurst]
      /\ \A r \in Queues \ {q} : recvCnt'[r] = recvCnt[r]
      /\ \A r \in Queues : i[r] <= recvCnt'[r]
  BY <1>2, <1>5, <1>6, BurstSize DEF Slots
<1> HIDE DEF c
<1>8. LocalsOK'
  BY <1>1, <1>3, <1>7, ZenonT(30) DEF LocalsOK
<1> SUFFICES ASSUME ~overlap'
             PROVE  /\ Solo' /\ Unseen = 1..recvCnt[q] /\ Unseen' = 1..c
                    /\ ListSlots = 1..sendLen /\ ListSlots' = 1..sendLen
  BY <1>4, <1>7, <1>8, ZenonT(30) DEF c
<1>9. \A r \in Queues \ {q} : ~Busy(r) /\ ~Busy(r)'
  BY <1>3, <1>4, <1>7, ZenonT(30) DEF Busy
<1>10. OnlyLive(q)
  BY <1>1, <1>9, IdleOthers, ZenonT(30)
<1>11. Solo'
  <2>1. \A r, t \in Queues : Busy(r)' /\ Busy(t)' => r = t
    BY <1>9, ZenonT(30)
  <2>2. \A r \in Queues : pc[r] \in {"poll", "inspect"}
    BY <1>1, <1>2, <1>9, BusyAlone, ZenonT(30)
  <2> QED BY <1>1, <1>3, <2>1, <2>2, ZenonT(30) DEF Solo
<1>12. ~Sending(q) /\ ~Sending(q)'
  BY <1>2, <1>3, ZenonT(30) DEF Sending
<1>13. BurstSlots(q) = 1..recvCnt[q] /\ BurstSlots(q)' = 1..c
  BY <1>3, <1>6, <1>7, <1>12 DEF BurstSlots
<1>14. OnlyLive(q)'
  BY <1>3, <1>7, <1>10, ZenonT(30) DEF OnlyLive, Sending, BurstSlots
<1> QED BY <1>3, <1>10, <1>11, <1>12, <1>13, <1>14, Alone, NextAlone, ZenonT(30)

LEMMA ReceiveCInv ==
  ASSUME CInv, ~overlap, NEW q \in Queues, Receive(q)
  PROVE  /\ CInv'
         /\ ~overlap' => /\ Bursts' = Bursts \cup {Head(rxRing[q])}
                         /\ UNCHANGED <<List, Given>>
<1>1. PICK n \in pool : RxPacket(q, n)
  BY ZenonT(30) DEF Receive
<1> DEFINE h == Head(rxRing[q])
           c == recvCnt[q] + 1
           s == [rxRing EXCEPT ![q] = Tail(@)]
<1>2. /\ DevInv /\ LocalsOK /\ ArraysOK /\ Owning
      /\ rxRing \in Lists /\ pool \subseteq Mbufs
  BY RingLists, MemTyped, ZenonT(30) DEF CInv
<1>3. DevInv' /\ rxRing[q] # <<>> /\ h \in Mbufs /\ n \in Mbufs
  BY <1>1, <1>2, RxPacketInv, ZenonT(30)
<1>4. /\ rxMbufs' = [rxMbufs EXCEPT ![c] = h]
      /\ sendArr' = sendArr /\ sendLen' = sendLen
  BY ZenonT(30) DEF Receive
<1>5. LocalsOK' /\ overlap' \in BOOLEAN /\ c \in Slots
  BY ReceiveLocals, ZenonT(30)
<1> HIDE DEF c, h
<1>7. ArraysOK'
  BY <1>2, <1>3, <1>4, ZenonT(30) DEF ArraysOK
<1> SUFFICES ASSUME ~overlap' PROVE /\ Solo' /\ Owning'
                                /\ Bursts' = Bursts \cup {h} /\ UNCHANGED <<List, Given>>
  BY <1>3, <1>5, <1>7, ZenonT(30) DEF CInv, h
<1>12. /\ Solo' /\ Unseen = 1..recvCnt[q] /\ Unseen' = 1..c
       /\ ListSlots' = ListSlots
  BY ReceiveLocals, ZenonT(30) DEF c
<1>13. s \in Lists /\ h \in Armed /\ Elems(s) = Armed \ {h} /\ OneEach(s)
  BY <1>2, <1>3, ElemsTail, ZenonT(30) DEF Owning, Singles, Armed, h
<1>14. UNCHANGED txRing /\ pool' = pool \ {n} /\ refcnt' = [refcnt EXCEPT ![n] = 1]
  BY <1>1, ZenonT(30) DEF RxPacket, txVars
<1>15. rxRing' = [s EXCEPT ![q] = Append(@, n)]
  <2>1. rxRing' = [rxRing EXCEPT ![q] = Append(Tail(@), n)]
    BY <1>1, ZenonT(30) DEF RxPacket
  <2>2. [rxRing EXCEPT ![q] = Append(Tail(@), n)] = [s EXCEPT ![q] = Append(@, n)]
    BY <1>2, ZenonT(30) DEF Lists
  <2> QED BY <2>1, <2>2, ZenonT(30)
<1> HIDE DEF s
<1>16. Elems(rxRing') = (Armed \ {h}) \cup {n} /\ OneEach(rxRing')
  <2>1. n \notin Elems(s)
    BY <1>1, <1>2, <1>13, ZenonT(30) DEF Owning, Apart
  <2>2. /\ Elems([s EXCEPT ![q] = Append(@, n)]) = Elems(s) \cup {n}
        /\ OneEach([s EXCEPT ![q] = Append(@, n)])
    BY <1>3, <1>13, <2>1, ElemsAppend, ZenonT(30)
  <2> QED BY <1>13, <1>15, <2>2, ZenonT(30)
<1>17. Arr(rxMbufs', Unseen') = Bursts \cup {h} /\ Distinct(rxMbufs', Unseen')
  <2>1. rxMbufs \in [Slots -> Mbufs \cup {Null}] /\ Distinct(rxMbufs, Unseen)
    BY <1>2, ZenonT(30) DEF ArraysOK, Owning, Singles
  <2>2. Unseen \in SUBSET Slots /\ c \in Slots \ Unseen /\ Unseen' = Unseen \cup {c}
    BY <1>2, <1>5, <1>12, BurstSize DEF Slots, c, LocalsOK
  <2>3. h \notin Arr(rxMbufs, Unseen)
    BY <1>2, <1>13, ZenonT(30) DEF Owning, Apart, Bursts
  <2>4. /\ Arr([rxMbufs EXCEPT ![c] = h], Unseen \cup {c}) = Arr(rxMbufs, Unseen) \cup {h}
        /\ Distinct([rxMbufs EXCEPT ![c] = h], Unseen \cup {c})
    BY <2>1, <2>2, <2>3, ArrStore, ZenonT(30)
  <2> QED BY <1>4, <2>2, <2>4, ZenonT(30) DEF Bursts
<1>18. /\ Armed' = (Armed \ {h}) \cup {n} /\ Bursts' = Bursts \cup {h}
       /\ UNCHANGED <<List, Given>>
  BY <1>4, <1>12, <1>14, <1>16, <1>17, NextSets, ZenonT(30) DEF List, Given
<1>19. Apart(pool, Armed, Bursts, List, Given)'
  BY <1>1, <1>2, <1>3, <1>13, <1>14, <1>18 DEF Owning, Apart
<1>20. RefcntsExact'
  <2>1. refcnt \in [Mbufs -> 0..RefcntMod - 1]
    BY <1>2, ZenonT(30) DEF DevInv, DevTypeOK, MemTypeOK
  <2> QED BY <1>2, <1>3, <1>14, <2>1, ZenonT(30) DEF Owning, RefcntsExact
<1>21. Singles'
  BY <1>2, <1>4, <1>12, <1>14, <1>16, <1>17, NextSets, ZenonT(30) DEF Owning, Singles
<1> QED BY <1>12, <1>18, <1>19, <1>20, <1>21, ZenonT(30) DEF Owning

-----------------------------------------------------------------------------
(* What the pointers reach.                                                *)

\* What the pointers of each kind point to.
LEMMA PointerTargets ==
  ASSUME CInv, NEW p \in Pointers
  PROVE  \/ \E q \in Queues : \E k \in 1..Len(rxRing[q]) :
              p = <<"rx", q, k>> /\ Target(p) = rxRing[q][k] /\ Target(p) \in Armed
         \/ \E q \in Queues : \E k \in BurstSlots(q) :
              p = <<"burst", q, k>> /\ Target(p) = rxMbufs[k] /\ Target(p) \in Bursts
         \/ \E q \in Queues : \E k \in 1..Len(txRing[q]) :
              p = <<"tx", q, k>> /\ Target(p) = txRing[q][k] /\ Target(p) \in Given
         \/ \E k \in ListSlots :
              p = <<"list", Null, k>> /\ Target(p) = sendArr[k] /\ Target(p) \in List
<1>1. ASSUME NEW q \in Queues, NEW k \in 1..Len(rxRing[q]), p = <<"rx", q, k>>
      PROVE  Target(p) = rxRing[q][k] /\ Target(p) \in Armed
  BY <1>1, RingLists, ElemsAt, ZenonT(30) DEF Target, Armed
<1>2. ASSUME NEW q \in Queues, NEW k \in BurstSlots(q), p = <<"burst", q, k>>
      PROVE  Target(p) = rxMbufs[k] /\ Target(p) \in Bursts
  BY <1>2, ZenonT(30) DEF Target, Bursts, Arr, Unseen
<1>3. ASSUME NEW q \in Queues, NEW k \in 1..Len(txRing[q]), p = <<"tx", q, k>>
      PROVE  Target(p) = txRing[q][k] /\ Target(p) \in Given
  BY <1>3, RingLists, ElemsAt, ZenonT(30) DEF Target, Given
<1>4. ASSUME NEW k \in ListSlots, p = <<"list", Null, k>>
      PROVE  Target(p) = sendArr[k] /\ Target(p) \in List
  BY <1>4, ZenonT(30) DEF Target, List, Arr
<1>5. \/ \E q \in Queues : \E k \in 1..Len(rxRing[q]) : p = <<"rx", q, k>>
      \/ \E q \in Queues : \E k \in BurstSlots(q) : p = <<"burst", q, k>>
      \/ \E q \in Queues : \E k \in 1..Len(txRing[q]) : p = <<"tx", q, k>>
      \/ \E k \in ListSlots : p = <<"list", Null, k>>
  BY ZenonT(30) DEF Pointers
<1> QED BY <1>1, <1>2, <1>3, <1>4, <1>5, ZenonT(30)

LEMMA EveryTarget ==
  ASSUME CInv, NEW x
  PROVE  /\ x \in Armed \cup Bursts \cup List \cup Given => \E p \in Pointers : Target(p) = x
<1>1. ASSUME x \in Armed PROVE \E p \in Pointers : Target(p) = x
  <2>1. PICK q \in Queues : \E k \in 1..Len(rxRing[q]) : rxRing[q][k] = x
    BY <1>1, RingLists, ElemsAt, ZenonT(30) DEF Armed
  <2>2. PICK k \in 1..Len(rxRing[q]) : rxRing[q][k] = x
    BY <2>1, ZenonT(30)
  <2>3. <<"rx", q, k>> \in Pointers /\ Target(<<"rx", q, k>>) = x
    BY <2>2 DEF Pointers, Target
  <2> QED BY <2>3, ZenonT(30)
<1>2. ASSUME x \in Bursts PROVE \E p \in Pointers : Target(p) = x
  <2>1. PICK q \in Queues : \E k \in BurstSlots(q) : rxMbufs[k] = x
    BY <1>2, ZenonT(30) DEF Bursts, Arr, Unseen
  <2>2. PICK k \in BurstSlots(q) : rxMbufs[k] = x
    BY <2>1, ZenonT(30)
  <2>3. <<"burst", q, k>> \in Pointers /\ Target(<<"burst", q, k>>) = x
    BY <2>2 DEF Pointers, Target
  <2> QED BY <2>3, ZenonT(30)
<1>3. ASSUME x \in Given PROVE \E p \in Pointers : Target(p) = x
  <2>1. PICK q \in Queues : \E k \in 1..Len(txRing[q]) : txRing[q][k] = x
    BY <1>3, RingLists, ElemsAt, ZenonT(30) DEF Given
  <2>2. PICK k \in 1..Len(txRing[q]) : txRing[q][k] = x
    BY <2>1, ZenonT(30)
  <2>3. <<"tx", q, k>> \in Pointers /\ Target(<<"tx", q, k>>) = x
    BY <2>2 DEF Pointers, Target
  <2> QED BY <2>3, ZenonT(30)
<1>4. ASSUME x \in List PROVE \E p \in Pointers : Target(p) = x
  <2>1. PICK k \in ListSlots : sendArr[k] = x
    BY <1>4, ZenonT(30) DEF List, Arr
  <2>2. <<"list", Null, k>> \in Pointers /\ Target(<<"list", Null, k>>) = x
    BY <2>1, ZenonT(30) DEF Pointers, Target
  <2> QED BY <2>2, ZenonT(30)
<1> QED BY <1>1, <1>2, <1>3, <1>4, ZenonT(30)

LEMMA OwningLosesNothing == CInv => NothingLost
<1> SUFFICES ASSUME CInv, ~overlap
             PROVE  /\ RefcntsExact
                    /\ \A p, r \in Pointers : Target(p) = Target(r) => p = r
                    /\ {Target(p) : p \in Pointers} = Mbufs \ pool
  BY ZenonT(30) DEF NothingLost
<1>0. Owning /\ Solo /\ LocalsOK
  BY ZenonT(30) DEF CInv
<1>1. /\ RefcntsExact /\ Apart(pool, Armed, Bursts, List, Given)
      /\ OneEach(rxRing) /\ OneEach(txRing)
      /\ Distinct(rxMbufs, Unseen) /\ Distinct(sendArr, ListSlots)
  BY <1>0, ZenonT(30) DEF Owning, Singles
<1>2. ASSUME NEW p \in Pointers, NEW r \in Pointers, Target(p) = Target(r)
      PROVE  p = r
  <2>2. CASE \E q \in Queues : \E k \in 1..Len(rxRing[q]) :
               p = <<"rx", q, k>> /\ Target(p) = rxRing[q][k] /\ Target(p) \in Armed
    <3>1. \E q \in Queues : \E k \in 1..Len(rxRing[q]) :
            r = <<"rx", q, k>> /\ Target(r) = rxRing[q][k]
      BY <1>1, <1>2, <2>2, PointerTargets, ZenonT(30) DEF Apart
    <3> QED BY <1>1, <1>2, <2>2, <3>1 DEF OneEach
  <2>3. CASE \E q \in Queues : \E k \in BurstSlots(q) :
               p = <<"burst", q, k>> /\ Target(p) = rxMbufs[k] /\ Target(p) \in Bursts
    <3>1. PICK q \in Queues : \E k \in BurstSlots(q) : p = <<"burst", q, k>> /\ Target(p) = rxMbufs[k]
      BY <2>3, ZenonT(30)
    <3>2. PICK k \in BurstSlots(q) : p = <<"burst", q, k>> /\ Target(p) = rxMbufs[k]
      BY <3>1, ZenonT(30)
    <3>3. \E u \in Queues : \E l \in BurstSlots(u) :
            r = <<"burst", u, l>> /\ Target(r) = rxMbufs[l]
      BY <1>1, <1>2, <2>3, PointerTargets, ZenonT(30) DEF Apart
    <3>4. PICK u \in Queues : \E l \in BurstSlots(u) : r = <<"burst", u, l>> /\ Target(r) = rxMbufs[l]
      BY <3>3, ZenonT(30)
    <3>5. PICK l \in BurstSlots(u) : r = <<"burst", u, l>> /\ Target(r) = rxMbufs[l]
      BY <3>4, ZenonT(30)
    <3>6. k = l
      BY <1>1, <1>2, <3>2, <3>5 DEF Distinct, Unseen
    <3>7. Busy(q) /\ Busy(u)
      BY <1>0, BurstSize DEF BurstSlots, Busy, LocalsOK
    <3> QED BY <1>0, <3>2, <3>5, <3>6, <3>7, ZenonT(30) DEF Solo
  <2>4. CASE \E q \in Queues : \E k \in 1..Len(txRing[q]) :
               p = <<"tx", q, k>> /\ Target(p) = txRing[q][k] /\ Target(p) \in Given
    <3>1. \E q \in Queues : \E k \in 1..Len(txRing[q]) :
            r = <<"tx", q, k>> /\ Target(r) = txRing[q][k]
      BY <1>1, <1>2, <2>4, PointerTargets, ZenonT(30) DEF Apart
    <3> QED BY <1>1, <1>2, <2>4, <3>1 DEF OneEach
  <2>5. CASE \E k \in ListSlots :
               p = <<"list", Null, k>> /\ Target(p) = sendArr[k] /\ Target(p) \in List
    <3>1. \E k \in ListSlots : r = <<"list", Null, k>> /\ Target(r) = sendArr[k]
      BY <1>1, <1>2, <2>5, PointerTargets, ZenonT(30) DEF Apart
    <3> QED BY <1>1, <1>2, <2>5, <3>1, ZenonT(30) DEF Distinct
  <2> QED BY <2>2, <2>3, <2>4, <2>5, PointerTargets, ZenonT(30)
<1>3. {Target(p) : p \in Pointers} = Mbufs \ pool
  <2>1. \A p \in Pointers : Target(p) \in Armed \cup Bursts \cup List \cup Given
    BY PointerTargets, ZenonT(30)
  <2>2. \A x \in Armed \cup Bursts \cup List \cup Given : \E p \in Pointers : Target(p) = x
    BY EveryTarget, ZenonT(30)
  <2>3. Mbufs \ pool = Armed \cup Bursts \cup List \cup Given
    BY <1>1, ZenonT(30) DEF Apart
  <2> QED BY <2>1, <2>2, <2>3, ZenonT(30)
<1> QED BY <1>1, <1>2, <1>3, ZenonT(30)

-----------------------------------------------------------------------------
(* The frames.                                                             *)

\* A received packet has a frame, one that waits to leave has passed.
FInv ==
  /\ \A q \in Queues : \A k \in 1..Len(rxRing[q]) :
       k <= rxDone[q] => frame[rxRing[q][k]] \in FrameKinds
  /\ \A x \in Bursts : frame[x] \in FrameKinds
  /\ \A x \in List \cup Given : frame[x] \in FrameKinds \ Drop
  /\ \A q \in Queues : pc[q] \in {"read", "store"} => frame[m[q]] \notin Drop

VInv == CInv /\ (~overlap => FInv)

LEMMA InitVInv == Init => VInv
<1> SUFFICES ASSUME Init PROVE VInv
  BY ZenonT(30)
<1>1. CInv
  BY InitCInv, ZenonT(30)
<1>2. \A q \in Queues : ~Sending(q) /\ BurstSlots(q) = {} /\ txRing[q] = <<>>
  BY DEF Init, DevInit, Sending, BurstSlots
<1>3. Unseen = {} /\ ListSlots = {}
  <2>1. Unseen = {}
    BY <1>2, ZenonT(30) DEF Unseen
  <2>2. sendLen = 0
    BY ZenonT(30) DEF Init
  <2>3. ListSlots = {}
    BY <1>2, <2>2 DEF ListSlots
  <2> QED BY <2>1, <2>3, ZenonT(30)
<1>4. Bursts = {} /\ List = {} /\ Given = {}
  <2>1. Bursts = {} /\ List = {}
    BY <1>3, ZenonT(30) DEF Bursts, List, Arr
  <2>2. Given = {}
    BY <1>2 DEF Given, Elems, Range
  <2> QED BY <2>1, <2>2, ZenonT(30)
<1>5. \A q \in Queues : rxDone[q] = 0 /\ pc[q] = "poll"
  BY ZenonT(30) DEF Init, DevInit
<1> QED BY <1>1, <1>4, <1>5 DEF VInv, FInv

LEMMA FramesHold == VInv => VerdictHolds
  BY PointerTargets DEF VInv, FInv, VerdictHolds

LEMMA MainLoopSteps ==
  ASSUME NEW q \in Queues, MainLoop(q)
  PROVE  \/ Receive(q)
         \/ /\ \/ Quiet(q) \/ FreePacket(q) \/ Store(q) \/ Transmit(q) \/ FreeRest(q)
            /\ UNCHANGED overlap
  BY ZenonT(30) DEF MainLoop, Quiet

LEMMA StutterCInv ==
  ASSUME CInv, UNCHANGED vars
  PROVE  CInv' /\ UNCHANGED <<frame, rxRing, rxDone, pc, m>> /\ (~overlap => Unmoved)
<1>1. /\ UNCHANGED devVars /\ UNCHANGED overlap
      /\ UNCHANGED <<rxMbufs, sendArr, sendLen, pc, recvCnt, i, m, len, ret>>
  BY ZenonT(30) DEF vars, sharedVars, localVars
<1>2. UNCHANGED <<pool, refcnt, frame, rxRing, rxDone, txRing>>
  BY <1>1, ZenonT(30) DEF devVars, memVars, rxVars, txVars
<1>3. DevInv'
  BY <1>1, DevStutterInv, ZenonT(30) DEF CInv
<1>4. LocalsOK' /\ ArraysOK'
  BY <1>1, ZenonT(30) DEF CInv, LocalsOK, ArraysOK
<1>5. ASSUME ~overlap PROVE Solo' /\ Owning' /\ Unmoved
  <2>1. Solo'
    BY <1>1, <1>5, ZenonT(30) DEF CInv, Solo, Busy
  <2>2. UNCHANGED <<Unseen, ListSlots>>
    BY <1>1, ZenonT(30) DEF Unseen, ListSlots, BurstSlots, SeenSlots, Sending, Slots
  <2> QED BY <1>1, <1>2, <1>5, <2>1, <2>2, StillOwning, ZenonT(30) DEF CInv, Still
<1> QED BY <1>1, <1>2, <1>3, <1>4, <1>5, ZenonT(30) DEF CInv

\* Steps that leave every frame and every set as it is.
LEMMA QuietFInv ==
  ASSUME FInv, UNCHANGED <<frame, rxRing, rxDone, Bursts, List, Given>>,
         \A q \in Queues : pc'[q] \in {"read", "store"} =>
           \/ frame[m'[q]] \notin Drop
           \/ pc[q] \in {"read", "store"} /\ m'[q] = m[q]
  PROVE  FInv'
<1>1. \A q \in Queues : pc'[q] \in {"read", "store"} => frame'[m'[q]] \notin Drop
  BY ZenonT(30) DEF FInv
<1> QED BY <1>1, ZenonT(30) DEF FInv

LEMMA QuietStepFInv ==
  ASSUME CInv, ~overlap, FInv, NEW q \in Queues, Quiet(q), UNCHANGED overlap
  PROVE  FInv'
<1>1. UNCHANGED <<Bursts, List, Given>>
  BY QuietCInv, ZenonT(30) DEF Unmoved
<1>2. UNCHANGED <<frame, rxRing, rxDone>>
  <2>1. UNCHANGED devVars \/ RxReturn(q) \/ TxBegin(q)
    BY ZenonT(30) DEF Quiet, GotBurst, Inspect, Inspected, ReadLen, WriteLen, BeginSend,
           Transmitted, Sent
  <2> QED BY <2>1, LeavesRings, ZenonT(30)
<1>3. pc \in [Queues -> Locations] /\ m \in [Queues -> Mbufs \cup {Null}]
  BY ZenonT(30) DEF CInv, LocalsOK
<1>4. \A r \in Queues : pc'[r] \in {"read", "store"} =>
        \/ frame[m'[r]] \notin Drop
        \/ pc[r] \in {"read", "store"} /\ m'[r] = m[r]
  <2>1. CASE Inspect(q)
    BY <1>3, <2>1, ZenonT(30) DEF Inspect, Goto
  <2>2. CASE GotBurst(q) \/ Inspected(q)
    BY <1>3, <2>2, ZenonT(30) DEF GotBurst, Inspected, Goto
  <2>3. CASE ReadLen(q)
    BY <1>3, <2>3, ZenonT(30) DEF ReadLen, Goto
  <2>4. CASE WriteLen(q)
    BY <1>3, <2>4, ZenonT(30) DEF WriteLen, Goto
  <2>5. CASE BeginSend(q) \/ Sent(q)
    BY <1>3, <2>5, ZenonT(30) DEF BeginSend, Sent, Goto
  <2>6. CASE Transmitted(q)
    BY <1>3, <2>6, ZenonT(30) DEF Transmitted, Goto
  <2> QED BY <2>1, <2>2, <2>3, <2>4, <2>5, <2>6, ZenonT(30) DEF Quiet
<1> QED BY <1>1, <1>2, <1>4, QuietFInv, ZenonT(30)

\* Only the lcore that has the burst has a packet in hand.
LEMMA OthersIdle ==
  ASSUME CInv, ~overlap, NEW q \in Queues, pc[q] \notin {"poll", "inspect"},
         NEW r \in Queues \ {q}
  PROVE  pc[r] \in {"poll", "inspect"}
  BY BusyAlone, ZenonT(30) DEF CInv

LEMMA InHand ==
  ASSUME CInv, ~overlap, NEW q \in Queues, pc[q] \in {"read", "store"}
  PROVE  m[q] \in Bursts
<1>1. LocalsOK /\ Solo
  BY ZenonT(30) DEF CInv
<1>2. i[q] < recvCnt[q] /\ m[q] = rxMbufs[i[q] + 1]
  BY <1>1, ZenonT(30) DEF Solo
<1>3. ~Sending(q)
  BY ZenonT(30) DEF Sending
<1>4. i[q] + 1 \in BurstSlots(q)
  BY <1>1, <1>2, <1>3 DEF BurstSlots, LocalsOK
<1> QED BY <1>2, <1>4, ZenonT(30) DEF Bursts, Arr, Unseen

LEMMA ReceiveFInv ==
  ASSUME CInv, ~overlap, FInv, NEW q \in Queues, Receive(q), ~overlap',
         Bursts' = Bursts \cup {Head(rxRing[q])}, UNCHANGED <<List, Given>>
  PROVE  FInv'
<1>0. DevInv /\ rxRing \in Lists
  BY RingLists, ZenonT(30) DEF CInv
<1>1. PICK n \in pool : RxPacket(q, n)
  BY ZenonT(30) DEF Receive
<1> DEFINE s == rxRing[q]
           t == Append(Tail(s), n)
           P == {x \in Mbufs : frame[x] \in FrameKinds}
<1>2. Bursts' = Bursts \cup {Head(s)} /\ UNCHANGED <<List, Given>>
  BY ZenonT(30)
<1>3. /\ s \in Seq(Mbufs) /\ s # <<>> /\ Len(s) \in Nat /\ n \in Mbufs
      /\ rxDone[q] \in Nat /\ rxDone[q] > 0 /\ rxDone[q] < Len(s) + 1
  <2>1. s \in Seq(Mbufs) /\ s # <<>> /\ n \in Mbufs
    BY <1>0, <1>1, MemTyped, RxPacketInv, ZenonT(30) DEF Lists
  <2>2. rxDone[q] \in Nat /\ rxHold[q] \in Nat /\ Len(s) \in Nat
    BY <1>0, <2>1 DEF DevInv, DevTypeOK
  <2>3. rxDone[q] + rxHold[q] < Len(s)
    BY <1>0, ZenonT(30) DEF DevInv, RingsConsistent
  <2>4. rxDone[q] > 0
    BY <1>1, ZenonT(30) DEF RxPacket
  <2>5. rxDone[q] < Len(s) + 1
    BY ONLY <2>2, <2>3, SMTT(30)
  <2> QED BY <2>1, <2>2, <2>4, <2>5, ZenonT(30)
<1>4. /\ frame' = frame /\ UNCHANGED <<pc, m>>
      /\ \A r \in Queues : rxRing'[r] = IF r = q THEN t ELSE rxRing[r]
      /\ \A r \in Queues : rxDone'[r] = IF r = q THEN rxDone[q] - 1 ELSE rxDone[r]
  <2>1. frame' = frame /\ UNCHANGED <<pc, m>>
    BY <1>1, ZenonT(30) DEF Receive, RxPacket
  <2>2. /\ rxRing' = [rxRing EXCEPT ![q] = Append(Tail(@), n)]
        /\ rxDone' = [rxDone EXCEPT ![q] = @ - 1]
    BY <1>1, ZenonT(30) DEF RxPacket
  <2>3. \A r \in Queues : rxRing'[r] = IF r = q THEN t ELSE rxRing[r]
    BY <1>0, <2>2, ZenonT(30) DEF Lists
  <2>4. \A r \in Queues : rxDone'[r] = IF r = q THEN rxDone[q] - 1 ELSE rxDone[r]
    BY <2>2, MemTyped, ZenonT(30)
  <2> QED BY <2>1, <2>3, <2>4, ZenonT(30)
<1> HIDE DEF s, t
<1>5. \A k \in 1..Len(s) : k <= rxDone[q] => s[k] \in P
  BY <1>3 DEF FInv, s
<1>6. Head(s) \in P /\ \A k \in 1..Len(t) : k <= rxDone[q] - 1 => t[k] \in P
  BY <1>3, <1>5, ShiftedIn, ZenonT(30) DEF t
<1> HIDE DEF P
<1>7. \A x \in P : frame[x] \in FrameKinds
  BY ZenonT(30) DEF P
<1>9. \A r \in Queues : \A k \in 1..Len(rxRing'[r]) :
        k <= rxDone'[r] => frame'[rxRing'[r][k]] \in FrameKinds
  <2> SUFFICES ASSUME NEW r \in Queues PROVE <1>9!(r)
    BY ZenonT(30)
  <2>1. CASE r = q
    <3>1. rxRing'[r] = t /\ rxDone'[r] = rxDone[q] - 1
      BY <1>4, <2>1, ZenonT(30)
    <3> QED BY <1>4, <1>6, <1>7, <3>1, ZenonT(30)
  <2>2. CASE r # q
    BY <1>4, <2>2, ZenonT(30) DEF FInv
  <2> QED BY <2>1, <2>2, ZenonT(30)
<1>10. \A x \in Bursts' : frame'[x] \in FrameKinds
  BY <1>2, <1>4, <1>6, <1>7, ZenonT(30) DEF FInv, s
<1> QED BY <1>2, <1>4, <1>9, <1>10, ZenonT(30) DEF FInv

LEMMA NicFInv ==
  ASSUME CInv, ~overlap, FInv, NEW q \in Queues, Nic(q)
  PROVE  FInv'
<1>0. DevInv /\ rxRing \in Lists
  BY RingLists, ZenonT(30) DEF CInv
<1>1. UNCHANGED <<Bursts, List, Given>> /\ UNCHANGED <<pc, m>>
  BY NicCInv, ZenonT(30) DEF Nic, localVars, Unmoved
<1>2. CASE NicTransmit(q)
  BY <1>1, <1>2, QuietFInv, ZenonT(30) DEF NicTransmit, memVars, rxVars
<1>3. CASE NicReceive(q)
  <2> DEFINE d == rxDone[q] + 1
             y == rxRing[q][d]
  <2>1. d \in 1..Len(rxRing[q])
    BY <1>0, <1>3, NicReceiveInv, ZenonT(30)
  <2>2. y \in Armed /\ rxRing' = rxRing /\ \A r \in Queues : rxDone'[r] = IF r = q THEN d ELSE rxDone[r]
    BY <1>0, <1>3, <2>1, MemTyped, ElemsAt, ZenonT(30) DEF NicReceive, Armed
  <2>3. PICK k \in FrameKinds : frame' = [frame EXCEPT ![y] = k]
    BY <1>3, ZenonT(30) DEF NicReceive
  <2>4. Apart(pool, Armed, Bursts, List, Given)
    BY ZenonT(30) DEF CInv, Owning
  <2>5. \A r \in Queues : \A l \in 1..Len(rxRing[r]) : rxRing[r][l] \in Mbufs
    BY <1>0 DEF Lists
  <2>6. \A r \in Queues : \A l \in 1..Len(rxRing[r]) :
          l <= rxDone'[r] => frame'[rxRing[r][l]] \in FrameKinds
    <3> SUFFICES ASSUME NEW r \in Queues, NEW l \in 1..Len(rxRing[r]), l <= rxDone'[r]
                 PROVE  frame'[rxRing[r][l]] \in FrameKinds
      BY ZenonT(30)
    <3>1. CASE rxRing[r][l] = y
      BY <2>3, <2>5, <3>1, MemTyped, ZenonT(30)
    <3>2. CASE rxRing[r][l] # y
      <4>1. l <= rxDone[r]
        <5>1. CASE r = q
          <6>1. l # d
            BY <3>2, <5>1, ZenonT(30)
          <6>2. l <= d
            BY <2>2, <5>1, ZenonT(30)
          <6> QED BY <5>1, <6>1, <6>2, MemTyped
        <5>2. CASE r # q
          BY <2>2, <5>2, ZenonT(30)
        <5> QED BY <5>1, <5>2, ZenonT(30)
      <4> QED BY <2>3, <2>5, <3>2, <4>1, MemTyped, ZenonT(30) DEF FInv
    <3> QED BY <3>1, <3>2, ZenonT(30)
  <2> HIDE DEF y
  <2>7. \A x \in Bursts \cup List \cup Given : frame'[x] = frame[x]
    BY <2>2, <2>3, <2>4, MemTyped, ZenonT(30) DEF Apart
  <2>8. \A r \in Queues : pc[r] \in {"read", "store"} => frame'[m[r]] \notin Drop
    BY <2>7, InHand, ZenonT(30) DEF FInv
  <2>9. \A x \in Bursts' : frame'[x] \in FrameKinds
    BY <1>1, <2>7, ZenonT(30) DEF FInv
  <2>10. \A x \in List' \cup Given' : frame'[x] \in FrameKinds \ Drop
    <3>1. \A x \in List \cup Given : frame[x] \in FrameKinds \ Drop
      BY ZenonT(30) DEF FInv
    <3>2. List' = List /\ Given' = Given
      BY <1>1, ZenonT(30)
    <3> QED BY ONLY <2>7, <3>1, <3>2, ZenonT(30)
  <2> QED BY <1>1, <2>2, <2>6, <2>8, <2>9, <2>10, ZenonT(30) DEF FInv
<1> QED BY <1>2, <1>3, ZenonT(30) DEF Nic

\* Freeing a packet forgets its frame.
LEMMA FreeFInv ==
  ASSUME CInv, ~overlap, FInv, NEW x \in Bursts \cup List \cup Given,
         frame' = [frame EXCEPT ![x] = NoFrame],
         Bursts' \subseteq Bursts \ {x}, List' \cup Given' \subseteq (List \cup Given) \ {x},
         UNCHANGED <<rxRing, rxDone>>,
         \A q \in Queues : pc'[q] \notin {"read", "store"}
  PROVE  FInv'
<1>1. Apart(pool, Armed, Bursts, List, Given)
  BY ZenonT(30) DEF CInv, Owning
<1>2. \A y \in Mbufs \ {x} : frame'[y] = frame[y]
  BY MemTyped, ZenonT(30)
<1>3. \A q \in Queues : \A k \in 1..Len(rxRing[q]) : rxRing[q][k] \in Mbufs \ {x}
  BY <1>1, RingLists, ElemsAt, ZenonT(30) DEF Apart, Armed
<1>4. \A y \in Bursts \cup List \cup Given : y \in Mbufs
  BY <1>1, ZenonT(30) DEF Apart
<1>5. \A y \in Bursts' : frame'[y] \in FrameKinds
  BY <1>2, <1>4, ZenonT(30) DEF FInv
<1>6. \A y \in List' \cup Given' : frame'[y] \in FrameKinds \ Drop
  BY <1>2, <1>4, ZenonT(30) DEF FInv
<1>7. \A q \in Queues : \A k \in 1..Len(rxRing'[q]) :
        k <= rxDone'[q] => frame'[rxRing'[q][k]] \in FrameKinds
  BY <1>2, <1>3, ZenonT(30) DEF FInv
<1> QED BY <1>5, <1>6, <1>7, ZenonT(30) DEF FInv

LEMMA FreePacketFInv ==
  ASSUME CInv, ~overlap, FInv, NEW q \in Queues, FreePacket(q), UNCHANGED overlap
  PROVE  FInv'
<1>1. /\ m[q] \in Bursts /\ refcnt[m[q]] = 1
      /\ Bursts' = Bursts \ {m[q]} /\ UNCHANGED <<List, Given>>
  BY FreePacketCInv, ZenonT(30)
<1>2. frame' = [frame EXCEPT ![m[q]] = NoFrame]
  BY <1>1, ZenonT(30) DEF FreePacket, FreeMbuf
<1>3. m[q] \notin List \cup Given
  BY <1>1, ZenonT(30) DEF CInv, Owning, Apart
<1>4. pc[q] = "free" /\ pc' = [pc EXCEPT ![q] = "inspect"] /\ UNCHANGED <<rxRing, rxDone>>
  BY ZenonT(30) DEF FreePacket, Goto, rxVars
<1>5. \A r \in Queues : pc'[r] \notin {"read", "store"}
  BY <1>4, MemTyped, OthersIdle, ZenonT(30)
<1> QED BY <1>1, <1>2, <1>3, <1>4, <1>5, FreeFInv, ZenonT(30)

LEMMA StoreFInv ==
  ASSUME CInv, ~overlap, FInv, NEW q \in Queues, Store(q), UNCHANGED overlap
  PROVE  FInv'
<1>1. /\ m[q] \in Bursts
      /\ Bursts' = Bursts \ {m[q]} /\ List' = List \cup {m[q]} /\ UNCHANGED Given
  BY StoreCInv, ZenonT(30)
<1>2. pc[q] = "store" /\ UNCHANGED <<frame, rxRing, rxDone>>
  BY ZenonT(30) DEF Store, devVars, memVars, rxVars
<1>3. frame[m[q]] \in FrameKinds \ Drop
  BY <1>1, <1>2, ZenonT(30) DEF FInv
<1>4. \A r \in Queues : pc'[r] \notin {"read", "store"}
  <2>1. pc'[q] \in {"send", "write"} /\ \A r \in Queues \ {q} : pc'[r] = pc[r]
    BY MemTyped, ZenonT(30) DEF Store, Goto
  <2> QED BY <1>2, <2>1, OthersIdle, ZenonT(30)
<1> QED BY <1>1, <1>2, <1>3, <1>4, ZenonT(30) DEF FInv

-----------------------------------------------------------------------------
(* send_packet: what the ring did not take, rte_eth_tx_burst.              *)

\* Transmit and FreeRest take the first packet that is left of the list.
LEMMA TakeFirst ==
  ASSUME CInv, ~overlap, NEW q \in Queues, pc[q] \in {"xmit", "rest"},
         ret[q] < MaxPktBurst, ret' = [ret EXCEPT ![q] = @ + 1],
         UNCHANGED <<rxMbufs, sendArr, sendLen, pc, recvCnt, i, m, len>>
  PROVE  LET x == sendArr[ret[q] + 1]
         IN  /\ x \in Mbufs /\ x \in List
             /\ List' = List \ {x} /\ Distinct(sendArr', ListSlots')
             /\ Bursts' = Bursts /\ Distinct(rxMbufs', Unseen')
             /\ LocalsOK' /\ ArraysOK' /\ Solo'
<1> DEFINE k == ret[q] + 1
<1>1. LocalsOK /\ ArraysOK /\ Solo /\ Owning
  BY ZenonT(30) DEF CInv
<1>2. OnlyLive(q)
  BY <1>1, BusyAlone, ZenonT(30)
<1>3. /\ ret'[q] = k /\ k \in 1..MaxPktBurst
      /\ ret' \in [Queues -> 0..MaxPktBurst]
  BY <1>1, BurstSize DEF LocalsOK
<1>4. /\ Sending(q) /\ Sending(q)' /\ BurstSlots(q)' = BurstSlots(q)
  BY ZenonT(30) DEF Sending, BurstSlots
<1>5. SeenSlots(q) = k .. MaxPktBurst /\ SeenSlots(q)' = k + 1 .. MaxPktBurst
  BY <1>3, ZenonT(30) DEF SeenSlots
<1>6. k + 1 .. MaxPktBurst = (k .. MaxPktBurst) \ {k} /\ k \in k .. MaxPktBurst
  BY <1>3, BurstSize
<1> HIDE DEF k
<1>7. UNCHANGED Unseen /\ ListSlots' = ListSlots \ {k} /\ k \in ListSlots
  BY <1>2, <1>4, <1>5, <1>6, ActsAlone, ZenonT(30)
<1>8. /\ Arr(sendArr, ListSlots \ {k}) = Arr(sendArr, ListSlots) \ {sendArr[k]}
      /\ Distinct(sendArr, ListSlots \ {k})
  BY <1>1, <1>7, ArrDrop, ZenonT(30) DEF Owning, Singles
<1>9. sendArr[k] \in List
  BY <1>7, ZenonT(30) DEF List, Arr
<1>10. sendArr[k] \in Mbufs
  BY <1>1, <1>9, ZenonT(30) DEF Owning, Apart
<1>11. List' = List \ {sendArr[k]} /\ Distinct(sendArr', ListSlots')
  BY <1>7, <1>8, NextSets, ZenonT(30) DEF List
<1>12. Bursts' = Bursts /\ Distinct(rxMbufs', Unseen')
  BY <1>1, <1>7, NextSets, ZenonT(30) DEF Owning, Singles, Bursts
<1>13. LocalsOK'
  BY <1>1, <1>3, ZenonT(30) DEF LocalsOK
<1>14. ArraysOK'
  BY <1>1, ZenonT(30) DEF ArraysOK
<1>15. Solo'
  BY <1>1, ZenonT(30) DEF Solo, Busy
<1> QED BY <1>9, <1>10, <1>11, <1>12, <1>13, <1>14, <1>15, ZenonT(30) DEF k

LEMMA FreeRestCInv ==
  ASSUME CInv, ~overlap, NEW q \in Queues, FreeRest(q), UNCHANGED overlap
  PROVE  LET x == sendArr[ret[q] + 1]
         IN  /\ CInv' /\ x \in List /\ refcnt[x] = 1
             /\ List' = List \ {x} /\ UNCHANGED <<Bursts, Given>>
<1> DEFINE x == sendArr[ret[q] + 1]
<1>1. DevInv /\ overlap \in BOOLEAN /\ Owning
  BY ZenonT(30) DEF CInv
<1>2. /\ pc[q] = "rest" /\ ret[q] < MaxPktBurst /\ FreeMbuf(x)
      /\ ret' = [ret EXCEPT ![q] = @ + 1]
      /\ UNCHANGED <<rxMbufs, sendArr, sendLen, pc, recvCnt, i, m, len>>
      /\ UNCHANGED <<rxVars, txVars>>
  BY ZenonT(30) DEF FreeRest, sharedVars
<1>3. UNCHANGED <<rxRing, txRing>>
  BY <1>2, ZenonT(30) DEF rxVars, txVars
<1>4. /\ x \in Mbufs /\ x \in List
      /\ List' = List \ {x} /\ Distinct(sendArr', ListSlots')
      /\ Bursts' = Bursts /\ Distinct(rxMbufs', Unseen')
      /\ LocalsOK' /\ ArraysOK' /\ Solo'
  BY <1>2, TakeFirst, ZenonT(30)
<1> HIDE DEF x
<1>5. x \notin pool
  BY <1>1, <1>4, ZenonT(30) DEF Owning, Apart
<1>6. DevInv' /\ pool' = pool \cup {x} /\ RefcntsExact'
  BY <1>1, <1>2, <1>4, <1>5, FreedOwning, FreeMbufInv, ZenonT(30)
<1>7. UNCHANGED <<Armed, Given>>
  BY <1>3, NextSets, ZenonT(30) DEF Armed, Given
<1>8. Apart(pool, Armed, Bursts, List, Given)'
  BY <1>1, <1>4, <1>6, <1>7 DEF Owning, Apart
<1>9. Singles'
  BY <1>1, <1>3, <1>4, NextSets, ZenonT(30) DEF Owning, Singles
<1>10. refcnt[x] = 1
  BY <1>1, <1>4, <1>5, ZenonT(30) DEF Owning, RefcntsExact
<1>11. CInv'
  BY <1>1, <1>4, <1>6, <1>8, <1>9, MovedCInv, ZenonT(30)
<1> QED BY <1>4, <1>7, <1>10, <1>11, ZenonT(30) DEF x

LEMMA FreeRestFInv ==
  ASSUME CInv, ~overlap, FInv, NEW q \in Queues, FreeRest(q), UNCHANGED overlap
  PROVE  FInv'
<1> DEFINE x == sendArr[ret[q] + 1]
<1>1. x \in List /\ refcnt[x] = 1 /\ List' = List \ {x} /\ UNCHANGED <<Bursts, Given>>
  BY FreeRestCInv, ZenonT(30)
<1>2. frame' = [frame EXCEPT ![x] = NoFrame]
  BY <1>1, ZenonT(30) DEF FreeRest, FreeMbuf
<1>3. pc[q] = "rest" /\ pc' = pc /\ UNCHANGED <<rxRing, rxDone>>
  BY ZenonT(30) DEF FreeRest, rxVars
<1> HIDE DEF x
<1>4. x \notin Bursts \cup Given
  BY <1>1, ZenonT(30) DEF CInv, Owning, Apart
<1>5. \A r \in Queues : pc'[r] \notin {"read", "store"}
  BY <1>3, OthersIdle, ZenonT(30)
<1>6. Bursts' \subseteq Bursts \ {x} /\ List' \cup Given' \subseteq (List \cup Given) \ {x}
  BY ONLY <1>1, <1>4, ZenonT(30)
<1> QED BY <1>1, <1>2, <1>3, <1>5, <1>6, FreeFInv, ZenonT(30)

LEMMA TransmitCInv ==
  ASSUME CInv, ~overlap, NEW q \in Queues, Transmit(q), UNCHANGED overlap
  PROVE  LET x == sendArr[ret[q] + 1]
         IN  /\ CInv' /\ x \in List /\ List' = List \ {x} /\ UNCHANGED Bursts
             /\ \/ UNCHANGED frame /\ Given' = Given \cup {x}
                \/ \E y \in Given : /\ frame' = [frame EXCEPT ![y] = NoFrame]
                                    /\ Given' = (Given \ {y}) \cup {x}
<1> DEFINE x    == sendArr[ret[q] + 1]
           old  == Head(txRing[q])
           full == Len(txRing[q]) = NbTxDesc
<1>1. DevInv /\ overlap \in BOOLEAN /\ Owning /\ txRing \in Lists
  BY RingLists, ZenonT(30) DEF CInv
<1>2. /\ pc[q] = "xmit" /\ ret[q] < MaxPktBurst /\ TxPacket(q, x)
      /\ ret' = [ret EXCEPT ![q] = @ + 1]
      /\ UNCHANGED <<rxMbufs, sendArr, sendLen, pc, recvCnt, i, m, len>>
  BY ZenonT(30) DEF Transmit, sharedVars
<1>3. /\ x \in Mbufs /\ x \in List
      /\ List' = List \ {x} /\ Distinct(sendArr', ListSlots')
      /\ Bursts' = Bursts /\ Distinct(rxMbufs', Unseen')
      /\ LocalsOK' /\ ArraysOK' /\ Solo'
  BY <1>2, TakeFirst, ZenonT(30)
<1> HIDE DEF x
<1>4. DevInv' /\ (full => txRing[q] # <<>> /\ old \in Mbufs)
  BY <1>1, <1>2, <1>3, TxPacketInv, ZenonT(30)
<1>5. /\ UNCHANGED rxRing
      /\ txRing' = [txRing EXCEPT ![q] = Append(IF full THEN Tail(@) ELSE @, x)]
      /\ IF full THEN FreeMbuf(old) ELSE UNCHANGED <<pool, refcnt, frame>>
  BY <1>2, ZenonT(30) DEF TxPacket, rxVars, memVars
<1>6. /\ UNCHANGED Armed /\ OneEach(rxRing') /\ OneEach(txRing)
      /\ x \notin Given /\ x \notin pool
  BY <1>1, <1>3, <1>5, NextSets, ZenonT(30) DEF Owning, Singles, Armed, Apart
<1>7. CASE ~full
  <2>1. txRing' = [txRing EXCEPT ![q] = Append(@, x)] /\ UNCHANGED <<pool, refcnt, frame>>
    BY <1>5, <1>7, ZenonT(30)
  <2>2. Given' = Given \cup {x} /\ OneEach(txRing')
    BY <1>1, <1>3, <1>6, <2>1, ElemsAppend, NextSets, ZenonT(30) DEF Given
  <2>3. Apart(pool, Armed, Bursts, List, Given)'
    BY <1>1, <1>3, <1>6, <2>1, <2>2, ZenonT(30) DEF Owning, Apart
  <2>4. RefcntsExact'
    BY <1>1, <2>1, ZenonT(30) DEF Owning, RefcntsExact
  <2>5. Singles'
    BY <1>3, <1>6, <2>2, NextSets, ZenonT(30)
  <2>6. CInv'
    BY <1>1, <1>3, <1>4, <2>3, <2>4, <2>5, MovedCInv, ZenonT(30)
  <2> QED BY <1>3, <2>1, <2>2, <2>6, ZenonT(30) DEF x
<1>8. CASE full
  <2> DEFINE s == [txRing EXCEPT ![q] = Tail(@)]
  <2>1. /\ s \in Lists /\ old \in Given /\ old \in Mbufs
        /\ Elems(s) = Given \ {old} /\ OneEach(s)
    BY <1>1, <1>4, <1>6, <1>8, ElemsTail, ZenonT(30) DEF Given
  <2>2. txRing' = [s EXCEPT ![q] = Append(@, x)] /\ FreeMbuf(old)
    <3>1. txRing' = [txRing EXCEPT ![q] = Append(Tail(@), x)]
      BY <1>5, <1>8, ZenonT(30)
    <3>2. [txRing EXCEPT ![q] = Append(Tail(@), x)] = [s EXCEPT ![q] = Append(@, x)]
      BY <1>1, ZenonT(30) DEF Lists
    <3> QED BY <1>5, <1>8, <3>1, <3>2, ZenonT(30)
  <2> HIDE DEF s, old
  <2>3. Given' = (Given \ {old}) \cup {x} /\ OneEach(txRing')
    <3>1. x \notin Elems(s)
      BY <1>6, <2>1, ZenonT(30)
    <3>2. /\ Elems([s EXCEPT ![q] = Append(@, x)]) = Elems(s) \cup {x}
          /\ OneEach([s EXCEPT ![q] = Append(@, x)])
      BY <1>3, <2>1, <3>1, ElemsAppend, ZenonT(30)
    <3> QED BY <2>1, <2>2, <3>2, NextSets, ZenonT(30)
  <2>4. old \notin pool
    BY <1>1, <2>1, ZenonT(30) DEF Owning, Apart
  <2>5. pool' = pool \cup {old} /\ RefcntsExact'
    BY <1>1, <2>1, <2>2, <2>4, FreedOwning, ZenonT(30)
  <2>6. Apart(pool, Armed, Bursts, List, Given)'
    BY <1>1, <1>3, <1>6, <2>1, <2>3, <2>5 DEF Owning, Apart
  <2>7. frame' = [frame EXCEPT ![old] = NoFrame]
    BY <1>1, <2>1, <2>2, <2>4, ZenonT(30) DEF FreeMbuf, Owning, RefcntsExact
  <2>8. Singles'
    BY <1>3, <1>6, <2>3, NextSets, ZenonT(30)
  <2>9. CInv'
    BY <1>1, <1>3, <1>4, <2>5, <2>6, <2>8, MovedCInv, ZenonT(30)
  <2> QED BY <1>3, <2>1, <2>3, <2>7, <2>9, ZenonT(30) DEF x
<1> QED BY <1>7, <1>8, ZenonT(30)

LEMMA TransmitFInv ==
  ASSUME CInv, ~overlap, FInv, NEW q \in Queues, Transmit(q), UNCHANGED overlap
  PROVE  FInv'
<1> DEFINE x == sendArr[ret[q] + 1]
<1>1. /\ x \in List /\ List' = List \ {x} /\ UNCHANGED Bursts
      /\ \/ UNCHANGED frame /\ Given' = Given \cup {x}
         \/ \E y \in Given : /\ frame' = [frame EXCEPT ![y] = NoFrame]
                             /\ Given' = (Given \ {y}) \cup {x}
  BY TransmitCInv, ZenonT(30)
<1>2. pc[q] = "xmit" /\ pc' = pc /\ UNCHANGED <<rxRing, rxDone>>
  BY ZenonT(30) DEF Transmit, TxPacket, rxVars
<1> HIDE DEF x
<1>3. \A r \in Queues : pc'[r] \notin {"read", "store"}
  BY <1>2, OthersIdle, ZenonT(30)
<1>4. CASE UNCHANGED frame /\ Given' = Given \cup {x}
  BY <1>1, <1>2, <1>3, <1>4, ZenonT(30) DEF FInv
<1>5. ASSUME NEW y \in Given, frame' = [frame EXCEPT ![y] = NoFrame],
             Given' = (Given \ {y}) \cup {x}
      PROVE  FInv'
  <2>1. y \notin Bursts \cup List
    BY ZenonT(30) DEF CInv, Owning, Apart
  <2>2. Bursts' \subseteq Bursts \ {y} /\ List' \cup Given' \subseteq (List \cup Given) \ {y}
    BY <1>1, <1>5, <2>1, ZenonT(30)
  <2> QED BY <1>2, <1>3, <1>5, <2>2, FreeFInv, ZenonT(30)
<1> QED BY <1>1, <1>4, <1>5, ZenonT(30)

-----------------------------------------------------------------------------
(* All steps.                                                              *)

LEMMA NextCInv == CInv /\ [Next]_vars => CInv'
<1> SUFFICES ASSUME CInv, [Next]_vars PROVE CInv'
  BY ZenonT(30)
<1>1. CASE UNCHANGED vars
  BY <1>1, StutterCInv, ZenonT(30)
<1>2. ASSUME ~overlap, NEW q \in Queues, MainLoop(q) PROVE CInv'
  <2>1. CASE Receive(q)
    BY <1>2, <2>1, ReceiveCInv, ZenonT(30)
  <2>2. CASE UNCHANGED overlap /\ (Quiet(q) \/ FreePacket(q) \/ Store(q))
    BY <1>2, <2>2, QuietCInv, FreePacketCInv, StoreCInv, ZenonT(30)
  <2>3. CASE UNCHANGED overlap /\ (Transmit(q) \/ FreeRest(q))
    BY <1>2, <2>3, TransmitCInv, FreeRestCInv, ZenonT(30)
  <2> QED BY <1>2, <2>1, <2>2, <2>3, MainLoopSteps, ZenonT(30)
<1>3. ASSUME ~overlap, NEW q \in Queues, Nic(q) PROVE CInv'
  BY <1>3, NicCInv, ZenonT(30)
<1> QED BY <1>1, <1>2, <1>3, ZenonT(30) DEF Next, Overlapped

LEMMA NextVInv == VInv /\ [Next]_vars => VInv'
<1> SUFFICES ASSUME CInv, ~overlap => FInv, [Next]_vars PROVE VInv'
  BY ZenonT(30) DEF VInv
<1>1. CInv'
  BY NextCInv, ZenonT(30)
<1> SUFFICES ASSUME ~overlap' PROVE FInv'
  BY <1>1, ZenonT(30) DEF VInv
<1>2. CASE UNCHANGED vars
  <2>1. ~overlap
    BY <1>2, ZenonT(30) DEF vars
  <2>2. UNCHANGED <<frame, rxRing, rxDone, pc, m>> /\ UNCHANGED <<Bursts, List, Given>>
    BY <1>2, <2>1, StutterCInv, ZenonT(30) DEF Unmoved
  <2> QED BY <2>1, <2>2, QuietFInv, ZenonT(30)
<1>3. ASSUME ~overlap, NEW q \in Queues, MainLoop(q) PROVE FInv'
  <2>1. CASE Receive(q)
    BY <1>3, <2>1, ReceiveCInv, ReceiveFInv, ZenonT(30)
  <2>2. CASE UNCHANGED overlap /\ (Quiet(q) \/ FreePacket(q) \/ Store(q))
    BY <1>3, <2>2, QuietStepFInv, FreePacketFInv, StoreFInv, ZenonT(30)
  <2>3. CASE UNCHANGED overlap /\ (Transmit(q) \/ FreeRest(q))
    BY <1>3, <2>3, TransmitFInv, FreeRestFInv, ZenonT(30)
  <2> QED BY <1>3, <2>1, <2>2, <2>3, MainLoopSteps, ZenonT(30)
<1>4. ASSUME ~overlap, NEW q \in Queues, Nic(q) PROVE FInv'
  BY <1>4, NicFInv, ZenonT(30)
<1> QED BY <1>2, <1>3, <1>4, ZenonT(30) DEF Next, Overlapped

-----------------------------------------------------------------------------
(* The theorems.                                                           *)

(***************************************************************************)
(* For any number of lcores and any sizes: as long as no two of the        *)
(* unlocked bursts overlap, every mbuf out of the pool is reached by       *)
(* exactly one pointer of main_loop, send_packet or the rings and has the  *)
(* reference count 1.                                                      *)
(***************************************************************************)
THEOREM NothingIsLost == Spec => [](TypeOK /\ NothingLost)
<1>1. Init => CInv
  BY InitCInv, ZenonT(30)
<1>2. CInv /\ [Next]_vars => CInv'
  BY NextCInv, ZenonT(30)
<1>3. CInv => TypeOK /\ NothingLost
  BY OwningLosesNothing, CInvTypes, ZenonT(30)
<1> QED BY <1>1, <1>2, <1>3, PTL DEF Spec

(***************************************************************************)
(* For any number of lcores and any sizes: until two bursts overlap, what  *)
(* waits in send_list or in a transmit ring passed the blacklist and still *)
(* holds the frame that did, although all lcores share the two arrays.     *)
(***************************************************************************)
THEOREM OnlyPassedWait == Spec => []VerdictHolds
<1>1. Init => VInv
  BY InitVInv, ZenonT(30)
<1>2. VInv /\ [Next]_vars => VInv'
  BY NextVInv, ZenonT(30)
<1>3. VInv => VerdictHolds
  BY FramesHold, ZenonT(30)
<1> QED BY <1>1, <1>2, <1>3, PTL DEF Spec
====
