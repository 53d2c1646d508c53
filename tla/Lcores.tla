------------------------------- MODULE Lcores -------------------------------
(***************************************************************************)
(* The lcore threads of the EAL.  rte_eal_init starts one for every        *)
(* enabled lcore but the master; each waits on a pipe for a command, runs  *)
(* the function it was given and waits again.  Master and worker           *)
(* synchronise by one byte in each of two pipes and by the field state of  *)
(* lcore_config, which both write without a lock.                          *)
(*                                                                         *)
(* A pipe is the number of bytes in it.  A read or write that a signal     *)
(* interrupts is tried again and is not a step.                            *)
(***************************************************************************)
EXTENDS Integers

CONSTANT MaxLcore   \* lcores are numbered 0..MaxLcore

ASSUME LcoreAssumption == MaxLcore \in Nat

VARIABLES
  enabled,  \* the lcores of the core mask
  state,    \* state[l]: lcore_config[l].state
  fn,       \* fn[l]: lcore_config[l].f
  m2s,      \* m2s[l]: bytes in pipe_master2slave
  s2m,      \* s2m[l]: bytes in pipe_slave2master
  at        \* at[l]: where the thread of l is

lcoreVars == <<enabled, state, fn, m2s, s2m, at>>

LcoreIds == 0..MaxLcore

\* none: not created.  start: before its loop.  read: blocked on its pipe.  The
\* others are the statements after the read, and the function called.
Places    == {"none", "start", "read", "running", "ack", "call", "sync_func", "main_loop",
              "panic"}
Functions == {"NULL", "sync_func", "main_loop"}

LcoreTypeOK ==
  /\ enabled \subseteq LcoreIds
  /\ state \in [LcoreIds -> {"WAIT", "RUNNING", "FINISHED"}]
  /\ fn \in [LcoreIds -> Functions]
  /\ m2s \in [LcoreIds -> 0..1] /\ s2m \in [LcoreIds -> 0..1]
  /\ at \in [LcoreIds -> Places]

LcoreInit ==
  /\ enabled \in (SUBSET LcoreIds) \ {{}}
  /\ state = [l \in LcoreIds |-> "WAIT"]
  /\ fn = [l \in LcoreIds |-> "NULL"]
  /\ m2s = [l \in LcoreIds |-> 0] /\ s2m = [l \in LcoreIds |-> 0]
  /\ at = [l \in LcoreIds |-> "none"]

\* l is the first lcore of S in the order of RTE_LCORE_FOREACH.
First(l, S) == l \in S /\ \A k \in S : l <= k

\* Without --master-lcore the master is the first enabled lcore.
Workers == {l \in enabled : ~First(l, enabled)}

Goes(l, p) == at' = [at EXCEPT ![l] = p]

-----------------------------------------------------------------------------
(* The master.                                                             *)

CreateThread(l) ==
  /\ state' = [state EXCEPT ![l] = "WAIT"]
  /\ Goes(l, "start")
  /\ UNCHANGED <<enabled, fn, m2s, s2m>>

\* rte_eal_remote_launch up to the wait for the acknowledgement.
Send(l, f) ==
  /\ state[l] = "WAIT"
  /\ fn' = [fn EXCEPT ![l] = f]
  /\ m2s' = [m2s EXCEPT ![l] = @ + 1]
  /\ UNCHANGED <<enabled, state, s2m, at>>

GetAck(l) ==
  /\ s2m[l] > 0
  /\ s2m' = [s2m EXCEPT ![l] = @ - 1]
  /\ UNCHANGED <<enabled, state, fn, m2s, at>>

\* rte_eal_wait_lcore spins until the lcore has finished, or never ran.
WaitLcore(l) ==
  /\ state[l] \in {"WAIT", "FINISHED"}
  /\ state' = [state EXCEPT ![l] = "WAIT"]
  /\ UNCHANGED <<enabled, fn, m2s, s2m, at>>

-----------------------------------------------------------------------------
(* A worker: eal_thread_loop.                                              *)

\* The thread has found its lcore and set its affinity.
EnterLoop(l) ==
  /\ at[l] = "start"
  /\ Goes(l, "read")
  /\ UNCHANGED <<enabled, state, fn, m2s, s2m>>

ReadCommand(l) ==
  /\ at[l] = "read" /\ m2s[l] > 0
  /\ m2s' = [m2s EXCEPT ![l] = @ - 1]
  /\ Goes(l, "running")
  /\ UNCHANGED <<enabled, state, fn, s2m>>

\* Mutant: the state is not set.
SetRunningForgets(l) ==
  /\ at[l] = "running"
  /\ Goes(l, "ack")
  /\ UNCHANGED <<enabled, state, fn, m2s, s2m>>

SetRunning(l) ==
  /\ at[l] = "running"
  /\ state' = [state EXCEPT ![l] = "RUNNING"]
  /\ Goes(l, "ack")
  /\ UNCHANGED <<enabled, fn, m2s, s2m>>

SendAck(l) ==
  /\ at[l] = "ack"
  /\ s2m' = [s2m EXCEPT ![l] = @ + 1]
  /\ Goes(l, "call")
  /\ UNCHANGED <<enabled, state, fn, m2s>>

Call(l) ==
  /\ at[l] = "call"
  /\ Goes(l, IF fn[l] = "NULL" THEN "panic" ELSE fn[l])
  /\ UNCHANGED <<enabled, state, fn, m2s, s2m>>

\* Mutant: the state is left alone when the function returns.
FinishSilently(l) ==
  /\ at[l] = "sync_func"
  /\ Goes(l, "read")
  /\ UNCHANGED <<enabled, state, fn, m2s, s2m>>

\* sync_func returns at once; main_loop never does.
Finish(l) ==
  /\ at[l] = "sync_func"
  /\ state' = [state EXCEPT ![l] = "FINISHED"]
  /\ Goes(l, "read")
  /\ UNCHANGED <<enabled, fn, m2s, s2m>>

EalThreadLoop(l) ==
  \/ EnterLoop(l)
  \/ ReadCommand(l) \/ SetRunning(l) \/ SendAck(l) \/ Call(l) \/ Finish(l)

=============================================================================
