------------------------------ MODULE MediaPool ------------------------------
(***************************************************************************)
(* The process-wide pool of media workers (bookclerk-media/src/pool.rs):   *)
(* the semaphore that admits jobs, one confined child process per job (or  *)
(* a blocking thread when isolation is off), callers whose futures may be  *)
(* dropped at any await, and a configuration reload that swaps the pool    *)
(* under them.                                                             *)
(*                                                                         *)
(* A pool is what a configuration makes of it: its number of workers and   *)
(* its runner.  Reloads run one at a time under reload_lock, and a pool is *)
(* installed before the first job, so the default one of pool() is left    *)
(* out.  Tokio's semaphore gives a released permit to the oldest waiter.   *)
(***************************************************************************)
EXTENDS Integers, FiniteSets, Sequences, SequencesExt

CONSTANTS
    PoolJobs,      \* calls of MediaPool::run, each made once
    PoolConfigs,   \* normalized configurations: [workers, runner]
    PoolFirst,     \* the one installed at startup
    PoolMaxPools,  \* bound: pools ever built
    PoolMaxFaults, \* bound: calls that fail and workers that die
    PoolMaxDrops   \* bound: futures that are dropped

PoolRunners == {"worker", "inprocess", "refuse"}

ASSUME PoolAssumption ==
    /\ PoolConfigs \subseteq [workers : Nat \ {0}, runner : PoolRunners]
    /\ PoolFirst \in PoolConfigs
    /\ {PoolMaxPools, PoolMaxFaults, PoolMaxDrops} \subseteq Nat /\ PoolMaxPools > 0

VARIABLES
    poolConf,   \* configurations of the pools built so far; the last is installed
    poolFree,   \* permits of each pool that nobody holds
    poolQueue,  \* jobs waiting for a permit of each pool, oldest first
    poolTask,   \* the future of a job: where it is and the pool it holds
    poolProc,   \* the child process or blocking thread of a job
    poolFaults, poolDrops

poolVars == <<poolConf, poolFree, poolQueue, poolTask, poolProc, poolFaults, poolDrops>>
poolBounds == <<poolFaults, poolDrops>>

PoolIds == 1..PoolMaxPools
PoolTaskPc == {"idle", "handle", "wait", "admitted", "running", "ok", "error", "dropped"}
\* "replied": it has written a success and not exited yet; "failed" includes
\* an error reply, no reply, and a death after the reply.
PoolProcState == {"none", "running", "replied", "clean", "failed", "killed"}

PoolInit ==
    /\ poolConf = <<PoolFirst>>
    /\ poolFree = [p \in PoolIds |-> IF p = 1 THEN PoolFirst.workers ELSE 0]
    /\ poolQueue = [p \in PoolIds |-> <<>>]
    /\ poolTask = [j \in PoolJobs |-> [pc |-> "idle", pool |-> 0]]
    /\ poolProc = [j \in PoolJobs |-> "none"]
    /\ poolFaults = 0 /\ poolDrops = 0

PoolAt(j, pc) == poolTask[j].pc = pc
PoolGo(j, pc) == poolTask' = [poolTask EXCEPT ![j].pc = pc]
PoolMayFail == poolFaults < PoolMaxFaults /\ poolFaults' = poolFaults + 1
PoolNow == Len(poolConf)
PoolRunner(j) == poolConf[poolTask[j].pool].runner

\* A job holds a permit of its pool from its admission until run returns.
PoolHolders(p) == {j \in PoolJobs : poolTask[j].pool = p /\ poolTask[j].pc \in {"admitted", "running"}}
-----------------------------------------------------------------------------
(* MediaPool::run *)

\* The permit is dropped: the oldest waiter has it, or it becomes free.
PoolRelease(j, pc) ==
    LET p == poolTask[j].pool IN
    IF poolQueue[p] = <<>>
    THEN /\ poolFree' = [poolFree EXCEPT ![p] = @ + 1]
         /\ PoolGo(j, pc)
         /\ UNCHANGED poolQueue
    ELSE /\ poolQueue' = [poolQueue EXCEPT ![p] = Tail(@)]
         /\ poolTask' = [poolTask EXCEPT ![j].pc = pc, ![Head(poolQueue[p])].pc = "admitted"]
         /\ UNCHANGED poolFree

\* The caller takes a handle to the installed pool with pool().
PoolHandle(j) ==
    /\ PoolAt(j, "idle")
    /\ poolTask' = [poolTask EXCEPT ![j] = [pc |-> "handle", pool |-> PoolNow]]
    /\ UNCHANGED <<poolConf, poolFree, poolQueue, poolProc, poolBounds>>

\* A refusing pool answers at once, and so does a failed mkdir; then a permit
\* is taken or waited for.
PoolAcquire(j) ==
    LET p == poolTask[j].pool IN
    /\ PoolAt(j, "handle")
    /\ \/ /\ PoolRunner(j) = "refuse"
          /\ PoolGo(j, "error")
          /\ UNCHANGED <<poolFree, poolQueue, poolFaults>>
       \/ /\ PoolRunner(j) # "refuse" /\ PoolMayFail
          /\ PoolGo(j, "error")
          /\ UNCHANGED <<poolFree, poolQueue>>
       \/ /\ PoolRunner(j) # "refuse" /\ poolFree[p] > 0
          /\ poolFree' = [poolFree EXCEPT ![p] = @ - 1]
          /\ PoolGo(j, "admitted")
          /\ UNCHANGED <<poolQueue, poolFaults>>
       \/ /\ PoolRunner(j) # "refuse" /\ poolFree[p] = 0
          /\ poolQueue' = [poolQueue EXCEPT ![p] = Append(@, j)]
          /\ PoolGo(j, "wait")
          /\ UNCHANGED <<poolFree, poolFaults>>
    /\ UNCHANGED <<poolConf, poolProc, poolDrops>>

\* run_in_worker up to the closed stdin, or spawn_blocking.  A spawn that
\* fails leaves no child; a write that fails kills the one it has.
PoolSpawn(j) ==
    /\ PoolAt(j, "admitted")
    /\ \/ /\ poolProc' = [poolProc EXCEPT ![j] = "running"]
          /\ PoolGo(j, "running")
          /\ UNCHANGED <<poolFree, poolQueue, poolFaults>>
       \/ /\ PoolRunner(j) = "worker" /\ PoolMayFail
          /\ \E gone \in {"none", "killed"} : poolProc' = [poolProc EXCEPT ![j] = gone]
          /\ PoolRelease(j, "error")
    /\ UNCHANGED <<poolConf, poolDrops>>

\* The worker or the thread: its reply, and the end of the process.  One that
\* was sent a signal just ends.
PoolWork(j) ==
    /\ \/ /\ poolProc[j] = "running"
          /\ poolProc' = [poolProc EXCEPT ![j] = "replied"]
          /\ UNCHANGED poolFaults
       \/ /\ poolProc[j] = "replied"
          /\ poolProc' = [poolProc EXCEPT ![j] = "clean"]
          /\ UNCHANGED poolFaults
       \/ /\ poolProc[j] \in {"running", "replied"} /\ PoolMayFail
          /\ poolProc' = [poolProc EXCEPT ![j] = "failed"]
       \/ /\ poolProc[j] = "killed"
          /\ poolProc' = [poolProc EXCEPT ![j] = "none"]
          /\ UNCHANGED poolFaults
    /\ UNCHANGED <<poolConf, poolFree, poolQueue, poolTask, poolDrops>>

\* read_to_end and wait return, interpret_reply decides: a success counts only
\* with a clean exit.
PoolReturn(j) ==
    /\ PoolAt(j, "running") /\ poolProc[j] \in {"clean", "failed"}
    /\ PoolRelease(j, IF poolProc[j] = "clean" THEN "ok" ELSE "error")
    /\ UNCHANGED <<poolConf, poolProc, poolBounds>>

\* Faulty: without kill_on_drop the child outlives the future.
PoolDropNoKill(j) ==
    /\ PoolAt(j, "running") /\ poolDrops < PoolMaxDrops
    /\ PoolRelease(j, "dropped")
    /\ poolDrops' = poolDrops + 1
    /\ UNCHANGED <<poolConf, poolProc, poolFaults>>

\* A cancelled conversion or a quota watchdog drops a future that has its
\* permit: a child is killed, a blocking thread is not.
PoolDropRunning(j) ==
    /\ poolTask[j].pc \in {"admitted", "running"} /\ poolDrops < PoolMaxDrops
    /\ poolProc' = IF PoolRunner(j) = "worker" /\ poolProc[j] \in {"running", "replied"}
                   THEN [poolProc EXCEPT ![j] = "killed"] ELSE poolProc
    /\ PoolRelease(j, "dropped")
    /\ poolDrops' = poolDrops + 1
    /\ UNCHANGED <<poolConf, poolFaults>>

\* Dropped while it waits: it leaves the semaphore's queue.
PoolDropWaiting(j) ==
    /\ PoolAt(j, "wait") /\ poolDrops < PoolMaxDrops
    /\ LET p == poolTask[j].pool IN
       \E i \in DOMAIN poolQueue[p] :
          poolQueue[p][i] = j /\ poolQueue' = [poolQueue EXCEPT ![p] = RemoveAt(@, i)]
    /\ PoolGo(j, "dropped")
    /\ poolDrops' = poolDrops + 1
    /\ UNCHANGED <<poolConf, poolFree, poolProc, poolFaults>>
-----------------------------------------------------------------------------
(* init_pool_from_config, as a reload calls it *)

\* Only a changed configuration builds a pool; the old one is left to its
\* holders.
PoolReload(c) ==
    /\ c # poolConf[PoolNow] /\ PoolNow < PoolMaxPools
    /\ poolConf' = Append(poolConf, c)
    /\ poolFree' = [poolFree EXCEPT ![PoolNow + 1] = c.workers]
    /\ UNCHANGED <<poolQueue, poolTask, poolProc, poolBounds>>
-----------------------------------------------------------------------------
PoolStep(j) == PoolAcquire(j) \/ PoolSpawn(j) \/ PoolReturn(j)
PoolDrop(j) == PoolDropRunning(j) \/ PoolDropWaiting(j)

PoolNext == \/ \E j \in PoolJobs : PoolHandle(j) \/ PoolStep(j) \/ PoolDrop(j) \/ PoolWork(j)
            \/ \E c \in PoolConfigs : PoolReload(c)

PoolSpec == PoolInit /\ [][PoolNext]_poolVars
-----------------------------------------------------------------------------
(* Properties *)

PoolTypeOK ==
    /\ poolConf \in Seq(PoolConfigs) /\ Len(poolConf) \in PoolIds
    /\ poolFree \in [PoolIds -> Nat]
    /\ poolQueue \in [PoolIds -> Seq(PoolJobs)]
    /\ poolTask \in [PoolJobs -> [pc : PoolTaskPc, pool : PoolIds \cup {0}]]
    /\ poolProc \in [PoolJobs -> PoolProcState]
    /\ poolFaults \in 0..PoolMaxFaults /\ poolDrops \in 0..PoolMaxDrops

\* Children or threads of a pool that still run a codec.
PoolCodecs(p) == {j \in PoolJobs : poolTask[j].pool = p /\ poolProc[j] \in {"running", "replied"}}

\* A confined pool never runs more codecs than it has workers, whatever was
\* dropped, failed or swapped, and a job waits only while every permit is held
\* by a job that is still in run: no error path and no dropped future loses a
\* permit or a wakeup.
PoolPermits ==
    \A p \in DOMAIN poolConf : poolConf[p].runner # "refuse" =>
        /\ poolConf[p].runner = "worker" => Cardinality(PoolCodecs(p)) <= poolConf[p].workers
        /\ poolFree[p] + Cardinality(PoolHolders(p)) = poolConf[p].workers
        /\ poolQueue[p] # <<>> => poolFree[p] = 0

(* The inductive invariant *)

\* A handle is to a pool that was built; a call without one waits nowhere.
PoolBuilt ==
    \A j \in PoolJobs : /\ poolTask[j].pool \in 0..PoolNow
                        /\ poolTask[j].pc # "idle" => poolTask[j].pool # 0

\* The queues hold each call that waits, once, and no other.
PoolWaiting ==
    /\ \A p \in PoolIds : \A i \in DOMAIN poolQueue[p] :
          poolTask[poolQueue[p][i]] = [pc |-> "wait", pool |-> p]
    /\ \A p \in PoolIds : \A i, k \in DOMAIN poolQueue[p] :
          poolQueue[p][i] = poolQueue[p][k] => i = k
    /\ \A j \in PoolJobs : PoolAt(j, "wait") =>
          \E i \in DOMAIN poolQueue[poolTask[j].pool] : poolQueue[poolTask[j].pool][i] = j

\* A child runs only while its call is in run; a thread may outlive it.
PoolConfined ==
    \A j \in PoolJobs : poolProc[j] \in {"running", "replied"} =>
        PoolAt(j, "running") \/ (PoolAt(j, "dropped") /\ PoolRunner(j) # "worker")

PoolBalanced ==
    \A p \in DOMAIN poolConf :
        /\ IsFiniteSet(PoolHolders(p))
        /\ poolConf[p].runner # "refuse" =>
              /\ poolFree[p] + Cardinality(PoolHolders(p)) = poolConf[p].workers
              /\ poolQueue[p] # <<>> => poolFree[p] = 0

\* These are inductive and imply PoolPermits.
PoolInv == PoolTypeOK /\ PoolBuilt /\ PoolWaiting /\ PoolConfined /\ PoolBalanced
=============================================================================
