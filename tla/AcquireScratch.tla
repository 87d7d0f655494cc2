--------------------------- MODULE AcquireScratch ---------------------------
(***************************************************************************)
(* Acquiring a title from a durable job: the book's status, the scratch    *)
(* directory and its reservation against the quota                         *)
(* (bookclerk-acquire/src/pipeline.rs, store/job_queue.rs), and what a     *)
(* daemon repairs when it starts (bookclerkd/src/job_worker.rs).           *)
(*                                                                         *)
(* Several daemons share the database; each has a cache of its own, so a   *)
(* reservation row belongs to a job and a daemon.  Within a daemon         *)
(* work_lock lets one acquire handler through at a time.  A job acquires   *)
(* one book, once per attempt (the immediate second try of a bad book is   *)
(* left out), and needs to fetch it: copying between destinations uses no  *)
(* scratch.  The queue is reduced to what the scratch rows depend on: the  *)
(* state, the attempts and whether the lease has expired.  Bytes are small *)
(* numbers.                                                                *)
(***************************************************************************)
EXTENDS Integers, FiniteSets, FiniteSetsExt, Functions

CONSTANTS
    ScrNodes,       \* daemons
    ScrBookOf,      \* the book each acquire job is for
    ScrNobody,      \* a work_lock that is free
    ScrQuota,       \* jobs.temp_quota_bytes
    ScrInitial,     \* INITIAL_TEMP_RESERVE_BYTES
    ScrMaxAttempts, \* attempts of a job
    ScrPlan,        \* TRUE: reservations are made by the atomic plan
    ScrMaxFaults,   \* bound: database and file operations that fail
    ScrMaxCrashes,  \* bound: daemons that die
    ScrMaxLapses    \* bound: leases that expire under a live handler

ScrJobs == DOMAIN ScrBookOf
ScrBooks == {ScrBookOf[j] : j \in ScrJobs}
ScrRuns == ScrJobs \X (1..ScrMaxAttempts)  \* the handler of each attempt of each job
ScrNone == -1                              \* no row, no directory
ScrSizes == 0..ScrQuota + 1

ASSUME ScrAssumption ==
    /\ IsFiniteSet(ScrJobs) /\ IsFiniteSet(ScrNodes)
    /\ ScrNobody \notin ScrRuns /\ ScrPlan \in BOOLEAN
    /\ {ScrQuota, ScrInitial, ScrMaxAttempts} \subseteq Nat \ {0}
    /\ {ScrMaxFaults, ScrMaxCrashes, ScrMaxLapses} \subseteq Nat

VARIABLES
    scrJob,   \* job rows: state, attempts, and whether the lease is live
    scrRow,   \* job_temp_paths: reserved bytes of each job on each daemon
    scrDir,   \* size of cache/acquire/<book> on each daemon
    scrBook,  \* acquire_status of each book
    scrRun,   \* handlers: where they are, on which daemon, the budget they read
    scrLock,  \* holder of each daemon's work_lock
    scrNode,  \* each daemon: down, a step of its startup, or up
    scrKeep,  \* active_keep of each daemon's sweep
    scrLost,  \* history: directories whose last reservation went with a pruned job
    scrFaults, scrCrashes, scrLapses

scrVars == <<scrJob, scrRow, scrDir, scrBook, scrRun, scrLock, scrNode, scrKeep, scrLost,
             scrFaults, scrCrashes, scrLapses>>
scrStart == <<scrNode, scrKeep>>
scrOther == <<scrLost, scrCrashes, scrLapses>>

ScrPc == {"none", "lock", "queued", "download", "budget", "reserve", "mkdir", "fetch", "enforce", "store",
          "enforceagain", "acquired", "error", "rmdir", "unregister", "report"}
ScrStartup == {"reclaim", "orphans", "prune", "list", "sweep"}
ScrIdle == [pc |-> "none", node |-> ScrNobody, left |-> 0, ok |-> FALSE]

ScrInit ==
    /\ scrJob = [j \in ScrJobs |-> [state |-> "pending", attempts |-> 0, live |-> FALSE]]
    /\ scrRow = [j \in ScrJobs |-> [n \in ScrNodes |-> ScrNone]]
    /\ scrDir = [n \in ScrNodes |-> [b \in ScrBooks |-> ScrNone]]
    /\ scrBook = [b \in ScrBooks |-> "none"]
    /\ scrRun = [r \in ScrRuns |-> ScrIdle]
    /\ scrLock = [n \in ScrNodes |-> ScrNobody]
    /\ scrNode = [n \in ScrNodes |-> "up"]
    /\ scrKeep = [n \in ScrNodes |-> {}]
    /\ scrLost = {}
    /\ scrFaults = 0 /\ scrCrashes = 0 /\ scrLapses = 0

ScrAt(r, pc) == scrRun[r].pc = pc
\* A budget is a local variable of the stage that read it.
ScrGo(r, pc) == scrRun' = [scrRun EXCEPT ![r] = [@ EXCEPT !.pc = pc, !.left = 0]]
ScrMayFail == scrFaults < ScrMaxFaults /\ scrFaults' = scrFaults + 1
ScrNoFault == UNCHANGED scrFaults
ScrBook(r) == ScrBookOf[r[1]]
ScrNode(r) == scrRun[r].node
ScrDirOf(r) == scrDir[ScrNode(r)][ScrBook(r)]
ScrFenced(r) == scrJob[r[1]].state = "running" /\ scrJob[r[1]].attempts = r[2]
ScrBytes(row) == IF row = ScrNone THEN 0 ELSE row

\* reserved_temp_bytes: the sum over every row.
ScrReservedBytes == SumFunction([x \in ScrJobs \X ScrNodes |-> ScrBytes(scrRow[x[1]][x[2]])])
\* remaining_temp_budget: the quota less what the other rows reserve.
ScrRemaining(r) ==
    LET others == ScrReservedBytes - ScrBytes(scrRow[r[1]][ScrNode(r)]) IN
    IF others > ScrQuota THEN 0 ELSE ScrQuota - others
\* What a stage does first: no budget, no stage.
ScrBegin(r, pc) ==
    scrRun' = [scrRun EXCEPT ![r] = [@ EXCEPT !.pc = IF ScrRemaining(r) = 0 THEN "error" ELSE pc,
                                              !.left = ScrRemaining(r)]]
-----------------------------------------------------------------------------
(* The queue, as far as it matters here *)

ScrClaim(n, j) ==
    /\ scrNode[n] = "up" /\ scrJob[j].state = "pending"
    /\ LET k == scrJob[j].attempts + 1 IN
       /\ scrJob' = [scrJob EXCEPT ![j] = [state |-> "running", attempts |-> k, live |-> TRUE]]
       /\ scrRun' = [scrRun EXCEPT ![<<j, k>>] = [ScrIdle EXCEPT !.pc = "lock", !.node = n]]
    /\ UNCHANGED <<scrRow, scrDir, scrBook, scrLock, scrStart, scrOther, scrFaults>>

\* Faulty: one attempt too many.
ScrRetriedPast(j) == [scrJob[j] EXCEPT !.state = IF @ = "running" /\ scrJob[j].attempts <= ScrMaxAttempts
                                                 THEN "pending" ELSE "done",
                                       !.live = FALSE]

\* An ended attempt: pending again while attempts are left.
ScrRetried(j) == [scrJob[j] EXCEPT !.state = IF @ = "running" /\ scrJob[j].attempts < ScrMaxAttempts
                                             THEN "pending" ELSE "done",
                                   !.live = FALSE]
ScrExpired(j) == scrJob[j].state = "running" /\ ~scrJob[j].live
ScrReclaimAll == [j \in ScrJobs |-> IF ScrExpired(j) THEN ScrRetried(j) ELSE scrJob[j]]

\* Without its worker a lease runs out; with it only when heartbeats fail.
ScrLeaseExpires(j) ==
    LET r == <<j, scrJob[j].attempts>> IN
    /\ scrJob[j].state = "running" /\ scrJob[j].live
    /\ \/ scrRun[r].pc = "none" /\ UNCHANGED scrLapses
       \/ scrRun[r].pc # "none" /\ scrLapses < ScrMaxLapses /\ scrLapses' = scrLapses + 1
    /\ scrJob' = [scrJob EXCEPT ![j].live = FALSE]
    /\ UNCHANGED <<scrRow, scrDir, scrBook, scrRun, scrLock, scrStart, scrLost, scrFaults, scrCrashes>>

\* Each worker tick reclaims expired leases ...
ScrReclaim(n) ==
    /\ scrNode[n] = "up" /\ \E j \in ScrJobs : ScrExpired(j)
    /\ scrJob' = ScrReclaimAll
    /\ UNCHANGED <<scrRow, scrDir, scrBook, scrRun, scrLock, scrStart, scrOther, scrFaults>>

\* ... and prunes jobs that finished long ago; their temp rows go by cascade.
\* No handler runs for the days a finished job is kept.
ScrOld == {j \in ScrJobs : scrJob[j].state = "done" /\ \A r \in ScrRuns : r[1] = j => ScrAt(r, "none")}

ScrPrunes(js) ==
    /\ scrJob' = [j \in ScrJobs |-> IF j \in js THEN [state |-> "gone", attempts |-> 0, live |-> FALSE] ELSE scrJob[j]]
    /\ scrRow' = [j \in ScrJobs |-> IF j \in js THEN [n \in ScrNodes |-> ScrNone] ELSE scrRow[j]]
    /\ scrLost' = scrLost \cup {d \in ScrNodes \X ScrBooks : \E j \in js :
                                   /\ ScrBookOf[j] = d[2] /\ scrRow[j][d[1]] # ScrNone
                                   /\ scrDir[d[1]][d[2]] # ScrNone}
ScrPrune(n) ==
    /\ scrNode[n] = "up"
    /\ \E js \in SUBSET ScrOld : js # {} /\ ScrPrunes(js)
    /\ UNCHANGED <<scrDir, scrBook, scrRun, scrLock, scrStart, scrFaults, scrCrashes, scrLapses>>
-----------------------------------------------------------------------------
(* run_acquire and acquire_book_indexed *)

\* Faulty: a handler that does not wait for the other's work_lock.
ScrEnterUnlocked(r) ==
    /\ ScrAt(r, "lock")
    /\ scrLock' = [scrLock EXCEPT ![ScrNode(r)] = r]
    /\ ScrGo(r, "queued")
    /\ UNCHANGED <<scrJob, scrRow, scrDir, scrBook, scrStart, scrOther, scrFaults>>

\* work_lock, the storage scan and its match, the fenced progress write, and a
\* title still to acquire.
ScrEnter(r) ==
    /\ ScrAt(r, "lock") /\ scrLock[ScrNode(r)] = ScrNobody
    /\ scrLock' = [scrLock EXCEPT ![ScrNode(r)] = r]
    /\ \/ ScrFenced(r) /\ scrBook[ScrBook(r)] # "acquired" /\ ScrNoFault /\ ScrGo(r, "queued")
       \/ /\ ~ScrFenced(r) \/ scrBook[ScrBook(r)] = "acquired"
          /\ ScrNoFault
          /\ scrRun' = [scrRun EXCEPT ![r] = [@ EXCEPT !.pc = "report", !.ok = ScrFenced(r)]]
       \/ ScrMayFail /\ ScrGo(r, "report")
    /\ UNCHANGED <<scrJob, scrRow, scrDir, scrBook, scrStart, scrOther>>

\* A status write and what follows when it works and when it does not.
ScrStatus(r, pc, status, next, failed) ==
    /\ ScrAt(r, pc)
    /\ \/ /\ ScrNoFault
          /\ scrBook' = [scrBook EXCEPT ![ScrBook(r)] = status]
          /\ ScrGo(r, next)
       \/ ScrMayFail /\ ScrGo(r, failed) /\ UNCHANGED scrBook
    /\ UNCHANGED <<scrJob, scrRow, scrDir, scrLock, scrStart, scrOther>>

ScrQueued(r) == ScrStatus(r, "queued", "queued", "download", "report")
ScrDownloading(r) == ScrStatus(r, "download", "downloading", "budget", "error")
\* The final write returns early when it fails: no cleanup.
ScrAcquired(r) == ScrStatus(r, "acquired", "acquired", "rmdir", "report")
ScrError(r) == ScrStatus(r, "error", "error", "rmdir", "rmdir")

\* prepare_work_dir reads the budget first, and a stage reads it again.
ScrBudget(r) ==
    /\ ScrAt(r, "budget")
    /\ ScrBegin(r, "reserve")
    /\ UNCHANGED <<scrJob, scrRow, scrDir, scrBook, scrLock, scrStart, scrOther, scrFaults>>

\* Faulty: the row itself is all that is compared with the quota.
ScrReservesAlone(r, bytes, done) ==
    \/ bytes <= ScrQuota /\ scrRow' = [scrRow EXCEPT ![r[1]][ScrNode(r)] = bytes] /\ done
    \/ bytes > ScrQuota /\ UNCHANGED scrRow /\ ScrGo(r, "error")

\* reserve_job_temp_path, atomic with every other reservation.  A refused plan
\* leaves a row of no bytes where there was none.
ScrReserves(r, bytes, done) ==
    \/ /\ bytes <= ScrRemaining(r)
       /\ scrRow' = [scrRow EXCEPT ![r[1]][ScrNode(r)] = bytes]
       /\ done
    \/ /\ bytes > ScrRemaining(r)
       /\ scrRow' = IF ScrPlan THEN [scrRow EXCEPT ![r[1]][ScrNode(r)] = ScrBytes(@)] ELSE scrRow
       /\ ScrGo(r, "error")

ScrReserve(r) ==
    /\ ScrAt(r, "reserve")
    /\ ScrReserves(r, Min({ScrInitial, scrRun[r].left}), ScrGo(r, "mkdir"))
    /\ UNCHANGED <<scrJob, scrDir, scrBook, scrLock, scrStart, scrOther, scrFaults>>

\* create_dir_all keeps what an earlier attempt left; then fetch reads its
\* budget.
ScrMkdir(r) ==
    /\ ScrAt(r, "mkdir")
    /\ \/ /\ ScrNoFault
          /\ scrDir' = [scrDir EXCEPT ![ScrNode(r)][ScrBook(r)] = ScrBytes(@)]
          /\ ScrBegin(r, "fetch")
       \/ ScrMayFail /\ ScrGo(r, "error") /\ UNCHANGED scrDir
    /\ UNCHANGED <<scrJob, scrRow, scrBook, scrLock, scrStart, scrOther>>

\* A stage writes; it fails by itself, or for a directory over its budget.
ScrStage(r, pc, next) ==
    /\ ScrAt(r, pc)
    /\ \E size \in ScrSizes :
          /\ size >= ScrDirOf(r)
          /\ scrDir' = [scrDir EXCEPT ![ScrNode(r)][ScrBook(r)] = size]
          /\ \/ ScrNoFault /\ ScrGo(r, IF size > scrRun[r].left THEN "error" ELSE next)
             \/ ScrMayFail /\ ScrGo(r, "error")
    /\ UNCHANGED <<scrJob, scrRow, scrBook, scrLock, scrStart, scrOther>>

ScrFetch(r) == ScrStage(r, "fetch", "enforce")
ScrStore(r) == ScrStage(r, "store", "enforceagain")

\* enforce_work_dir_quota: the reservation becomes the size on disk.
ScrEnforce(r) ==
    /\ ScrAt(r, "enforce")
    /\ ScrReserves(r, Max({ScrDirOf(r), 1}), ScrBegin(r, "store"))
    /\ UNCHANGED <<scrJob, scrDir, scrBook, scrLock, scrStart, scrOther, scrFaults>>

ScrEnforceAgain(r) ==
    /\ ScrAt(r, "enforceagain")
    /\ ScrReserves(r, Max({ScrDirOf(r), 1}),
                   scrRun' = [scrRun EXCEPT ![r] = [@ EXCEPT !.pc = "acquired", !.ok = TRUE]])
    /\ UNCHANGED <<scrJob, scrDir, scrBook, scrLock, scrStart, scrOther, scrFaults>>

\* A budget that cannot be read, or a reservation that cannot be written, ends
\* the pipeline.
ScrBudgetFails(r) ==
    /\ scrRun[r].pc \in {"budget", "reserve", "enforce", "enforceagain"}
    /\ ScrMayFail /\ ScrGo(r, "error")
    /\ UNCHANGED <<scrJob, scrRow, scrDir, scrBook, scrLock, scrStart, scrOther>>

\* cleanup_work_dir: a directory that cannot be deleted keeps its row.
ScrRmdir(r) ==
    /\ ScrAt(r, "rmdir")
    /\ \/ /\ ScrNoFault
          /\ scrDir' = [scrDir EXCEPT ![ScrNode(r)][ScrBook(r)] = ScrNone]
          /\ ScrGo(r, "unregister")
       \/ ScrMayFail /\ ScrGo(r, "report") /\ UNCHANGED scrDir
    /\ UNCHANGED <<scrJob, scrRow, scrBook, scrLock, scrStart, scrOther>>

ScrUnregister(r) ==
    /\ ScrAt(r, "unregister")
    /\ \/ ScrNoFault /\ scrRow' = [scrRow EXCEPT ![r[1]][ScrNode(r)] = ScrNone]
       \/ ScrMayFail /\ UNCHANGED scrRow
    /\ ScrGo(r, "report")
    /\ UNCHANGED <<scrJob, scrDir, scrBook, scrLock, scrStart, scrOther>>

\* work_lock is released and the worker completes or fails the job, if the
\* attempt is still its own and the write works.  An operator's cancel ends
\* the job, and by the bad-book setting a failed title may leave it a success.
ScrReport(r) ==
    LET ends(row) == ScrFenced(r) /\ ScrNoFault /\ scrJob' = [scrJob EXCEPT ![r[1]] = row] IN
    /\ ScrAt(r, "report")
    /\ scrLock' = [scrLock EXCEPT ![ScrNode(r)] = ScrNobody]
    /\ scrRun' = [scrRun EXCEPT ![r] = ScrIdle]
    /\ \/ ends([scrJob[r[1]] EXCEPT !.state = "done", !.live = FALSE])
       \/ ~scrRun[r].ok /\ ends(ScrRetried(r[1]))
       \/ ~ScrFenced(r) /\ ScrNoFault /\ UNCHANGED scrJob
       \/ ScrFenced(r) /\ ScrMayFail /\ UNCHANGED scrJob
    /\ UNCHANGED <<scrRow, scrDir, scrBook, scrStart, scrOther>>
-----------------------------------------------------------------------------
(* A daemon dies, and reconcile_on_startup when it comes back *)

ScrCrash(n) ==
    /\ scrNode[n] # "down" /\ scrCrashes < ScrMaxCrashes
    /\ scrCrashes' = scrCrashes + 1
    /\ scrNode' = [scrNode EXCEPT ![n] = "down"]
    /\ scrKeep' = [scrKeep EXCEPT ![n] = {}]
    /\ scrLock' = [scrLock EXCEPT ![n] = ScrNobody]
    /\ scrRun' = [r \in ScrRuns |-> IF ScrNode(r) = n THEN ScrIdle ELSE scrRun[r]]
    /\ UNCHANGED <<scrJob, scrRow, scrDir, scrBook, scrLost, scrFaults, scrLapses>>

ScrBoot(n) ==
    /\ scrNode[n] = "down"
    /\ scrNode' = [scrNode EXCEPT ![n] = "reclaim"]
    /\ UNCHANGED <<scrJob, scrRow, scrDir, scrBook, scrRun, scrLock, scrKeep, scrOther, scrFaults>>

\* A step that fails ends the reconciliation; the workers start all the same.
ScrStartStep(n, at, next, works) ==
    /\ scrNode[n] = at
    /\ \/ ScrNoFault /\ works /\ scrNode' = [scrNode EXCEPT ![n] = next]
       \/ /\ ScrMayFail
          /\ scrNode' = [scrNode EXCEPT ![n] = "up"]
          /\ UNCHANGED <<scrJob, scrRow, scrBook, scrKeep, scrLost>>
    /\ UNCHANGED <<scrDir, scrRun, scrLock, scrCrashes, scrLapses>>

ScrStartReclaim(n) ==
    ScrStartStep(n, "reclaim", "orphans",
                 scrJob' = ScrReclaimAll /\ UNCHANGED <<scrRow, scrBook, scrKeep, scrLost>>)

\* No running acquire job anywhere: unfinished books become errors.
ScrInFlight(b) == scrBook[b] \in {"queued", "downloading"}
ScrNoneRunning == \A j \in ScrJobs : scrJob[j].state # "running"
ScrStartOrphans(n) ==
    ScrStartStep(n, "orphans", "prune",
                 /\ scrBook' = [b \in ScrBooks |-> IF ScrNoneRunning /\ ScrInFlight(b) THEN "error"
                                                   ELSE scrBook[b]]
                 /\ UNCHANGED <<scrJob, scrRow, scrKeep, scrLost>>)

ScrStartPrune(n) ==
    ScrStartStep(n, "prune", "list",
                 /\ \E js \in SUBSET ScrOld : ScrPrunes(js)
                 /\ UNCHANGED <<scrBook, scrKeep>>)

\* The directories of pending and running jobs, as they are now; a job that
\* cannot be read protects nothing.
ScrActiveDirs(n) ==
    {ScrBookOf[j] : j \in {i \in ScrJobs : /\ scrRow[i][n] # ScrNone
                                           /\ scrJob[i].state \in {"pending", "running"}}}
ScrStartList(n) ==
    \/ ScrStartStep(n, "list", "sweep",
                    /\ scrKeep' = [scrKeep EXCEPT ![n] = ScrActiveDirs(n)]
                    /\ UNCHANGED <<scrJob, scrRow, scrBook, scrLost>>)
    \/ /\ scrNode[n] = "list" /\ ScrMayFail
       /\ \E unread \in ScrActiveDirs(n) : scrKeep' = [scrKeep EXCEPT ![n] = ScrActiveDirs(n) \ {unread}]
       /\ scrNode' = [scrNode EXCEPT ![n] = "sweep"]
       /\ UNCHANGED <<scrJob, scrRow, scrDir, scrBook, scrRun, scrLock, scrOther>>

\* sweep_dir deletes every other directory it can; then the workers start.
ScrSweep(n) ==
    /\ scrNode[n] = "sweep"
    /\ \E stays \in SUBSET (ScrBooks \ scrKeep[n]) :
          /\ IF stays = {} THEN ScrNoFault ELSE ScrMayFail
          /\ scrDir' = [scrDir EXCEPT ![n] =
                 [b \in ScrBooks |-> IF b \in scrKeep[n] \cup stays THEN scrDir[n][b] ELSE ScrNone]]
    /\ scrNode' = [scrNode EXCEPT ![n] = "up"]
    /\ scrKeep' = [scrKeep EXCEPT ![n] = {}]
    /\ UNCHANGED <<scrJob, scrRow, scrBook, scrRun, scrLock, scrOther>>
-----------------------------------------------------------------------------
ScrHandlerStep(r) ==
    \/ ScrEnter(r) \/ ScrQueued(r) \/ ScrDownloading(r) \/ ScrBudget(r) \/ ScrReserve(r) \/ ScrMkdir(r)
    \/ ScrFetch(r) \/ ScrEnforce(r) \/ ScrStore(r) \/ ScrEnforceAgain(r) \/ ScrBudgetFails(r)
    \/ ScrAcquired(r) \/ ScrError(r) \/ ScrRmdir(r) \/ ScrUnregister(r) \/ ScrReport(r)

ScrStartupStep(n) ==
    \/ ScrBoot(n) \/ ScrStartReclaim(n) \/ ScrStartOrphans(n) \/ ScrStartPrune(n)
    \/ ScrStartList(n) \/ ScrSweep(n)

ScrNext ==
    \/ \E n \in ScrNodes : ScrStartupStep(n) \/ ScrCrash(n) \/ ScrReclaim(n) \/ ScrPrune(n)
    \/ \E n \in ScrNodes, j \in ScrJobs : ScrClaim(n, j)
    \/ \E j \in ScrJobs : ScrLeaseExpires(j)
    \/ \E r \in ScrRuns : ScrHandlerStep(r)

ScrSpec == ScrInit /\ [][ScrNext]_scrVars
-----------------------------------------------------------------------------
(* Properties *)

ScrTypeOK ==
    /\ scrJob \in [ScrJobs -> [state : {"pending", "running", "done", "gone"},
                               attempts : 0..ScrMaxAttempts, live : BOOLEAN]]
    /\ scrRow \in [ScrJobs -> [ScrNodes -> ScrSizes \cup {ScrNone}]]
    /\ scrDir \in [ScrNodes -> [ScrBooks -> ScrSizes \cup {ScrNone}]]
    /\ scrBook \in [ScrBooks -> {"none", "queued", "downloading", "acquired", "error"}]
    /\ scrRun \in [ScrRuns -> [pc : ScrPc, node : ScrNodes \cup {ScrNobody}, left : 0..ScrQuota,
                               ok : BOOLEAN]]
    /\ scrLock \in [ScrNodes -> ScrRuns \cup {ScrNobody}]
    /\ scrNode \in [ScrNodes -> ScrStartup \cup {"down", "up"}]
    /\ scrKeep \in [ScrNodes -> SUBSET ScrBooks] /\ scrLost \subseteq ScrNodes \X ScrBooks
    /\ scrFaults \in 0..ScrMaxFaults /\ scrCrashes \in 0..ScrMaxCrashes /\ scrLapses \in 0..ScrMaxLapses

\* Scratch is accounted for: a directory on disk has a reservation, through
\* crashes, retries and failed deletes (unless the job was pruned), and the
\* reservations of all daemons together stay within the quota, though each
\* daemon reads its budget before it reserves.
ScrAccounted ==
    /\ ScrReservedBytes <= ScrQuota
    /\ \A n \in ScrNodes, b \in ScrBooks : scrDir[n][b] # ScrNone /\ <<n, b>> \notin scrLost =>
          \E j \in ScrJobs : ScrBookOf[j] = b /\ scrRow[j][n] # ScrNone

\* The directory a handler writes to is not deleted beneath it: not by the
\* handler of a lost attempt, nor by a starting daemon's sweep.
ScrOwnDir ==
    \A r \in ScrRuns : scrRun[r].pc \in {"fetch", "enforce", "store", "enforceagain", "acquired"} =>
        ScrDirOf(r) # ScrNone

\* What the types rely on: a job that waits has an attempt left.
ScrTriesLeft == \A j \in ScrJobs : scrJob[j].state = "pending" => scrJob[j].attempts < ScrMaxAttempts

(* The inductive invariant of ScrOwnDir *)

\* A handler's local state, whatever budget it read.
ScrHandler(w) == /\ DOMAIN w = {"pc", "node", "left", "ok"}
                 /\ w.pc \in ScrPc /\ w.node \in ScrNodes \cup {ScrNobody}

ScrDirTypes ==
    /\ scrDir \in [ScrNodes -> [ScrBooks -> Int]]
    /\ DOMAIN scrRun = ScrRuns /\ \A r \in ScrRuns : ScrHandler(scrRun[r])
    /\ scrLock \in [ScrNodes -> ScrRuns \cup {ScrNobody}]
    /\ DOMAIN scrNode = ScrNodes

\* A handler runs on a daemon that has finished starting, and past the lock it
\* is the only one there.
ScrAlone ==
    \A r \in ScrRuns : /\ ~ScrAt(r, "none") => ScrNode(r) \in ScrNodes /\ scrNode[ScrNode(r)] = "up"
                       /\ scrRun[r].pc \notin {"none", "lock"} => scrLock[ScrNode(r)] = r

ScrInv == ScrDirTypes /\ ScrAlone /\ ScrOwnDir

(* The inductive invariant of ScrAccounted, on top of ScrInv *)

ScrRowTypes ==
    /\ scrRow \in [ScrJobs -> [ScrNodes -> Nat \cup {ScrNone}]]
    /\ \A r \in ScrRuns : scrRun[r].left \in Nat

\* A handler reserves before it makes its directory, and deletes the directory
\* before its reservation.
ScrRowOutlives ==
    \A r \in ScrRuns : /\ ScrAt(r, "mkdir") => scrRow[r[1]][ScrNode(r)] # ScrNone
                       /\ ScrAt(r, "unregister") => ScrDirOf(r) = ScrNone

ScrRowInv == ScrRowTypes /\ ScrRowOutlives /\ ScrAccounted
=============================================================================
