---------------------------- MODULE StorageScan -----------------------------
(***************************************************************************)
(* The durable storage inventory of an acquire job: scan_storage           *)
(* (bookclerk-acquire/src/storage_scan.rs), the generation and inventory   *)
(* tables it fills (store/storage_scan.rs), the match that clears books    *)
(* from it (match_storage.rs), and everybody who deletes generations.      *)
(*                                                                         *)
(* Objects are numbered in listing order, one to a page.  Each is the file *)
(* of one book that is marked Acquired under a key the file has left, so   *)
(* that only the inventory's identity rows can find it.  A statement is a  *)
(* step, except that the heartbeat joins the checkpoint written after it   *)
(* and a book's lookup joins the update decided by it.  One job; a node's  *)
(* work_lock lets a worker run one scan at a time.                         *)
(***************************************************************************)
EXTENDS Integers, FiniteSets

CONSTANTS
    ScanPages,       \* number of pages, one object each
    ScanNodes,       \* processes that scan: daemons and the command line
    ScanPlaceOf,     \* scan_placement of a node's storage
    ScanIds,         \* 1..n: generations, in the order they are drawn
    ScanMaxAttempts, \* jobs.max_attempts
    ScanMaxFaults,   \* bound: crashes, failed statements, refused cursors
    ScanMaxLapses    \* bound: leases or heartbeats that lapse under a live scan

ASSUME ScanAssumption ==
    /\ {ScanPages, ScanMaxAttempts, ScanMaxFaults, ScanMaxLapses} \subseteq Nat
    /\ ScanPages > 0 /\ ScanMaxAttempts > 0 /\ ScanIds \subseteq Nat \ {0}
    /\ ScanNodes \subseteq DOMAIN ScanPlaceOf /\ ScanNodes # {}

VARIABLES
    scanPresent, \* objects in storage
    scanBook,    \* the book of each object: "stale", "here" or "cleared"
    scanJob,     \* the acquire job's row
    scanGen,     \* storage_scan_generations and, under rows, storage_scan_rows
    scanDrawn,   \* generation ids drawn so far
    scanWork,    \* local state of each node's scan
    scanFaults, scanLapses

scanVars == <<scanPresent, scanBook, scanJob, scanGen, scanDrawn, scanWork,
              scanFaults, scanLapses>>

ScanObjects == 1..ScanPages
ScanPlaces == {ScanPlaceOf[n] : n \in ScanNodes}
ScanNobody == "nobody"

\* ScanCheckpoint: scan = 0 stands for a payload without checkpoint.
NoScanCkpt == [scan |-> 0, phase |-> "list", cur |-> 0, place |-> CHOOSE p \in ScanPlaces : TRUE]
ScanCkpt == [scan : ScanIds \cup {0}, phase : {"list", "apply"},
             cur : 0..ScanPages, place : ScanPlaces]

\* A generation row; `rows` is its inventory, which has no foreign key to it.
ScanGen == [live : BOOLEAN, jobless : BOOLEAN, done : BOOLEAN, fresh : BOOLEAN,
            rows : SUBSET ScanObjects]
NoScanGen == [live |-> FALSE, jobless |-> FALSE, done |-> FALSE, fresh |-> FALSE, rows |-> {}]

\* lease = 0: the scan runs without a job.
ScanIdle == [pc |-> "idle", lease |-> 0, ckpt |-> NoScanCkpt, again |-> FALSE,
             ok |-> FALSE, todo |-> {}]
ScanPc == {"idle", "adopt", "bind", "page", "save", "wipe", "complete", "apply",
           "match", "finish", "report", "sweep"}

ScanInit ==
    /\ scanPresent = ScanObjects
    /\ scanBook = [o \in ScanObjects |-> "stale"]
    /\ scanJob = [state |-> "pending", lease |-> 0, owner |-> ScanNobody,
                  attempts |-> 0, cancel |-> FALSE, ckpt |-> NoScanCkpt]
    /\ scanGen = [s \in ScanIds |-> NoScanGen]
    /\ scanDrawn = 0
    /\ scanWork = [n \in ScanNodes |-> ScanIdle]
    /\ scanFaults = 0 /\ scanLapses = 0

ScanTerminal == scanJob.state = "terminal"
ScanFenceHolds(n) == /\ scanJob.state = "running"
                     /\ scanJob.owner = n /\ scanJob.lease = scanWork[n].lease

ScanMove(n, pc) == scanWork' = [scanWork EXCEPT ![n].pc = pc]

\* fresh_checkpoint draws a new generation id.
ScanFresh(n) == [scan |-> scanDrawn + 1, phase |-> "list", cur |-> 0, place |-> ScanPlaceOf[n]]
ScanCanDraw == scanDrawn + 1 \in ScanIds
-----------------------------------------------------------------------------
(* The job: claim, cancel, loss of the lease, outcome. *)

ScanClaim(n) ==
    /\ scanWork[n].pc = "idle" /\ scanJob.state = "pending"
    /\ scanJob' = [scanJob EXCEPT !.state = "running", !.owner = n,
                                  !.lease = @ + 1, !.attempts = @ + 1]
    /\ scanWork' = [scanWork EXCEPT ![n] =
           [ScanIdle EXCEPT !.pc = "adopt", !.lease = scanJob.lease + 1, !.ckpt = scanJob.ckpt]]
    /\ UNCHANGED <<scanPresent, scanBook, scanGen, scanDrawn, scanFaults, scanLapses>>

ScanCancel ==
    /\ ~scanJob.cancel /\ ~ScanTerminal
    /\ scanJob' = [scanJob EXCEPT !.cancel = TRUE,
                     !.state = IF @ = "pending" THEN "terminal" ELSE @]
    /\ UNCHANGED <<scanPresent, scanBook, scanGen, scanDrawn, scanWork, scanFaults, scanLapses>>

\* fail_job and reclaim_expired_leases: another attempt, unless cancelled or used up.
ScanGivenUp == [scanJob EXCEPT !.owner = ScanNobody,
                  !.state = IF scanJob.cancel \/ scanJob.attempts >= ScanMaxAttempts
                            THEN "terminal" ELSE "pending"]

\* A worker's reclaim pass finds the lease expired: its owner died, or stalled.
ScanLeaseExpires ==
    /\ scanJob.state = "running"
    /\ \/ ~ScanFenceHolds(scanJob.owner) /\ UNCHANGED scanLapses
       \/ /\ ScanFenceHolds(scanJob.owner) /\ scanLapses < ScanMaxLapses
          /\ scanLapses' = scanLapses + 1
    /\ scanJob' = ScanGivenUp
    /\ UNCHANGED <<scanPresent, scanBook, scanGen, scanDrawn, scanWork, scanFaults>>

\* complete_job or fail_job, conditional on the fence.
ScanReport(n) ==
    /\ scanWork[n].pc = "report"
    /\ \/ /\ ScanFenceHolds(n)
          /\ scanJob' = IF scanWork[n].ok
                        THEN [scanJob EXCEPT !.owner = ScanNobody, !.state = "terminal"]
                        ELSE ScanGivenUp
          /\ ScanMove(n, "sweep")
       \/ /\ ~ScanFenceHolds(n)
          /\ scanWork' = [scanWork EXCEPT ![n] = ScanIdle]
          /\ UNCHANGED scanJob
    /\ UNCHANGED <<scanPresent, scanBook, scanGen, scanDrawn, scanFaults, scanLapses>>

\* The handler returns an error; a scan without a job just ends.
ScanFailed(n) ==
    scanWork' = [scanWork EXCEPT ![n] =
        IF scanWork[n].lease = 0 THEN ScanIdle ELSE [scanWork[n] EXCEPT !.pc = "report", !.ok = FALSE]]
-----------------------------------------------------------------------------
(* scan_storage *)

\* The command line, or match_storage_to_library: no fence, no checkpoint.
ScanStartJobless(n) ==
    /\ scanWork[n].pc = "idle" /\ ScanCanDraw
    /\ scanDrawn' = scanDrawn + 1
    /\ scanWork' = [scanWork EXCEPT ![n] = [ScanIdle EXCEPT !.pc = "bind", !.ckpt = ScanFresh(n)]]
    /\ UNCHANGED <<scanPresent, scanBook, scanJob, scanGen, scanFaults, scanLapses>>

\* A complete inventory of this placement is adopted as it is.
ScanAdopts(n) ==
    LET c == scanWork[n].ckpt IN
    /\ c.phase = "apply" /\ c.place = ScanPlaceOf[n]
    /\ scanGen[c.scan].live /\ scanGen[c.scan].done

\* Faulty: the cursor is trusted without looking at the generation row.
ScanResumesCursor(n) == scanWork[n].ckpt.phase = "list"

\* A listing goes on from its cursor while the rows before the cursor exist.
ScanResumes(n) ==
    LET c == scanWork[n].ckpt IN
    c.phase = "list" /\ c.place = ScanPlaceOf[n] /\ scanGen[c.scan].live

ScanAdopt(n) ==
    /\ scanWork[n].pc = "adopt"
    /\ \/ /\ scanWork[n].ckpt.scan # 0 /\ ScanAdopts(n)
          /\ scanWork' = [scanWork EXCEPT ![n] = [@ EXCEPT !.pc = "match", !.todo = ScanObjects]]
          /\ UNCHANGED scanDrawn
       \/ /\ scanWork[n].ckpt.scan # 0 /\ ~ScanAdopts(n) /\ ScanResumes(n)
          /\ ScanMove(n, "bind")
          /\ UNCHANGED scanDrawn
       \/ /\ scanWork[n].ckpt.scan # 0 => ~ScanAdopts(n) /\ ~ScanResumes(n)
          /\ ScanCanDraw
          /\ scanDrawn' = scanDrawn + 1
          /\ scanWork' = [scanWork EXCEPT ![n] = [@ EXCEPT !.pc = "bind", !.ckpt = ScanFresh(n)]]
    /\ UNCHANGED <<scanPresent, scanBook, scanJob, scanGen, scanFaults, scanLapses>>

\* storage_scan_register: a missing row is inserted, an existing one refreshed.
ScanBind(n) ==
    LET w == scanWork[n] g == scanGen[w.ckpt.scan] IN
    /\ w.pc = "bind"
    /\ scanGen' = [scanGen EXCEPT ![w.ckpt.scan] =
           [g EXCEPT !.live = TRUE, !.fresh = TRUE, !.done = g.live /\ g.done,
                     !.jobless = w.lease = 0 /\ (g.live => g.jobless)]]
    /\ ScanMove(n, IF w.again THEN "save" ELSE "page")
    /\ UNCHANGED <<scanPresent, scanBook, scanJob, scanDrawn, scanFaults, scanLapses>>

\* One turn of page_scan: the cancel check, list_page and the rows of the page.
ScanPage(n) ==
    LET w == scanWork[n] o == w.ckpt.cur + 1 IN
    /\ w.pc = "page"
    /\ \/ /\ w.lease # 0 /\ scanJob.cancel
          /\ ScanFailed(n) /\ UNCHANGED <<scanGen, scanFaults>>
       \/ /\ w.lease = 0 \/ ~scanJob.cancel
          /\ scanGen' = [scanGen EXCEPT ![w.ckpt.scan].rows = @ \cup ({o} \cap scanPresent)]
          /\ scanWork' = IF o < ScanPages
                         THEN [scanWork EXCEPT ![n] = [w EXCEPT !.pc = "save", !.ckpt = [w.ckpt EXCEPT !.cur = o]]]
                         ELSE [scanWork EXCEPT ![n].pc = "complete"]
          /\ UNCHANGED scanFaults
       \/ \* InvalidCursor, answered with one restart
          /\ w.lease = 0 \/ ~scanJob.cancel
          /\ w.ckpt.cur > 0 /\ scanFaults < ScanMaxFaults
          /\ scanFaults' = scanFaults + 1
          /\ IF w.again THEN ScanFailed(n) ELSE ScanMove(n, "wipe")
          /\ UNCHANGED scanGen
    /\ UNCHANGED <<scanPresent, scanBook, scanJob, scanDrawn, scanLapses>>

\* checkpoint_running_job
ScanPersisted(n) == scanJob' = [scanJob EXCEPT !.ckpt = scanWork'[n].ckpt]

\* persist: nothing to write without a job; an error when the fence is lost.
ScanPersist(n, then) ==
    \/ scanWork[n].lease = 0 /\ scanWork' = then /\ UNCHANGED scanJob
    \/ ScanFenceHolds(n) /\ scanWork' = then /\ ScanPersisted(n)
    \/ scanWork[n].lease # 0 /\ ~ScanFenceHolds(n) /\ ScanFailed(n) /\ UNCHANGED scanJob

\* storage_scan_touch, then the checkpoint of the new cursor.
ScanSave(n) ==
    /\ scanWork[n].pc = "save"
    /\ scanGen' = [scanGen EXCEPT ![scanWork[n].ckpt.scan].fresh = @ \/ scanGen[scanWork[n].ckpt.scan].live]
    /\ ScanPersist(n, [scanWork EXCEPT ![n].pc = "page"])
    /\ UNCHANGED <<scanPresent, scanBook, scanDrawn, scanFaults, scanLapses>>

\* storage_scan_delete: inventory rows and generation row in one transaction.
ScanDrop(s) == scanGen' = [scanGen EXCEPT ![s] = NoScanGen]

ScanWipe(n) ==
    /\ scanWork[n].pc = "wipe" /\ ScanCanDraw
    /\ ScanDrop(scanWork[n].ckpt.scan)
    /\ scanDrawn' = scanDrawn + 1
    /\ scanWork' = [scanWork EXCEPT ![n] = [@ EXCEPT !.pc = "bind", !.ckpt = ScanFresh(n), !.again = TRUE]]
    /\ UNCHANGED <<scanPresent, scanBook, scanJob, scanFaults, scanLapses>>

\* storage_scan_mark_complete updates no row when the generation is gone.
ScanComplete(n) ==
    LET s == scanWork[n].ckpt.scan IN
    /\ scanWork[n].pc = "complete"
    /\ scanGen' = [scanGen EXCEPT ![s].done = scanGen[s].live]
    /\ ScanMove(n, "apply")
    /\ UNCHANGED <<scanPresent, scanBook, scanJob, scanDrawn, scanFaults, scanLapses>>

ScanApply(n) ==
    /\ scanWork[n].pc = "apply"
    /\ ScanPersist(n, [scanWork EXCEPT ![n] = [scanWork[n] EXCEPT !.pc = "match",
                     !.todo = ScanObjects, !.ckpt = [scanWork[n].ckpt EXCEPT !.phase = "apply", !.cur = 0]]])
    /\ UNCHANGED <<scanPresent, scanBook, scanGen, scanDrawn, scanFaults, scanLapses>>
-----------------------------------------------------------------------------
(* match_storage_using_index, and the end of the scan *)

\* find_audio_for_book: the recorded key, else a present object of the inventory.
ScanFinds(n, o) ==
    /\ o \in scanPresent
    /\ scanBook[o] = "here" \/ o \in scanGen[scanWork[n].ckpt.scan].rows

ScanMatchBook(n) ==
    LET w == scanWork[n] o == CHOOSE x \in w.todo : \A y \in w.todo : x <= y IN
    /\ w.pc = "match" /\ w.todo # {}
    /\ scanBook' = [scanBook EXCEPT ![o] =
           IF ScanFinds(n, o) THEN "here" ELSE "cleared"]
    /\ scanWork' = [scanWork EXCEPT ![n] = [w EXCEPT !.todo = w.todo \ {o},
                                                     !.pc = IF w.todo = {o} THEN "finish" ELSE "match"]]
    /\ UNCHANGED <<scanPresent, scanJob, scanGen, scanDrawn, scanFaults, scanLapses>>

\* The generation is deleted when the work that used it is done; a failure of the
\* delete is ignored.  A job first acquires titles, and stops between two of them
\* when it is cancelled or has lost its fence.
ScanFinish(n) ==
    LET w == scanWork[n]
        done == [scanWork EXCEPT ![n] = IF w.lease = 0 THEN ScanIdle
                                        ELSE [w EXCEPT !.pc = "report", !.ok = TRUE]] IN
    /\ w.pc = "finish"
    /\ \/ ScanDrop(w.ckpt.scan) /\ scanWork' = done /\ UNCHANGED scanFaults
       \/ /\ scanFaults < ScanMaxFaults /\ scanFaults' = scanFaults + 1
          /\ scanWork' = done /\ UNCHANGED scanGen
       \/ /\ w.lease # 0 /\ (scanJob.cancel \/ ~ScanFenceHolds(n))
          /\ ScanFailed(n) /\ UNCHANGED <<scanGen, scanFaults>>
    /\ UNCHANGED <<scanPresent, scanBook, scanJob, scanDrawn, scanLapses>>

\* storage_scan_reclaim_if_terminal after the outcome was written.
ScanSweep(n) ==
    /\ scanWork[n].pc = "sweep"
    /\ scanGen' = [s \in ScanIds |->
           IF ScanTerminal /\ scanGen[s].live /\ ~scanGen[s].jobless THEN NoScanGen ELSE scanGen[s]]
    /\ scanWork' = [scanWork EXCEPT ![n] = ScanIdle]
    /\ UNCHANGED <<scanPresent, scanBook, scanJob, scanDrawn, scanFaults, scanLapses>>

\* Faulty: only the generation that the checkpoint names is reclaimed.
ScanReclaimNamed(s) ==
    /\ scanGen[s].live /\ ~scanGen[s].jobless /\ ScanTerminal /\ s = scanJob.ckpt.scan
    /\ ScanDrop(s)
    /\ UNCHANGED <<scanPresent, scanBook, scanJob, scanDrawn, scanWork, scanFaults, scanLapses>>

\* storage_scan_reclaim_terminal_page in every worker's loop.  Terminal is
\* final, so reading the job and deleting the generation are one step.
ScanReclaimPage(s) ==
    /\ scanGen[s].live /\ ~scanGen[s].jobless /\ ScanTerminal
    /\ ScanDrop(s)
    /\ UNCHANGED <<scanPresent, scanBook, scanJob, scanDrawn, scanWork, scanFaults, scanLapses>>

\* storage_scan_reclaim_abandoned when a daemon starts.
ScanReclaimAbandoned(s) ==
    /\ scanGen[s].live
    /\ IF scanGen[s].jobless THEN ~scanGen[s].fresh ELSE ScanTerminal
    /\ ScanDrop(s)
    /\ UNCHANGED <<scanPresent, scanBook, scanJob, scanDrawn, scanWork, scanFaults, scanLapses>>
-----------------------------------------------------------------------------
(* Faults and time *)

ScanUses(n, s) == scanWork[n].pc \notin {"idle", "report", "sweep"} /\ scanWork[n].ckpt.scan = s

\* lease_seconds pass without a heartbeat of a generation that has no job.
ScanGoesStale(s) ==
    /\ scanGen[s].live /\ scanGen[s].jobless /\ scanGen[s].fresh
    /\ \/ (\A n \in ScanNodes : ~ScanUses(n, s)) /\ UNCHANGED scanLapses
       \/ /\ \E n \in ScanNodes : ScanUses(n, s)
          /\ scanLapses < ScanMaxLapses /\ scanLapses' = scanLapses + 1
    /\ scanGen' = [scanGen EXCEPT ![s].fresh = FALSE]
    /\ UNCHANGED <<scanPresent, scanBook, scanJob, scanDrawn, scanWork, scanFaults>>

ScanCrash(n) ==
    /\ scanWork[n].pc # "idle" /\ scanFaults < ScanMaxFaults
    /\ scanFaults' = scanFaults + 1
    /\ scanWork' = [scanWork EXCEPT ![n] = ScanIdle]
    /\ UNCHANGED <<scanPresent, scanBook, scanJob, scanGen, scanDrawn, scanLapses>>

\* A statement, a storage call or a title fails and the handler returns its error.
ScanFault(n) ==
    /\ scanWork[n].pc \notin {"idle", "report", "sweep"} /\ scanFaults < ScanMaxFaults
    /\ scanWork[n].pc = "finish" => scanWork[n].lease # 0
    /\ scanFaults' = scanFaults + 1
    /\ ScanFailed(n)
    /\ UNCHANGED <<scanPresent, scanBook, scanJob, scanGen, scanDrawn, scanLapses>>

\* Somebody removes a file.
ScanVanish(o) ==
    /\ o \in scanPresent
    /\ scanPresent' = scanPresent \ {o}
    /\ UNCHANGED <<scanBook, scanJob, scanGen, scanDrawn, scanWork, scanFaults, scanLapses>>

ScanStep(n) ==
    \/ ScanReport(n) \/ ScanAdopt(n) \/ ScanBind(n) \/ ScanPage(n) \/ ScanSave(n)
    \/ ScanWipe(n) \/ ScanComplete(n) \/ ScanApply(n) \/ ScanMatchBook(n)
    \/ ScanFinish(n) \/ ScanSweep(n)

ScanNext ==
    \/ \E n \in ScanNodes :
          ScanClaim(n) \/ ScanStartJobless(n) \/ ScanStep(n) \/ ScanCrash(n) \/ ScanFault(n)
    \/ ScanCancel \/ ScanLeaseExpires
    \/ \E s \in ScanIds : ScanReclaimPage(s) \/ ScanReclaimAbandoned(s) \/ ScanGoesStale(s)
    \/ \E o \in ScanObjects : ScanVanish(o)

ScanSpec == ScanInit /\ [][ScanNext]_scanVars

\* The scheduled tasks keep running: a node's scan, and the workers' loops that
\* expire leases and reclaim generations.  Nobody has to start a daemon again.
ScanFairness ==
    /\ \A n \in ScanNodes : WF_scanVars(ScanStep(n))
    /\ WF_scanVars(ScanLeaseExpires)
    /\ WF_scanVars(\E s \in ScanIds : ScanReclaimPage(s))
-----------------------------------------------------------------------------
(* Properties *)

ScanTypeOK ==
    /\ scanPresent \subseteq ScanObjects
    /\ scanBook \in [ScanObjects -> {"stale", "here", "cleared"}]
    /\ scanJob \in [state : {"pending", "running", "terminal"}, lease : Nat,
                    owner : ScanNodes \cup {ScanNobody}, attempts : 0..ScanMaxAttempts,
                    cancel : BOOLEAN, ckpt : ScanCkpt]
    /\ scanGen \in [ScanIds -> ScanGen]
    /\ scanWork \in [ScanNodes -> [pc : ScanPc, lease : Nat, ckpt : ScanCkpt,
                                    again : BOOLEAN, ok : BOOLEAN, todo : SUBSET ScanObjects]]

\* No lease and no heartbeat lapsed while its holder was still working.
ScanTimely == scanLapses = 0

\* Whatever crashed, failed, was retried or was resumed from a checkpoint, the
\* inventory a book is looked up in has every file that is still there, so that
\* match_storage_using_index clears no book whose file is present - as long as
\* no lease or heartbeat lapses under a scan that still works.
ScanClearsOnlyMissing ==
    ScanTimely => \A o \in ScanObjects : scanBook[o] = "cleared" => o \notin scanPresent

\* A terminal job's generations are reclaimed, those that a lost checkpoint, a
\* crashed worker or a worker without its lease left behind too.
ScanReclaimed ==
    ScanTerminal ~> \A s \in ScanIds : scanGen[s].live => scanGen[s].jobless

(* The inductive invariant of ScanClearsOnlyMissing *)

ScanBusy(n) == scanWork[n].pc \notin {"idle", "report", "sweep"}
ScanGenOf(n) == scanGen[scanWork[n].ckpt.scan]

\* What is on storage and before the cursor, or anywhere, is in the inventory.
ScanCovers(s, cur) == scanPresent \cap (1..cur) \subseteq scanGen[s].rows

\* A scan of a job has its fence, and one that is past the adoption of its
\* checkpoint has a generation of its own that is live from the bind on.
ScanHolds(n) ==
    LET w == scanWork[n] IN
    /\ w.lease # 0 => ScanFenceHolds(n)
    /\ w.pc = "adopt" => w.lease # 0 /\ w.ckpt = scanJob.ckpt
    /\ w.pc # "adopt" =>
          /\ w.ckpt.scan \in 1..scanDrawn
          /\ ScanGenOf(n).live => (ScanGenOf(n).jobless <=> w.lease = 0)
          /\ w.pc # "bind" => ScanGenOf(n).live
          /\ ScanGenOf(n).live /\ w.lease = 0 => ScanGenOf(n).fresh
          /\ w.lease # 0 /\ w.ckpt.scan = scanJob.ckpt.scan =>
                ScanGenOf(n).live /\ (w.pc \notin {"match", "finish"} => scanJob.ckpt.phase = "list")

\* The inventory is complete up to the cursor, and then complete.
ScanListed(n) ==
    LET w == scanWork[n] IN
    /\ w.pc \in {"bind", "page", "save"} => w.ckpt.phase = "list" /\ ScanCovers(w.ckpt.scan, w.ckpt.cur)
    /\ w.pc \in {"complete", "apply", "match"} => ScanCovers(w.ckpt.scan, ScanPages)

\* A scan without a job shares its generation with nobody.
ScanApart ==
    \A n \in ScanNodes : ScanBusy(n) /\ scanWork[n].lease = 0 =>
        /\ scanWork[n].ckpt.scan # scanJob.ckpt.scan
        /\ \A m \in ScanNodes \ {n} : ScanBusy(m) => scanWork[m].ckpt.scan # scanWork[n].ckpt.scan

\* A live generation that the job's checkpoint names has what the checkpoint
\* says.
ScanResumable ==
    LET c == scanJob.ckpt IN
    /\ scanJob.state = "running" => scanJob.lease # 0
    /\ c.scan \in 0..scanDrawn
    /\ c.scan # 0 /\ scanGen[c.scan].live =>
          /\ ~scanGen[c.scan].jobless
          /\ ScanCovers(c.scan, IF c.phase = "list" THEN c.cur ELSE ScanPages)

ScanUndrawn == \A s \in ScanIds : s > scanDrawn => ~scanGen[s].live

ScanCounts == /\ scanDrawn \in Nat /\ scanLapses \in Nat /\ scanFaults \in Nat
              /\ scanJob.state = "pending" => scanJob.attempts < ScanMaxAttempts

ScanGood == /\ \A n \in ScanNodes : ScanBusy(n) => ScanHolds(n) /\ ScanListed(n)
            /\ ScanApart /\ ScanResumable /\ ScanUndrawn
            /\ \A o \in ScanObjects : scanBook[o] = "cleared" => o \notin scanPresent

ScanInv == ScanTypeOK /\ ScanCounts /\ (ScanTimely => ScanGood)
=============================================================================
