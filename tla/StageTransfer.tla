--------------------------- MODULE StageTransfer ----------------------------
(***************************************************************************)
(* Copying an object between storage backends through a stage object, and  *)
(* the crash journal of stages (bookclerk-storage/src/transfer.rs).        *)
(*                                                                         *)
(* Every attempt (one transfer_once) has its own stage key and owner id;   *)
(* attempts of one or of several processes share the journal directory and *)
(* the destination.  A process is an owner of file locks: it loses them    *)
(* when it crashes.  The source is an object that others may overwrite;    *)
(* its etag is its version.  Backends offer digests or not; without them   *)
(* etags are all the integrity check has.  A body is read in two chunks.   *)
(* A directory scan made under the journal lock is one step.               *)
(***************************************************************************)
EXTENDS Integers, FiniteSets

CONSTANTS
    StageAttempts,    \* attempts, each with the owner id it draws
    StageReapers,     \* transfers that are in reap_abandoned_stages
    StageNobody,      \* the journal lock is free
    StageDigests,     \* probes and uploads report a sha256
    StageMaxVersion,  \* bound: versions of the source
    StageMaxCrashes,  \* bound: attempts whose process dies
    StageMaxFaults    \* bound: calls that fail and futures that are dropped

ASSUME StageAssumption ==
    /\ StageNobody \notin StageAttempts \cup StageReapers
    /\ StageAttempts \cap StageReapers = {}
    /\ {StageMaxVersion, StageMaxCrashes, StageMaxFaults} \subseteq Nat
    /\ StageMaxVersion > 0 /\ StageDigests \in BOOLEAN

VARIABLES
    stageSource,  \* version of the source object
    stageDest,    \* published object: its two chunks, or none
    stageObj,     \* stage object of an attempt: its two chunks, or none
    stageRecord,  \* stages/: "none", "partial" or "json"
    stageFile,    \* owners/<id>.lock is linked
    stageFlock,   \* the attempt holds its flock (perhaps on an unlinked file)
    stageLock,    \* holder of journal.lock
    stageTask,    \* local state of an attempt
    stageReap,    \* local state of a reaper
    stageCrashes, stageFaults

stageVars == <<stageSource, stageDest, stageObj, stageRecord, stageFile, stageFlock,
               stageLock, stageTask, stageReap, stageCrashes, stageFaults>>
stageJournal == <<stageRecord, stageFile, stageFlock, stageLock>>
stageBounds == <<stageCrashes, stageFaults>>

StageVersions == 1..StageMaxVersion
StageNone == <<0, 0>>
StageBody == StageVersions \X StageVersions

StagePc == {"probe", "get", "arm", "open", "flock", "partial", "rename", "put", "put2",
            "verify", "publish", "cleanup", "drop", "clear", "unlink", "done", "dead"}
StageReapPc == {"list", "delete", "forget", "sweep"}

StageInit ==
    /\ stageSource = 1
    /\ stageDest = StageNone
    /\ stageObj = [a \in StageAttempts |-> StageNone]
    /\ stageRecord = [a \in StageAttempts |-> "none"]
    /\ stageFile = [a \in StageAttempts |-> FALSE]
    /\ stageFlock = [a \in StageAttempts |-> FALSE]
    /\ stageLock = StageNobody
    /\ stageTask = [a \in StageAttempts |-> [pc |-> "probe", before |-> 0, chunk |-> 0]]
    /\ stageReap = [r \in StageReapers |-> [pc |-> "list", batch |-> {}, item |-> StageNobody]]
    /\ stageCrashes = 0 /\ stageFaults = 0

StageAt(a, pc) == stageTask[a].pc = pc
StageGo(a, pc) == stageTask' = [stageTask EXCEPT ![a].pc = pc]
StageMayFail == stageFaults < StageMaxFaults /\ stageFaults' = stageFaults + 1

\* stage_owner_live: the owner file exists and somebody holds its lock.
StageOwnerLive(a) == stageFile[a] /\ stageFlock[a]
-----------------------------------------------------------------------------
(* transfer_once *)

\* Probe the source; a destination with the digest of the source is done.
StageProbe(a) ==
    /\ StageAt(a, "probe")
    /\ stageTask' = [stageTask EXCEPT ![a] = [@ EXCEPT !.before = stageSource, !.pc =
           IF StageDigests /\ stageDest = <<stageSource, stageSource>> THEN "done" ELSE "get"]]
    /\ UNCHANGED <<stageSource, stageDest, stageObj, stageJournal, stageReap, stageBounds>>

StageGet(a) ==
    /\ StageAt(a, "get")
    /\ StageGo(a, IF stageSource = stageTask[a].before THEN "arm" ELSE "done")
    /\ UNCHANGED <<stageSource, stageDest, stageObj, stageJournal, stageReap, stageBounds>>

\* Faulty: the owner file is opened without the journal lock.
StageArmUnlocked(a) ==
    /\ StageAt(a, "arm")
    /\ StageGo(a, "open")
    /\ UNCHANGED <<stageSource, stageDest, stageObj, stageJournal, stageReap, stageBounds>>

\* StageRecord::create: the journal lock covers the open and the flock.
StageArm(a) ==
    /\ StageAt(a, "arm") /\ stageLock = StageNobody
    /\ stageLock' = a
    /\ StageGo(a, "open")
    /\ UNCHANGED <<stageSource, stageDest, stageObj, stageRecord, stageFile, stageFlock,
                   stageReap, stageBounds>>

StageOpen(a) ==
    /\ StageAt(a, "open")
    /\ stageFile' = [stageFile EXCEPT ![a] = TRUE]
    /\ StageGo(a, "flock")
    /\ UNCHANGED <<stageSource, stageDest, stageObj, stageRecord, stageFlock, stageLock,
                   stageReap, stageBounds>>

StageFlock(a) ==
    /\ StageAt(a, "flock")
    /\ stageFlock' = [stageFlock EXCEPT ![a] = TRUE]
    /\ stageLock' = IF stageLock = a THEN StageNobody ELSE stageLock
    /\ StageGo(a, "partial")
    /\ UNCHANGED <<stageSource, stageDest, stageObj, stageRecord, stageFile, stageReap, stageBounds>>

\* The partial is written, then renamed to the record; an error undoes both.
StagePublishRecord(a, from, to, next) ==
    /\ StageAt(a, from)
    /\ \/ /\ stageRecord' = [stageRecord EXCEPT ![a] = to]
          /\ StageGo(a, next)
          /\ UNCHANGED <<stageFile, stageFlock, stageFaults>>
       \/ /\ StageMayFail
          /\ stageRecord' = [stageRecord EXCEPT ![a] = "none"]
          /\ stageFile' = [stageFile EXCEPT ![a] = FALSE]
          /\ stageFlock' = [stageFlock EXCEPT ![a] = FALSE]
          /\ StageGo(a, "done")
    /\ UNCHANGED <<stageSource, stageDest, stageObj, stageLock, stageReap, stageCrashes>>

StagePartial(a) == StagePublishRecord(a, "partial", "partial", "rename")
StageRename(a) == StagePublishRecord(a, "rename", "json", "put")

\* put_stream pulls the body; the stage object appears when it ends.
StagePutFirst(a) ==
    /\ StageAt(a, "put")
    /\ stageTask' = [stageTask EXCEPT ![a] = [@ EXCEPT !.chunk = stageSource, !.pc = "put2"]]
    /\ UNCHANGED <<stageSource, stageDest, stageObj, stageJournal, stageReap, stageBounds>>

\* An upload that reports an error may have stored the object.
StagePutRest(a) ==
    /\ StageAt(a, "put2")
    /\ \/ /\ stageObj' = [stageObj EXCEPT ![a] = <<stageTask[a].chunk, stageSource>>]
          /\ \/ StageGo(a, "verify") /\ UNCHANGED stageFaults
             \/ StageMayFail /\ StageGo(a, "cleanup")
       \/ /\ StageMayFail /\ StageGo(a, "cleanup")
          /\ UNCHANGED stageObj
    /\ UNCHANGED <<stageSource, stageDest, stageJournal, stageReap, stageCrashes>>

\* Faulty: the staged bytes are not checked against the source again.
StageVerifyNothing(a) ==
    /\ StageAt(a, "verify")
    /\ StageGo(a, "publish")
    /\ UNCHANGED <<stageSource, stageDest, stageObj, stageJournal, stageReap, stageBounds>>

\* verify_staged: the source still has the etag of the first probe, and what was
\* written has its digest.
StageVerify(a) ==
    LET v == stageTask[a].before
        same == stageSource = v /\ (StageDigests => stageObj[a] = <<v, v>>) IN
    /\ StageAt(a, "verify")
    /\ StageGo(a, IF same THEN "publish" ELSE "cleanup")
    /\ UNCHANGED <<stageSource, stageDest, stageObj, stageJournal, stageReap, stageBounds>>

\* publish_staged fails when the stage object is gone; any other failure may
\* come before or after the destination was written.
StagePublish(a) ==
    /\ StageAt(a, "publish")
    /\ StageGo(a, "cleanup")
    /\ \/ /\ stageObj[a] # StageNone /\ stageDest' = stageObj[a]
          /\ UNCHANGED stageFaults
       \/ /\ stageObj[a] = StageNone
          /\ UNCHANGED <<stageDest, stageFaults>>
       \/ /\ stageObj[a] # StageNone /\ StageMayFail
          /\ UNCHANGED stageDest
    /\ UNCHANGED <<stageSource, stageObj, stageJournal, stageReap, stageCrashes>>

\* cleanup_now; when the delete fails the lease stays armed and is dropped.
StageCleanup(a) ==
    /\ StageAt(a, "cleanup")
    /\ \/ /\ stageObj' = [stageObj EXCEPT ![a] = StageNone]
          /\ StageGo(a, "clear") /\ UNCHANGED stageFaults
       \/ StageMayFail /\ StageGo(a, "drop") /\ UNCHANGED stageObj
    /\ UNCHANGED <<stageSource, stageDest, stageJournal, stageReap, stageCrashes>>

\* Faulty: the record is cleared although the delete failed.
StageDropDeleteClears(a) ==
    /\ StageAt(a, "drop")
    /\ \/ stageObj' = [stageObj EXCEPT ![a] = StageNone] /\ UNCHANGED stageFaults
       \/ StageMayFail /\ UNCHANGED stageObj
    /\ StageGo(a, "clear")
    /\ UNCHANGED <<stageSource, stageDest, stageJournal, stageReap, stageCrashes>>

\* The task that Drop spawns: a failed delete gives up the lock, not the record.
StageDropDelete(a) ==
    /\ StageAt(a, "drop")
    /\ \/ /\ stageObj' = [stageObj EXCEPT ![a] = StageNone]
          /\ StageGo(a, "clear") /\ UNCHANGED <<stageFlock, stageFaults>>
       \/ /\ StageMayFail /\ StageGo(a, "done")
          /\ stageFlock' = [stageFlock EXCEPT ![a] = FALSE]
          /\ UNCHANGED stageObj
    /\ UNCHANGED <<stageSource, stageDest, stageRecord, stageFile, stageLock, stageReap, stageCrashes>>

\* StageRecord::clear: the record, then the owner file with its lock.
StageClear(a) ==
    /\ StageAt(a, "clear")
    /\ stageRecord' = [stageRecord EXCEPT ![a] = "none"]
    /\ StageGo(a, "unlink")
    /\ UNCHANGED <<stageSource, stageDest, stageObj, stageFile, stageFlock, stageLock,
                   stageReap, stageBounds>>

StageUnlink(a) ==
    /\ StageAt(a, "unlink")
    /\ stageFile' = [stageFile EXCEPT ![a] = FALSE]
    /\ stageFlock' = [stageFlock EXCEPT ![a] = FALSE]
    /\ StageGo(a, "done")
    /\ UNCHANGED <<stageSource, stageDest, stageObj, stageRecord, stageLock, stageReap, stageBounds>>

\* The attempt's timeout, or the caller's cancel, drops the future at an await.
StageDropped(a) ==
    /\ stageTask[a].pc \in {"probe", "get", "put", "put2", "verify", "publish", "cleanup"}
    /\ StageMayFail
    /\ StageGo(a, IF stageTask[a].pc \in {"probe", "get"} THEN "done" ELSE "drop")
    /\ UNCHANGED <<stageSource, stageDest, stageObj, stageJournal, stageReap, stageCrashes>>

\* The process dies: its locks are released, everything else stays.
StageCrash(a) ==
    /\ stageTask[a].pc \notin {"done", "dead"} /\ stageCrashes < StageMaxCrashes
    /\ stageCrashes' = stageCrashes + 1
    /\ StageGo(a, "dead")
    /\ stageFlock' = [stageFlock EXCEPT ![a] = FALSE]
    /\ stageLock' = IF stageLock = a THEN StageNobody ELSE stageLock
    /\ UNCHANGED <<stageSource, stageDest, stageObj, stageRecord, stageFile, stageReap, stageFaults>>
-----------------------------------------------------------------------------
(* reap_abandoned_stages *)

StageAbandoned == {a \in StageAttempts : stageRecord[a] = "json" /\ ~StageOwnerLive(a)}

\* next_abandoned_batch, under the journal lock.  JOURNAL_REAP_BATCH (8) is
\* larger than any instance, so one batch holds every abandoned record; one
\* abandoned later waits for the next reap even if its name sorts after the batch.
StageReapList(r) ==
    /\ stageReap[r].pc = "list" /\ stageLock = StageNobody
    /\ stageReap' = [stageReap EXCEPT ![r] =
           [pc |-> IF StageAbandoned = {} THEN "sweep" ELSE "delete",
            batch |-> StageAbandoned, item |-> StageNobody]]
    /\ UNCHANGED <<stageSource, stageDest, stageObj, stageJournal, stageTask, stageBounds>>

\* The next record of the batch, or the sweep.
StageReapNext(r, a) ==
    [stageReap EXCEPT ![r] =
        [pc |-> IF @.batch = {a} THEN "sweep" ELSE "delete",
         batch |-> @.batch \ {a}, item |-> StageNobody]]

\* Faulty: a delete that fails does not keep the record.
StageReapDeleteAnyway(r, a) ==
    /\ stageReap[r].pc = "delete" /\ a \in stageReap[r].batch
    /\ \/ stageObj' = [stageObj EXCEPT ![a] = StageNone] /\ UNCHANGED stageFaults
       \/ StageMayFail /\ UNCHANGED stageObj
    /\ stageReap' = [stageReap EXCEPT ![r] = [@ EXCEPT !.pc = "forget", !.item = a]]
    /\ UNCHANGED <<stageSource, stageDest, stageJournal, stageTask, stageCrashes>>

\* The stage object is deleted without the lock; a failure skips the record.
StageReapDelete(r, a) ==
    /\ stageReap[r].pc = "delete" /\ a \in stageReap[r].batch
    /\ \/ /\ stageObj' = [stageObj EXCEPT ![a] = StageNone]
          /\ stageReap' = [stageReap EXCEPT ![r] = [@ EXCEPT !.pc = "forget", !.item = a]]
          /\ UNCHANGED stageFaults
       \/ /\ StageMayFail
          /\ stageReap' = StageReapNext(r, a)
          /\ UNCHANGED stageObj
    /\ UNCHANGED <<stageSource, stageDest, stageJournal, stageTask, stageCrashes>>

\* Under the lock again: look at the owner once more, then drop the record and
\* the dead owner's file (release_dead_owner).
StageReapForget(r) ==
    LET a == stageReap[r].item dead == ~StageOwnerLive(stageReap[r].item) IN
    /\ stageReap[r].pc = "forget" /\ stageLock = StageNobody
    /\ stageRecord' = [stageRecord EXCEPT ![a] = IF dead THEN "none" ELSE @]
    /\ stageFile' = [stageFile EXCEPT ![a] = @ /\ ~dead]
    /\ stageReap' = StageReapNext(r, a)
    /\ UNCHANGED <<stageSource, stageDest, stageObj, stageFlock, stageLock, stageTask, stageBounds>>

\* sweep_stage_journal_debris_locked: partials without a live owner, then
\* unlocked owner files that no partial and no record names.
StageSweep(r) ==
    LET kept == [a \in StageAttempts |->
                    IF stageRecord[a] = "partial" /\ ~StageOwnerLive(a) THEN "none" ELSE stageRecord[a]]
    IN
    /\ stageReap[r].pc = "sweep" /\ stageLock = StageNobody
    /\ stageRecord' = kept
    /\ stageFile' = [a \in StageAttempts |-> stageFile[a] /\ (stageFlock[a] \/ kept[a] # "none")]
    /\ stageReap' = [stageReap EXCEPT ![r].pc = "list"]
    /\ UNCHANGED <<stageSource, stageDest, stageObj, stageFlock, stageLock, stageTask, stageBounds>>

\* Somebody overwrites the source.
StageOverwrite ==
    /\ stageSource < StageMaxVersion
    /\ stageSource' = stageSource + 1
    /\ UNCHANGED <<stageDest, stageObj, stageJournal, stageTask, stageReap, stageBounds>>

StageStep(a) ==
    \/ StageProbe(a) \/ StageGet(a) \/ StageArm(a) \/ StageOpen(a) \/ StageFlock(a)
    \/ StagePartial(a) \/ StageRename(a) \/ StagePutFirst(a) \/ StagePutRest(a)
    \/ StageVerify(a) \/ StagePublish(a) \/ StageCleanup(a) \/ StageDropDelete(a)
    \/ StageClear(a) \/ StageUnlink(a)

StageReapStep(r) ==
    \/ StageReapList(r) \/ StageReapForget(r) \/ StageSweep(r)
    \/ \E a \in StageAttempts : StageReapDelete(r, a)

StageNext ==
    \/ \E a \in StageAttempts : StageStep(a) \/ StageDropped(a) \/ StageCrash(a)
    \/ \E r \in StageReapers : StageReapStep(r)
    \/ StageOverwrite

StageSpec == StageInit /\ [][StageNext]_stageVars

\* Attempts run on, and transfers, which reap first, keep being started.
StageFairness ==
    /\ \A a \in StageAttempts : WF_stageVars(StageStep(a))
    /\ \A r \in StageReapers : WF_stageVars(StageReapStep(r))
-----------------------------------------------------------------------------
(* Properties *)

StageTypeOK ==
    /\ stageSource \in StageVersions
    /\ stageDest \in StageBody \cup {StageNone}
    /\ stageObj \in [StageAttempts -> StageBody \cup {StageNone}]
    /\ stageRecord \in [StageAttempts -> {"none", "partial", "json"}]
    /\ stageFile \in [StageAttempts -> BOOLEAN]
    /\ stageFlock \in [StageAttempts -> BOOLEAN]
    /\ stageLock \in StageAttempts \cup {StageNobody}
    /\ stageTask \in [StageAttempts -> [pc : StagePc, before : 0..StageMaxVersion,
                                        chunk : 0..StageMaxVersion]]
    /\ stageReap \in [StageReapers -> [pc : StageReapPc, batch : SUBSET StageAttempts,
                                       item : StageAttempts \cup {StageNobody}]]
    /\ stageCrashes \in 0..StageMaxCrashes /\ stageFaults \in 0..StageMaxFaults

\* No reaper deletes the stage of an attempt that still needs it: from the end
\* of its upload to its publication the stage object is there (the journal lock
\* covers the owner file from its open to its flock).
StageReaperSparesLive ==
    \A a \in StageAttempts : stageTask[a].pc \in {"verify", "publish"} => stageObj[a] # StageNone

\* Every stage object on the destination has a journal record, at every moment
\* a crash can choose: an object without one would stay there for ever.
StageJournalled ==
    \A a \in StageAttempts : stageObj[a] # StageNone => stageRecord[a] = "json"

\* What is published is one version of the source, never chunks of two, even
\* when the source is overwritten between any two calls of the transfer.
StagePublishedWhole == stageDest[1] = stageDest[2]

(* The inductive invariant. *)

\* journal.lock is held exactly between an attempt's arming and its flock.
StageLockHeld ==
    \A a \in StageAttempts : stageLock = a <=> stageTask[a].pc \in {"open", "flock"}

\* From its flock to the end of its cleanup an attempt's owner file is linked
\* and locked: no sweep unlinks it in between.
StageOwnerKept ==
    \A a \in StageAttempts :
        /\ stageTask[a].pc = "flock" => stageFile[a]
        /\ stageTask[a].pc \in {"partial", "rename", "put", "put2", "verify", "publish",
                               "cleanup", "drop", "clear", "unlink"} => StageOwnerLive(a)

\* The record is there for as long as the attempt may have a stage object.
StageRecordKept ==
    \A a \in StageAttempts :
        /\ stageTask[a].pc \in {"put", "put2", "verify", "publish", "cleanup", "drop", "clear"}
              => stageRecord[a] = "json"
        /\ stageTask[a].pc \in {"probe", "get", "arm", "open", "flock", "partial", "unlink"}
              => stageRecord[a] = "none"
        /\ stageTask[a].pc = "rename" => stageRecord[a] = "partial"
        /\ stageTask[a].pc \in {"put", "put2", "clear"} => stageObj[a] = StageNone

\* Versions only grow, so a chunk read between two equal etags has that version.
StageOrdered ==
    \A a \in StageAttempts :
        /\ stageTask[a].before <= stageSource
        /\ stageTask[a].pc = "put2" =>
              /\ stageTask[a].chunk \in StageVersions
              /\ stageTask[a].before <= stageTask[a].chunk /\ stageTask[a].chunk <= stageSource
        /\ stageTask[a].pc = "verify" =>
              /\ stageTask[a].before <= stageObj[a][1]
              /\ stageObj[a][1] <= stageObj[a][2] /\ stageObj[a][2] <= stageSource
        /\ stageTask[a].pc = "publish" => stageObj[a][1] = stageObj[a][2]

\* A reaper's batch holds only stages whose attempt has ended, however long ago
\* it listed them; the record it forgets has no object any more.
StageBatchEnded ==
    \A r \in StageReapers :
        /\ stageReap[r].pc \in {"delete", "forget"} =>
              \A a \in stageReap[r].batch : stageTask[a].pc \in {"done", "dead"}
        /\ stageReap[r].pc = "forget" =>
              stageReap[r].item \in stageReap[r].batch /\ stageObj[stageReap[r].item] = StageNone

\* Together with the properties above these are inductive.
StageInv ==
    /\ StageTypeOK /\ StageLockHeld /\ StageOwnerKept /\ StageRecordKept /\ StageOrdered
    /\ StageBatchEnded /\ StageReaperSparesLive /\ StageJournalled /\ StagePublishedWhole

\* The stage of a crashed process, and of an attempt whose deletes failed, is
\* deleted in the end as long as transfers that share the journal are started.
StageReaped ==
    <>[](\A a \in StageAttempts : stageTask[a].pc \in {"dead", "done"} => stageObj[a] = StageNone)
=============================================================================
