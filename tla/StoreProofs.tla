---------------------------- MODULE StoreProofs -----------------------------
(***************************************************************************)
(* Proofs about three services that keep durable state and share none: the *)
(* transfer of staged files, the control-plane documents and the backup    *)
(* repository, for any values of the constants.  For each, its inductive   *)
(* invariant holds at first, is kept by each action (a lemma per action,   *)
(* where an action with two outcomes is first reduced to what both of them *)
(* do), and implies the properties that the runs of MCServices check.      *)
(***************************************************************************)
EXTENDS StageTransfer, ConfigDocuments, BackupRepository, FiniteSetTheorems, TLAPS

-----------------------------------------------------------------------------
(* Storage transfer: for any number of attempts, reapers, versions, crashes *)
(* and failures, with digests and without, StageInv is inductive.           *)

USE DEF StageAt, StageGo, StageMayFail, stageJournal, stageBounds

\* Moving an attempt to another place changes nothing else of any attempt.
LEMMA StageGoEffect ==
    ASSUME StageTypeOK, NEW a \in StageAttempts, NEW pc \in StagePc, StageGo(a, pc)
    PROVE  /\ stageTask' \in [StageAttempts -> [pc : StagePc, before : 0..StageMaxVersion,
                                                chunk : 0..StageMaxVersion]]
           /\ stageTask'[a].pc = pc
           /\ stageTask'[a].before = stageTask[a].before
           /\ stageTask'[a].chunk = stageTask[a].chunk
           /\ \A b \in StageAttempts \ {a} : stageTask'[b] = stageTask[b]
BY DEF StageTypeOK

\* A failure is counted, up to the bound.
LEMMA StageFaultType ==
    ASSUME StageTypeOK, StageMayFail \/ UNCHANGED stageFaults
    PROVE  stageFaults' \in 0..StageMaxFaults
BY StageAssumption DEF StageTypeOK
-----------------------------------------------------------------------------
(* Attempts *)

\* The first probe: the attempt remembers the version of the source.
LEMMA StageProbeInv ==
    ASSUME StageInv, NEW a \in StageAttempts, StageProbe(a)
    PROVE  StageInv'
<1>1. StageTypeOK'
    <2> DEFINE Task == [pc : StagePc, before : 0..StageMaxVersion, chunk : 0..StageMaxVersion]
               t == [stageTask[a] EXCEPT !.before = stageSource, !.pc =
                      IF StageDigests /\ stageDest = <<stageSource, stageSource>> THEN "done" ELSE "get"]
    <2>1. stageSource \in 0..StageMaxVersion /\ stageTask \in [StageAttempts -> Task]
        BY StageAssumption DEF StageInv, StageTypeOK, StageVersions
    <2>2. t \in Task
        BY <2>1 DEF StagePc
    <2>3. stageTask' = [stageTask EXCEPT ![a] = t]
        BY DEF StageProbe
    <2>4. stageTask' \in [StageAttempts -> Task]
        BY <2>1, <2>2, <2>3
    <2>q. QED BY <2>4 DEF StageInv, StageTypeOK, StageProbe
<1>2. StageLockHeld' /\ StageOwnerKept'
    BY StageAssumption DEF StageInv, StageTypeOK, StageLockHeld, StageOwnerKept,
           StageOwnerLive, StageProbe
<1>3. StageRecordKept' /\ StageJournalled'
    BY DEF StageInv, StageTypeOK, StageRecordKept, StageJournalled, StageOwnerKept,
           StageOwnerLive, StageNone, StageBatchEnded, StageVersions, StageBody, StageProbe
<1>4. StageOrdered' /\ StagePublishedWhole'
    BY DEF StageInv, StageTypeOK, StageOrdered, StagePublishedWhole, StageVersions,
           StageBody, StageNone, StageProbe
<1>5. StageReaperSparesLive'
    BY DEF StageInv, StageTypeOK, StageReaperSparesLive, StageBatchEnded, StageRecordKept,
           StageVersions, StageBody, StageNone, StageProbe
<1>6. StageBatchEnded'
    BY DEF StageInv, StageTypeOK, StageBatchEnded, StageOwnerKept, StageRecordKept,
           StageOwnerLive, StageNone, StagePc, StageProbe
<1>q. QED BY <1>1, <1>2, <1>3, <1>4, <1>5, <1>6 DEF StageInv

\* The source is opened at the probed etag.
LEMMA StageGetInv ==
    ASSUME StageInv, NEW a \in StageAttempts, StageGet(a)
    PROVE  StageInv'
<1>1. StageTypeOK'
    BY StageAssumption DEF StageInv, StageTypeOK, StagePc, StageReapPc, StageVersions,
           StageNone, StageBody, StageGet
<1>2. StageLockHeld' /\ StageOwnerKept'
    BY StageAssumption DEF StageInv, StageTypeOK, StageLockHeld, StageOwnerKept,
           StageOwnerLive, StageGet
<1>3. StageRecordKept' /\ StageJournalled'
    BY DEF StageInv, StageTypeOK, StageRecordKept, StageJournalled, StageOwnerKept,
           StageOwnerLive, StageNone, StageBatchEnded, StageVersions, StageBody, StageGet
<1>4. StageOrdered' /\ StagePublishedWhole'
    BY DEF StageInv, StageTypeOK, StageOrdered, StagePublishedWhole, StageVersions,
           StageBody, StageNone, StageGet
<1>5. StageReaperSparesLive'
    BY DEF StageInv, StageTypeOK, StageReaperSparesLive, StageBatchEnded, StageRecordKept,
           StageVersions, StageBody, StageNone, StageGet
<1>6. StageBatchEnded'
    BY DEF StageInv, StageTypeOK, StageBatchEnded, StageOwnerKept, StageRecordKept,
           StageOwnerLive, StageNone, StagePc, StageGet
<1>q. QED BY <1>1, <1>2, <1>3, <1>4, <1>5, <1>6 DEF StageInv

\* Arming takes the journal lock.
LEMMA StageArmInv ==
    ASSUME StageInv, NEW a \in StageAttempts, StageArm(a)
    PROVE  StageInv'
<1>1. StageTypeOK'
    BY StageAssumption DEF StageInv, StageTypeOK, StagePc, StageReapPc, StageVersions,
           StageNone, StageBody, StageArm
<1>2. StageLockHeld' /\ StageOwnerKept'
    BY StageAssumption DEF StageInv, StageTypeOK, StageLockHeld, StageOwnerKept,
           StageOwnerLive, StageArm
<1>3. StageRecordKept' /\ StageJournalled'
    BY DEF StageInv, StageTypeOK, StageRecordKept, StageJournalled, StageOwnerKept,
           StageOwnerLive, StageNone, StageBatchEnded, StageVersions, StageBody, StageArm
<1>4. StageOrdered' /\ StagePublishedWhole'
    BY DEF StageInv, StageTypeOK, StageOrdered, StagePublishedWhole, StageVersions,
           StageBody, StageNone, StageArm
<1>5. StageReaperSparesLive'
    BY DEF StageInv, StageTypeOK, StageReaperSparesLive, StageBatchEnded, StageRecordKept,
           StageVersions, StageBody, StageNone, StageArm
<1>6. StageBatchEnded'
    BY DEF StageInv, StageTypeOK, StageBatchEnded, StageOwnerKept, StageRecordKept,
           StageOwnerLive, StageNone, StagePc, StageArm
<1>q. QED BY <1>1, <1>2, <1>3, <1>4, <1>5, <1>6 DEF StageInv

\* The owner file appears under the journal lock.
LEMMA StageOpenInv ==
    ASSUME StageInv, NEW a \in StageAttempts, StageOpen(a)
    PROVE  StageInv'
<1>1. StageTypeOK'
    BY StageAssumption DEF StageInv, StageTypeOK, StagePc, StageReapPc, StageVersions,
           StageNone, StageBody, StageOpen
<1>2. StageLockHeld' /\ StageOwnerKept'
    BY StageAssumption DEF StageInv, StageTypeOK, StageLockHeld, StageOwnerKept,
           StageOwnerLive, StageOpen
<1>3. StageRecordKept' /\ StageJournalled'
    BY DEF StageInv, StageTypeOK, StageRecordKept, StageJournalled, StageOwnerKept,
           StageOwnerLive, StageNone, StageBatchEnded, StageVersions, StageBody, StageOpen
<1>4. StageOrdered' /\ StagePublishedWhole'
    BY DEF StageInv, StageTypeOK, StageOrdered, StagePublishedWhole, StageVersions,
           StageBody, StageNone, StageOpen
<1>5. StageReaperSparesLive'
    BY DEF StageInv, StageTypeOK, StageReaperSparesLive, StageBatchEnded, StageRecordKept,
           StageVersions, StageBody, StageNone, StageOpen
<1>6. StageBatchEnded'
    BY DEF StageInv, StageTypeOK, StageBatchEnded, StageOwnerKept, StageRecordKept,
           StageOwnerLive, StageNone, StagePc, StageOpen
<1>q. QED BY <1>1, <1>2, <1>3, <1>4, <1>5, <1>6 DEF StageInv

\* The flock ends the critical section of arming.
LEMMA StageFlockInv ==
    ASSUME StageInv, NEW a \in StageAttempts, StageFlock(a)
    PROVE  StageInv'
<1>1. StageTypeOK'
    BY StageAssumption DEF StageInv, StageTypeOK, StagePc, StageReapPc, StageVersions,
           StageNone, StageBody, StageFlock
<1>2. StageLockHeld' /\ StageOwnerKept'
    BY StageAssumption DEF StageInv, StageTypeOK, StageLockHeld, StageOwnerKept,
           StageOwnerLive, StageFlock
<1>3. StageRecordKept' /\ StageJournalled'
    BY DEF StageInv, StageTypeOK, StageRecordKept, StageJournalled, StageOwnerKept,
           StageOwnerLive, StageNone, StageBatchEnded, StageVersions, StageBody, StageFlock
<1>4. StageOrdered' /\ StagePublishedWhole'
    BY DEF StageInv, StageTypeOK, StageOrdered, StagePublishedWhole, StageVersions,
           StageBody, StageNone, StageFlock
<1>5. StageReaperSparesLive'
    BY DEF StageInv, StageTypeOK, StageReaperSparesLive, StageBatchEnded, StageRecordKept,
           StageVersions, StageBody, StageNone, StageFlock
<1>6. StageBatchEnded'
    BY DEF StageInv, StageTypeOK, StageBatchEnded, StageOwnerKept, StageRecordKept,
           StageOwnerLive, StageNone, StagePc, StageFlock
<1>q. QED BY <1>1, <1>2, <1>3, <1>4, <1>5, <1>6 DEF StageInv

\* Writing the partial and renaming it: an error removes record, file and lock.
LEMMA StagePublishRecordInv ==
    ASSUME StageInv, NEW a \in StageAttempts, StagePartial(a) \/ StageRename(a)
    PROVE  StageInv'
<1>1. PICK from, to, next \in {"partial", "rename", "json", "put"} :
          /\ <<from, to, next>> \in {<<"partial", "partial", "rename">>, <<"rename", "json", "put">>}
          /\ StagePublishRecord(a, from, to, next)
    BY DEF StagePartial, StageRename
<1>2. CASE /\ stageRecord' = [stageRecord EXCEPT ![a] = to] /\ StageGo(a, next)
           /\ UNCHANGED <<stageFile, stageFlock, stageFaults>>
    <2> USE <1>1, <1>2 DEF StageInv, StagePublishRecord
    <2>1. next \in StagePc /\ to \in {"none", "partial", "json"}
        BY DEF StagePc
    <2>2. StageTypeOK'
        BY <2>1, StageGoEffect DEF StageTypeOK
    <2>3. StageLockHeld' /\ StageOwnerKept'
        BY <2>1, StageGoEffect DEF StageTypeOK, StageLockHeld, StageOwnerKept, StageOwnerLive
    <2>4. stageObj[a] = StageNone
        BY DEF StageTypeOK, StageRecordKept, StageJournalled
    <2>5. StageRecordKept' /\ StageJournalled'
        BY <2>1, <2>4, StageGoEffect DEF StageTypeOK, StageRecordKept, StageJournalled
    <2>6. StageOrdered' /\ StagePublishedWhole' /\ StageReaperSparesLive'
        BY <2>1, StageGoEffect
        DEF StageTypeOK, StageOrdered, StagePublishedWhole, StageReaperSparesLive
    <2>7. StageBatchEnded'
        BY <2>1, StageGoEffect DEF StageTypeOK, StageBatchEnded
    <2>q. QED BY <2>2, <2>3, <2>5, <2>6, <2>7
<1>3. CASE /\ StageMayFail
           /\ stageRecord' = [stageRecord EXCEPT ![a] = "none"]
           /\ stageFile' = [stageFile EXCEPT ![a] = FALSE]
           /\ stageFlock' = [stageFlock EXCEPT ![a] = FALSE]
           /\ StageGo(a, "done")
    <2> USE <1>1, <1>3 DEF StageInv, StagePublishRecord
    <2>1. "done" \in StagePc
        BY DEF StagePc
    <2>2. StageTypeOK'
        BY <2>1, StageGoEffect, StageFaultType DEF StageTypeOK
    <2>3. StageLockHeld' /\ StageOwnerKept'
        BY <2>1, StageGoEffect DEF StageTypeOK, StageLockHeld, StageOwnerKept, StageOwnerLive
    <2>4. stageObj[a] = StageNone
        BY DEF StageTypeOK, StageRecordKept, StageJournalled
    <2>5. StageRecordKept' /\ StageJournalled'
        BY <2>1, <2>4, StageGoEffect DEF StageTypeOK, StageRecordKept, StageJournalled
    <2>6. StageOrdered' /\ StagePublishedWhole' /\ StageReaperSparesLive'
        BY <2>1, StageGoEffect
        DEF StageTypeOK, StageOrdered, StagePublishedWhole, StageReaperSparesLive
    <2>7. StageBatchEnded'
        BY <2>1, StageGoEffect DEF StageTypeOK, StageBatchEnded
    <2>q. QED BY <2>2, <2>3, <2>5, <2>6, <2>7
<1>q. QED BY <1>1, <1>2, <1>3 DEF StagePublishRecord

\* The first chunk has the version the source has now.
LEMMA StagePutFirstInv ==
    ASSUME StageInv, NEW a \in StageAttempts, StagePutFirst(a)
    PROVE  StageInv'
<1>1. StageTypeOK'
    <2> DEFINE Task == [pc : StagePc, before : 0..StageMaxVersion, chunk : 0..StageMaxVersion]
               t == [stageTask[a] EXCEPT !.chunk = stageSource, !.pc = "put2"]
    <2>1. stageSource \in 0..StageMaxVersion /\ stageTask \in [StageAttempts -> Task]
        BY StageAssumption DEF StageInv, StageTypeOK, StageVersions
    <2>2. t \in Task
        BY <2>1 DEF StagePc
    <2>3. stageTask' = [stageTask EXCEPT ![a] = t]
        BY DEF StagePutFirst
    <2>4. stageTask' \in [StageAttempts -> Task]
        BY <2>1, <2>2, <2>3
    <2>q. QED BY <2>4 DEF StageInv, StageTypeOK, StagePutFirst
<1>2. StageLockHeld' /\ StageOwnerKept'
    BY StageAssumption DEF StageInv, StageTypeOK, StageLockHeld, StageOwnerKept,
           StageOwnerLive, StagePutFirst
<1>3. StageRecordKept' /\ StageJournalled'
    BY DEF StageInv, StageTypeOK, StageRecordKept, StageJournalled, StageOwnerKept,
           StageOwnerLive, StageNone, StageBatchEnded, StageVersions, StageBody,
           StagePutFirst
<1>4. StageOrdered' /\ StagePublishedWhole'
    BY DEF StageInv, StageTypeOK, StageOrdered, StagePublishedWhole, StageVersions,
           StageBody, StageNone, StagePutFirst
<1>5. StageReaperSparesLive'
    BY DEF StageInv, StageTypeOK, StageReaperSparesLive, StageBatchEnded, StageRecordKept,
           StageVersions, StageBody, StageNone, StagePutFirst
<1>6. StageBatchEnded'
    BY DEF StageInv, StageTypeOK, StageBatchEnded, StageOwnerKept, StageRecordKept,
           StageOwnerLive, StageNone, StagePc, StagePutFirst
<1>q. QED BY <1>1, <1>2, <1>3, <1>4, <1>5, <1>6 DEF StageInv

\* The end of the upload: the object appears, or an error leaves it to the cleanup.
LEMMA StagePutRestInv ==
    ASSUME StageInv, NEW a \in StageAttempts, StagePutRest(a)
    PROVE  StageInv'
<1> DEFINE body == <<stageTask[a].chunk, stageSource>>
<1> USE DEF StageInv, StagePutRest
<1>1. PICK next \in {"verify", "cleanup"}, obj \in {body, stageObj[a]} :
          /\ StageGo(a, next)
          /\ stageObj' = [stageObj EXCEPT ![a] = obj]
          /\ next = "verify" => obj = body
          /\ StageMayFail \/ UNCHANGED stageFaults
    BY DEF StageTypeOK
<1>2. body \in StageBody /\ body # StageNone
    BY StageAssumption DEF StageTypeOK, StageOrdered, StageBody, StageVersions, StageNone
<1>3. next \in StagePc /\ obj \in StageBody \cup {StageNone}
    BY <1>2 DEF StagePc, StageTypeOK
<1>4. /\ stageTask'[a].pc = next /\ stageTask'[a].before = stageTask[a].before
      /\ \A b \in StageAttempts \ {a} : stageTask'[b] = stageTask[b] /\ stageObj'[b] = stageObj[b]
      /\ stageObj'[a] = obj
    BY <1>1, <1>3, StageGoEffect DEF StageTypeOK
<1>5. StageTypeOK'
    BY <1>1, <1>3, StageGoEffect, StageFaultType DEF StageTypeOK
<1>6. StageLockHeld' /\ StageOwnerKept'
    BY <1>4 DEF StageLockHeld, StageOwnerKept, StageOwnerLive
<1>7. StageRecordKept' /\ StageJournalled'
    BY <1>4 DEF StageRecordKept, StageJournalled
<1>8. StageOrdered' /\ StagePublishedWhole'
    <2>1. next = "verify" => obj[1] = stageTask[a].chunk /\ obj[2] = stageSource
        BY <1>1
    <2>q. QED
        BY <1>4, <2>1, StageAssumption DEF StageTypeOK, StageOrdered, StagePublishedWhole, StageVersions
<1>9. StageReaperSparesLive'
    BY <1>1, <1>2, <1>4 DEF StageReaperSparesLive
<1>10. StageBatchEnded'
    BY <1>4 DEF StageTypeOK, StageBatchEnded
<1>q. QED BY <1>5, <1>6, <1>7, <1>8, <1>9, <1>10

\* The etag check: between two equal etags lies one version.
LEMMA StageVerifyInv ==
    ASSUME StageInv, NEW a \in StageAttempts, StageVerify(a)
    PROVE  StageInv'
<1>1. StageTypeOK'
    BY StageAssumption DEF StageInv, StageTypeOK, StagePc, StageReapPc, StageVersions,
           StageNone, StageBody, StageVerify
<1>2. StageLockHeld' /\ StageOwnerKept'
    BY StageAssumption DEF StageInv, StageTypeOK, StageLockHeld, StageOwnerKept,
           StageOwnerLive, StageVerify
<1>3. StageRecordKept' /\ StageJournalled'
    BY DEF StageInv, StageTypeOK, StageRecordKept, StageJournalled, StageOwnerKept,
           StageOwnerLive, StageNone, StageBatchEnded, StageVersions, StageBody, StageVerify
<1>4. StageOrdered' /\ StagePublishedWhole'
    <2>1. stageTask'[a].pc = "publish" => stageSource = stageTask[a].before
        BY DEF StageInv, StageTypeOK, StageVerify
    <2>2. stageObj[a] # StageNone /\ stageObj[a] \in StageBody
        BY DEF StageInv, StageTypeOK, StageReaperSparesLive, StageVerify
    <2>3. stageObj[a][1] \in Nat /\ stageObj[a][2] \in Nat /\ stageSource \in Nat
        BY <2>2 DEF StageInv, StageTypeOK, StageBody, StageVersions
    <2>4. /\ stageTask[a].before <= stageObj[a][1]
          /\ stageObj[a][1] <= stageObj[a][2] /\ stageObj[a][2] <= stageSource
        BY DEF StageInv, StageOrdered, StageVerify
    <2>5. stageTask'[a].pc = "publish" => stageObj[a][1] = stageObj[a][2]
        BY <2>1, <2>3, <2>4
    <2>q. QED
        BY <2>5 DEF StageInv, StageTypeOK, StageOrdered, StagePublishedWhole, StageVerify
<1>5. StageReaperSparesLive'
    BY DEF StageInv, StageTypeOK, StageReaperSparesLive, StageBatchEnded, StageRecordKept,
           StageVersions, StageBody, StageNone, StageVerify
<1>6. StageBatchEnded'
    BY DEF StageInv, StageTypeOK, StageBatchEnded, StageOwnerKept, StageRecordKept,
           StageOwnerLive, StageNone, StagePc, StageVerify
<1>q. QED BY <1>1, <1>2, <1>3, <1>4, <1>5, <1>6 DEF StageInv

\* Publication copies the stage object, which has one version.
LEMMA StagePublishInv ==
    ASSUME StageInv, NEW a \in StageAttempts, StagePublish(a)
    PROVE  StageInv'
<1>1. StageTypeOK'
    BY StageAssumption DEF StageInv, StageTypeOK, StagePc, StageReapPc, StageVersions,
           StageNone, StageBody, StagePublish
<1>2. StageLockHeld' /\ StageOwnerKept'
    BY StageAssumption DEF StageInv, StageTypeOK, StageLockHeld, StageOwnerKept,
           StageOwnerLive, StagePublish
<1>3. StageRecordKept' /\ StageJournalled'
    BY DEF StageInv, StageTypeOK, StageRecordKept, StageJournalled, StageOwnerKept,
           StageOwnerLive, StageNone, StageBatchEnded, StageVersions, StageBody,
           StagePublish
<1>4. StageOrdered' /\ StagePublishedWhole'
    BY DEF StageInv, StageTypeOK, StageOrdered, StagePublishedWhole, StageVersions,
           StageBody, StageNone, StagePublish
<1>5. StageReaperSparesLive'
    BY DEF StageInv, StageTypeOK, StageReaperSparesLive, StageBatchEnded, StageRecordKept,
           StageVersions, StageBody, StageNone, StagePublish
<1>6. StageBatchEnded'
    BY DEF StageInv, StageTypeOK, StageBatchEnded, StageOwnerKept, StageRecordKept,
           StageOwnerLive, StageNone, StagePc, StagePublish
<1>q. QED BY <1>1, <1>2, <1>3, <1>4, <1>5, <1>6 DEF StageInv

\* cleanup_now: the object is deleted, or the lease is dropped armed.
LEMMA StageCleanupInv ==
    ASSUME StageInv, NEW a \in StageAttempts, StageCleanup(a)
    PROVE  StageInv'
<1> USE DEF StageInv, StageCleanup
<1>1. PICK next \in {"clear", "drop"}, obj \in {StageNone, stageObj[a]} :
          /\ StageGo(a, next)
          /\ stageObj' = [stageObj EXCEPT ![a] = obj]
          /\ next = "clear" => obj = StageNone
          /\ StageMayFail \/ UNCHANGED stageFaults
    BY DEF StageTypeOK
<1>2. next \in StagePc /\ obj \in StageBody \cup {StageNone}
    BY DEF StagePc, StageTypeOK
<1>3. /\ stageTask'[a].pc = next /\ stageTask'[a].before = stageTask[a].before
      /\ \A b \in StageAttempts \ {a} : stageTask'[b] = stageTask[b] /\ stageObj'[b] = stageObj[b]
      /\ stageObj'[a] = obj
    BY <1>1, <1>2, StageGoEffect DEF StageTypeOK
<1>4. StageTypeOK'
    BY <1>1, <1>2, StageGoEffect, StageFaultType DEF StageTypeOK
<1>5. StageLockHeld' /\ StageOwnerKept'
    BY <1>3 DEF StageLockHeld, StageOwnerKept, StageOwnerLive
<1>6. StageRecordKept' /\ StageJournalled'
    BY <1>1, <1>3 DEF StageRecordKept, StageJournalled
<1>7. StageOrdered' /\ StagePublishedWhole' /\ StageReaperSparesLive'
    BY <1>3 DEF StageOrdered, StagePublishedWhole, StageReaperSparesLive
<1>8. StageBatchEnded'
    BY <1>1, <1>3 DEF StageTypeOK, StageBatchEnded
<1>q. QED BY <1>4, <1>5, <1>6, <1>7, <1>8

\* The delete of a dropped lease: it goes on to clear, or gives up the flock.
LEMMA StageDropDeleteInv ==
    ASSUME StageInv, NEW a \in StageAttempts, StageDropDelete(a)
    PROVE  StageInv'
<1> USE DEF StageInv, StageDropDelete
<1>1. PICK next \in {"clear", "done"}, obj \in {StageNone, stageObj[a]}, held \in {FALSE, stageFlock[a]} :
          /\ StageGo(a, next)
          /\ stageObj' = [stageObj EXCEPT ![a] = obj]
          /\ stageFlock' = [stageFlock EXCEPT ![a] = held]
          /\ next = "clear" => obj = StageNone /\ held = stageFlock[a]
          /\ StageMayFail \/ UNCHANGED stageFaults
    BY DEF StageTypeOK
<1>2. next \in StagePc /\ obj \in StageBody \cup {StageNone}
    BY DEF StagePc, StageTypeOK
<1>3. /\ stageTask'[a].pc = next /\ stageTask'[a].before = stageTask[a].before
      /\ \A b \in StageAttempts \ {a} : /\ stageTask'[b] = stageTask[b]
                                        /\ stageObj'[b] = stageObj[b]
                                        /\ stageFlock'[b] = stageFlock[b]
      /\ stageObj'[a] = obj /\ stageFlock'[a] = held
    BY <1>1, <1>2, StageGoEffect DEF StageTypeOK
<1>4. StageTypeOK'
    BY <1>1, <1>2, StageGoEffect, StageFaultType DEF StageTypeOK
<1>5. StageLockHeld' /\ StageOwnerKept'
    BY <1>1, <1>3 DEF StageLockHeld, StageOwnerKept, StageOwnerLive
<1>6. StageRecordKept' /\ StageJournalled'
    BY <1>1, <1>3 DEF StageRecordKept, StageJournalled
<1>7. StageOrdered' /\ StagePublishedWhole' /\ StageReaperSparesLive'
    BY <1>3 DEF StageOrdered, StagePublishedWhole, StageReaperSparesLive
<1>8. StageBatchEnded'
    BY <1>1, <1>3 DEF StageTypeOK, StageBatchEnded
<1>q. QED BY <1>4, <1>5, <1>6, <1>7, <1>8

\* The record is dropped after its object is.
LEMMA StageClearInv ==
    ASSUME StageInv, NEW a \in StageAttempts, StageClear(a)
    PROVE  StageInv'
<1>1. StageTypeOK'
    BY StageAssumption DEF StageInv, StageTypeOK, StagePc, StageReapPc, StageVersions,
           StageNone, StageBody, StageClear
<1>2. StageLockHeld' /\ StageOwnerKept'
    BY StageAssumption DEF StageInv, StageTypeOK, StageLockHeld, StageOwnerKept,
           StageOwnerLive, StageClear
<1>3. StageRecordKept' /\ StageJournalled'
    BY DEF StageInv, StageTypeOK, StageRecordKept, StageJournalled, StageOwnerKept,
           StageOwnerLive, StageNone, StageBatchEnded, StageVersions, StageBody, StageClear
<1>4. StageOrdered' /\ StagePublishedWhole'
    BY DEF StageInv, StageTypeOK, StageOrdered, StagePublishedWhole, StageVersions,
           StageBody, StageNone, StageClear
<1>5. StageReaperSparesLive'
    BY DEF StageInv, StageTypeOK, StageReaperSparesLive, StageBatchEnded, StageRecordKept,
           StageVersions, StageBody, StageNone, StageClear
<1>6. StageBatchEnded'
    BY DEF StageInv, StageTypeOK, StageBatchEnded, StageOwnerKept, StageRecordKept,
           StageOwnerLive, StageNone, StagePc, StageClear
<1>q. QED BY <1>1, <1>2, <1>3, <1>4, <1>5, <1>6 DEF StageInv

\* The owner file goes last.
LEMMA StageUnlinkInv ==
    ASSUME StageInv, NEW a \in StageAttempts, StageUnlink(a)
    PROVE  StageInv'
<1>1. StageTypeOK'
    BY StageAssumption DEF StageInv, StageTypeOK, StagePc, StageReapPc, StageVersions,
           StageNone, StageBody, StageUnlink
<1>2. StageLockHeld' /\ StageOwnerKept'
    BY StageAssumption DEF StageInv, StageTypeOK, StageLockHeld, StageOwnerKept,
           StageOwnerLive, StageUnlink
<1>3. StageRecordKept' /\ StageJournalled'
    BY DEF StageInv, StageTypeOK, StageRecordKept, StageJournalled, StageOwnerKept,
           StageOwnerLive, StageNone, StageBatchEnded, StageVersions, StageBody, StageUnlink
<1>4. StageOrdered' /\ StagePublishedWhole'
    BY DEF StageInv, StageTypeOK, StageOrdered, StagePublishedWhole, StageVersions,
           StageBody, StageNone, StageUnlink
<1>5. StageReaperSparesLive'
    BY DEF StageInv, StageTypeOK, StageReaperSparesLive, StageBatchEnded, StageRecordKept,
           StageVersions, StageBody, StageNone, StageUnlink
<1>6. StageBatchEnded'
    BY DEF StageInv, StageTypeOK, StageBatchEnded, StageOwnerKept, StageRecordKept,
           StageOwnerLive, StageNone, StagePc, StageUnlink
<1>q. QED BY <1>1, <1>2, <1>3, <1>4, <1>5, <1>6 DEF StageInv

\* A dropped future continues in the task its lease spawns.
LEMMA StageDroppedInv ==
    ASSUME StageInv, NEW a \in StageAttempts, StageDropped(a)
    PROVE  StageInv'
<1>1. StageTypeOK'
    BY StageAssumption DEF StageInv, StageTypeOK, StagePc, StageReapPc, StageVersions,
           StageNone, StageBody, StageDropped
<1>2. StageLockHeld' /\ StageOwnerKept'
    BY StageAssumption DEF StageInv, StageTypeOK, StageLockHeld, StageOwnerKept,
           StageOwnerLive, StageDropped
<1>3. StageRecordKept' /\ StageJournalled'
    BY DEF StageInv, StageTypeOK, StageRecordKept, StageJournalled, StageOwnerKept,
           StageOwnerLive, StageNone, StageBatchEnded, StageVersions, StageBody,
           StageDropped
<1>4. StageOrdered' /\ StagePublishedWhole'
    BY DEF StageInv, StageTypeOK, StageOrdered, StagePublishedWhole, StageVersions,
           StageBody, StageNone, StageDropped
<1>5. StageReaperSparesLive'
    BY DEF StageInv, StageTypeOK, StageReaperSparesLive, StageBatchEnded, StageRecordKept,
           StageVersions, StageBody, StageNone, StageDropped
<1>6. StageBatchEnded'
    BY DEF StageInv, StageTypeOK, StageBatchEnded, StageOwnerKept, StageRecordKept,
           StageOwnerLive, StageNone, StagePc, StageDropped
<1>q. QED BY <1>1, <1>2, <1>3, <1>4, <1>5, <1>6 DEF StageInv

\* A crash releases the locks and keeps the files.
LEMMA StageCrashInv ==
    ASSUME StageInv, NEW a \in StageAttempts, StageCrash(a)
    PROVE  StageInv'
<1>1. StageTypeOK'
    BY StageAssumption DEF StageInv, StageTypeOK, StagePc, StageReapPc, StageVersions,
           StageNone, StageBody, StageCrash
<1>2. StageLockHeld' /\ StageOwnerKept'
    BY StageAssumption DEF StageInv, StageTypeOK, StageLockHeld, StageOwnerKept,
           StageOwnerLive, StageCrash
<1>3. StageRecordKept' /\ StageJournalled'
    BY DEF StageInv, StageTypeOK, StageRecordKept, StageJournalled, StageOwnerKept,
           StageOwnerLive, StageNone, StageBatchEnded, StageVersions, StageBody, StageCrash
<1>4. StageOrdered' /\ StagePublishedWhole'
    BY DEF StageInv, StageTypeOK, StageOrdered, StagePublishedWhole, StageVersions,
           StageBody, StageNone, StageCrash
<1>5. StageReaperSparesLive'
    BY DEF StageInv, StageTypeOK, StageReaperSparesLive, StageBatchEnded, StageRecordKept,
           StageVersions, StageBody, StageNone, StageCrash
<1>6. StageBatchEnded'
    BY DEF StageInv, StageTypeOK, StageBatchEnded, StageOwnerKept, StageRecordKept,
           StageOwnerLive, StageNone, StagePc, StageCrash
<1>q. QED BY <1>1, <1>2, <1>3, <1>4, <1>5, <1>6 DEF StageInv
-----------------------------------------------------------------------------

\* Listing: a record without a live owner belongs to an ended attempt.
LEMMA StageReapListInv ==
    ASSUME StageInv, NEW r \in StageReapers, StageReapList(r)
    PROVE  StageInv'
<1>1. StageTypeOK'
    BY StageAssumption DEF StageInv, StageTypeOK, StagePc, StageReapPc, StageVersions,
           StageNone, StageBody, StageReapList, StageAbandoned
<1>2. StageLockHeld' /\ StageOwnerKept'
    BY StageAssumption DEF StageInv, StageTypeOK, StageLockHeld, StageOwnerKept,
           StageOwnerLive, StageReapList, StageAbandoned
<1>3. StageRecordKept' /\ StageJournalled'
    BY DEF StageInv, StageTypeOK, StageRecordKept, StageJournalled, StageOwnerKept,
           StageOwnerLive, StageNone, StageBatchEnded, StageVersions, StageBody,
           StageReapList, StageAbandoned
<1>4. StageOrdered' /\ StagePublishedWhole'
    BY DEF StageInv, StageTypeOK, StageOrdered, StagePublishedWhole, StageVersions,
           StageBody, StageNone, StageReapList, StageAbandoned
<1>5. StageReaperSparesLive'
    BY DEF StageInv, StageTypeOK, StageReaperSparesLive, StageBatchEnded, StageRecordKept,
           StageVersions, StageBody, StageNone, StageReapList, StageAbandoned
<1>6. StageBatchEnded'
    BY DEF StageInv, StageTypeOK, StageBatchEnded, StageOwnerKept, StageRecordKept,
           StageOwnerLive, StageNone, StagePc, StageReapList, StageAbandoned
<1>q. QED BY <1>1, <1>2, <1>3, <1>4, <1>5, <1>6 DEF StageInv

\* A reaper's next record is one of the rest of its batch.
LEMMA StageReapNextEffect ==
    ASSUME StageTypeOK, NEW r \in StageReapers, NEW a \in StageAttempts,
           stageReap' = StageReapNext(r, a)
    PROVE  /\ stageReap' \in [StageReapers -> [pc : StageReapPc, batch : SUBSET StageAttempts,
                                              item : StageAttempts \cup {StageNobody}]]
           /\ stageReap'[r].batch \subseteq stageReap[r].batch
           /\ stageReap'[r].pc # "forget"
           /\ \A q \in StageReapers \ {r} : stageReap'[q] = stageReap[q]
BY DEF StageTypeOK, StageReapNext, StageReapPc

\* A reaper that deleted an object goes on to forget its record.
LEMMA StageReapItemEffect ==
    ASSUME StageTypeOK, NEW r \in StageReapers, NEW a \in StageAttempts,
           stageReap' = [stageReap EXCEPT ![r] = [@ EXCEPT !.pc = "forget", !.item = a]]
    PROVE  /\ stageReap' \in [StageReapers -> [pc : StageReapPc, batch : SUBSET StageAttempts,
                                              item : StageAttempts \cup {StageNobody}]]
           /\ stageReap'[r].batch = stageReap[r].batch /\ stageReap'[r].item = a
           /\ \A q \in StageReapers \ {r} : stageReap'[q] = stageReap[q]
BY DEF StageTypeOK, StageReapPc

\* Deleting without the lock: the attempt of the batch stays ended, so no live
\* attempt loses its object; a failed delete skips the record.
LEMMA StageReapDeleteInv ==
    ASSUME StageInv, NEW r \in StageReapers, NEW a \in StageAttempts, StageReapDelete(r, a)
    PROVE  StageInv'
<1> USE DEF StageInv, StageReapDelete
<1>1. PICK obj \in {StageNone, stageObj[a]} :
          /\ stageObj' = [stageObj EXCEPT ![a] = obj]
          /\ \/ /\ obj = StageNone
                /\ stageReap' = [stageReap EXCEPT ![r] = [@ EXCEPT !.pc = "forget", !.item = a]]
             \/ stageReap' = StageReapNext(r, a)
          /\ StageMayFail \/ UNCHANGED stageFaults
    BY DEF StageTypeOK
<1>2. stageTask[a].pc \in {"done", "dead"}
    BY DEF StageBatchEnded
<1>3. /\ stageReap' \in [StageReapers -> [pc : StageReapPc, batch : SUBSET StageAttempts,
                                         item : StageAttempts \cup {StageNobody}]]
      /\ stageReap'[r].batch \subseteq stageReap[r].batch
      /\ stageReap'[r].pc = "forget" => /\ stageReap'[r].item = a /\ obj = StageNone
                                        /\ a \in stageReap'[r].batch
      /\ \A q \in StageReapers \ {r} : stageReap'[q] = stageReap[q]
    <2>1. StageTypeOK /\ a \in stageReap[r].batch
        OBVIOUS
    <2>2. CASE /\ obj = StageNone
               /\ stageReap' = [stageReap EXCEPT ![r] = [@ EXCEPT !.pc = "forget", !.item = a]]
        BY <2>1, <2>2, StageReapItemEffect, Zenon
    <2>3. CASE stageReap' = StageReapNext(r, a)
        BY <2>1, <2>3, StageReapNextEffect, Zenon
    <2>q. QED BY <1>1, <2>2, <2>3, Zenon
<1>5. /\ stageObj'[a] = obj
      /\ \A b \in StageAttempts \ {a} : stageObj'[b] = stageObj[b]
    BY <1>1 DEF StageTypeOK
<1>6. StageTypeOK'
    BY <1>1, <1>3, StageFaultType DEF StageTypeOK
<1>7. StageLockHeld' /\ StageOwnerKept'
    BY DEF StageLockHeld, StageOwnerKept, StageOwnerLive
<1>8. StageRecordKept' /\ StageJournalled'
    BY <1>5 DEF StageRecordKept, StageJournalled
<1>9. StageOrdered' /\ StagePublishedWhole' /\ StageReaperSparesLive'
    BY <1>2, <1>5 DEF StageOrdered, StagePublishedWhole, StageReaperSparesLive
<1>10. StageBatchEnded'
    BY <1>3, <1>5 DEF StageTypeOK, StageBatchEnded
<1>q. QED BY <1>6, <1>7, <1>8, <1>9, <1>10

\* Forgetting under the lock: the object of the record is gone.
LEMMA StageReapForgetInv ==
    ASSUME StageInv, NEW r \in StageReapers, StageReapForget(r)
    PROVE  StageInv'
<1>1. StageTypeOK'
    BY StageAssumption DEF StageInv, StageTypeOK, StagePc, StageReapPc, StageVersions,
           StageNone, StageBody, StageReapForget, StageReapNext
<1>2. StageLockHeld' /\ StageOwnerKept'
    BY StageAssumption DEF StageInv, StageTypeOK, StageLockHeld, StageOwnerKept,
           StageOwnerLive, StageReapForget, StageReapNext
<1>3. StageRecordKept' /\ StageJournalled'
    BY DEF StageInv, StageTypeOK, StageRecordKept, StageJournalled, StageOwnerKept,
           StageOwnerLive, StageNone, StageBatchEnded, StageVersions, StageBody,
           StageReapForget, StageReapNext
<1>4. StageOrdered' /\ StagePublishedWhole'
    BY DEF StageInv, StageTypeOK, StageOrdered, StagePublishedWhole, StageVersions,
           StageBody, StageNone, StageReapForget, StageReapNext
<1>5. StageReaperSparesLive'
    BY DEF StageInv, StageTypeOK, StageReaperSparesLive, StageBatchEnded, StageRecordKept,
           StageVersions, StageBody, StageNone, StageReapForget, StageReapNext
<1>6. StageBatchEnded'
    BY DEF StageInv, StageTypeOK, StageBatchEnded, StageOwnerKept, StageRecordKept,
           StageOwnerLive, StageNone, StagePc, StageReapForget, StageReapNext
<1>q. QED BY <1>1, <1>2, <1>3, <1>4, <1>5, <1>6 DEF StageInv

\* The sweep: with the journal lock free no attempt is between open and flock.
LEMMA StageSweepInv ==
    ASSUME StageInv, NEW r \in StageReapers, StageSweep(r)
    PROVE  StageInv'
<1>1. StageTypeOK'
    <2>1. stageRecord' \in [StageAttempts -> {"none", "partial", "json"}]
        BY DEF StageInv, StageTypeOK, StageSweep
    <2>2. stageFile' \in [StageAttempts -> BOOLEAN]
        BY Zenon DEF StageInv, StageTypeOK, StageSweep
    <2>3. stageReap' \in [StageReapers -> [pc : StageReapPc, batch : SUBSET StageAttempts,
                                          item : StageAttempts \cup {StageNobody}]]
      <3>1. PICK k : k = [stageReap[r] EXCEPT !.pc = "list"]
          OBVIOUS
      <3>2. stageReap[r] \in [pc : StageReapPc, batch : SUBSET StageAttempts,
                              item : StageAttempts \cup {StageNobody}]
          BY DEF StageInv, StageTypeOK
      <3>3. k \in [pc : StageReapPc, batch : SUBSET StageAttempts,
                   item : StageAttempts \cup {StageNobody}]
          BY <3>1, <3>2 DEF StageReapPc
      <3>4. stageReap' = [stageReap EXCEPT ![r] = k]
          BY <3>1 DEF StageSweep
      <3>q. QED BY <3>3, <3>4 DEF StageInv, StageTypeOK
    <2>q. QED
        BY <2>1, <2>2, <2>3 DEF StageInv, StageTypeOK, StageSweep
<1>2. StageLockHeld' /\ StageOwnerKept'
    BY StageAssumption DEF StageInv, StageTypeOK, StageLockHeld, StageOwnerKept,
           StageOwnerLive, StageSweep
<1>3. StageRecordKept' /\ StageJournalled'
    BY DEF StageInv, StageTypeOK, StageRecordKept, StageJournalled, StageOwnerKept,
           StageOwnerLive, StageNone, StageBatchEnded, StageVersions, StageBody, StageSweep
<1>4. StageOrdered' /\ StagePublishedWhole'
    BY DEF StageInv, StageTypeOK, StageOrdered, StagePublishedWhole, StageVersions,
           StageBody, StageNone, StageSweep
<1>5. StageReaperSparesLive'
    BY DEF StageInv, StageTypeOK, StageReaperSparesLive, StageBatchEnded, StageRecordKept,
           StageVersions, StageBody, StageNone, StageSweep
<1>6. StageBatchEnded'
    BY DEF StageInv, StageTypeOK, StageBatchEnded, StageOwnerKept, StageRecordKept,
           StageOwnerLive, StageNone, StagePc, StageSweep
<1>q. QED BY <1>1, <1>2, <1>3, <1>4, <1>5, <1>6 DEF StageInv
-----------------------------------------------------------------------------

\* Overwriting the source leaves the journal alone.
LEMMA StageOverwriteInv ==
    ASSUME StageInv, StageOverwrite
    PROVE  StageInv'
<1>1. StageTypeOK'
    BY StageAssumption DEF StageInv, StageTypeOK, StagePc, StageReapPc, StageVersions,
           StageNone, StageBody, StageOverwrite
<1>2. StageLockHeld' /\ StageOwnerKept'
    BY StageAssumption DEF StageInv, StageTypeOK, StageLockHeld, StageOwnerKept,
           StageOwnerLive, StageOverwrite
<1>3. StageRecordKept' /\ StageJournalled'
    BY DEF StageInv, StageTypeOK, StageRecordKept, StageJournalled, StageOwnerKept,
           StageOwnerLive, StageNone, StageBatchEnded, StageVersions, StageBody,
           StageOverwrite
<1>4. StageOrdered' /\ StagePublishedWhole'
    BY DEF StageInv, StageTypeOK, StageOrdered, StagePublishedWhole, StageVersions,
           StageBody, StageNone, StageOverwrite
<1>5. StageReaperSparesLive'
    BY DEF StageInv, StageTypeOK, StageReaperSparesLive, StageBatchEnded, StageRecordKept,
           StageVersions, StageBody, StageNone, StageOverwrite
<1>6. StageBatchEnded'
    BY DEF StageInv, StageTypeOK, StageBatchEnded, StageOwnerKept, StageRecordKept,
           StageOwnerLive, StageNone, StagePc, StageOverwrite
<1>q. QED BY <1>1, <1>2, <1>3, <1>4, <1>5, <1>6 DEF StageInv

-----------------------------------------------------------------------------
\* The invariant holds before the first transfer.
LEMMA StageInitInv == StageInit => StageInv
BY StageAssumption
DEF StageInit, StageInv, StageTypeOK, StageLockHeld, StageOwnerKept, StageRecordKept,
    StageOrdered, StageBatchEnded, StageReaperSparesLive, StageJournalled, StagePublishedWhole,
    StageVersions, StageNone, StageBody, StagePc, StageReapPc

\* Every step keeps the invariant.
LEMMA StageNextInv == StageInv /\ [StageNext]_stageVars => StageInv'
<1> SUFFICES ASSUME StageInv, [StageNext]_stageVars PROVE StageInv'
    OBVIOUS
<1>1. ASSUME NEW a \in StageAttempts, StageStep(a) PROVE StageInv'
    BY <1>1, StageProbeInv, StageGetInv, StageArmInv, StageOpenInv, StageFlockInv,
       StagePublishRecordInv, StagePutFirstInv, StagePutRestInv, StageVerifyInv, StagePublishInv,
       StageCleanupInv, StageDropDeleteInv, StageClearInv, StageUnlinkInv
    DEF StageStep
<1>2. ASSUME NEW r \in StageReapers, StageReapStep(r) PROVE StageInv'
    BY <1>2, StageReapListInv, StageReapDeleteInv, StageReapForgetInv, StageSweepInv
    DEF StageReapStep
<1>3. ASSUME UNCHANGED stageVars PROVE StageInv'
    BY <1>3
    DEF stageVars, StageInv, StageTypeOK, StageLockHeld, StageOwnerKept, StageOwnerLive,
        StageRecordKept, StageOrdered, StageBatchEnded, StageReaperSparesLive, StageJournalled,
        StagePublishedWhole
<1>q. QED
    BY <1>1, <1>2, <1>3, StageDroppedInv, StageCrashInv, StageOverwriteInv DEF StageNext

\* The invariant holds in every reachable state.
LEMMA StageAlwaysInv == StageSpec => []StageInv
BY StageInitInv, StageNextInv, PTL DEF StageSpec

\* The variables keep their types, bounds included.
THEOREM StageTypeCorrect == StageSpec => []StageTypeOK
<1>1. StageInv => StageTypeOK
    BY DEF StageInv
<1>q. QED BY <1>1, StageAlwaysInv, PTL

\* No reaper takes the stage object of an attempt between its upload and its
\* publication, whatever crashes and however old the reaper's batch is.
THEOREM StageSparesLive == StageSpec => []StageReaperSparesLive
<1>1. StageInv => StageReaperSparesLive
    BY DEF StageInv
<1>q. QED BY <1>1, StageAlwaysInv, PTL

\* A stage object without a journal record never exists.
THEOREM StageAlwaysJournalled == StageSpec => []StageJournalled
<1>1. StageInv => StageJournalled
    BY DEF StageInv
<1>q. QED BY <1>1, StageAlwaysInv, PTL

\* The published object is one version of the source, with digests or without.
THEOREM StageOneVersion == StageSpec => []StagePublishedWhole
<1>1. StageInv => StagePublishedWhole
    BY DEF StageInv
<1>q. QED BY <1>1, StageAlwaysInv, PTL

-----------------------------------------------------------------------------
(* Control-plane documents: for any number of databases, requests, operation *)
(* ids, replicas, revisions, reloads and purges, CfgInv is inductive and     *)
(* implies CfgRetryAgrees; CfgLiveForward is a property of every single step *)

USE DEF cfgStore, cfgDaemon

CfgCallType ==
    [pc : {"idle", "lookup", "read", "recheck", "batch", "load", "publish", "done"},
     db : CfgDbs, op : CfgOps \cup {CfgNobody}, exp : 0..CfgMaxRev, rev : 0..CfgMaxRev,
     answer : {"none", "applied", "replayed", "conflict", "error"}]

CfgReceiptType == [status : {"none", "ok", "conflict"}, rev : 0..CfgMaxRev, exp : 0..CfgMaxRev]

\* The part of the type invariant that replaces, imports and purges disturb.
CfgStoreTypes ==
    /\ cfgDoc \in [CfgDbs -> [rev : 0..CfgMaxRev, op : CfgOps \cup {CfgNobody}]]
    /\ cfgAudit \in [CfgDbs -> [CfgRevs -> Nat]] /\ cfgNotice \in [CfgDbs -> [CfgRevs -> Nat]]
    /\ cfgReceipt \in [CfgDbs -> [CfgOps -> CfgReceiptType]]
    /\ cfgImport \in [CfgImports -> [pc : {"idle", "batch"}, db : CfgDbs]]
    /\ cfgCall \in [CfgCalls -> CfgCallType]
    /\ cfgPurged \subseteq CfgOps

\* The part that the daemon's own steps disturb.
CfgDaemonTypes ==
    /\ cfgLib \in CfgDbs /\ cfgLive \in CfgLoaded
    /\ cfgTick \in [pc : {"idle", "read", "publish"}, seen : CfgLoaded]
    /\ cfgReload \in [pc : {"idle", "swap", "assign"}, fresh : CfgLoaded, swap : BOOLEAN]
    /\ cfgCount \in [reloads : 0..CfgMaxReloads, drops : 0..CfgMaxDrops]

\* The type invariant is the two parts together.
LEMMA CfgTypeParts == CfgTypeOK <=> CfgStoreTypes /\ CfgDaemonTypes
BY DEF CfgTypeOK, CfgStoreTypes, CfgDaemonTypes, CfgCallType, CfgReceiptType

\* What is installed is what was live or what was loaded; in one cluster its
\* revision does not fall.
LEMMA CfgInstallForward ==
    ASSUME NEW live \in CfgLoaded, NEW loaded \in CfgLoaded
    PROVE  /\ CfgInstall(live, loaded) \in CfgLoaded
           /\ CfgInstall(live, loaded).db = live.db
           /\ CfgInstall(live, loaded).rev >= live.rev
BY CfgAssumption DEF CfgInstall, CfgLoaded

\* A step of the daemon that leaves the database and the requests alone.
LEMMA CfgDaemonFrame ==
    ASSUME CfgInv, CfgDaemonTypes', UNCHANGED <<cfgStore, cfgImport, cfgCall>>
    PROVE  CfgInv'
<1>1. CfgTypeOK'
    BY CfgTypeParts DEF CfgInv, CfgTypeOK, CfgDaemonTypes
<1>q. QED
    BY <1>1 DEF CfgInv, CfgOneNoticePerRevision, CfgCallsKnown, CfgReceiptsTell, CfgCommitted,
               CfgReceiptOf

\* The reconciler's steps.
LEMMA CfgTickInv ==
    ASSUME CfgInv, CfgTickStep
    PROVE  CfgInv'
<1>1. CfgDaemonTypes /\ CfgStoreTypes
    BY CfgTypeParts DEF CfgInv
<1>2. CASE CfgTickSnapshot
    <2>1. CfgDaemonTypes'
        BY <1>1, <1>2, CfgAssumption DEF CfgDaemonTypes, CfgLoaded, CfgTickSnapshot
    <2>q. QED BY <1>2, <2>1, CfgDaemonFrame DEF CfgTickSnapshot
<1>3. CASE CfgTickRead
    <2>1. CfgDaemonTypes'
        BY <1>1, <1>3, CfgAssumption DEF CfgDaemonTypes, CfgStoreTypes, CfgLoaded, CfgTickRead
    <2>q. QED BY <1>3, <2>1, CfgDaemonFrame DEF CfgTickRead
<1>4. CASE CfgTickPublish
    <2>1. CfgDaemonTypes'
        BY <1>1, <1>4, CfgInstallForward DEF CfgDaemonTypes, CfgTickPublish
    <2>q. QED BY <1>4, <2>1, CfgDaemonFrame DEF CfgTickPublish
<1>q. QED BY <1>2, <1>3, <1>4 DEF CfgTickStep

\* The reload's steps.
LEMMA CfgReloadInv ==
    ASSUME CfgInv,
           \/ CfgReloadStep \/ CfgReloadDropped
           \/ \E d \in CfgDbs, swap \in BOOLEAN : CfgReloadRead(d, swap)
    PROVE  CfgInv'
<1>1. CfgDaemonTypes /\ CfgStoreTypes
    BY CfgTypeParts DEF CfgInv
<1>2. CASE CfgReloadSwap
    <2>1. CfgDaemonTypes'
        BY <1>1, <1>2 DEF CfgDaemonTypes, CfgLoaded, CfgReloadSwap
    <2>q. QED BY <1>2, <2>1, CfgDaemonFrame DEF CfgReloadSwap
<1>3. CASE CfgReloadAssign
    <2>1. cfgLive' \in CfgLoaded
        BY <1>1, <1>3, CfgInstallForward DEF CfgDaemonTypes, CfgReloadAssign
    <2>2. CfgDaemonTypes'
        BY <1>1, <1>3, <2>1 DEF CfgDaemonTypes, CfgReloadAssign
    <2>q. QED BY <1>3, <2>2, CfgDaemonFrame DEF CfgReloadAssign
<1>4. CASE CfgReloadDropped
    <2>1. CfgDaemonTypes'
        BY <1>1, <1>4, CfgAssumption DEF CfgDaemonTypes, CfgReloadDropped
    <2>q. QED BY <1>4, <2>1, CfgDaemonFrame DEF CfgReloadDropped
<1>5. ASSUME NEW d \in CfgDbs, NEW swap \in BOOLEAN, CfgReloadRead(d, swap)
      PROVE  CfgInv'
    <2>1. cfgReload' \in [pc : {"idle", "swap", "assign"}, fresh : CfgLoaded, swap : BOOLEAN]
        BY <1>1, <1>5 DEF CfgStoreTypes, CfgReloadRead, CfgLoaded
    <2>2. cfgCount' \in [reloads : 0..CfgMaxReloads, drops : 0..CfgMaxDrops]
        BY <1>1, <1>5, CfgAssumption DEF CfgDaemonTypes, CfgReloadRead
    <2>3. CfgDaemonTypes'
        BY <1>1, <1>5, <2>1, <2>2 DEF CfgDaemonTypes, CfgReloadRead
    <2>q. QED BY <1>5, <2>3, CfgDaemonFrame DEF CfgReloadRead
<1>q. QED BY <1>2, <1>3, <1>4, <1>5 DEF CfgReloadStep
-----------------------------------------------------------------------------
(* Requests *)

\* A step of one request that leaves the database alone.  What it must keep is
\* what CfgCallsKnown and CfgReceiptsTell say of this request.
LEMMA CfgCallFrame ==
    ASSUME CfgInv, CfgDaemonTypes', UNCHANGED <<cfgStore, cfgImport>>, NEW c \in CfgCalls,
           NEW k \in CfgCallType, cfgCall' = [cfgCall EXCEPT ![c] = k],
           k.op \in CfgOps, k.exp <= cfgDoc[k.db].rev, k.pc # "idle",
           k.answer # "none" => k.pc \in {"publish", "done"},
           LET r == cfgReceipt[k.db][k.op]
               committed == r.status = "ok" /\ r.exp = k.exp IN
           /\ k.pc = "recheck" => cfgDoc[k.db].rev > k.exp
           /\ k.pc = "load" => committed
           /\ k.answer \in {"applied", "replayed"} /\ k.op \notin cfgPurged => committed
           /\ k.answer = "conflict" /\ k.op \notin cfgPurged
                => ~committed /\ (r.status = "none" => cfgDoc[k.db].rev > k.exp)
    PROVE  CfgInv'
<1>1. cfgCall'[c] = k /\ \A b \in CfgCalls \ {c} : cfgCall'[b] = cfgCall[b]
    BY CfgTypeParts DEF CfgInv, CfgStoreTypes
<1>2. CfgTypeOK'
    <2>1. CfgStoreTypes'
        BY CfgTypeParts DEF CfgInv, CfgStoreTypes
    <2>q. QED
        BY <2>1 DEF CfgTypeOK, CfgStoreTypes, CfgDaemonTypes, CfgCallType, CfgReceiptType
<1>3. CfgOneNoticePerRevision'
    BY DEF CfgInv, CfgOneNoticePerRevision
<1>4. CfgCallsKnown'
    BY <1>1 DEF CfgInv, CfgCallsKnown
<1>5. CfgReceiptsTell'
    BY <1>1 DEF CfgInv, CfgReceiptsTell, CfgCommitted, CfgReceiptOf
<1>q. QED BY <1>2, <1>3, <1>4, <1>5 DEF CfgInv

\* Sending: the request is new and has no answer.
LEMMA CfgSendInv ==
    ASSUME CfgInv, NEW c \in CfgCalls, NEW d \in CfgDbs, NEW o \in CfgOps, NEW exp \in CfgRevs,
           CfgSend(c, d, o, exp)
    PROVE  CfgInv'
<1> DEFINE k == [cfgCall[c] EXCEPT !.pc = "lookup", !.db = d, !.op = o, !.exp = exp]
<1>1. cfgCall[c] \in CfgCallType /\ cfgCall[c].answer = "none" /\ CfgDaemonTypes
    BY CfgTypeParts DEF CfgInv, CfgStoreTypes, CfgCallsKnown, CfgSend
<1>2. k \in CfgCallType /\ k.pc = "lookup" /\ k.db = d /\ k.op = o /\ k.exp = exp /\ k.answer = "none"
    <2>1. exp \in 0..CfgMaxRev
        BY CfgAssumption DEF CfgRevs
    <2>q. QED BY <1>1, <2>1 DEF CfgCallType
<1>3. CfgDaemonTypes' /\ UNCHANGED <<cfgStore, cfgImport>>
    BY <1>1 DEF CfgSend, CfgDaemonTypes
<1>4. cfgCall' = [cfgCall EXCEPT ![c] = k] /\ exp <= cfgDoc[d].rev
    BY DEF CfgSend
<1> HIDE DEF k
<1>q. QED BY <1>2, <1>3, <1>4, CfgCallFrame

\* What a receipt answers agrees with the receipt.
LEMMA CfgByReceiptCases ==
    ASSUME NEW c, NEW otherwise, CfgByReceipt(c, otherwise)
    PROVE  LET r == CfgReceiptOf(c) IN
           \/ r.status = "none" /\ cfgCall' = otherwise
           \/ CfgAnswer(c, "error")
           \/ r.status = "ok" /\ r.exp = cfgCall[c].exp /\ CfgAnswer(c, "replayed")
           \/ r.status # "none" /\ ~(r.status = "ok" /\ r.exp = cfgCall[c].exp) /\ CfgAnswer(c, "conflict")
BY DEF CfgByReceipt

\* A request that is answered.
LEMMA CfgAnswerForm ==
    ASSUME CfgStoreTypes, NEW c \in CfgCalls, NEW a \in {"applied", "replayed", "conflict", "error"},
           CfgAnswer(c, a)
    PROVE  LET k == [cfgCall[c] EXCEPT !.pc = "done", !.answer = a] IN
           /\ cfgCall' = [cfgCall EXCEPT ![c] = k]
           /\ k \in CfgCallType /\ k.pc = "done" /\ k.answer = a
           /\ k.db = cfgCall[c].db /\ k.op = cfgCall[c].op /\ k.exp = cfgCall[c].exp
BY DEF CfgStoreTypes, CfgCallType, CfgAnswer

\* A request that goes on.
LEMMA CfgMoveForm ==
    ASSUME CfgStoreTypes, NEW c \in CfgCalls, NEW p \in {"read", "recheck", "batch", "load", "done"},
           cfgCall' = [cfgCall EXCEPT ![c].pc = p]
    PROVE  LET k == [cfgCall[c] EXCEPT !.pc = p] IN
           /\ cfgCall' = [cfgCall EXCEPT ![c] = k]
           /\ k \in CfgCallType /\ k.pc = p /\ k.answer = cfgCall[c].answer
           /\ k.db = cfgCall[c].db /\ k.op = cfgCall[c].op /\ k.exp = cfgCall[c].exp
BY DEF CfgStoreTypes, CfgCallType

\* lookup, recheck: another look at the receipt.
LEMMA CfgReceiptStepInv ==
    ASSUME CfgInv, NEW c \in CfgCalls, CfgLookup(c) \/ CfgRecheck(c)
    PROVE  CfgInv'
<1>1. CfgStoreTypes /\ CfgDaemonTypes
    BY CfgTypeParts DEF CfgInv
<1>2. cfgCall[c].op \in CfgOps /\ cfgCall[c].exp <= cfgDoc[cfgCall[c].db].rev /\ cfgCall[c].answer = "none"
    BY <1>1 DEF CfgInv, CfgStoreTypes, CfgCallType, CfgCallsKnown, CfgLookup, CfgRecheck
<1>3. CfgDaemonTypes' /\ UNCHANGED <<cfgStore, cfgImport>>
    BY <1>1 DEF CfgLookup, CfgRecheck, CfgDaemonTypes
<1>4. ASSUME NEW a \in {"replayed", "conflict", "error"}, CfgAnswer(c, a),
             a = "replayed" => CfgCommitted(c),
             a = "conflict" => ~CfgCommitted(c) /\
                 (CfgReceiptOf(c).status = "none" => cfgDoc[cfgCall[c].db].rev > cfgCall[c].exp)
      PROVE  CfgInv'
    <2> DEFINE k == [cfgCall[c] EXCEPT !.pc = "done", !.answer = a]
    <2>1. /\ cfgCall' = [cfgCall EXCEPT ![c] = k]
          /\ k \in CfgCallType /\ k.pc = "done" /\ k.answer = a
          /\ k.db = cfgCall[c].db /\ k.op = cfgCall[c].op /\ k.exp = cfgCall[c].exp
        <3>1. a \in {"applied", "replayed", "conflict", "error"}
            OBVIOUS
        <3>q. QED BY <1>1, <1>4, <3>1, CfgAnswerForm, Zenon
    <2> HIDE DEF k
    <2>q. QED BY <1>2, <1>3, <1>4, <2>1, CfgCallFrame DEF CfgCommitted, CfgReceiptOf
<1>5. CASE CfgLookup(c)
    <2>1. CASE CfgReceiptOf(c).status = "none" /\ cfgCall' = [cfgCall EXCEPT ![c].pc = "read"]
        <3> DEFINE k == [cfgCall[c] EXCEPT !.pc = "read"]
        <3>1. /\ cfgCall' = [cfgCall EXCEPT ![c] = k]
              /\ k \in CfgCallType /\ k.pc = "read" /\ k.answer = cfgCall[c].answer
              /\ k.db = cfgCall[c].db /\ k.op = cfgCall[c].op /\ k.exp = cfgCall[c].exp
            BY <1>1, <2>1, CfgMoveForm
        <3> HIDE DEF k
        <3>q. QED BY <1>2, <1>3, <3>1, CfgCallFrame
    <2>q. QED BY <1>4, <1>5, <2>1, CfgByReceiptCases DEF CfgLookup, CfgCommitted
<1>6. CASE CfgRecheck(c)
    <2>1. cfgDoc[cfgCall[c].db].rev > cfgCall[c].exp
        BY <1>6 DEF CfgInv, CfgReceiptsTell, CfgRecheck
    <2>2. CASE /\ CfgReceiptOf(c).status = "none"
               /\ cfgCall' = [cfgCall EXCEPT ![c] = [@ EXCEPT !.pc = "done", !.answer = "conflict"]]
        BY <1>4, <2>1, <2>2 DEF CfgAnswer, CfgCommitted
    <2>q. QED BY <1>4, <1>6, <2>2, CfgByReceiptCases DEF CfgRecheck, CfgCommitted
<1>q. QED BY <1>5, <1>6

\* The revision is read: one that differs from the expected one is larger.
LEMMA CfgReadInv ==
    ASSUME CfgInv, NEW c \in CfgCalls, CfgRead(c)
    PROVE  CfgInv'
<1> DEFINE p == IF cfgDoc[cfgCall[c].db].rev = cfgCall[c].exp THEN "batch" ELSE "recheck"
           k == [cfgCall[c] EXCEPT !.pc = p]
<1>1. CfgStoreTypes /\ CfgDaemonTypes
    BY CfgTypeParts DEF CfgInv
<1>2. cfgCall[c].op \in CfgOps /\ cfgCall[c].exp <= cfgDoc[cfgCall[c].db].rev /\ cfgCall[c].answer = "none"
    BY <1>1 DEF CfgInv, CfgStoreTypes, CfgCallType, CfgCallsKnown, CfgRead
<1>3. CfgDaemonTypes' /\ UNCHANGED <<cfgStore, cfgImport>>
    BY <1>1 DEF CfgRead, CfgDaemonTypes
<1>4. p = "recheck" => cfgDoc[cfgCall[c].db].rev > cfgCall[c].exp
    <2>1. cfgDoc[cfgCall[c].db].rev \in Nat /\ cfgCall[c].exp \in Nat
        BY <1>1, CfgAssumption DEF CfgStoreTypes, CfgCallType
    <2>q. QED BY <1>2, <2>1
<1>5. p \in {"batch", "recheck"} /\ cfgCall' = [cfgCall EXCEPT ![c].pc = p]
    BY DEF CfgRead
<1> HIDE DEF p
<1>6. /\ cfgCall' = [cfgCall EXCEPT ![c] = k]
      /\ k \in CfgCallType /\ k.pc = p /\ k.answer = cfgCall[c].answer
      /\ k.db = cfgCall[c].db /\ k.op = cfgCall[c].op /\ k.exp = cfgCall[c].exp
    <2>1. p \in {"read", "recheck", "batch", "load", "done"}
        BY <1>5
    <2>q. QED BY <1>1, <1>5, <2>1, CfgMoveForm, Zenon
<1> HIDE DEF k
<1>q. QED BY <1>2, <1>3, <1>4, <1>5, <1>6, CfgCallFrame

\* The committed document is read back: the receipt is still there.
LEMMA CfgLoadInv ==
    ASSUME CfgInv, NEW c \in CfgCalls, CfgLoad(c)
    PROVE  CfgInv'
<1>1. CfgStoreTypes /\ CfgDaemonTypes
    BY CfgTypeParts DEF CfgInv
<1>2. cfgCall[c].op \in CfgOps /\ cfgCall[c].exp <= cfgDoc[cfgCall[c].db].rev /\ CfgCommitted(c)
    BY <1>1 DEF CfgInv, CfgStoreTypes, CfgCallType, CfgCallsKnown, CfgReceiptsTell, CfgLoad
<1>3. CfgDaemonTypes' /\ UNCHANGED <<cfgStore, cfgImport>>
    BY <1>1 DEF CfgLoad, CfgDaemonTypes
<1>4. PICK k \in CfgCallType :
        /\ cfgCall' = [cfgCall EXCEPT ![c] = k]
        /\ k.pc \in {"publish", "done"} /\ k.answer \in {"applied", "replayed"}
        /\ k.db = cfgCall[c].db /\ k.op = cfgCall[c].op /\ k.exp = cfgCall[c].exp
    <2>1. CASE CfgAnswer(c, "replayed")
        BY <1>1, <2>1, CfgAnswerForm
    <2>2. CASE cfgCall' = [cfgCall EXCEPT ![c] = [@ EXCEPT !.pc = IF c \in CfgPeers THEN "done" ELSE "publish",
                              !.rev = cfgDoc[cfgCall[c].db].rev, !.answer = "applied"]]
        <3> DEFINE k == [cfgCall[c] EXCEPT !.pc = IF c \in CfgPeers THEN "done" ELSE "publish",
                              !.rev = cfgDoc[cfgCall[c].db].rev, !.answer = "applied"]
        <3>1. k \in CfgCallType
            <4>1. cfgCall[c] \in CfgCallType /\ cfgDoc[cfgCall[c].db].rev \in 0..CfgMaxRev
                BY <1>1 DEF CfgStoreTypes, CfgCallType
            <4>q. QED BY <4>1 DEF CfgCallType
        <3>2. cfgCall' = [cfgCall EXCEPT ![c] = k]
            BY <1>1, <2>2 DEF CfgStoreTypes
        <3>q. QED BY <1>1, <3>1, <3>2 DEF CfgStoreTypes, CfgCallType
    <2>q. QED BY <2>1, <2>2 DEF CfgLoad
<1>q. QED BY <1>2, <1>3, <1>4, CfgCallFrame DEF CfgCommitted, CfgReceiptOf

\* The publication of an applied write.
LEMMA CfgPublishInv ==
    ASSUME CfgInv, NEW c \in CfgCalls, CfgPublish(c)
    PROVE  CfgInv'
<1> DEFINE k == [cfgCall[c] EXCEPT !.pc = "done"]
<1>1. CfgStoreTypes /\ CfgDaemonTypes
    BY CfgTypeParts DEF CfgInv
<1>2. cfgCall[c].op \in CfgOps /\ cfgCall[c].exp <= cfgDoc[cfgCall[c].db].rev
    BY <1>1 DEF CfgInv, CfgStoreTypes, CfgCallType, CfgCallsKnown, CfgPublish
<1>3. CfgDaemonTypes' /\ UNCHANGED <<cfgStore, cfgImport>>
    <2>1. [db |-> cfgCall[c].db, rev |-> cfgCall[c].rev] \in CfgLoaded
        BY <1>1 DEF CfgStoreTypes, CfgCallType, CfgLoaded
    <2>q. QED BY <1>1, <2>1, CfgInstallForward DEF CfgPublish, CfgDaemonTypes
<1>4. /\ cfgCall' = [cfgCall EXCEPT ![c] = k]
      /\ k \in CfgCallType /\ k.pc = "done" /\ k.answer = cfgCall[c].answer
      /\ k.db = cfgCall[c].db /\ k.op = cfgCall[c].op /\ k.exp = cfgCall[c].exp
    BY <1>1, CfgMoveForm DEF CfgPublish
<1>5. LET r == CfgReceiptOf(c) IN
      /\ cfgCall[c].answer \in {"applied", "replayed"} /\ cfgCall[c].op \notin cfgPurged
            => r.status = "ok" /\ r.exp = cfgCall[c].exp
      /\ cfgCall[c].answer = "conflict" /\ cfgCall[c].op \notin cfgPurged
            => /\ ~(r.status = "ok" /\ r.exp = cfgCall[c].exp)
               /\ r.status = "none" => cfgDoc[cfgCall[c].db].rev > cfgCall[c].exp
    BY DEF CfgInv, CfgReceiptsTell, CfgCommitted
<1> HIDE DEF k
<1>q. QED BY <1>2, <1>3, <1>4, <1>5, CfgCallFrame DEF CfgReceiptOf
-----------------------------------------------------------------------------
(* The database *)

\* A bootstrap looks whether the document is there.
LEMMA CfgImportReadInv ==
    ASSUME CfgInv, NEW i \in CfgImports, NEW d \in CfgDbs, CfgImportRead(i, d)
    PROVE  CfgInv'
<1>1. CfgTypeOK'
    BY DEF CfgInv, CfgTypeOK, CfgImportRead
<1>q. QED
    BY <1>1 DEF CfgInv, CfgImportRead, CfgOneNoticePerRevision, CfgCallsKnown, CfgReceiptsTell,
               CfgCommitted, CfgReceiptOf

\* The next revision gets its one audit row and its one notice.
LEMMA CfgRevisedEffect ==
    ASSUME CfgStoreTypes, NEW d \in CfgDbs, NEW r \in CfgRevs, CfgRevised(d, r)
    PROVE  /\ cfgAudit' \in [CfgDbs -> [CfgRevs -> Nat]] /\ cfgNotice' \in [CfgDbs -> [CfgRevs -> Nat]]
           /\ \A e \in CfgDbs, q \in CfgRevs :
                 /\ cfgAudit'[e][q] = cfgAudit[e][q] + (IF e = d /\ q = r THEN 1 ELSE 0)
                 /\ cfgNotice'[e][q] = cfgNotice[e][q] + (IF e = d /\ q = r THEN 1 ELSE 0)
<1>1. /\ cfgAudit' \in [CfgDbs -> [CfgRevs -> Nat]]
      /\ \A e \in CfgDbs, q \in CfgRevs :
            cfgAudit'[e][q] = cfgAudit[e][q] + (IF e = d /\ q = r THEN 1 ELSE 0)
    BY DEF CfgStoreTypes, CfgRevised
<1>2. /\ cfgNotice' \in [CfgDbs -> [CfgRevs -> Nat]]
      /\ \A e \in CfgDbs, q \in CfgRevs :
            cfgNotice'[e][q] = cfgNotice[e][q] + (IF e = d /\ q = r THEN 1 ELSE 0)
    BY DEF CfgStoreTypes, CfgRevised
<1>q. QED BY <1>1, <1>2

\* With it the count stays right when the document moves to that revision.
LEMMA CfgRevisedCounts ==
    ASSUME CfgInv, NEW d \in CfgDbs, NEW r \in CfgRevs, r = cfgDoc[d].rev + 1, CfgRevised(d, r),
           cfgDoc'[d].rev = r, \A e \in CfgDbs \ {d} : cfgDoc'[e] = cfgDoc[e]
    PROVE  \A e \in CfgDbs, q \in CfgRevs :
              /\ cfgAudit'[e][q] = IF q <= cfgDoc'[e].rev THEN 1 ELSE 0
              /\ cfgNotice'[e][q] = cfgAudit'[e][q]
<1>1. CfgStoreTypes
    BY CfgTypeParts DEF CfgInv
<1> SUFFICES ASSUME NEW e \in CfgDbs, NEW q \in CfgRevs
             PROVE  /\ cfgAudit'[e][q] = IF q <= cfgDoc'[e].rev THEN 1 ELSE 0
                    /\ cfgNotice'[e][q] = cfgAudit'[e][q]
    OBVIOUS
<1>2. /\ cfgAudit'[e][q] = cfgAudit[e][q] + (IF e = d /\ q = r THEN 1 ELSE 0)
      /\ cfgNotice'[e][q] = cfgNotice[e][q] + (IF e = d /\ q = r THEN 1 ELSE 0)
    BY <1>1, CfgRevisedEffect
<1>3. cfgAudit[e][q] = (IF q <= cfgDoc[e].rev THEN 1 ELSE 0) /\ cfgNotice[e][q] = cfgAudit[e][q]
    BY DEF CfgInv, CfgOneNoticePerRevision
<1>4. cfgDoc[e].rev \in Nat /\ q \in Nat
    BY <1>1, CfgAssumption DEF CfgStoreTypes, CfgRevs
<1>q. QED BY <1>2, <1>3, <1>4

\* INSERT OR IGNORE of a bootstrap: the first one writes revision 1.
LEMMA CfgImportBatchInv ==
    ASSUME CfgInv, NEW i \in CfgImports, CfgImportBatch(i)
    PROVE  CfgInv'
<1> DEFINE d == cfgImport[i].db
<1>1. CfgStoreTypes /\ CfgDaemonTypes /\ d \in CfgDbs
    BY CfgTypeParts DEF CfgInv, CfgStoreTypes
<1>2. cfgImport' \in [CfgImports -> [pc : {"idle", "batch"}, db : CfgDbs]]
    BY <1>1 DEF CfgStoreTypes, CfgImportBatch
<1>3. CASE cfgDoc[d].rev # 0
    <2>1. UNCHANGED <<cfgStore, cfgCall, cfgDaemon>>
        BY <1>3 DEF CfgImportBatch
    <2>2. CfgTypeOK'
        BY <1>2, <2>1 DEF CfgInv, CfgTypeOK
    <2>q. QED
        BY <2>1, <2>2 DEF CfgInv, CfgOneNoticePerRevision, CfgCallsKnown, CfgReceiptsTell,
                          CfgCommitted, CfgReceiptOf
<1>4. CASE cfgDoc[d].rev = 0
    <2>1. cfgDoc' = [cfgDoc EXCEPT ![d].rev = 1] /\ CfgRevised(d, 1)
          /\ UNCHANGED <<cfgReceipt, cfgPurged, cfgCall, cfgDaemon>>
        BY <1>4 DEF CfgImportBatch
    <2>2. 1 \in CfgRevs /\ 1 \in 0..CfgMaxRev
        BY CfgAssumption DEF CfgRevs
    <2>3. /\ cfgDoc' \in [CfgDbs -> [rev : 0..CfgMaxRev, op : CfgOps \cup {CfgNobody}]]
          /\ cfgDoc'[d].rev = 1 /\ \A e \in CfgDbs \ {d} : cfgDoc'[e] = cfgDoc[e]
        BY <1>1, <2>1, <2>2 DEF CfgStoreTypes
    <2>4. CfgTypeOK'
        BY <1>1, <1>2, <2>1, <2>2, <2>3, CfgRevisedEffect DEF CfgInv, CfgTypeOK
    <2>5. CfgOneNoticePerRevision'
        BY <1>1, <1>4, <2>1, <2>2, <2>3, CfgRevisedCounts DEF CfgInv, CfgOneNoticePerRevision
    <2>6. \A e \in CfgDbs : cfgDoc'[e].rev >= cfgDoc[e].rev
        BY <1>1, <1>4, <2>3, CfgAssumption DEF CfgStoreTypes
    <2>7. \A c \in CfgCalls : cfgCall[c].db \in CfgDbs /\ cfgCall[c].exp \in Nat
        BY <1>1, CfgAssumption DEF CfgStoreTypes, CfgCallType
    <2>8. \A e \in CfgDbs : cfgDoc[e].rev \in Nat /\ cfgDoc'[e].rev \in Nat
        BY <1>1, <2>3, CfgAssumption DEF CfgStoreTypes
    <2>9. CfgCallsKnown'
        BY <2>1, <2>6, <2>7, <2>8 DEF CfgInv, CfgCallsKnown
    <2>10. CfgReceiptsTell'
        BY <2>1, <2>6, <2>7, <2>8 DEF CfgInv, CfgReceiptsTell, CfgCommitted, CfgReceiptOf
    <2>q. QED BY <2>4, <2>5, <2>9, <2>10 DEF CfgInv
<1>q. QED BY <1>3, <1>4

\* A purge takes a receipt that no request in flight may look at.
LEMMA CfgPurgeInv ==
    ASSUME CfgInv, NEW d \in CfgDbs, NEW o \in CfgOps, CfgPurge(d, o)
    PROVE  CfgInv'
<1>1. CfgStoreTypes /\ CfgDaemonTypes
    BY CfgTypeParts DEF CfgInv
<1>2. CfgNoReceipt \in CfgReceiptType
    BY CfgAssumption DEF CfgNoReceipt, CfgReceiptType
<1>3. /\ cfgReceipt' \in [CfgDbs -> [CfgOps -> CfgReceiptType]]
      /\ cfgReceipt'[d][o] = CfgNoReceipt
      /\ \A e \in CfgDbs, q \in CfgOps : e # d \/ q # o => cfgReceipt'[e][q] = cfgReceipt[e][q]
    BY <1>1, <1>2 DEF CfgStoreTypes, CfgPurge
<1>4. CfgTypeOK'
    BY <1>1, <1>3 DEF CfgInv, CfgTypeOK, CfgPurge, CfgReceiptType
<1>5. CfgOneNoticePerRevision'
    BY <1>3 DEF CfgInv, CfgOneNoticePerRevision, CfgPurge, CfgNoReceipt
<1>6. CfgCallsKnown'
    BY DEF CfgInv, CfgCallsKnown, CfgPurge
<1>7. CfgReceiptsTell'
    <2> SUFFICES ASSUME NEW c \in CfgCalls
                 PROVE  /\ cfgCall[c].pc = "recheck" => cfgDoc[cfgCall[c].db].rev > cfgCall[c].exp
                        /\ cfgCall[c].pc = "load" => CfgCommitted(c)'
                        /\ cfgCall[c].answer \in {"applied", "replayed"} /\ cfgCall[c].op \notin cfgPurged'
                              => CfgCommitted(c)'
                        /\ cfgCall[c].answer = "conflict" /\ cfgCall[c].op \notin cfgPurged'
                              => /\ ~CfgCommitted(c)'
                                 /\ CfgReceiptOf(c)'.status = "none"
                                       => cfgDoc[cfgCall[c].db].rev > cfgCall[c].exp
        BY DEF CfgReceiptsTell, CfgPurge
    <2>1. CASE cfgCall[c].op = o
        <3>1. cfgCall[c].pc \in {"idle", "done", "publish"} /\ o \in cfgPurged'
            BY <2>1 DEF CfgPurge
        <3>q. QED BY <2>1, <3>1
    <2>2. CASE cfgCall[c].op # o
        <3>1. cfgCall[c].pc = "idle" => cfgCall[c].answer = "none"
            BY DEF CfgInv, CfgCallsKnown
        <3>2. cfgCall[c].pc # "idle" => UNCHANGED CfgReceiptOf(c)
            BY <1>1, <1>3, <2>2
            DEF CfgInv, CfgCallsKnown, CfgStoreTypes, CfgCallType, CfgReceiptOf, CfgPurge
        <3>q. QED
            BY <3>1, <3>2 DEF CfgInv, CfgReceiptsTell, CfgCommitted, CfgPurge
    <2>q. QED BY <2>1, <2>2
<1>q. QED BY <1>4, <1>5, <1>6, <1>7 DEF CfgInv

\* The batch of a replace writes the receipt of its operation unless there is one
\* already; a committed write followed the revision the request expected.
LEMMA CfgBatchReceipt ==
    ASSUME CfgInv, NEW c \in CfgCalls, CfgBatch(c),
           NEW d, NEW o, d = cfgCall[c].db, o = cfgCall[c].op
    PROVE  /\ d \in CfgDbs /\ o \in CfgOps
           /\ cfgReceipt' \in [CfgDbs -> [CfgOps -> CfgReceiptType]]
           /\ \A e \in CfgDbs, q \in CfgOps : e # d \/ q # o => cfgReceipt'[e][q] = cfgReceipt[e][q]
           /\ cfgReceipt[d][o].status # "none" => cfgReceipt'[d][o] = cfgReceipt[d][o]
           /\ cfgReceipt[d][o].status = "none" =>
                 /\ cfgReceipt'[d][o].status \in {"ok", "conflict"}
                 /\ cfgReceipt'[d][o].exp = cfgCall[c].exp
                 /\ cfgReceipt'[d][o].status = "ok" =>
                       /\ cfgDoc[d].rev = cfgCall[c].exp
                       /\ cfgReceipt'[d][o].rev = cfgCall[c].exp + 1
<1>1. CfgStoreTypes /\ d \in CfgDbs /\ o \in CfgOps /\ cfgCall[c].exp \in 0..CfgMaxRev
    BY CfgTypeParts DEF CfgInv, CfgStoreTypes, CfgCallType, CfgCallsKnown, CfgBatch
<1>2. cfgReceipt[d][o] \in CfgReceiptType /\ CfgReceiptOf(c) = cfgReceipt[d][o]
    BY <1>1 DEF CfgStoreTypes, CfgReceiptOf
<1>3. cfgDoc[d].rev \in 0..CfgMaxRev
    BY <1>1 DEF CfgStoreTypes
<1>4. PICK r \in CfgReceiptType :
         /\ cfgReceipt' = [cfgReceipt EXCEPT ![d][o] = r]
         /\ cfgReceipt[d][o].status # "none" => r = cfgReceipt[d][o]
         /\ cfgReceipt[d][o].status = "none" =>
               /\ r.status \in {"ok", "conflict"} /\ r.exp = cfgCall[c].exp
               /\ r.status = "ok" => cfgDoc[d].rev = cfgCall[c].exp /\ r.rev = cfgCall[c].exp + 1
    <2>1. CASE CfgCommits(c)
        <3> DEFINE r == [status |-> "ok", rev |-> cfgDoc[d].rev + 1, exp |-> cfgCall[c].exp]
        <3>1. cfgReceipt' = [cfgReceipt EXCEPT ![d][o] = r] /\ cfgDoc[d].rev + 1 <= CfgMaxRev
            BY <2>1 DEF CfgBatch
        <3>2. cfgReceipt[d][o].status = "none" /\ cfgDoc[d].rev = cfgCall[c].exp
            BY <1>2, <2>1 DEF CfgCommits
        <3>3. r \in CfgReceiptType
            BY <1>1, <1>3, <3>1, CfgAssumption DEF CfgReceiptType
        <3>q. QED BY <3>1, <3>2, <3>3
    <2>2. CASE ~CfgCommits(c) /\ cfgReceipt[d][o].status = "none"
        <3> DEFINE r == [status |-> "conflict", rev |-> (cfgDoc[d].rev + 1) - 1, exp |-> cfgCall[c].exp]
        <3>1. cfgReceipt' = [cfgReceipt EXCEPT ![d][o] = r]
            BY <1>2, <2>2 DEF CfgBatch
        <3>2. r \in CfgReceiptType
            BY <1>1, <1>3, CfgAssumption DEF CfgReceiptType
        <3>q. QED BY <2>2, <3>1, <3>2
    <2>3. CASE ~CfgCommits(c) /\ cfgReceipt[d][o].status # "none"
        <3>1. cfgReceipt' = [cfgReceipt EXCEPT ![d][o] = cfgReceipt[d][o]]
            BY <1>2, <2>3 DEF CfgBatch
        <3>q. QED BY <1>2, <2>3, <3>1
    <2>q. QED BY <2>1, <2>2, <2>3
<1>5. /\ cfgReceipt' \in [CfgDbs -> [CfgOps -> CfgReceiptType]]
      /\ \A e \in CfgDbs, q \in CfgOps : e # d \/ q # o => cfgReceipt'[e][q] = cfgReceipt[e][q]
      /\ cfgReceipt'[d][o] = r
    BY <1>1, <1>4 DEF CfgStoreTypes
<1>q. QED BY <1>1, <1>4, <1>5

\* The document moves by one revision, with its records, or not at all.
LEMMA CfgBatchDocument ==
    ASSUME CfgInv, NEW c \in CfgCalls, CfgBatch(c)
    PROVE  /\ cfgDoc' \in [CfgDbs -> [rev : 0..CfgMaxRev, op : CfgOps \cup {CfgNobody}]]
           /\ cfgAudit' \in [CfgDbs -> [CfgRevs -> Nat]] /\ cfgNotice' \in [CfgDbs -> [CfgRevs -> Nat]]
           /\ \A e \in CfgDbs : cfgDoc'[e].rev >= cfgDoc[e].rev
           /\ \A e \in CfgDbs, q \in CfgRevs :
                 /\ cfgAudit'[e][q] = IF q <= cfgDoc'[e].rev THEN 1 ELSE 0
                 /\ cfgNotice'[e][q] = cfgAudit'[e][q]
<1> DEFINE d == cfgCall[c].db
           o == cfgCall[c].op
           rev == cfgDoc[d].rev + 1
<1>1. CfgStoreTypes /\ d \in CfgDbs /\ o \in CfgOps
    BY CfgTypeParts DEF CfgInv, CfgStoreTypes, CfgCallType, CfgCallsKnown, CfgBatch
<1>2. CASE CfgCommits(c)
    <2>1. cfgDoc' = [cfgDoc EXCEPT ![d] = [rev |-> rev, op |-> o]] /\ CfgRevised(d, rev)
          /\ rev <= CfgMaxRev
        BY <1>2 DEF CfgBatch
    <2>2. cfgDoc[d].rev \in Nat /\ rev \in 0..CfgMaxRev /\ rev \in CfgRevs
        BY <1>1, <2>1, CfgAssumption DEF CfgStoreTypes, CfgRevs
    <2>3. /\ cfgDoc' \in [CfgDbs -> [rev : 0..CfgMaxRev, op : CfgOps \cup {CfgNobody}]]
          /\ cfgDoc'[d].rev = rev /\ \A e \in CfgDbs \ {d} : cfgDoc'[e] = cfgDoc[e]
        BY <1>1, <2>1, <2>2 DEF CfgStoreTypes
    <2>4. \A e \in CfgDbs : cfgDoc'[e].rev >= cfgDoc[e].rev
        <3>1. \A e \in CfgDbs : cfgDoc[e].rev \in Nat
            BY <1>1, CfgAssumption DEF CfgStoreTypes
        <3>q. QED BY <2>2, <2>3, <3>1
    <2> HIDE DEF d, rev
    <2>5. rev = cfgDoc[d].rev + 1
        BY DEF rev
    <2>q. QED BY <1>1, <2>1, <2>2, <2>3, <2>4, <2>5, CfgRevisedEffect, CfgRevisedCounts
<1>3. CASE ~CfgCommits(c)
    <2>1. UNCHANGED <<cfgDoc, cfgAudit, cfgNotice>>
        BY <1>3 DEF CfgBatch
    <2>2. \A e \in CfgDbs : cfgDoc[e].rev >= cfgDoc[e].rev
        BY <1>1, CfgAssumption DEF CfgStoreTypes
    <2>q. QED BY <1>1, <2>1, <2>2 DEF CfgInv, CfgStoreTypes, CfgOneNoticePerRevision
<1>q. QED BY <1>2, <1>3

\* The batch: whoever was told something before is still right, because a
\* receipt that exists is not overwritten and a commit needs revision and
\* expectation to be equal.
LEMMA CfgBatchInv ==
    ASSUME CfgInv, NEW c \in CfgCalls, CfgBatch(c)
    PROVE  CfgInv'
<1> DEFINE d == cfgCall[c].db
           o == cfgCall[c].op
           r == cfgReceipt[d][o]
           q == cfgReceipt'[d][o]
<1>1. CfgStoreTypes /\ CfgDaemonTypes
    BY CfgTypeParts DEF CfgInv
<1>2. /\ d \in CfgDbs /\ o \in CfgOps
      /\ cfgReceipt' \in [CfgDbs -> [CfgOps -> CfgReceiptType]]
      /\ \A e \in CfgDbs, p \in CfgOps : e # d \/ p # o => cfgReceipt'[e][p] = cfgReceipt[e][p]
      /\ r.status # "none" => q = r
      /\ r.status = "none" =>
            /\ q.status \in {"ok", "conflict"} /\ q.exp = cfgCall[c].exp
            /\ q.status = "ok" => cfgDoc[d].rev = cfgCall[c].exp /\ q.rev = cfgCall[c].exp + 1
    BY CfgBatchReceipt
<1>3. PICK p \in {"load", "done"}, a \in {"none", "conflict", "error"} :
         /\ cfgCall' = [cfgCall EXCEPT ![c] = [cfgCall[c] EXCEPT !.pc = p, !.answer = a]]
         /\ p = "load" => q.status = "ok" /\ q.exp = cfgCall[c].exp
         /\ a = "conflict" => q.status = "conflict"
         /\ a # "none" => p = "done"
    <2>1. cfgCall[c] \in CfgCallType /\ cfgCall[c].answer = "none"
        BY <1>1 DEF CfgInv, CfgStoreTypes, CfgCallsKnown, CfgBatch
    <2>2. CASE /\ q.exp = cfgCall[c].exp /\ q.status = "ok"
               /\ cfgCall' = [cfgCall EXCEPT ![c].pc = "load"]
        <3>1. cfgCall' = [cfgCall EXCEPT ![c] = [cfgCall[c] EXCEPT !.pc = "load", !.answer = "none"]]
            BY <1>1, <2>1, <2>2, ZenonT(60) DEF CfgStoreTypes, CfgCallType
        <3>q. QED BY <2>2, <3>1
    <2>3. CASE q.status = "conflict" /\ CfgAnswer(c, "conflict")
        <3>1. cfgCall' = [cfgCall EXCEPT ![c] = [cfgCall[c] EXCEPT !.pc = "done", !.answer = "conflict"]]
            BY <1>1, <2>3 DEF CfgStoreTypes, CfgAnswer
        <3>q. QED BY <2>3, <3>1
    <2>4. CASE CfgAnswer(c, "error")
        <3>1. cfgCall' = [cfgCall EXCEPT ![c] = [cfgCall[c] EXCEPT !.pc = "done", !.answer = "error"]]
            BY <1>1, <2>4 DEF CfgStoreTypes, CfgAnswer
        <3>q. QED BY <3>1
    <2>q. QED BY <2>2, <2>3, <2>4 DEF CfgBatch
<1>4. /\ cfgCall' \in [CfgCalls -> CfgCallType]
      /\ cfgCall'[c].pc = p /\ cfgCall'[c].answer = a
      /\ cfgCall'[c].db = d /\ cfgCall'[c].op = o /\ cfgCall'[c].exp = cfgCall[c].exp
      /\ \A b \in CfgCalls \ {c} : cfgCall'[b] = cfgCall[b]
    BY <1>1, <1>3, ZenonT(60) DEF CfgStoreTypes, CfgCallType
<1>5. /\ cfgDoc' \in [CfgDbs -> [rev : 0..CfgMaxRev, op : CfgOps \cup {CfgNobody}]]
      /\ cfgAudit' \in [CfgDbs -> [CfgRevs -> Nat]] /\ cfgNotice' \in [CfgDbs -> [CfgRevs -> Nat]]
      /\ \A e \in CfgDbs : cfgDoc'[e].rev >= cfgDoc[e].rev
    BY CfgBatchDocument
<1>6. CfgTypeOK'
    <2>1. CfgStoreTypes' /\ CfgDaemonTypes'
        BY <1>1, <1>2, <1>4, <1>5 DEF CfgStoreTypes, CfgDaemonTypes, CfgBatch
    <2>q. QED
        BY <2>1 DEF CfgTypeOK, CfgStoreTypes, CfgDaemonTypes, CfgCallType, CfgReceiptType
<1>7. CfgOneNoticePerRevision'
    <2>1. \A e \in CfgDbs, z \in CfgOps :
             cfgReceipt'[e][z].status = "ok" => cfgReceipt'[e][z].rev = cfgReceipt'[e][z].exp + 1
        BY <1>2 DEF CfgInv, CfgOneNoticePerRevision
    <2>q. QED BY <2>1, CfgBatchDocument DEF CfgOneNoticePerRevision
<1>8. /\ \A e \in CfgDbs : cfgDoc[e].rev \in Nat /\ cfgDoc'[e].rev \in Nat
      /\ \A b \in CfgCalls : cfgCall[b].db \in CfgDbs /\ cfgCall[b].exp \in Nat
    BY <1>1, <1>5, CfgAssumption DEF CfgStoreTypes, CfgCallType
<1>9. CfgCallsKnown'
    <2> SUFFICES ASSUME NEW b \in CfgCalls
                 PROVE  /\ cfgCall'[b].pc # "idle" =>
                              /\ cfgCall'[b].op \in CfgOps
                              /\ cfgCall'[b].exp <= cfgDoc'[cfgCall'[b].db].rev
                        /\ cfgCall'[b].answer # "none" => cfgCall'[b].pc \in {"publish", "done"}
        BY DEF CfgCallsKnown
    <2>1. /\ cfgCall'[b].db = cfgCall[b].db /\ cfgCall'[b].op = cfgCall[b].op
          /\ cfgCall'[b].exp = cfgCall[b].exp
          /\ cfgCall'[b].pc # "idle" => cfgCall[b].pc # "idle"
        BY <1>4 DEF CfgBatch
    <2>2. cfgCall'[b].pc # "idle" =>
              cfgCall[b].op \in CfgOps /\ cfgCall[b].exp <= cfgDoc[cfgCall[b].db].rev
        BY <2>1 DEF CfgInv, CfgCallsKnown
    <2>3. cfgCall'[b].answer # "none" => cfgCall'[b].pc \in {"publish", "done"}
        BY <1>3, <1>4 DEF CfgInv, CfgCallsKnown
    <2>4. cfgCall[b].db \in CfgDbs /\ cfgCall[b].exp \in Nat
        BY <1>8
    <2>5. cfgDoc[cfgCall[b].db].rev \in Nat /\ cfgDoc'[cfgCall[b].db].rev \in Nat
          /\ cfgDoc'[cfgCall[b].db].rev >= cfgDoc[cfgCall[b].db].rev
        BY <1>5, <1>8, <2>4
    <2>q. QED BY <2>1, <2>2, <2>3, <2>4, <2>5
<1>10. CfgReceiptsTell'
    <2> SUFFICES ASSUME NEW b \in CfgCalls
                 PROVE  LET k == cfgCall'[b]
                            s == cfgReceipt'[k.db][k.op]
                            committed == s.status = "ok" /\ s.exp = k.exp IN
                        /\ k.pc = "recheck" => cfgDoc'[k.db].rev > k.exp
                        /\ k.pc = "load" => committed
                        /\ k.answer \in {"applied", "replayed"} /\ k.op \notin cfgPurged => committed
                        /\ k.answer = "conflict" /\ k.op \notin cfgPurged
                              => ~committed /\ (s.status = "none" => cfgDoc'[k.db].rev > k.exp)
        BY DEF CfgReceiptsTell, CfgCommitted, CfgReceiptOf, CfgBatch
    <2>1. CASE b = c
        BY <1>2, <1>3, <1>4, <2>1
    <2>2. CASE b # c
        <3> DEFINE k == cfgCall[b]
                   s == cfgReceipt[k.db][k.op]
        <3>1. cfgCall'[b] = k /\ k.db \in CfgDbs /\ k.exp \in Nat
            BY <1>4, <1>8, <2>2
        <3>2. cfgDoc[k.db].rev \in Nat /\ cfgDoc'[k.db].rev \in Nat /\ cfgDoc'[k.db].rev >= cfgDoc[k.db].rev
            BY <1>5, <1>8, <3>1
        <3>3. k.pc = "load" \/ k.answer # "none" => k.op \in CfgOps
            BY DEF CfgInv, CfgCallsKnown
        <3>4. /\ k.pc = "recheck" => cfgDoc[k.db].rev > k.exp
              /\ k.pc = "load" => s.status = "ok" /\ s.exp = k.exp
              /\ k.answer \in {"applied", "replayed"} /\ k.op \notin cfgPurged
                    => s.status = "ok" /\ s.exp = k.exp
              /\ k.answer = "conflict" /\ k.op \notin cfgPurged
                    => ~(s.status = "ok" /\ s.exp = k.exp) /\ (s.status = "none" => cfgDoc[k.db].rev > k.exp)
            BY DEF CfgInv, CfgReceiptsTell, CfgCommitted, CfgReceiptOf
        <3>5. CASE k.db = d /\ k.op = o
            BY <1>2, <3>1, <3>2, <3>4, <3>5
        <3>6. CASE k.db # d \/ k.op # o
            <4>1. k.op \in CfgOps => cfgReceipt'[k.db][k.op] = s
                BY <1>2, <3>1, <3>6
            <4>q. QED BY <3>1, <3>2, <3>3, <3>4, <4>1
        <3>q. QED BY <3>5, <3>6
    <2>q. QED BY <2>1, <2>2
<1>q. QED BY <1>6, <1>7, <1>9, <1>10 DEF CfgInv
-----------------------------------------------------------------------------
\* The invariant holds before the first bootstrap.
LEMMA CfgInitInv == CfgInit => CfgInv
<1> SUFFICES ASSUME CfgInit PROVE CfgInv
    OBVIOUS
<1>1. CfgTypeOK
    BY CfgAssumption DEF CfgInit, CfgTypeOK, CfgRevs, CfgNoReceipt, CfgLoaded
<1>2. CfgOneNoticePerRevision
    BY CfgAssumption DEF CfgInit, CfgOneNoticePerRevision, CfgRevs, CfgNoReceipt
<1>3. CfgCallsKnown /\ CfgReceiptsTell
    BY DEF CfgInit, CfgCallsKnown, CfgReceiptsTell
<1>q. QED BY <1>1, <1>2, <1>3 DEF CfgInv

\* Every step keeps the invariant.
LEMMA CfgNextInv == CfgInv /\ [CfgNext]_cfgVars => CfgInv'
<1> SUFFICES ASSUME CfgInv, [CfgNext]_cfgVars PROVE CfgInv'
    OBVIOUS
<1>1. ASSUME NEW c \in CfgCalls, CfgCallStep(c) PROVE CfgInv'
    BY <1>1, CfgReceiptStepInv, CfgReadInv, CfgBatchInv, CfgLoadInv, CfgPublishInv DEF CfgCallStep
<1>2. CASE UNCHANGED cfgVars
    BY <1>2, CfgTypeParts, CfgDaemonFrame DEF cfgVars, CfgInv, CfgDaemonTypes
<1>q. QED
    BY <1>1, <1>2, CfgImportBatchInv, CfgImportReadInv, CfgSendInv, CfgPurgeInv, CfgTickInv,
       CfgReloadInv
    DEF CfgNext

\* The invariant holds in every reachable state.
LEMMA CfgAlwaysInv == CfgSpec => []CfgInv
BY CfgInitInv, CfgNextInv, PTL DEF CfgSpec

\* The variables keep their types, bounds included.
THEOREM CfgTypeCorrect == CfgSpec => []CfgTypeOK
<1>1. CfgInv => CfgTypeOK
    BY DEF CfgInv
<1>q. QED BY <1>1, CfgAlwaysInv, PTL

\* Each revision of each database's document has one audit row and one change
\* notice, and an acknowledged write followed the revision its author had read.
THEOREM CfgEachRevisionOnce == CfgSpec => []CfgOneNoticePerRevision
<1>1. CfgInv => CfgOneNoticePerRevision
    BY DEF CfgInv
<1>q. QED BY <1>1, CfgAlwaysInv, PTL

\* A retry is never told "conflict" when the first call's write was committed,
\* for as long as the receipt is kept.
THEOREM CfgRetriesAgree == CfgSpec => []CfgRetryAgrees
<1>1. CfgInv => CfgRetryAgrees
    BY DEF CfgInv, CfgReceiptsTell, CfgRetryAgrees, CfgCommitted, CfgReceiptOf
<1>q. QED BY <1>1, CfgAlwaysInv, PTL

\* The daemon's revision of one cluster falls only where a reload that reconnects
\* installs what it read: the publications of the PUT handler and of the
\* reconciler are monotonic, in whatever order they arrive.
THEOREM CfgForward == CfgSpec => CfgLiveForward
<1> DEFINE A == cfgLive'.db = cfgLive.db /\ cfgLive'.rev < cfgLive.rev
                => cfgReload.pc = "assign" /\ cfgReload'.pc = "idle" /\ cfgReload.swap
<1>1. ASSUME CfgInv, [CfgNext]_cfgVars PROVE [A]_cfgVars
    <2>1. CfgStoreTypes /\ CfgDaemonTypes
        BY <1>1, CfgTypeParts DEF CfgInv
    <2>2. cfgLive \in CfgLoaded /\ cfgLive.rev \in Nat
        BY <2>1, CfgAssumption DEF CfgDaemonTypes, CfgLoaded
    <2>3. ASSUME UNCHANGED cfgLive PROVE A
        BY <2>2, <2>3
    <2>4. ASSUME NEW loaded \in CfgLoaded, cfgLive' = CfgInstall(cfgLive, loaded) PROVE A
        <3>1. cfgLive'.rev >= cfgLive.rev /\ cfgLive' \in CfgLoaded
            BY <2>2, <2>4, CfgInstallForward
        <3>q. QED BY <2>2, <3>1, CfgAssumption DEF CfgLoaded
    <2>5. ASSUME NEW c \in CfgCalls, CfgCallStep(c) PROVE A
        <3>1. CASE CfgPublish(c)
            <4>1. [db |-> cfgCall[c].db, rev |-> cfgCall[c].rev] \in CfgLoaded
                BY <2>1 DEF CfgStoreTypes, CfgCallType, CfgLoaded
            <4>q. QED BY <2>4, <3>1, <4>1 DEF CfgPublish
        <3>q. QED BY <2>3, <2>5, <3>1 DEF CfgCallStep, CfgLookup, CfgRead, CfgRecheck, CfgBatch, CfgLoad
    <2>6. ASSUME CfgTickStep PROVE A
        BY <2>1, <2>3, <2>4, <2>6
        DEF CfgTickStep, CfgTickSnapshot, CfgTickRead, CfgTickPublish, CfgDaemonTypes
    <2>7. ASSUME CfgReloadAssign PROVE A
        <3>1. CASE cfgReload.swap
            BY <2>1, <2>7, <3>1 DEF CfgReloadAssign, CfgDaemonTypes
        <3>2. CASE ~cfgReload.swap /\ cfgLive.db # cfgReload.fresh.db
            BY <2>7, <3>2 DEF CfgReloadAssign
        <3>3. CASE ~cfgReload.swap /\ cfgLive.db = cfgReload.fresh.db
            BY <2>1, <2>4, <2>7, <3>3 DEF CfgReloadAssign, CfgDaemonTypes
        <3>q. QED BY <3>1, <3>2, <3>3
    <2>8. CASE UNCHANGED cfgVars
        BY <2>8
    <2> HIDE DEF A
    <2>q. QED
        BY <1>1, <2>3, <2>5, <2>6, <2>7, <2>8
        DEF CfgNext, CfgImportBatch, CfgImportRead, CfgSend, CfgPurge, CfgReloadStep, CfgReloadSwap,
            CfgReloadDropped, CfgReloadRead
<1>2. CfgSpec => []CfgInv /\ [][CfgNext]_cfgVars
    BY CfgAlwaysInv, PTL DEF CfgSpec
<1>q. QED BY <1>1, <1>2, PTL DEF CfgLiveForward

-----------------------------------------------------------------------------
(* Backups: for any number of processes, objects, recovery points and crashes *)
(* and any retention, BakInv is inductive and implies BakRestorable.  That    *)
(* pruning from an old listing is safe rests on BakBeyondStays: a point       *)
(* beyond the retention stays beyond it.                                      *)

USE DEF BakAt, BakGo, BakEnds

BakProcType ==
    [pc : BakPc, point : BakPoints \cup {0}, todo : SUBSET BakObjects, away : BOOLEAN,
     list : SUBSET BakPoints, seen : SUBSET BakPoints, live : SUBSET BakObjects]

bakRepo == <<bakObj, bakJson, bakHash, bakPoint, bakDrawn, bakPublished>>

\* A process that does nothing.
LEMMA BakIdleType ==
    /\ BakIdle \in BakProcType /\ BakIdle.pc = "idle" /\ BakIdle.list = {} /\ BakIdle.seen = {}
    /\ BakIdle.away = FALSE /\ BakIdle.live = {}
BY DEF BakIdle, BakProcType, BakPc

\* A step of one process, as its new state.
LEMMA BakProcUpdate ==
    ASSUME BakTypeOK, NEW p \in BakProcs, NEW k \in BakProcType,
           bakProc' = [bakProc EXCEPT ![p] = k]
    PROVE  /\ bakProc' \in [BakProcs -> BakProcType]
           /\ bakProc'[p] = k /\ \A q \in BakProcs \ {p} : bakProc'[q] = bakProc[q]
BY DEF BakTypeOK, BakProcType

\* More published points, and unchanged manifests of the old ones, leave a point
\* beyond the retention where it is.
LEMMA BakBeyondStays ==
    ASSUME IsFiniteSet(bakPublished), bakPublished \subseteq bakPublished',
           IsFiniteSet(bakPublished'),
           \A y \in bakPublished : bakPoint'[y] = bakPoint[y],
           NEW x, BakBeyond(x)
    PROVE  BakBeyond(x)'
<1> DEFINE before == {y \in bakPublished : ~bakPoint[y].manual /\ y > x}
           after == {y \in bakPublished' : ~bakPoint'[y].manual /\ y > x}
<1>1. before \subseteq after /\ IsFiniteSet(after)
    BY FS_Subset
<1>2. Cardinality(before) \in Nat /\ Cardinality(after) \in Nat /\ Cardinality(before) <= Cardinality(after)
    BY <1>1, FS_Subset, FS_CardinalityType
<1>q. QED
    BY <1>2, BakAssumption DEF BakBeyond

\* A step of one process that leaves the repository alone.  What it must keep
\* is what the invariant says of this process; it may take the lock when it is
\* free and release it when it has it.
LEMMA BakAlone ==
    ASSUME BakInv, NEW p \in BakProcs, NEW k \in BakProcType, bakProc' = [bakProc EXCEPT ![p] = k],
           UNCHANGED bakRepo, bakCrashes' \in 0..BakMaxCrashes,
           \/ UNCHANGED bakLock
           \/ bakLock \in {p, BakNobody} /\ bakLock' \in {p, BakNobody},
           k.pc \in {"await", "put", "sidecar", "json", "delete", "gc"} => bakLock' = p,
           k.pc \in {"await", "put", "sidecar", "json"} => k.point \in BakPoints /\ k.point = bakDrawn,
           k.pc \in {"sidecar", "json"} => bakPoint[k.point].refs \subseteq bakObj,
           k.pc = "json" => k.point \in bakHash,
           k.pc = "delete" => k.point \notin bakJson,
           k.pc = "gc" => \A x \in bakJson : bakPoint[x].refs \subseteq k.live,
           k.list \subseteq bakPublished, k.seen \subseteq bakPublished,
           k.pc \in {"prune", "delete"} => \A x \in k.list : BakBeyond(x)
    PROVE  BakInv'
<1>1. /\ bakProc' \in [BakProcs -> BakProcType]
      /\ bakProc'[p] = k /\ \A q \in BakProcs \ {p} : bakProc'[q] = bakProc[q]
    BY BakProcUpdate DEF BakInv
<1>2. BakTypeOK'
    BY <1>1 DEF BakInv, BakTypeOK, BakProcType, bakRepo
<1>3. BakLocked'
    BY <1>1, BakAssumption DEF BakInv, BakTypeOK, BakLocked
<1>4. BakCapturing' /\ BakCollecting' /\ BakWhole'
    BY <1>1 DEF BakInv, BakCapturing, BakCollecting, BakWhole, bakRepo
<1>5. \A x : BakBeyond(x)' <=> BakBeyond(x)
    BY DEF BakBeyond, bakRepo
<1>6. BakPruning'
    BY <1>1, <1>5 DEF BakInv, BakPruning, bakRepo
<1>q. QED BY <1>2, <1>3, <1>4, <1>6 DEF BakInv

\* A capture reads rows: an await.
LEMMA BakAwaitInv ==
    ASSUME BakInv, NEW p \in BakProcs, BakAwait(p)
    PROVE  BakInv'
<1>1. PICK away \in BOOLEAN : bakProc' = [bakProc EXCEPT ![p] = [@ EXCEPT !.pc = "put", !.away = away]]
    BY DEF BakAwait
<1> DEFINE k == [bakProc[p] EXCEPT !.pc = "put", !.away = away]
<1>2. bakProc[p] \in BakProcType /\ bakCrashes \in 0..BakMaxCrashes
    BY DEF BakInv, BakTypeOK, BakProcType
<1>3. /\ k \in BakProcType /\ k.pc = "put" /\ k.point = bakProc[p].point
      /\ k.list = bakProc[p].list /\ k.seen = bakProc[p].seen
    BY <1>2 DEF BakProcType, BakPc
<1>4. bakLock = p /\ bakProc[p].point \in BakPoints /\ bakProc[p].point = bakDrawn
    BY DEF BakInv, BakLocked, BakCapturing, BakAwait
<1>5. bakProc[p].list \subseteq bakPublished /\ bakProc[p].seen \subseteq bakPublished
    BY DEF BakInv, BakPruning
<1>6. bakProc' = [bakProc EXCEPT ![p] = k] /\ UNCHANGED <<bakRepo, bakCrashes, bakLock>>
    BY <1>1 DEF BakAwait, bakRepo
<1> HIDE DEF k
<1>q. QED BY <1>2, <1>3, <1>4, <1>5, <1>6, BakAlone

\* publish_manifest checks the objects, or gives up.
LEMMA BakPublishCheckInv ==
    ASSUME BakInv, NEW p \in BakProcs, BakPublishCheck(p)
    PROVE  BakInv'
<1>1. bakProc[p] \in BakProcType /\ bakCrashes \in 0..BakMaxCrashes
    BY DEF BakInv, BakTypeOK, BakProcType
<1>2. bakLock = p /\ bakProc[p].point \in BakPoints /\ bakProc[p].point = bakDrawn
    BY DEF BakInv, BakLocked, BakCapturing, BakPublishCheck
<1>3. bakProc[p].list \subseteq bakPublished /\ bakProc[p].seen \subseteq bakPublished
    BY DEF BakInv, BakPruning
<1>4. UNCHANGED <<bakRepo, bakCrashes>>
    BY DEF BakPublishCheck, bakRepo
<1>5. CASE bakPoint[bakProc[p].point].refs \subseteq bakObj
    <2> DEFINE k == [bakProc[p] EXCEPT !.pc = "sidecar"]
    <2>1. /\ k \in BakProcType /\ k.pc = "sidecar" /\ k.point = bakProc[p].point
          /\ k.list = bakProc[p].list /\ k.seen = bakProc[p].seen
        BY <1>1 DEF BakProcType, BakPc
    <2>2. bakProc' = [bakProc EXCEPT ![p] = k] /\ UNCHANGED bakLock
        BY <1>5 DEF BakPublishCheck
    <2> HIDE DEF k
    <2>q. QED BY <1>1, <1>2, <1>3, <1>4, <1>5, <2>1, <2>2, BakAlone
<1>6. CASE ~(bakPoint[bakProc[p].point].refs \subseteq bakObj)
    <2>1. bakProc' = [bakProc EXCEPT ![p] = BakIdle] /\ bakLock' = BakNobody
        BY <1>6 DEF BakPublishCheck
    <2>q. QED BY <1>1, <1>2, <1>4, <2>1, BakIdleType, BakAlone
<1>q. QED BY <1>5, <1>6

\* Listing, reading and deciding without the lock: what is decided is beyond the
\* retention of the points that were seen, hence of those that were published.
LEMMA BakPruneInv ==
    ASSUME BakInv, NEW p \in BakProcs, BakPruneList(p) \/ BakPruneRead(p) \/ BakPruneDecide(p)
    PROVE  BakInv'
<1>1. bakProc[p] \in BakProcType /\ bakCrashes \in 0..BakMaxCrashes /\ bakJson \subseteq BakPoints
    BY DEF BakInv, BakTypeOK, BakProcType
<1>2. /\ bakProc[p].list \subseteq bakPublished /\ bakProc[p].seen \subseteq bakPublished
      /\ bakJson \subseteq bakPublished /\ IsFiniteSet(bakPublished)
    BY DEF BakInv, BakPruning
<1>3. UNCHANGED <<bakRepo, bakCrashes, bakLock>>
    BY DEF BakPruneList, BakPruneRead, BakPruneDecide, bakRepo
<1>4. CASE BakPruneList(p)
    <2> DEFINE k == [bakProc[p] EXCEPT !.pc = "read", !.list = bakJson]
    <2>1. k \in BakProcType /\ k.pc = "read" /\ k.list = bakJson /\ k.seen = bakProc[p].seen
        BY <1>1 DEF BakProcType, BakPc
    <2>2. bakProc' = [bakProc EXCEPT ![p] = k]
        BY <1>4 DEF BakPruneList
    <2> HIDE DEF k
    <2>q. QED BY <1>1, <1>2, <1>3, <2>1, <2>2, BakAlone
<1>5. CASE BakPruneRead(p)
    <2>1. PICK x \in bakProc[p].list :
              IF x \in bakJson \cap bakHash
              THEN bakProc' = [bakProc EXCEPT ![p] = [@ EXCEPT !.list = bakProc[p].list \ {x},
                                                               !.seen = bakProc[p].seen \cup {x}]]
              ELSE bakProc' = [bakProc EXCEPT ![p] = BakIdle]
        BY <1>5 DEF BakPruneRead
    <2>2. CASE x \notin bakJson \cap bakHash
        BY <1>1, <1>3, <2>1, <2>2, BakIdleType, BakAlone
    <2>3. CASE x \in bakJson \cap bakHash
        <3> DEFINE k == [bakProc[p] EXCEPT !.list = bakProc[p].list \ {x},
                                          !.seen = bakProc[p].seen \cup {x}]
        <3>1. bakProc[p].list \in SUBSET BakPoints /\ bakProc[p].seen \in SUBSET BakPoints
            BY <1>1 DEF BakProcType
        <3>2. /\ k \in BakProcType /\ k.pc = bakProc[p].pc /\ k.list = bakProc[p].list \ {x}
              /\ k.seen = bakProc[p].seen \cup {x}
            BY <1>1, <3>1 DEF BakProcType
        <3>3. k.list \subseteq bakPublished /\ k.seen \subseteq bakPublished /\ k.pc = "read"
            BY <1>2, <1>5, <3>2 DEF BakPruneRead
        <3>4. bakProc' = [bakProc EXCEPT ![p] = k]
            BY <2>1, <2>3
        <3> HIDE DEF k
        <3>q. QED BY <1>1, <1>3, <3>2, <3>3, <3>4, BakAlone
    <2>q. QED BY <2>2, <2>3
<1>6. CASE BakPruneDecide(p)
    <2> DEFINE extra == BakExtra(bakProc[p].seen)
               k == [bakProc[p] EXCEPT !.pc = "prune", !.list = extra]
    <2>1. extra \subseteq bakProc[p].seen
        BY DEF BakExtra
    <2>2. ASSUME NEW x \in extra
          PROVE  BakBeyond(x)
        <3> DEFINE autos == {y \in bakProc[p].seen : ~bakPoint[y].manual}
                   newer == {y \in autos : y > x}
                   all == {y \in bakPublished : ~bakPoint[y].manual /\ y > x}
        <3>1. x \in autos /\ ~(Cardinality(newer) < BakRetention)
            BY DEF BakExtra, BakNewest
        <3>2. newer \subseteq all /\ IsFiniteSet(all)
            BY <1>2, FS_Subset
        <3>3. Cardinality(newer) \in Nat /\ Cardinality(all) \in Nat /\ Cardinality(newer) <= Cardinality(all)
            BY <3>2, FS_Subset, FS_CardinalityType
        <3>4. Cardinality(all) >= BakRetention
            BY <3>1, <3>3, BakAssumption
        <3>q. QED BY <1>2, <3>1, <3>4 DEF BakBeyond
    <2> HIDE DEF extra
    <2>3. extra \in SUBSET BakPoints
        BY <1>1, <2>1 DEF BakProcType
    <2>4. k \in BakProcType /\ k.pc = "prune" /\ k.list = extra /\ k.seen = bakProc[p].seen
        BY <1>1, <2>3 DEF BakProcType, BakPc
    <2>5. bakProc' = [bakProc EXCEPT ![p] = k]
        BY <1>6 DEF BakPruneDecide, extra
    <2> HIDE DEF k
    <2>q. QED BY <1>1, <1>2, <1>3, <2>1, <2>2, <2>4, <2>5, BakAlone
<1>q. QED BY <1>4, <1>5, <1>6

\* The collection marks under the lock, or stops.
LEMMA BakGcMarkInv ==
    ASSUME BakInv, NEW p \in BakProcs, BakGcMark(p)
    PROVE  BakInv'
<1> DEFINE live == UNION {bakPoint[x].refs : x \in bakJson}
           k == [bakProc[p] EXCEPT !.pc = "gc", !.live = live]
<1>1. bakProc[p] \in BakProcType /\ bakCrashes \in 0..BakMaxCrashes
    BY DEF BakInv, BakTypeOK, BakProcType
<1>2. bakProc[p].list \subseteq bakPublished /\ bakProc[p].seen \subseteq bakPublished
    BY DEF BakInv, BakPruning
<1>3. UNCHANGED <<bakRepo, bakCrashes>> /\ bakLock = BakNobody
    BY DEF BakGcMark, bakRepo
<1>4. live \in SUBSET BakObjects
    BY DEF BakInv, BakTypeOK, BakManifest
<1>5. \A x \in bakJson : bakPoint[x].refs \subseteq live
    OBVIOUS
<1> HIDE DEF live
<1>6. /\ k \in BakProcType /\ k.pc = "gc" /\ k.live = live
      /\ k.list = bakProc[p].list /\ k.seen = bakProc[p].seen
    BY <1>1, <1>4 DEF BakProcType, BakPc
<1>7. \/ bakProc' = [bakProc EXCEPT ![p] = k] /\ bakLock' = p
      \/ bakProc' = [bakProc EXCEPT ![p] = BakIdle] /\ UNCHANGED bakLock
    BY DEF BakGcMark, live
<1> HIDE DEF k
<1>8. CASE bakProc' = [bakProc EXCEPT ![p] = k] /\ bakLock' = p
    BY <1>1, <1>2, <1>3, <1>5, <1>6, <1>8, BakAlone
<1>9. CASE bakProc' = [bakProc EXCEPT ![p] = BakIdle] /\ UNCHANGED bakLock
    BY <1>1, <1>3, <1>9, BakIdleType, BakAlone
<1>q. QED BY <1>7, <1>8, <1>9

\* A process dies: nothing is undone.
LEMMA BakCrashInv ==
    ASSUME BakInv, NEW p \in BakProcs, BakCrash(p)
    PROVE  BakInv'
<1>1. bakCrashes' \in 0..BakMaxCrashes
    BY BakAssumption DEF BakInv, BakTypeOK, BakCrash
<1>2. UNCHANGED bakRepo /\ bakProc' = [bakProc EXCEPT ![p] = BakIdle]
    BY DEF BakCrash, bakRepo
<1>3. UNCHANGED bakLock \/ (bakLock = p /\ bakLock' = BakNobody)
    BY DEF BakCrash
<1>q. QED BY <1>1, <1>2, <1>3, BakIdleType, BakAlone

\* A step of the process that has the lock and writes files.  The others are
\* outside of captures, deletions and collections; the manifests of published
\* points do not change, and points go only when they are beyond the retention.
LEMMA BakWrites ==
    ASSUME BakInv, NEW p \in BakProcs, NEW k \in BakProcType, bakProc' = [bakProc EXCEPT ![p] = k],
           bakLock \in {p, BakNobody}, bakLock' \in {p, BakNobody}, UNCHANGED bakCrashes,
           bakObj' \subseteq BakObjects, bakPoint' \in [BakPoints -> BakManifest],
           bakJson' \subseteq BakPoints, bakHash' \subseteq BakPoints, bakPublished' \subseteq BakPoints,
           bakDrawn' \in BakPoints \cup {0},
           IsFiniteSet(bakPublished'), bakPublished \subseteq bakPublished',
           \A x \in bakPublished : bakPoint'[x] = bakPoint[x],
           \A x \in bakPublished' : x <= bakDrawn',
           bakJson' \subseteq bakPublished', \A x \in bakPublished' \ bakJson' : BakBeyond(x),
           BakWhole',
           k.pc \in {"await", "put", "sidecar", "json", "delete", "gc"} => bakLock' = p,
           k.pc \in {"await", "put", "sidecar", "json"} => k.point \in BakPoints /\ k.point = bakDrawn',
           k.pc \in {"sidecar", "json"} => bakPoint'[k.point].refs \subseteq bakObj',
           k.pc = "json" => k.point \in bakHash',
           k.pc = "delete" => k.point \notin bakJson',
           k.pc = "gc" => \A x \in bakJson' : bakPoint'[x].refs \subseteq k.live,
           k.list \subseteq bakPublished, k.seen \subseteq bakPublished,
           k.pc \in {"prune", "delete"} => \A x \in k.list : BakBeyond(x)
    PROVE  BakInv'
<1>1. /\ bakProc' \in [BakProcs -> BakProcType]
      /\ bakProc'[p] = k /\ \A q \in BakProcs \ {p} : bakProc'[q] = bakProc[q]
    BY BakProcUpdate DEF BakInv
<1>2. BakTypeOK'
    BY <1>1 DEF BakInv, BakTypeOK, BakProcType
<1>3. \A q \in BakProcs \ {p} :
          bakProc[q].pc \notin {"await", "put", "sidecar", "json", "delete", "gc"}
    BY BakAssumption DEF BakInv, BakLocked
<1>4. BakLocked' /\ BakCapturing' /\ BakCollecting'
    BY <1>1, <1>3 DEF BakLocked, BakCapturing, BakCollecting
<1>5. \A x : BakBeyond(x) => BakBeyond(x)'
    BY BakBeyondStays DEF BakInv, BakPruning
<1>6. BakPruning'
    BY <1>1, <1>5 DEF BakInv, BakPruning
<1>q. QED BY <1>2, <1>4, <1>6 DEF BakInv

\* What the invariant says of the repository, in the form BakWrites takes.
LEMMA BakFacts ==
    ASSUME BakInv, NEW p \in BakProcs
    PROVE  /\ bakProc[p] \in BakProcType
           /\ bakObj \subseteq BakObjects /\ bakPoint \in [BakPoints -> BakManifest]
           /\ bakJson \subseteq BakPoints /\ bakHash \subseteq BakPoints /\ bakPublished \subseteq BakPoints
           /\ bakDrawn \in BakPoints \cup {0}
           /\ IsFiniteSet(bakPublished) /\ bakJson \subseteq bakPublished
           /\ \A x \in bakPublished : x <= bakDrawn
           /\ \A x \in bakPublished \ bakJson : BakBeyond(x)
           /\ bakProc[p].list \subseteq bakPublished /\ bakProc[p].seen \subseteq bakPublished
           /\ bakProc[p].pc \in {"prune", "delete"} => \A x \in bakProc[p].list : BakBeyond(x)
BY DEF BakInv, BakTypeOK, BakProcType, BakPruning

\* backup_library draws a point that no published one equals.
LEMMA BakStartInv ==
    ASSUME BakInv, NEW p \in BakProcs, NEW m \in BakManifest, BakStart(p, m)
    PROVE  BakInv'
<1> DEFINE k == [BakIdle EXCEPT !.pc = "await", !.point = bakDrawn + 1, !.todo = m.refs]
<1>1. /\ bakDrawn + 1 \in BakPoints /\ bakDrawn' = bakDrawn + 1 /\ bakLock = BakNobody /\ bakLock' = p
      /\ bakPoint' = [bakPoint EXCEPT ![bakDrawn + 1] = m] /\ bakProc' = [bakProc EXCEPT ![p] = k]
      /\ UNCHANGED <<bakObj, bakJson, bakHash, bakPublished, bakCrashes>>
    BY DEF BakStart
<1>2. /\ k \in BakProcType /\ k.pc = "await" /\ k.point = bakDrawn + 1 /\ k.list = {} /\ k.seen = {}
    BY <1>1 DEF BakIdle, BakProcType, BakPc, BakManifest
<1>3. bakDrawn \in Nat /\ \A x \in bakPublished : x \in Nat /\ x <= bakDrawn
    <2>1. BakPoints \subseteq Nat /\ bakDrawn \in BakPoints \cup {0} /\ bakPublished \subseteq BakPoints
        BY BakFacts, BakAssumption
    <2>2. \A x \in bakPublished : x <= bakDrawn
        BY DEF BakInv, BakPruning
    <2>q. QED BY <2>1, <2>2
<1>4. /\ \A x \in bakPublished : bakPoint'[x] = bakPoint[x] /\ x <= bakDrawn'
      /\ bakPoint' \in [BakPoints -> BakManifest]
    BY <1>1, <1>3, BakFacts
<1>5. BakWhole'
    BY <1>1, <1>4, BakFacts DEF BakInv, BakWhole
<1> HIDE DEF k
<1>q. QED BY <1>1, <1>2, <1>4, <1>5, BakFacts, BakWrites

\* put_object adds an object.
LEMMA BakPutInv ==
    ASSUME BakInv, NEW p \in BakProcs, BakPut(p)
    PROVE  BakInv'
<1>1. PICK o \in bakProc[p].todo :
          /\ bakObj' = bakObj \cup {o}
          /\ bakProc' = [bakProc EXCEPT ![p] = [@ EXCEPT !.pc = "await", !.todo = bakProc[p].todo \ {o}]]
    BY DEF BakPut
<1> DEFINE k == [bakProc[p] EXCEPT !.pc = "await", !.todo = bakProc[p].todo \ {o}]
<1>2. bakProc' = [bakProc EXCEPT ![p] = k]
    BY <1>1
<1>3. bakProc[p].todo \in SUBSET BakObjects
    BY BakFacts DEF BakProcType
<1>4. /\ k \in BakProcType /\ k.pc = "await" /\ k.point = bakProc[p].point
      /\ k.list = bakProc[p].list /\ k.seen = bakProc[p].seen
    BY <1>3, BakFacts DEF BakProcType, BakPc
<1>5. /\ bakLock = p /\ bakProc[p].point \in BakPoints /\ bakProc[p].point = bakDrawn
      /\ UNCHANGED <<bakJson, bakHash, bakPoint, bakDrawn, bakPublished, bakLock, bakCrashes>>
    BY DEF BakPut, BakReenters, BakInv, BakCapturing
<1>6. bakObj' \subseteq BakObjects
    BY <1>1, <1>3, BakFacts
<1>7. BakWhole'
    BY <1>1, <1>5 DEF BakInv, BakWhole
<1> HIDE DEF k
<1>q. QED BY <1>2, <1>4, <1>5, <1>6, <1>7, BakFacts, BakWrites

\* The sidecar of the captured point.
LEMMA BakPublishSidecarInv ==
    ASSUME BakInv, NEW p \in BakProcs, BakPublishSidecar(p)
    PROVE  BakInv'
<1> DEFINE k == [bakProc[p] EXCEPT !.pc = "json"]
<1>1. /\ k \in BakProcType /\ k.pc = "json" /\ k.point = bakProc[p].point
      /\ k.list = bakProc[p].list /\ k.seen = bakProc[p].seen
    BY BakFacts DEF BakProcType, BakPc
<1>2. /\ bakLock = p /\ bakProc[p].point \in BakPoints /\ bakProc[p].point = bakDrawn
      /\ bakPoint[bakProc[p].point].refs \subseteq bakObj
    BY DEF BakPublishSidecar, BakInv, BakLocked, BakCapturing
<1>3. /\ bakHash' = bakHash \cup {bakProc[p].point} /\ bakProc' = [bakProc EXCEPT ![p] = k]
      /\ UNCHANGED <<bakObj, bakJson, bakPoint, bakDrawn, bakPublished, bakLock, bakCrashes>>
    BY DEF BakPublishSidecar
<1>4. BakWhole'
    BY <1>3 DEF BakInv, BakWhole
<1> HIDE DEF k
<1>q. QED BY <1>1, <1>2, <1>3, <1>4, BakFacts, BakWrites

\* The manifest of the captured point: it is published.
LEMMA BakPublishJsonInv ==
    ASSUME BakInv, NEW p \in BakProcs, BakPublishJson(p)
    PROVE  BakInv'
<1> DEFINE x == bakProc[p].point
           k == [BakIdle EXCEPT !.pc = IF bakPoint[x].manual THEN "idle" ELSE "list"]
<1>1. k \in BakProcType /\ k.pc \in {"idle", "list"} /\ k.list = {} /\ k.seen = {}
    BY DEF BakIdle, BakProcType, BakPc
<1>2. /\ bakLock = p /\ x \in BakPoints /\ x = bakDrawn
      /\ bakPoint[x].refs \subseteq bakObj /\ x \in bakHash
    BY DEF BakPublishJson, BakInv, BakLocked, BakCapturing
<1>3. /\ bakJson' = bakJson \cup {x} /\ bakPublished' = bakPublished \cup {x}
      /\ bakLock' = BakNobody /\ bakProc' = [bakProc EXCEPT ![p] = k]
      /\ UNCHANGED <<bakObj, bakHash, bakPoint, bakDrawn, bakCrashes>>
    BY DEF BakPublishJson
<1>4. BakWhole'
    BY <1>2, <1>3 DEF BakInv, BakWhole
<1> HIDE DEF x, k
<1>5. IsFiniteSet(bakPublished')
    BY <1>3, BakFacts, FS_AddElement
<1>6. \A y \in bakPublished' : y <= bakDrawn'
    BY <1>2, <1>3, BakFacts, BakAssumption
<1>q. QED BY <1>1, <1>2, <1>3, <1>4, <1>5, <1>6, BakFacts, BakWrites

\* delete_manifest takes a point that is beyond the retention off the list.
LEMMA BakDeleteJsonInv ==
    ASSUME BakInv, NEW p \in BakProcs, BakDeleteJson(p)
    PROVE  BakInv'
<1>1. PICK x \in bakProc[p].list :
          /\ bakJson' = bakJson \ {x}
          /\ bakProc' = [bakProc EXCEPT ![p] = [@ EXCEPT !.pc = "delete", !.point = x,
                                                        !.list = bakProc[p].list \ {x}]]
    BY DEF BakDeleteJson
<1> DEFINE k == [bakProc[p] EXCEPT !.pc = "delete", !.point = x, !.list = bakProc[p].list \ {x}]
<1>2. bakProc' = [bakProc EXCEPT ![p] = k]
    BY <1>1
<1>3. bakProc[p].list \in SUBSET BakPoints
    BY BakFacts DEF BakProcType
<1>4. /\ k \in BakProcType /\ k.pc = "delete" /\ k.point = x
      /\ k.list = bakProc[p].list \ {x} /\ k.seen = bakProc[p].seen
    BY <1>3, BakFacts DEF BakProcType, BakPc
<1>5. /\ bakLock = BakNobody /\ bakLock' = p /\ bakProc[p].pc = "prune"
      /\ UNCHANGED <<bakObj, bakHash, bakPoint, bakDrawn, bakPublished, bakCrashes>>
    BY DEF BakDeleteJson
<1>6. BakBeyond(x)
    BY <1>1, <1>5, BakFacts
<1>7. BakWhole'
    BY <1>1, <1>5 DEF BakInv, BakWhole
<1> HIDE DEF k
<1>q. QED BY <1>1, <1>2, <1>4, <1>5, <1>6, <1>7, BakFacts, BakWrites

\* Its sidecar goes after it.
LEMMA BakDeleteHashInv ==
    ASSUME BakInv, NEW p \in BakProcs, BakDeleteHash(p)
    PROVE  BakInv'
<1> DEFINE k == [bakProc[p] EXCEPT !.pc = "prune"]
<1>1. /\ k \in BakProcType /\ k.pc = "prune" /\ k.list = bakProc[p].list /\ k.seen = bakProc[p].seen
    BY BakFacts DEF BakProcType, BakPc
<1>2. bakLock = p /\ bakProc[p].point \notin bakJson /\ bakProc[p].pc = "delete"
    BY DEF BakDeleteHash, BakInv, BakLocked, BakCollecting
<1>3. /\ bakHash' = bakHash \ {bakProc[p].point} /\ bakProc' = [bakProc EXCEPT ![p] = k]
      /\ bakLock' = BakNobody
      /\ UNCHANGED <<bakObj, bakJson, bakPoint, bakDrawn, bakPublished, bakCrashes>>
    BY DEF BakDeleteHash
<1>4. BakWhole'
    BY <1>2, <1>3 DEF BakInv, BakWhole
<1> HIDE DEF k
<1>q. QED BY <1>1, <1>2, <1>3, <1>4, BakFacts, BakWrites

\* gc removes what no manifest refers to, and ends.
LEMMA BakGcSweepInv ==
    ASSUME BakInv, NEW p \in BakProcs, BakGcSweep(p)
    PROVE  BakInv'
<1>1. bakLock = p /\ bakProc[p].pc = "gc" /\ \A x \in bakJson : bakPoint[x].refs \subseteq bakProc[p].live
    BY DEF BakGcSweep, BakInv, BakLocked, BakCollecting
<1>2. UNCHANGED <<bakJson, bakHash, bakPoint, bakDrawn, bakPublished, bakCrashes>>
    BY DEF BakGcSweep
<1>3. ASSUME NEW o \in bakObj \ bakProc[p].live, bakObj' = bakObj \ {o}, UNCHANGED <<bakProc, bakLock>>
      PROVE  BakInv'
    <2>1. BakWhole'
        BY <1>1, <1>2, <1>3 DEF BakInv, BakWhole
    <2>2. bakProc' = [bakProc EXCEPT ![p] = bakProc[p]]
        BY <1>3 DEF BakInv, BakTypeOK
    <2>q. QED BY <1>1, <1>2, <1>3, <2>1, <2>2, BakFacts, BakWrites
<1>4. ASSUME bakProc' = [bakProc EXCEPT ![p] = BakIdle], bakLock' = BakNobody, UNCHANGED bakObj
      PROVE  BakInv'
    <2>1. bakCrashes' \in 0..BakMaxCrashes
        BY <1>2 DEF BakInv, BakTypeOK
    <2>q. QED BY <1>1, <1>2, <1>4, <2>1, BakIdleType, BakAlone DEF bakRepo
<1>q. QED BY <1>1, <1>3, <1>4 DEF BakGcSweep

LEMMA BakInitInv == BakInit => BakInv
<1> SUFFICES ASSUME BakInit PROVE BakInv
    OBVIOUS
<1>1. BakTypeOK
    BY BakAssumption, BakIdleType DEF BakInit, BakTypeOK, BakProcType, BakManifest
<1>2. BakLocked /\ BakCapturing /\ BakCollecting /\ BakWhole
    BY BakIdleType DEF BakInit, BakLocked, BakCapturing, BakCollecting, BakWhole
<1>3. BakPruning
    BY BakIdleType, FS_EmptySet DEF BakInit, BakPruning
<1>q. QED BY <1>1, <1>2, <1>3 DEF BakInv

LEMMA BakNextInv == BakInv /\ [BakNext]_bakVars => BakInv'
<1> SUFFICES ASSUME BakInv, [BakNext]_bakVars PROVE BakInv'
    OBVIOUS
<1>1. CASE UNCHANGED bakVars
    <2>1. \A x : BakBeyond(x)' <=> BakBeyond(x)
        BY <1>1 DEF BakBeyond, bakVars
    <2>2. BakPruning'
        BY <1>1, <2>1 DEF BakInv, BakPruning, bakVars
    <2>q. QED BY <1>1, <2>2 DEF BakInv, BakTypeOK, BakLocked, BakCapturing, BakCollecting, BakWhole, bakVars
<1>2. ASSUME NEW p \in BakProcs, BakStep(p)
      PROVE  BakInv'
    BY <1>2, BakAwaitInv, BakPutInv, BakPublishCheckInv, BakPublishSidecarInv, BakPublishJsonInv,
       BakPruneInv, BakDeleteJsonInv, BakDeleteHashInv, BakGcMarkInv, BakGcSweepInv DEF BakStep
<1>q. QED BY <1>1, <1>2, BakCrashInv, BakStartInv DEF BakNext

LEMMA BakAlwaysInv == BakSpec => []BakInv
BY BakInitInv, BakNextInv, PTL DEF BakSpec

\* The files, manifests and process states have the types bookclerk-library's
\* backup module gives them, for every repository.
THEOREM BakTypeCorrect == BakSpec => []BakTypeOK
<1>1. BakInv => BakTypeOK
    BY DEF BakInv
<1>q. QED BY <1>1, BakAlwaysInv, PTL

\* Every manual backup and the newest automatic ones keep a manifest, and every
\* manifest its sidecar and all its objects, whoever prunes from however old a
\* listing and whichever process dies between two file operations.
THEOREM BakAlwaysRestorable == BakSpec => []BakRestorable
<1>1. BakInv => BakRestorable
    <2> SUFFICES ASSUME BakInv PROVE BakRestorable
        OBVIOUS
    <2> DEFINE manual == {x \in bakPublished : bakPoint[x].manual}
               autos == bakPublished \ manual
    <2>1. ASSUME NEW x \in bakPublished, x \notin bakJson
          PROVE  x \in autos /\ x \notin BakNewest(autos, BakRetention)
        <3>1. BakBeyond(x)
            BY <2>1 DEF BakInv, BakPruning
        <3>2. {y \in autos : y > x} = {y \in bakPublished : ~bakPoint[y].manual /\ y > x}
            OBVIOUS
        <3>3. Cardinality({y \in autos : y > x}) \in Nat
            BY FS_Subset, FS_CardinalityType DEF BakInv, BakPruning
        <3>4. ~(Cardinality({y \in autos : y > x}) < BakRetention)
            BY <3>1, <3>2, <3>3, BakAssumption DEF BakBeyond
        <3>q. QED BY <3>1, <3>4 DEF BakBeyond, BakNewest
    <2>2. manual \cup BakNewest(autos, BakRetention) \subseteq bakJson
        BY <2>1 DEF BakNewest
    <2>3. BakWhole
        BY DEF BakInv
    <2>q. QED BY <2>2, <2>3 DEF BakRestorable, BakWhole
<1>q. QED BY <1>1, BakAlwaysInv, PTL
=============================================================================
