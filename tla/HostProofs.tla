----------------------------- MODULE HostProofs -----------------------------
(***************************************************************************)
(* Proofs about four parts of the daemon that share no state: the plugin   *)
(* installer, the media pool, the scratch directories of acquire handlers, *)
(* and the storage scan.  For each part its inductive invariant holds at   *)
(* first, is kept by each action (a lemma per action, over lemmas about    *)
(* the kinds of step that the actions are made of), and implies the        *)
(* properties that the runs of MCServices check, for any values of the     *)
(* constants.                                                              *)
(***************************************************************************)
EXTENDS PluginInstall, MediaPool, AcquireScratch, StorageScan, SumTheorems,
        SequenceTheorems, TLAPS

-----------------------------------------------------------------------------
(* Plugin install and removal *)

InstOpType == [pc : InstPc, to : InstTrees, purge : BOOLEAN, row : InstTrees,
               backed : BOOLEAN, owes : BOOLEAN, failed : BOOLEAN]

\* The part of the type invariant that file operations disturb.
InstDiskTypes ==
    /\ {instTree, instBackup, instHold} \subseteq InstTrees /\ instLedger \in InstVersions \cup {InstNone}
    /\ instState \subseteq {"dest", "hold", "left"}
    /\ instFaults \in 0..InstMaxFaults /\ instCrashes \in 0..InstMaxCrashes

\* What is known of the operation in progress.
InstWorking(p) == IF instOp[p].pc \in InstInstallPc THEN InstUpdating(p) ELSE InstRemoving(p)

\* Nothing, a damaged tree and the versions are three different things.
LEMMA InstTreesDiffer ==
    /\ InstNone \notin InstVersions /\ InstDamaged \notin InstVersions /\ InstDamaged # InstNone
    /\ InstNone \in InstTrees /\ InstDamaged \in InstTrees
BY InstAssumption DEF InstNone, InstDamaged, InstTrees

\* A process that is not idle has the lock, and no other process works.
LEMMA InstOneWorks ==
    ASSUME InstInv, NEW p \in InstProcs, ~InstAt(p, "idle")
    PROVE  /\ instLock = p /\ instSaid = "running" /\ instLock # InstNobody
           /\ \A q \in InstProcs \ {p} : InstAt(q, "idle")
           /\ instOp[p] \in InstOpType
           /\ InstWorking(p)
BY InstAssumption DEF InstInv, InstLocked, InstTypeOK, InstOpType, InstWorking

\* A step after which the operation goes on.
LEMMA InstGoes ==
    ASSUME InstInv, NEW p \in InstProcs, ~InstAt(p, "idle"),
           NEW o \in InstOpType, o.pc # "idle", instOp' = [instOp EXCEPT ![p] = o],
           InstContinues, InstDiskTypes', InstWorking(p)', InstOldKept'
    PROVE  InstInv'
<1>1. /\ instLock = p /\ instSaid = "running" /\ instLock # InstNobody
      /\ \A q \in InstProcs \ {p} : InstAt(q, "idle")
    BY InstOneWorks
<1>2. /\ instLock' = p /\ instSaid' = "running" /\ instLock' # InstNobody
      /\ instBefore' = instBefore /\ instTorn' = instTorn
    BY <1>1 DEF InstContinues, instHistory
<1>3. instOp \in [InstProcs -> InstOpType]
    BY DEF InstInv, InstTypeOK, InstOpType
<1>4. /\ instOp' \in [InstProcs -> InstOpType]
      /\ instOp'[p] = o /\ \A q \in InstProcs \ {p} : instOp'[q] = instOp[q]
    BY <1>3
<1>5. InstTypeOK'
    BY <1>2, <1>4 DEF InstInv, InstTypeOK, InstDiskTypes, InstOpType, InstEnds
<1>6. InstLocked'
    BY <1>1, <1>2, <1>4 DEF InstInv, InstLocked, InstAt
<1>7. \A q \in InstProcs : ~InstAt(q, "idle")' =>
          (IF instOp[q].pc \in InstInstallPc THEN InstUpdating(q) ELSE InstRemoving(q))'
    BY <1>1, <1>4 DEF InstAt, InstWorking
<1>8. InstAgree'
    BY <1>2 DEF InstAgree, InstHonest
<1>q. QED BY <1>5, <1>6, <1>7, <1>8 DEF InstInv, InstAt

\* A step that ends the operation.
LEMMA InstStops ==
    ASSUME InstInv, NEW p \in InstProcs, ~InstAt(p, "idle"),
           NEW said \in InstEnds \ {"running"}, NEW torn \in BOOLEAN, InstEnd(p, said, torn),
           InstDiskTypes', InstAgree', InstOldKept'
    PROVE  InstInv'
<1>1. instOp \in [InstProcs -> InstOpType] /\ InstIdle \in InstOpType /\ InstIdle.pc = "idle"
    BY InstTreesDiffer DEF InstInv, InstTypeOK, InstOpType, InstIdle, InstPc
<1>2. \A q \in InstProcs \ {p} : InstAt(q, "idle")
    BY InstOneWorks
<1>3. /\ instOp' \in [InstProcs -> InstOpType]
      /\ \A q \in InstProcs : instOp'[q].pc = "idle"
    BY <1>1, <1>2 DEF InstEnd, InstAt
<1>4. instLock' = InstNobody /\ instSaid' = said /\ instBefore' = instBefore /\ instTorn' \in BOOLEAN
    BY DEF InstEnd, InstInv, InstTypeOK
<1>5. InstTypeOK'
    BY <1>3, <1>4 DEF InstInv, InstTypeOK, InstDiskTypes, InstOpType
<1>6. InstLocked'
    BY <1>3, <1>4, InstAssumption DEF InstInv, InstLocked, InstAt
<1>q. QED BY <1>3, <1>5, <1>6 DEF InstInv, InstAt

\* What moves the operation on and changes nothing else of it.
LEMMA InstGoEffect ==
    ASSUME InstInv, NEW p \in InstProcs, NEW pc \in InstPc, InstGo(p, pc)
    PROVE  /\ [instOp[p] EXCEPT !.pc = pc] \in InstOpType
           /\ instOp' = [instOp EXCEPT ![p] = [instOp[p] EXCEPT !.pc = pc]]
           /\ instOp'[p] = [instOp[p] EXCEPT !.pc = pc]
BY DEF InstInv, InstTypeOK, InstOpType, InstGo

\* What InstGo leaves of the operation's other fields.
LEMMA InstGoFields ==
    ASSUME InstInv, NEW p \in InstProcs, NEW pc, InstGo(p, pc)
    PROVE  /\ instOp'[p].pc = pc /\ instOp'[p].to = instOp[p].to /\ instOp'[p].purge = instOp[p].purge
           /\ instOp'[p].row = instOp[p].row /\ instOp'[p].backed = instOp[p].backed
           /\ instOp'[p].owes = instOp[p].owes /\ instOp'[p].failed = instOp[p].failed
BY DEF InstInv, InstTypeOK, InstGo

\* A failure is counted, up to the bound.
LEMMA InstFaultType ==
    ASSUME InstInv, InstMayFail \/ InstNoFault
    PROVE  instFaults' \in 0..InstMaxFaults
BY InstAssumption DEF InstInv, InstTypeOK, InstMayFail, InstNoFault

\* A step that moves the operation on and tells the truth at its next point.
LEMMA InstGoesTo ==
    ASSUME InstInv, NEW p \in InstProcs, ~InstAt(p, "idle"), NEW pc \in InstPc, pc # "idle", InstGo(p, pc),
           InstContinues, InstDiskTypes', InstWorking(p)', InstOldKept'
    PROVE  InstInv'
<1> DEFINE o == [instOp[p] EXCEPT !.pc = pc]
<1>1. o \in InstOpType /\ o.pc = pc /\ instOp' = [instOp EXCEPT ![p] = o]
    BY InstGoEffect DEF InstInv, InstTypeOK
<1> HIDE DEF o
<1>q. QED BY <1>1, InstGoes

\* At first nothing is installed and nobody works.
LEMMA InstInitInv == InstInit => InstInv
<1> SUFFICES ASSUME InstInit PROVE InstInv
    OBVIOUS
<1>1. InstIdle \in InstOpType /\ InstIdle.pc = "idle"
    BY InstTreesDiffer DEF InstOpType, InstIdle, InstPc
<1>2. instOp \in [InstProcs -> InstOpType] /\ \A p \in InstProcs : instOp[p].pc = "idle"
    BY <1>1 DEF InstInit
<1>3. InstTypeOK
  <2>1. /\ {instTree, instBackup, instHold} \subseteq InstTrees /\ instLedger \in InstVersions \cup {InstNone}
        /\ instState \subseteq {"dest", "hold", "left"} /\ instLock \in InstProcs \cup {InstNobody}
      BY InstTreesDiffer DEF InstInit
  <2>2. instBefore \in [op : {"none", "install", "remove"}, tree : InstTrees, row : InstTrees,
                        state : SUBSET {"dest", "left"}]
      BY InstTreesDiffer DEF InstInit
  <2>3. instSaid \in InstEnds /\ instTorn \in BOOLEAN
      BY DEF InstInit, InstEnds
  <2>4. instFaults \in 0..InstMaxFaults /\ instCrashes \in 0..InstMaxCrashes
      BY InstAssumption DEF InstInit
  <2>q. QED BY <1>2, <2>1, <2>2, <2>3, <2>4 DEF InstTypeOK, InstOpType
<1>4. InstLocked
    BY <1>2, InstAssumption DEF InstInit, InstLocked, InstAt
<1>5. InstAgree /\ InstOldKept
    BY InstTreesDiffer DEF InstInit, InstAgree, InstHonest, InstOldKept
<1>q. QED BY <1>2, <1>3, <1>4, <1>5 DEF InstInv, InstAt

\* An operation takes the install lock and records what it found.
LEMMA InstBeginInv ==
    ASSUME InstInv, NEW p \in InstProcs, NEW op \in {"install", "remove"}, NEW pc \in {"check", "resolve"},
           NEW to \in InstTrees, NEW purge \in BOOLEAN, InstBegin(p, op, pc, to, purge),
           pc = "check" <=> op = "install", op = "install" => to \in InstVersions
    PROVE  InstInv'
<1> DEFINE o == [InstIdle EXCEPT !.pc = pc, !.to = to, !.purge = purge]
<1>1. /\ o \in InstOpType /\ o.pc = pc /\ o.to = to /\ o.row = InstNone
      /\ o.owes = FALSE /\ o.backed = FALSE
    BY InstTreesDiffer DEF InstIdle, InstOpType, InstPc
<1> HIDE DEF o
<1>2. /\ instOp \in [InstProcs -> InstOpType] /\ instOp' = [instOp EXCEPT ![p] = o]
      /\ \A q \in InstProcs : instOp[q].pc = "idle"
    BY InstAssumption DEF InstInv, InstTypeOK, InstOpType, InstLocked, InstBegin, InstAt, o
<1>3. /\ instOp' \in [InstProcs -> InstOpType]
      /\ instOp'[p] = o /\ \A q \in InstProcs \ {p} : instOp'[q] = instOp[q]
    BY <1>1, <1>2
<1>4. /\ instLock' = p /\ instSaid' = "running" /\ instTorn' = instTorn
      /\ UNCHANGED <<instTree, instBackup, instLedger, instFaults, instCrashes>>
      /\ instHold' = InstNone
      /\ instState' = {IF s = "hold" THEN "left" ELSE s : s \in instState}
      /\ instBefore' = [op |-> op, tree |-> instTree, row |-> instLedger, state |-> instState \ {"hold"}]
    BY DEF InstBegin
<1>5. instState' \subseteq {"dest", "hold", "left"} /\ instBefore'.state \subseteq instState'
      /\ instBefore'.state \in SUBSET {"dest", "left"}
    BY <1>4 DEF InstInv, InstTypeOK
<1>6. InstTypeOK'
    BY <1>3, <1>4, <1>5, InstTreesDiffer DEF InstInv, InstTypeOK, InstOpType, InstEnds, InstTrees
<1>7. InstLocked'
  <2>1. instLock' # InstNobody
      BY <1>4, InstAssumption
  <2>2. instLock = InstNobody
      BY DEF InstBegin
  <2>3. ~instTorn' => instBefore'.tree = instBefore'.row
      BY <1>4, <2>2 DEF InstInv, InstAgree
  <2>4. instBefore'.row \in InstVersions \cup {InstNone}
      BY <1>4 DEF InstInv, InstTypeOK
  <2>5. \A q \in InstProcs : instLock' = q <=> instOp'[q].pc # "idle"
      BY <1>1, <1>2, <1>3, <1>4
  <2>q. QED BY <1>4, <2>1, <2>3, <2>4, <2>5 DEF InstLocked, InstAt
<1>8. InstAgree'
    BY <1>4, InstAssumption DEF InstAgree, InstHonest
<1>9. InstOldKept'
    BY <1>4 DEF InstOldKept
<1>10. op = "install" => InstUpdating(p)'
    BY <1>1, <1>3, <1>4 DEF InstUpdating
<1>11. op = "remove" => InstRemoving(p)'
    BY <1>1, <1>3, <1>4, <1>5 DEF InstRemoving
<1>12. \A q \in InstProcs : ~InstAt(q, "idle")' =>
          (IF instOp[q].pc \in InstInstallPc THEN InstUpdating(q) ELSE InstRemoving(q))'
    BY <1>1, <1>2, <1>3, <1>10, <1>11 DEF InstAt, InstInstallPc
<1>q. QED BY <1>6, <1>7, <1>8, <1>9, <1>12 DEF InstInv, InstAt

\* install: the ledger row is read before anything is touched.
LEMMA InstCheckInv == ASSUME InstInv, NEW p \in InstProcs, InstCheck(p) PROVE InstInv'
<1>1. /\ ~InstAt(p, "idle") /\ instOp[p].pc = "check"
      /\ UNCHANGED <<instTree, instBackup, instHold, instLedger, instState, instFaults, instCrashes>>
    BY DEF InstCheck, InstAt, instDisk
<1>2. instOp[p] \in InstOpType /\ InstUpdating(p)
    BY <1>1, InstOneWorks DEF InstWorking, InstInstallPc
<1>3. InstDiskTypes'
    BY <1>1, InstFaultType, InstTreesDiffer DEF InstInv, InstTypeOK, InstDiskTypes, InstCheck, InstTrees
<1>4. ASSUME InstEnd(p, "refused", FALSE)
      PROVE  InstInv'
  <2>1. InstAgree'
      BY <1>1, <1>2, <1>4, InstOneWorks, InstTreesDiffer
         DEF InstAgree, InstHonest, InstEnd, InstUpdating, InstInv, InstLocked
  <2>2. InstOldKept'
      BY <1>1, <1>2, <1>4, InstTreesDiffer DEF InstOldKept, InstEnd, InstUpdating
  <2>q. QED BY <1>1, <1>3, <1>4, <2>1, <2>2, InstStops DEF InstEnds
<1>5. ASSUME instOp' = [instOp EXCEPT ![p] = [@ EXCEPT !.pc = "stage", !.row = instLedger]], InstContinues
      PROVE  InstInv'
  <2> DEFINE o == [instOp[p] EXCEPT !.pc = "stage", !.row = instLedger]
  <2>1. /\ o \in InstOpType /\ instOp' = [instOp EXCEPT ![p] = o] /\ instOp'[p] = o
        /\ o.pc = "stage" /\ o.to = instOp[p].to /\ o.row = instLedger
        /\ o.backed = instOp[p].backed /\ o.owes = instOp[p].owes /\ o.failed = instOp[p].failed
      BY <1>2, <1>5 DEF InstOpType, InstPc, InstInv, InstTypeOK, InstTrees
  <2> HIDE DEF o
  <2>2. InstWorking(p)'
      BY <1>1, <1>2, <1>5, <2>1, InstTreesDiffer
         DEF InstWorking, InstInstallPc, InstUpdating, InstContinues, instHistory
  <2>3. InstOldKept'
      BY <1>1, <1>2, <1>5, InstTreesDiffer DEF InstOldKept, InstInv, InstUpdating, InstContinues, instHistory
  <2>q. QED BY <1>1, <1>3, <1>5, <2>1, <2>2, <2>3, InstGoes
<1>q. QED BY <1>4, <1>5, InstTreesDiffer DEF InstCheck

\* The new version is unpacked beside the tree.
LEMMA InstStageInv == ASSUME InstInv, NEW p \in InstProcs, InstStage(p) PROVE InstInv'
<1>1. /\ ~InstAt(p, "idle") /\ instOp[p].pc = "stage"
      /\ UNCHANGED <<instTree, instBackup, instHold, instLedger, instState, instCrashes>>
    BY DEF InstStage, InstAt, instDisk
<1>2. instOp[p] \in InstOpType /\ InstUpdating(p)
    BY <1>1, InstOneWorks DEF InstWorking, InstInstallPc
<1>3. InstDiskTypes'
    BY <1>1, InstFaultType, InstTreesDiffer DEF InstInv, InstTypeOK, InstDiskTypes, InstStage, InstTrees
<1>4. ASSUME InstEnd(p, "error", FALSE)
      PROVE  InstInv'
  <2>1. InstAgree'
      BY <1>1, <1>2, <1>4, InstOneWorks, InstTreesDiffer
         DEF InstAgree, InstHonest, InstEnd, InstUpdating, InstInv, InstLocked
  <2>2. InstOldKept'
      BY <1>1, <1>2, <1>4, InstTreesDiffer DEF InstOldKept, InstEnd, InstUpdating
  <2>q. QED BY <1>1, <1>3, <1>4, <2>1, <2>2, InstStops DEF InstEnds
<1>5. ASSUME NEW pc \in {"copy", "dropbackup"}, InstGo(p, pc), pc = "copy" => instTree = InstNone, InstContinues
      PROVE  InstInv'
  <2>0. /\ instOp'[p].pc = pc /\ pc \in InstPc /\ pc # "idle"
        /\ instOp'[p].to = instOp[p].to /\ instOp'[p].row = instOp[p].row
        /\ instOp'[p].backed = instOp[p].backed /\ instOp'[p].owes = instOp[p].owes
        /\ instOp'[p].failed = instOp[p].failed
      BY <1>5, InstGoFields DEF InstPc
  <2>1. InstWorking(p)'
      BY <1>1, <1>2, <1>5, <2>0, InstTreesDiffer
         DEF InstWorking, InstInstallPc, InstUpdating, InstContinues, instHistory
  <2>2. InstOldKept'
      BY <1>1, <1>2, <1>5, InstTreesDiffer DEF InstOldKept, InstInv, InstUpdating, InstContinues, instHistory
  <2>q. QED BY <1>1, <1>3, <1>5, <2>0, <2>1, <2>2, InstGoesTo
<1>q. QED BY <1>4, <1>5, InstTreesDiffer DEF InstStage

\* A backup left by an earlier install is removed.
LEMMA InstDropBackupInv == ASSUME InstInv, NEW p \in InstProcs, InstDropBackup(p) PROVE InstInv'
<1>1. /\ ~InstAt(p, "idle") /\ instOp[p].pc = "dropbackup"
      /\ UNCHANGED <<instTree, instHold, instLedger, instState, instCrashes>>
    BY DEF InstDropBackup, InstAt, instDisk
<1>2. instOp[p] \in InstOpType /\ InstUpdating(p)
    BY <1>1, InstOneWorks DEF InstWorking, InstInstallPc
<1>3. InstDiskTypes'
    BY <1>1, InstFaultType, InstTreesDiffer DEF InstInv, InstTypeOK, InstDiskTypes, InstDropBackup, InstTrees, InstDeletes
<1>4. ASSUME InstEnd(p, "error", FALSE)
      PROVE  InstInv'
  <2>1. InstAgree'
      BY <1>1, <1>2, <1>4, InstOneWorks, InstTreesDiffer
         DEF InstAgree, InstHonest, InstEnd, InstUpdating, InstInv, InstLocked
  <2>2. InstOldKept'
      BY <1>1, <1>2, <1>4, InstTreesDiffer DEF InstOldKept, InstEnd, InstUpdating
  <2>q. QED BY <1>1, <1>3, <1>4, <2>1, <2>2, InstStops DEF InstEnds
<1>5. ASSUME InstGo(p, "backup"), InstContinues
      PROVE  InstInv'
  <2>0. /\ instOp'[p].pc = "backup" /\ "backup" \in InstPc /\ "backup" # "idle"
        /\ instOp'[p].to = instOp[p].to /\ instOp'[p].row = instOp[p].row
        /\ instOp'[p].backed = instOp[p].backed /\ instOp'[p].owes = instOp[p].owes
        /\ instOp'[p].failed = instOp[p].failed
      BY <1>5, InstGoFields DEF InstPc
  <2>1. InstWorking(p)'
      BY <1>1, <1>2, <1>5, <2>0, InstTreesDiffer
         DEF InstWorking, InstInstallPc, InstUpdating, InstContinues, instHistory
  <2>2. InstOldKept'
      BY <1>1, <1>2, <1>5, InstTreesDiffer DEF InstOldKept, InstInv, InstUpdating, InstContinues, instHistory
  <2>q. QED BY <1>1, <1>3, <1>5, <2>0, <2>1, <2>2, InstGoesTo
<1>q. QED BY <1>4, <1>5, InstTreesDiffer DEF InstDropBackup

\* The installed tree is renamed into the backup.
LEMMA InstBackupInv == ASSUME InstInv, NEW p \in InstProcs, InstBackup(p) PROVE InstInv'
<1>1. /\ ~InstAt(p, "idle") /\ instOp[p].pc = "backup"
      /\ UNCHANGED <<instHold, instLedger, instState, instCrashes>>
    BY DEF InstBackup, InstAt, instDisk
<1>2. instOp[p] \in InstOpType /\ InstUpdating(p)
    BY <1>1, InstOneWorks DEF InstWorking, InstInstallPc
<1>3. InstDiskTypes'
    BY <1>1, InstFaultType, InstTreesDiffer DEF InstInv, InstTypeOK, InstDiskTypes, InstBackup, InstTrees
<1>4. ASSUME UNCHANGED instTree, InstEnd(p, "error", FALSE)
      PROVE  InstInv'
  <2>1. InstAgree'
      BY <1>1, <1>2, <1>4, InstOneWorks, InstTreesDiffer
         DEF InstAgree, InstHonest, InstEnd, InstUpdating, InstInv, InstLocked
  <2>2. InstOldKept'
      BY <1>1, <1>2, <1>4, InstTreesDiffer DEF InstOldKept, InstEnd, InstUpdating
  <2>q. QED BY <1>1, <1>3, <1>4, <2>1, <2>2, InstStops DEF InstEnds
<1>5. ASSUME instBackup' = instTree, instTree' = InstNone, instOp' = [instOp EXCEPT ![p] = [@ EXCEPT !.pc = "copy", !.backed = TRUE]], InstContinues
      PROVE  InstInv'
  <2> DEFINE o == [instOp[p] EXCEPT !.pc = "copy", !.backed = TRUE]
  <2>1. /\ o \in InstOpType /\ instOp' = [instOp EXCEPT ![p] = o] /\ instOp'[p] = o
        /\ o.pc = "copy" /\ o.to = instOp[p].to /\ o.row = instOp[p].row
        /\ o.backed = TRUE /\ o.owes = instOp[p].owes /\ o.failed = instOp[p].failed
      BY <1>2, <1>5 DEF InstOpType, InstPc, InstInv, InstTypeOK, InstTrees
  <2> HIDE DEF o
  <2>2. InstWorking(p)'
      BY <1>1, <1>2, <1>5, <2>1, InstTreesDiffer
         DEF InstWorking, InstInstallPc, InstUpdating, InstContinues, instHistory
  <2>3. InstOldKept'
      BY <1>1, <1>2, <1>5, InstTreesDiffer DEF InstOldKept, InstInv, InstUpdating, InstContinues, instHistory
  <2>q. QED BY <1>1, <1>3, <1>5, <2>1, <2>2, <2>3, InstGoes
<1>q. QED BY <1>4, <1>5, InstTreesDiffer DEF InstBackup

\* The staged version becomes the tree, perhaps only in part.
LEMMA InstCopyInv == ASSUME InstInv, NEW p \in InstProcs, InstCopy(p) PROVE InstInv'
<1>1. /\ ~InstAt(p, "idle") /\ instOp[p].pc = "copy"
      /\ UNCHANGED <<instBackup, instHold, instLedger, instState, instCrashes>>
    BY DEF InstCopy, InstAt, instDisk
<1>2. instOp[p] \in InstOpType /\ InstUpdating(p)
    BY <1>1, InstOneWorks DEF InstWorking, InstInstallPc
<1>3. InstDiskTypes'
    BY <1>1, InstFaultType, InstTreesDiffer DEF InstInv, InstTypeOK, InstDiskTypes, InstCopy, InstTrees
<1>4. ASSUME instTree' = InstDamaged, NEW pc \in {"receipt", "undo"}, InstGo(p, pc), InstContinues
      PROVE  InstInv'
  <2>0. /\ instOp'[p].pc = pc /\ pc \in InstPc /\ pc # "idle"
        /\ instOp'[p].to = instOp[p].to /\ instOp'[p].row = instOp[p].row
        /\ instOp'[p].backed = instOp[p].backed /\ instOp'[p].owes = instOp[p].owes
        /\ instOp'[p].failed = instOp[p].failed
      BY <1>4, InstGoFields DEF InstPc
  <2>1. InstWorking(p)'
      BY <1>1, <1>2, <1>4, <2>0, InstTreesDiffer
         DEF InstWorking, InstInstallPc, InstUpdating, InstContinues, instHistory
  <2>2. InstOldKept'
      BY <1>1, <1>2, <1>4, InstTreesDiffer DEF InstOldKept, InstInv, InstUpdating, InstContinues, instHistory
  <2>q. QED BY <1>1, <1>3, <1>4, <2>0, <2>1, <2>2, InstGoesTo
<1>q. QED BY <1>4, InstTreesDiffer DEF InstCopy

\* The receipt is written into the new tree, or the tree is given up.
LEMMA InstReceiptInv == ASSUME InstInv, NEW p \in InstProcs, InstReceipt(p) PROVE InstInv'
<1>1. /\ ~InstAt(p, "idle") /\ instOp[p].pc = "receipt"
      /\ UNCHANGED <<instBackup, instHold, instLedger, instState, instCrashes>>
    BY DEF InstReceipt, InstAt, instDisk
<1>2. instOp[p] \in InstOpType /\ InstUpdating(p)
    BY <1>1, InstOneWorks DEF InstWorking, InstInstallPc
<1>3. InstDiskTypes'
    BY <1>1, <1>2, InstFaultType, InstTreesDiffer
       DEF InstInv, InstTypeOK, InstDiskTypes, InstReceipt, InstTrees, InstUpdating
<1>4. ASSUME instTree' = instOp[p].to, InstGo(p, "ledger"), InstContinues
      PROVE  InstInv'
  <2>0. /\ instOp'[p].pc = "ledger" /\ "ledger" \in InstPc /\ "ledger" # "idle"
        /\ instOp'[p].to = instOp[p].to /\ instOp'[p].row = instOp[p].row
        /\ instOp'[p].backed = instOp[p].backed /\ instOp'[p].owes = instOp[p].owes
        /\ instOp'[p].failed = instOp[p].failed
      BY <1>4, InstGoFields DEF InstPc
  <2>1. InstWorking(p)'
      BY <1>1, <1>2, <1>4, <2>0, InstTreesDiffer
         DEF InstWorking, InstInstallPc, InstUpdating, InstContinues, instHistory
  <2>2. InstOldKept'
      BY <1>1, <1>2, <1>4, InstTreesDiffer DEF InstOldKept, InstInv, InstUpdating, InstContinues, instHistory
  <2>q. QED BY <1>1, <1>3, <1>4, <2>0, <2>1, <2>2, InstGoesTo
<1>5. ASSUME UNCHANGED instTree, InstGo(p, "undo"), InstContinues
      PROVE  InstInv'
  <2>0. /\ instOp'[p].pc = "undo" /\ "undo" \in InstPc /\ "undo" # "idle"
        /\ instOp'[p].to = instOp[p].to /\ instOp'[p].row = instOp[p].row
        /\ instOp'[p].backed = instOp[p].backed /\ instOp'[p].owes = instOp[p].owes
        /\ instOp'[p].failed = instOp[p].failed
      BY <1>5, InstGoFields DEF InstPc
  <2>1. InstWorking(p)'
      BY <1>1, <1>2, <1>5, <2>0, InstTreesDiffer
         DEF InstWorking, InstInstallPc, InstUpdating, InstContinues, instHistory
  <2>2. InstOldKept'
      BY <1>1, <1>2, <1>5, InstTreesDiffer DEF InstOldKept, InstInv, InstUpdating, InstContinues, instHistory
  <2>q. QED BY <1>1, <1>3, <1>5, <2>0, <2>1, <2>2, InstGoesTo
<1>q. QED BY <1>4, <1>5, InstTreesDiffer DEF InstReceipt

\* The ledger takes the new version, or the tree is undone.
LEMMA InstRecordInv == ASSUME InstInv, NEW p \in InstProcs, InstRecord(p) PROVE InstInv'
<1>1. /\ ~InstAt(p, "idle") /\ instOp[p].pc = "ledger"
      /\ UNCHANGED <<instTree, instBackup, instHold, instState, instCrashes>>
    BY DEF InstRecord, InstAt, instDisk
<1>2. instOp[p] \in InstOpType /\ InstUpdating(p)
    BY <1>1, InstOneWorks DEF InstWorking, InstInstallPc
<1>3. InstDiskTypes'
    BY <1>1, <1>2, InstFaultType, InstTreesDiffer
       DEF InstInv, InstTypeOK, InstDiskTypes, InstRecord, InstTrees, InstUpdating
<1>4. ASSUME instLedger' = instOp[p].to, InstGo(p, "health"), InstContinues
      PROVE  InstInv'
  <2>0. /\ instOp'[p].pc = "health" /\ "health" \in InstPc /\ "health" # "idle"
        /\ instOp'[p].to = instOp[p].to /\ instOp'[p].row = instOp[p].row
        /\ instOp'[p].backed = instOp[p].backed /\ instOp'[p].owes = instOp[p].owes
        /\ instOp'[p].failed = instOp[p].failed
      BY <1>4, InstGoFields DEF InstPc
  <2>1. InstWorking(p)'
      BY <1>1, <1>2, <1>4, <2>0, InstTreesDiffer
         DEF InstWorking, InstInstallPc, InstUpdating, InstContinues, instHistory
  <2>2. InstOldKept'
      BY <1>1, <1>2, <1>4, InstTreesDiffer DEF InstOldKept, InstInv, InstUpdating, InstContinues, instHistory
  <2>q. QED BY <1>1, <1>3, <1>4, <2>0, <2>1, <2>2, InstGoesTo
<1>5. ASSUME UNCHANGED instLedger, InstGo(p, "undo"), InstContinues
      PROVE  InstInv'
  <2>0. /\ instOp'[p].pc = "undo" /\ "undo" \in InstPc /\ "undo" # "idle"
        /\ instOp'[p].to = instOp[p].to /\ instOp'[p].row = instOp[p].row
        /\ instOp'[p].backed = instOp[p].backed /\ instOp'[p].owes = instOp[p].owes
        /\ instOp'[p].failed = instOp[p].failed
      BY <1>5, InstGoFields DEF InstPc
  <2>1. InstWorking(p)'
      BY <1>1, <1>2, <1>5, <2>0, InstTreesDiffer
         DEF InstWorking, InstInstallPc, InstUpdating, InstContinues, instHistory
  <2>2. InstOldKept'
      BY <1>1, <1>2, <1>5, InstTreesDiffer DEF InstOldKept, InstInv, InstUpdating, InstContinues, instHistory
  <2>q. QED BY <1>1, <1>3, <1>5, <2>0, <2>1, <2>2, InstGoesTo
<1>q. QED BY <1>4, <1>5, InstTreesDiffer DEF InstRecord

\* The backup is put back over a new tree that has no ledger row.
LEMMA InstUndoInv == ASSUME InstInv, NEW p \in InstProcs, InstUndo(p) PROVE InstInv'
<1>1. /\ ~InstAt(p, "idle") /\ instOp[p].pc = "undo"
      /\ UNCHANGED <<instHold, instLedger, instState, instCrashes>>
    BY DEF InstUndo, InstAt, instDisk
<1>2. instOp[p] \in InstOpType /\ InstUpdating(p)
    BY <1>1, InstOneWorks DEF InstWorking, InstInstallPc
<1>3. InstDiskTypes'
    BY <1>1, InstFaultType, InstTreesDiffer DEF InstInv, InstTypeOK, InstDiskTypes, InstUndo, InstTrees, InstDeletes
<1>4. ASSUME NEW gone \in InstTrees, instTree' = gone, UNCHANGED instBackup, gone # InstNone \/ ~instOp[p].backed, InstEnd(p, "error", gone # InstNone)
      PROVE  InstInv'
  <2>1. InstAgree'
      BY <1>1, <1>2, <1>4, InstOneWorks, InstTreesDiffer
         DEF InstAgree, InstHonest, InstEnd, InstUpdating, InstInv, InstLocked
  <2>2. InstOldKept'
      BY <1>1, <1>2, <1>4, InstTreesDiffer DEF InstOldKept, InstEnd, InstUpdating
  <2>q. QED BY <1>1, <1>3, <1>4, <2>1, <2>2, InstStops DEF InstEnds
<1>5. ASSUME instTree' = instBackup, instBackup' = InstNone, instOp[p].backed, InstEnd(p, "error", FALSE)
      PROVE  InstInv'
  <2>1. InstAgree'
      BY <1>1, <1>2, <1>5, InstOneWorks, InstTreesDiffer
         DEF InstAgree, InstHonest, InstEnd, InstUpdating, InstInv, InstLocked
  <2>2. InstOldKept'
      BY <1>1, <1>2, <1>5, InstTreesDiffer DEF InstOldKept, InstEnd, InstUpdating
  <2>q. QED BY <1>1, <1>3, <1>5, <2>1, <2>2, InstStops DEF InstEnds
<1>6. PICK gone \in InstTrees :
          \/ /\ gone = InstNone /\ instOp[p].backed
             /\ instTree' = instBackup /\ instBackup' = InstNone
             /\ InstEnd(p, "error", FALSE)
          \/ /\ gone # InstNone \/ ~instOp[p].backed
             /\ instTree' = gone /\ UNCHANGED instBackup
             /\ InstEnd(p, "error", gone # InstNone)
    BY DEF InstUndo
<1>q. QED BY <1>4, <1>5, <1>6

\* The undoing stops between its two renames.
LEMMA InstUndoHalfInv == ASSUME InstInv, NEW p \in InstProcs, InstUndoHalf(p) PROVE InstInv'
<1>1. /\ ~InstAt(p, "idle") /\ instOp[p].pc = "undo"
      /\ UNCHANGED <<instBackup, instHold, instLedger, instState, instCrashes>>
    BY DEF InstUndoHalf, InstAt, instDisk
<1>2. instOp[p] \in InstOpType /\ InstUpdating(p)
    BY <1>1, InstOneWorks DEF InstWorking, InstInstallPc
<1>3. InstDiskTypes'
    BY <1>1, InstFaultType, InstTreesDiffer DEF InstInv, InstTypeOK, InstDiskTypes, InstUndoHalf, InstTrees
<1>4. ASSUME instTree' = InstNone, instOp[p].backed, InstEnd(p, "error", TRUE)
      PROVE  InstInv'
  <2>1. InstAgree'
      BY <1>1, <1>2, <1>4, InstOneWorks, InstTreesDiffer
         DEF InstAgree, InstHonest, InstEnd, InstUpdating, InstInv, InstLocked
  <2>2. InstOldKept'
      BY <1>1, <1>2, <1>4, InstTreesDiffer DEF InstOldKept, InstEnd, InstUpdating
  <2>q. QED BY <1>1, <1>3, <1>4, <2>1, <2>2, InstStops DEF InstEnds
<1>q. QED BY <1>4, InstTreesDiffer DEF InstUndoHalf

\* The health check of the new version passes or fails.
LEMMA InstHealthInv == ASSUME InstInv, NEW p \in InstProcs, InstHealth(p) PROVE InstInv'
<1>1. /\ ~InstAt(p, "idle") /\ instOp[p].pc = "health"
      /\ UNCHANGED <<instTree, instBackup, instHold, instLedger, instState, instFaults, instCrashes>>
    BY DEF InstHealth, InstAt, instDisk
<1>2. instOp[p] \in InstOpType /\ InstUpdating(p)
    BY <1>1, InstOneWorks DEF InstWorking, InstInstallPc
<1>3. InstDiskTypes'
    BY <1>1, InstFaultType, InstTreesDiffer DEF InstInv, InstTypeOK, InstDiskTypes, InstHealth, InstTrees
<1>4. ASSUME NEW pc \in {"commit", "aside", "unfirst"}, pc # "commit" => pc = IF instOp[p].backed THEN "aside" ELSE "unfirst", InstGo(p, pc), InstContinues
      PROVE  InstInv'
  <2>0. /\ instOp'[p].pc = pc /\ pc \in InstPc /\ pc # "idle"
        /\ instOp'[p].to = instOp[p].to /\ instOp'[p].row = instOp[p].row
        /\ instOp'[p].backed = instOp[p].backed /\ instOp'[p].owes = instOp[p].owes
        /\ instOp'[p].failed = instOp[p].failed
      BY <1>4, InstGoFields DEF InstPc
  <2>1. InstWorking(p)'
      BY <1>1, <1>2, <1>4, <2>0, InstTreesDiffer
         DEF InstWorking, InstInstallPc, InstUpdating, InstContinues, instHistory
  <2>2. InstOldKept'
      BY <1>1, <1>2, <1>4, InstTreesDiffer DEF InstOldKept, InstInv, InstUpdating, InstContinues, instHistory
  <2>q. QED BY <1>1, <1>3, <1>4, <2>0, <2>1, <2>2, InstGoesTo
<1>q. QED BY <1>4, InstTreesDiffer DEF InstHealth

\* The install is committed and its backup dropped.
LEMMA InstCommitInv == ASSUME InstInv, NEW p \in InstProcs, InstCommit(p) PROVE InstInv'
<1>1. /\ ~InstAt(p, "idle") /\ instOp[p].pc = "commit"
      /\ UNCHANGED <<instTree, instHold, instLedger, instState, instCrashes>>
    BY DEF InstCommit, InstAt, instDisk
<1>2. instOp[p] \in InstOpType /\ InstUpdating(p)
    BY <1>1, InstOneWorks DEF InstWorking, InstInstallPc
<1>3. InstDiskTypes'
    BY <1>1, InstFaultType, InstTreesDiffer DEF InstInv, InstTypeOK, InstDiskTypes, InstCommit, InstTrees, InstDeletes
<1>4. ASSUME NEW said \in {"ok", "leftover"}, InstEnd(p, said, FALSE)
      PROVE  InstInv'
  <2>1. InstAgree'
      BY <1>1, <1>2, <1>4, InstOneWorks, InstTreesDiffer
         DEF InstAgree, InstHonest, InstEnd, InstUpdating, InstInv, InstLocked
  <2>2. InstOldKept'
      BY <1>1, <1>2, <1>4, InstTreesDiffer DEF InstOldKept, InstEnd, InstUpdating
  <2>q. QED BY <1>1, <1>3, <1>4, <2>1, <2>2, InstStops DEF InstEnds
<1>q. QED BY <1>4, InstTreesDiffer DEF InstCommit

\* The rollback moves the new tree aside.
LEMMA InstAsideInv == ASSUME InstInv, NEW p \in InstProcs, InstAside(p) PROVE InstInv'
<1>1. /\ ~InstAt(p, "idle") /\ instOp[p].pc = "aside"
      /\ UNCHANGED <<instBackup, instLedger, instState, instCrashes>>
    BY DEF InstAside, InstAt, instDisk
<1>2. instOp[p] \in InstOpType /\ InstUpdating(p)
    BY <1>1, InstOneWorks DEF InstWorking, InstInstallPc
<1>3. InstDiskTypes'
    BY <1>1, InstFaultType, InstTreesDiffer DEF InstInv, InstTypeOK, InstDiskTypes, InstAside, InstTrees
<1>4. ASSUME UNCHANGED instTree, InstEnd(p, "stuck", TRUE)
      PROVE  InstInv'
  <2>1. InstAgree'
      BY <1>1, <1>2, <1>4, InstOneWorks, InstTreesDiffer
         DEF InstAgree, InstHonest, InstEnd, InstUpdating, InstInv, InstLocked
  <2>2. InstOldKept'
      BY <1>1, <1>2, <1>4, InstTreesDiffer DEF InstOldKept, InstEnd, InstUpdating
  <2>q. QED BY <1>1, <1>3, <1>4, <2>1, <2>2, InstStops DEF InstEnds
<1>5. ASSUME instTree' = InstNone, InstGo(p, "swap"), InstContinues
      PROVE  InstInv'
  <2>0. /\ instOp'[p].pc = "swap" /\ "swap" \in InstPc /\ "swap" # "idle"
        /\ instOp'[p].to = instOp[p].to /\ instOp'[p].row = instOp[p].row
        /\ instOp'[p].backed = instOp[p].backed /\ instOp'[p].owes = instOp[p].owes
        /\ instOp'[p].failed = instOp[p].failed
      BY <1>5, InstGoFields DEF InstPc
  <2>1. InstWorking(p)'
      BY <1>1, <1>2, <1>5, <2>0, InstTreesDiffer
         DEF InstWorking, InstInstallPc, InstUpdating, InstContinues, instHistory
  <2>2. InstOldKept'
      BY <1>1, <1>2, <1>5, InstTreesDiffer DEF InstOldKept, InstInv, InstUpdating, InstContinues, instHistory
  <2>q. QED BY <1>1, <1>3, <1>5, <2>0, <2>1, <2>2, InstGoesTo
<1>q. QED BY <1>4, <1>5, InstTreesDiffer DEF InstAside

\* The rollback puts the backup back.
LEMMA InstSwapInv == ASSUME InstInv, NEW p \in InstProcs, InstSwap(p) PROVE InstInv'
<1>1. /\ ~InstAt(p, "idle") /\ instOp[p].pc = "swap"
      /\ UNCHANGED <<instLedger, instState, instCrashes>>
    BY DEF InstSwap, InstAt, instDisk
<1>2. instOp[p] \in InstOpType /\ InstUpdating(p)
    BY <1>1, InstOneWorks DEF InstWorking, InstInstallPc
<1>3. InstDiskTypes'
    BY <1>1, InstFaultType, InstTreesDiffer DEF InstInv, InstTypeOK, InstDiskTypes, InstSwap, InstTrees
<1>4. ASSUME instTree' = instBackup, InstGo(p, "rollback"), InstContinues
      PROVE  InstInv'
  <2>0. /\ instOp'[p].pc = "rollback" /\ "rollback" \in InstPc /\ "rollback" # "idle"
        /\ instOp'[p].to = instOp[p].to /\ instOp'[p].row = instOp[p].row
        /\ instOp'[p].backed = instOp[p].backed /\ instOp'[p].owes = instOp[p].owes
        /\ instOp'[p].failed = instOp[p].failed
      BY <1>4, InstGoFields DEF InstPc
  <2>1. InstWorking(p)'
      BY <1>1, <1>2, <1>4, <2>0, InstTreesDiffer
         DEF InstWorking, InstInstallPc, InstUpdating, InstContinues, instHistory
  <2>2. InstOldKept'
      BY <1>1, <1>2, <1>4, InstTreesDiffer DEF InstOldKept, InstInv, InstUpdating, InstContinues, instHistory
  <2>q. QED BY <1>1, <1>3, <1>4, <2>0, <2>1, <2>2, InstGoesTo
<1>5. ASSUME UNCHANGED <<instTree, instBackup, instHold>>, InstGo(p, "unaside"), InstContinues
      PROVE  InstInv'
  <2>0. /\ instOp'[p].pc = "unaside" /\ "unaside" \in InstPc /\ "unaside" # "idle"
        /\ instOp'[p].to = instOp[p].to /\ instOp'[p].row = instOp[p].row
        /\ instOp'[p].backed = instOp[p].backed /\ instOp'[p].owes = instOp[p].owes
        /\ instOp'[p].failed = instOp[p].failed
      BY <1>5, InstGoFields DEF InstPc
  <2>1. InstWorking(p)'
      BY <1>1, <1>2, <1>5, <2>0, InstTreesDiffer
         DEF InstWorking, InstInstallPc, InstUpdating, InstContinues, instHistory
  <2>2. InstOldKept'
      BY <1>1, <1>2, <1>5, InstTreesDiffer DEF InstOldKept, InstInv, InstUpdating, InstContinues, instHistory
  <2>q. QED BY <1>1, <1>3, <1>5, <2>0, <2>1, <2>2, InstGoesTo
<1>q. QED BY <1>4, <1>5, InstTreesDiffer DEF InstSwap

\* The rollback could not, and puts the new tree back.
LEMMA InstUnasideInv == ASSUME InstInv, NEW p \in InstProcs, InstUnaside(p) PROVE InstInv'
<1>1. /\ ~InstAt(p, "idle") /\ instOp[p].pc = "unaside"
      /\ UNCHANGED <<instBackup, instLedger, instState, instCrashes>>
    BY DEF InstUnaside, InstAt, instDisk
<1>2. instOp[p] \in InstOpType /\ InstUpdating(p)
    BY <1>1, InstOneWorks DEF InstWorking, InstInstallPc
<1>3. InstDiskTypes'
    BY <1>1, InstFaultType, InstTreesDiffer DEF InstInv, InstTypeOK, InstDiskTypes, InstUnaside, InstTrees
<1>4. ASSUME InstEnd(p, "stuck", TRUE)
      PROVE  InstInv'
  <2>1. InstAgree'
      BY <1>1, <1>2, <1>4, InstOneWorks, InstTreesDiffer
         DEF InstAgree, InstHonest, InstEnd, InstUpdating, InstInv, InstLocked
  <2>2. InstOldKept'
      BY <1>1, <1>2, <1>4, InstTreesDiffer DEF InstOldKept, InstEnd, InstUpdating
  <2>q. QED BY <1>1, <1>3, <1>4, <2>1, <2>2, InstStops DEF InstEnds
<1>q. QED BY <1>4, InstTreesDiffer DEF InstUnaside

\* The rollback of a first install removes the tree.
LEMMA InstUnfirstInv == ASSUME InstInv, NEW p \in InstProcs, InstUnfirst(p) PROVE InstInv'
<1>1. /\ ~InstAt(p, "idle") /\ instOp[p].pc = "unfirst"
      /\ UNCHANGED <<instBackup, instHold, instLedger, instState, instCrashes>>
    BY DEF InstUnfirst, InstAt, instDisk
<1>2. instOp[p] \in InstOpType /\ InstUpdating(p)
    BY <1>1, InstOneWorks DEF InstWorking, InstInstallPc
<1>3. InstDiskTypes'
    BY <1>1, InstFaultType, InstTreesDiffer DEF InstInv, InstTypeOK, InstDiskTypes, InstUnfirst, InstTrees, InstDeletes
<1>4. ASSUME InstEnd(p, "stuck", TRUE)
      PROVE  InstInv'
  <2>1. InstAgree'
      BY <1>1, <1>2, <1>4, InstOneWorks, InstTreesDiffer
         DEF InstAgree, InstHonest, InstEnd, InstUpdating, InstInv, InstLocked
  <2>2. InstOldKept'
      BY <1>1, <1>2, <1>4, InstTreesDiffer DEF InstOldKept, InstEnd, InstUpdating
  <2>q. QED BY <1>1, <1>3, <1>4, <2>1, <2>2, InstStops DEF InstEnds
<1>5. ASSUME instTree' = InstNone, InstGo(p, "rollback"), InstContinues
      PROVE  InstInv'
  <2>0. /\ instOp'[p].pc = "rollback" /\ "rollback" \in InstPc /\ "rollback" # "idle"
        /\ instOp'[p].to = instOp[p].to /\ instOp'[p].row = instOp[p].row
        /\ instOp'[p].backed = instOp[p].backed /\ instOp'[p].owes = instOp[p].owes
        /\ instOp'[p].failed = instOp[p].failed
      BY <1>5, InstGoFields DEF InstPc
  <2>1. InstWorking(p)'
      BY <1>1, <1>2, <1>5, <2>0, InstTreesDiffer
         DEF InstWorking, InstInstallPc, InstUpdating, InstContinues, instHistory
  <2>2. InstOldKept'
      BY <1>1, <1>2, <1>5, InstTreesDiffer DEF InstOldKept, InstInv, InstUpdating, InstContinues, instHistory
  <2>q. QED BY <1>1, <1>3, <1>5, <2>0, <2>1, <2>2, InstGoesTo
<1>q. QED BY <1>4, <1>5, InstTreesDiffer DEF InstUnfirst

\* The ledger goes back to the version that was restored.
LEMMA InstRollbackInv == ASSUME InstInv, NEW p \in InstProcs, InstRollback(p) PROVE InstInv'
<1>1. /\ ~InstAt(p, "idle") /\ instOp[p].pc = "rollback"
      /\ UNCHANGED <<instTree, instBackup, instHold, instState, instCrashes>>
    BY DEF InstRollback, InstAt, instDisk
<1>2. instOp[p] \in InstOpType /\ InstUpdating(p)
    BY <1>1, InstOneWorks DEF InstWorking, InstInstallPc
<1>3. InstDiskTypes'
  <2>1. instOp[p].row \in InstVersions \cup {InstNone} /\ instLedger \in InstVersions \cup {InstNone}
      BY <1>1, <1>2 DEF InstInv, InstTypeOK, InstLocked, InstUpdating
  <2>2. instLedger' \in InstVersions \cup {InstNone}
      BY <2>1 DEF InstRollback
  <2>3. instFaults' \in 0..InstMaxFaults
      BY InstFaultType DEF InstRollback
  <2>q. QED BY <1>1, <2>2, <2>3 DEF InstInv, InstTypeOK, InstDiskTypes
<1>4. ASSUME UNCHANGED instLedger, InstEnd(p, "stuck", TRUE)
      PROVE  InstInv'
  <2>1. InstAgree'
      BY <1>1, <1>2, <1>4, InstOneWorks, InstTreesDiffer
         DEF InstAgree, InstHonest, InstEnd, InstUpdating, InstInv, InstLocked
  <2>2. InstOldKept'
      BY <1>1, <1>2, <1>4, InstTreesDiffer DEF InstOldKept, InstEnd, InstUpdating
  <2>q. QED BY <1>1, <1>3, <1>4, <2>1, <2>2, InstStops DEF InstEnds
<1>5. ASSUME instLedger' = instOp[p].row, InstEnd(p, "rolledback", FALSE)
      PROVE  InstInv'
  <2>1. InstAgree'
      BY <1>1, <1>2, <1>5, InstOneWorks, InstTreesDiffer
         DEF InstAgree, InstHonest, InstEnd, InstUpdating, InstInv, InstLocked
  <2>2. InstOldKept'
      BY <1>1, <1>2, <1>5, InstTreesDiffer DEF InstOldKept, InstEnd, InstUpdating
  <2>q. QED BY <1>1, <1>3, <1>5, <2>1, <2>2, InstStops DEF InstEnds
<1>q. QED BY <1>4, <1>5, InstTreesDiffer DEF InstRollback

\* remove: the ledger row is read before anything is touched.
LEMMA InstResolveInv == ASSUME InstInv, NEW p \in InstProcs, InstResolve(p) PROVE InstInv'
<1>1. /\ ~InstAt(p, "idle") /\ instOp[p].pc = "resolve"
      /\ UNCHANGED <<instTree, instBackup, instHold, instLedger, instState, instFaults, instCrashes>>
    BY DEF InstResolve, InstAt, instDisk
<1>2. instOp[p] \in InstOpType /\ InstRemoving(p)
    BY <1>1, InstOneWorks DEF InstWorking, InstInstallPc
<1>3. InstDiskTypes'
    BY <1>1, InstFaultType, InstTreesDiffer DEF InstInv, InstTypeOK, InstDiskTypes, InstResolve, InstTrees
<1>4. ASSUME NEW said \in {"absent", "refused"}, InstEnd(p, said, FALSE)
      PROVE  InstInv'
  <2>1. InstAgree'
      BY <1>1, <1>2, <1>4, InstOneWorks, InstTreesDiffer
         DEF InstAgree, InstHonest, InstEnd, InstRemoving, InstInv, InstLocked
  <2>2. InstOldKept'
      BY <1>1, <1>2, <1>4, InstTreesDiffer DEF InstOldKept, InstEnd, InstRemoving
  <2>q. QED BY <1>1, <1>3, <1>4, <2>1, <2>2, InstStops DEF InstEnds
<1>5. ASSUME instOp' = [instOp EXCEPT ![p] = [@ EXCEPT !.pc = "hold", !.row = instLedger]], InstContinues
      PROVE  InstInv'
  <2> DEFINE o == [instOp[p] EXCEPT !.pc = "hold", !.row = instLedger]
  <2>1. /\ o \in InstOpType /\ instOp' = [instOp EXCEPT ![p] = o] /\ instOp'[p] = o
        /\ o.pc = "hold" /\ o.to = instOp[p].to /\ o.row = instLedger
        /\ o.backed = instOp[p].backed /\ o.owes = instOp[p].owes /\ o.failed = instOp[p].failed
      BY <1>2, <1>5 DEF InstOpType, InstPc, InstInv, InstTypeOK, InstTrees
  <2> HIDE DEF o
  <2>2. InstWorking(p)'
      BY <1>1, <1>2, <1>5, <2>1, InstTreesDiffer
         DEF InstWorking, InstInstallPc, InstRemoving, InstContinues, instHistory
  <2>3. InstOldKept'
      BY <1>1, <1>2, <1>5, InstTreesDiffer DEF InstOldKept, InstInv, InstRemoving, InstContinues, instHistory
  <2>q. QED BY <1>1, <1>3, <1>5, <2>1, <2>2, <2>3, InstGoes
<1>q. QED BY <1>4, <1>5, InstTreesDiffer DEF InstResolve

\* The tree is renamed into the hold.
LEMMA InstHoldTreeInv == ASSUME InstInv, NEW p \in InstProcs, InstHoldTree(p) PROVE InstInv'
<1>1. /\ ~InstAt(p, "idle") /\ instOp[p].pc = "hold"
      /\ UNCHANGED <<instBackup, instLedger, instState, instCrashes>>
    BY DEF InstHoldTree, InstAt, instDisk
<1>2. instOp[p] \in InstOpType /\ InstRemoving(p)
    BY <1>1, InstOneWorks DEF InstWorking, InstInstallPc
<1>3. InstDiskTypes'
    BY <1>1, InstFaultType, InstTreesDiffer DEF InstInv, InstTypeOK, InstDiskTypes, InstHoldTree, InstTrees
<1>4. ASSUME UNCHANGED instTree, InstEnd(p, "error", FALSE)
      PROVE  InstInv'
  <2>1. InstAgree'
      BY <1>1, <1>2, <1>4, InstOneWorks, InstTreesDiffer
         DEF InstAgree, InstHonest, InstEnd, InstRemoving, InstInv, InstLocked
  <2>2. InstOldKept'
      BY <1>1, <1>2, <1>4, InstTreesDiffer DEF InstOldKept, InstEnd, InstRemoving
  <2>q. QED BY <1>1, <1>3, <1>4, <2>1, <2>2, InstStops DEF InstEnds
<1>5. ASSUME instHold' = instTree, instTree' = InstNone,
             NEW pc \in {"holdstate", "unlist"}, InstGo(p, pc), InstContinues
      PROVE  InstInv'
  <2>0. /\ instOp'[p].pc = pc /\ pc \in InstPc /\ pc # "idle"
        /\ instOp'[p].to = instOp[p].to /\ instOp'[p].row = instOp[p].row
        /\ instOp'[p].backed = instOp[p].backed /\ instOp'[p].owes = instOp[p].owes
        /\ instOp'[p].failed = instOp[p].failed
      BY <1>5, InstGoFields DEF InstPc
  <2>1. InstWorking(p)'
      BY <1>1, <1>2, <1>5, <2>0, InstTreesDiffer
         DEF InstWorking, InstInstallPc, InstRemoving, InstContinues, instHistory
  <2>2. InstOldKept'
      BY <1>1, <1>2, <1>5, InstTreesDiffer DEF InstOldKept, InstInv, InstRemoving, InstContinues, instHistory
  <2>q. QED BY <1>1, <1>3, <1>5, <2>0, <2>1, <2>2, InstGoesTo
<1>q. QED BY <1>4, <1>5, InstTreesDiffer DEF InstHoldTree

\* The plugin's state is renamed into the hold.
LEMMA InstHoldStateInv == ASSUME InstInv, NEW p \in InstProcs, InstHoldState(p) PROVE InstInv'
<1>1. /\ ~InstAt(p, "idle") /\ instOp[p].pc = "holdstate"
      /\ UNCHANGED <<instTree, instBackup, instHold, instLedger, instCrashes>>
    BY DEF InstHoldState, InstAt, instDisk
<1>2. instOp[p] \in InstOpType /\ InstRemoving(p)
    BY <1>1, InstOneWorks DEF InstWorking, InstInstallPc
<1>3. InstDiskTypes'
    BY <1>1, InstFaultType, InstTreesDiffer DEF InstInv, InstTypeOK, InstDiskTypes, InstHoldState, InstTrees
<1>4. ASSUME UNCHANGED instState, InstEnd(p, "early", TRUE)
      PROVE  InstInv'
  <2>1. InstAgree'
      BY <1>1, <1>2, <1>4, InstOneWorks, InstTreesDiffer
         DEF InstAgree, InstHonest, InstEnd, InstRemoving, InstInv, InstLocked
  <2>2. InstOldKept'
      BY <1>1, <1>2, <1>4, InstTreesDiffer DEF InstOldKept, InstEnd, InstRemoving
  <2>q. QED BY <1>1, <1>3, <1>4, <2>1, <2>2, InstStops DEF InstEnds
<1>5. ASSUME UNCHANGED instState, InstGo(p, "relist"), InstContinues
      PROVE  InstInv'
  <2>0. /\ instOp'[p].pc = "relist" /\ "relist" \in InstPc /\ "relist" # "idle"
        /\ instOp'[p].to = instOp[p].to /\ instOp'[p].row = instOp[p].row
        /\ instOp'[p].backed = instOp[p].backed /\ instOp'[p].owes = instOp[p].owes
        /\ instOp'[p].failed = instOp[p].failed
      BY <1>5, InstGoFields DEF InstPc
  <2>1. InstWorking(p)'
      BY <1>1, <1>2, <1>5, <2>0, InstTreesDiffer
         DEF InstWorking, InstInstallPc, InstRemoving, InstContinues, instHistory
  <2>2. InstOldKept'
      BY <1>1, <1>2, <1>5, InstTreesDiffer DEF InstOldKept, InstInv, InstRemoving, InstContinues, instHistory
  <2>q. QED BY <1>1, <1>3, <1>5, <2>0, <2>1, <2>2, InstGoesTo
<1>6. ASSUME instState' = (instState \ {"dest"}) \cup {"hold"}, instOp' = [instOp EXCEPT ![p] = [@ EXCEPT !.pc = "unlist", !.owes = TRUE]], InstContinues
      PROVE  InstInv'
  <2> DEFINE o == [instOp[p] EXCEPT !.pc = "unlist", !.owes = TRUE]
  <2>1. /\ o \in InstOpType /\ instOp' = [instOp EXCEPT ![p] = o] /\ instOp'[p] = o
        /\ o.pc = "unlist" /\ o.to = instOp[p].to /\ o.row = instOp[p].row
        /\ o.backed = instOp[p].backed /\ o.owes = TRUE /\ o.failed = instOp[p].failed
      BY <1>2, <1>6 DEF InstOpType, InstPc, InstInv, InstTypeOK, InstTrees
  <2> HIDE DEF o
  <2>2. InstWorking(p)'
      BY <1>1, <1>2, <1>6, <2>1, InstTreesDiffer
         DEF InstWorking, InstInstallPc, InstRemoving, InstContinues, instHistory
  <2>3. InstOldKept'
      BY <1>1, <1>2, <1>6, InstTreesDiffer DEF InstOldKept, InstInv, InstRemoving, InstContinues, instHistory
  <2>q. QED BY <1>1, <1>3, <1>6, <2>1, <2>2, <2>3, InstGoes
<1>q. QED BY <1>4, <1>5, <1>6, InstTreesDiffer DEF InstHoldState

\* The ledger row is deleted, or the removal is undone.
LEMMA InstUnlistInv == ASSUME InstInv, NEW p \in InstProcs, InstUnlist(p) PROVE InstInv'
<1>1. /\ ~InstAt(p, "idle") /\ instOp[p].pc = "unlist"
      /\ UNCHANGED <<instTree, instBackup, instHold, instState, instCrashes>>
    BY DEF InstUnlist, InstAt, instDisk
<1>2. instOp[p] \in InstOpType /\ InstRemoving(p)
    BY <1>1, InstOneWorks DEF InstWorking, InstInstallPc
<1>3. InstDiskTypes'
    BY <1>1, InstFaultType, InstTreesDiffer DEF InstInv, InstTypeOK, InstDiskTypes, InstUnlist, InstTrees
<1>4. ASSUME instLedger' = InstNone, InstGo(p, "delete"), InstContinues
      PROVE  InstInv'
  <2>0. /\ instOp'[p].pc = "delete" /\ "delete" \in InstPc /\ "delete" # "idle"
        /\ instOp'[p].to = instOp[p].to /\ instOp'[p].row = instOp[p].row
        /\ instOp'[p].backed = instOp[p].backed /\ instOp'[p].owes = instOp[p].owes
        /\ instOp'[p].failed = instOp[p].failed
      BY <1>4, InstGoFields DEF InstPc
  <2>1. InstWorking(p)'
      BY <1>1, <1>2, <1>4, <2>0, InstTreesDiffer
         DEF InstWorking, InstInstallPc, InstRemoving, InstContinues, instHistory
  <2>2. InstOldKept'
      BY <1>1, <1>2, <1>4, InstTreesDiffer DEF InstOldKept, InstInv, InstRemoving, InstContinues, instHistory
  <2>q. QED BY <1>1, <1>3, <1>4, <2>0, <2>1, <2>2, InstGoesTo
<1>5. ASSUME UNCHANGED instLedger, InstGo(p, "relist"), InstContinues
      PROVE  InstInv'
  <2>0. /\ instOp'[p].pc = "relist" /\ "relist" \in InstPc /\ "relist" # "idle"
        /\ instOp'[p].to = instOp[p].to /\ instOp'[p].row = instOp[p].row
        /\ instOp'[p].backed = instOp[p].backed /\ instOp'[p].owes = instOp[p].owes
        /\ instOp'[p].failed = instOp[p].failed
      BY <1>5, InstGoFields DEF InstPc
  <2>1. InstWorking(p)'
      BY <1>1, <1>2, <1>5, <2>0, InstTreesDiffer
         DEF InstWorking, InstInstallPc, InstRemoving, InstContinues, instHistory
  <2>2. InstOldKept'
      BY <1>1, <1>2, <1>5, InstTreesDiffer DEF InstOldKept, InstInv, InstRemoving, InstContinues, instHistory
  <2>q. QED BY <1>1, <1>3, <1>5, <2>0, <2>1, <2>2, InstGoesTo
<1>q. QED BY <1>4, <1>5, InstTreesDiffer DEF InstUnlist

\* The held tree is deleted, and a purge goes on with the state.
LEMMA InstDeleteInv == ASSUME InstInv, NEW p \in InstProcs, InstDelete(p) PROVE InstInv'
<1>1. /\ ~InstAt(p, "idle") /\ instOp[p].pc = "delete"
      /\ UNCHANGED <<instTree, instBackup, instLedger, instState, instCrashes>>
    BY DEF InstDelete, InstAt, instDisk
<1>2. instOp[p] \in InstOpType /\ InstRemoving(p)
    BY <1>1, InstOneWorks DEF InstWorking, InstInstallPc
<1>3. InstDiskTypes'
    BY <1>1, InstFaultType, InstTreesDiffer DEF InstInv, InstTypeOK, InstDiskTypes, InstDelete, InstTrees, InstDeletes
<1>4. ASSUME InstEnd(p, "ok", FALSE)
      PROVE  InstInv'
  <2>1. InstAgree'
      BY <1>1, <1>2, <1>4, InstOneWorks, InstTreesDiffer
         DEF InstAgree, InstHonest, InstEnd, InstRemoving, InstInv, InstLocked
  <2>2. InstOldKept'
      BY <1>1, <1>2, <1>4, InstTreesDiffer DEF InstOldKept, InstEnd, InstRemoving
  <2>q. QED BY <1>1, <1>3, <1>4, <2>1, <2>2, InstStops DEF InstEnds
<1>5. ASSUME InstGo(p, "purge"), InstContinues
      PROVE  InstInv'
  <2>0. /\ instOp'[p].pc = "purge" /\ "purge" \in InstPc /\ "purge" # "idle"
        /\ instOp'[p].to = instOp[p].to /\ instOp'[p].row = instOp[p].row
        /\ instOp'[p].backed = instOp[p].backed /\ instOp'[p].owes = instOp[p].owes
        /\ instOp'[p].failed = instOp[p].failed
      BY <1>5, InstGoFields DEF InstPc
  <2>1. InstWorking(p)'
      BY <1>1, <1>2, <1>5, <2>0, InstTreesDiffer
         DEF InstWorking, InstInstallPc, InstRemoving, InstContinues, instHistory
  <2>2. InstOldKept'
      BY <1>1, <1>2, <1>5, InstTreesDiffer DEF InstOldKept, InstInv, InstRemoving, InstContinues, instHistory
  <2>q. QED BY <1>1, <1>3, <1>5, <2>0, <2>1, <2>2, InstGoesTo
<1>6. ASSUME instHold' \in {instHold, InstDamaged}, InstGo(p, "relist"), InstContinues
      PROVE  InstInv'
  <2>0. /\ instOp'[p].pc = "relist" /\ "relist" \in InstPc /\ "relist" # "idle"
        /\ instOp'[p].to = instOp[p].to /\ instOp'[p].row = instOp[p].row
        /\ instOp'[p].backed = instOp[p].backed /\ instOp'[p].owes = instOp[p].owes
        /\ instOp'[p].failed = instOp[p].failed
      BY <1>6, InstGoFields DEF InstPc
  <2>1. InstWorking(p)'
      BY <1>1, <1>2, <1>6, <2>0, InstTreesDiffer
         DEF InstWorking, InstInstallPc, InstRemoving, InstContinues, instHistory
  <2>2. InstOldKept'
      BY <1>1, <1>2, <1>6, InstTreesDiffer DEF InstOldKept, InstInv, InstRemoving, InstContinues, instHistory
  <2>q. QED BY <1>1, <1>3, <1>6, <2>0, <2>1, <2>2, InstGoesTo
<1>q. QED BY <1>4, <1>5, <1>6, InstTreesDiffer DEF InstDelete, InstDeletes

\* The held state is deleted.
LEMMA InstPurgeInv == ASSUME InstInv, NEW p \in InstProcs, InstPurge(p) PROVE InstInv'
<1>1. /\ ~InstAt(p, "idle") /\ instOp[p].pc = "purge"
      /\ UNCHANGED <<instTree, instBackup, instHold, instLedger, instCrashes>>
    BY DEF InstPurge, InstAt, instDisk
<1>2. instOp[p] \in InstOpType /\ InstRemoving(p)
    BY <1>1, InstOneWorks DEF InstWorking, InstInstallPc
<1>3. InstDiskTypes'
    BY <1>1, InstFaultType, InstTreesDiffer DEF InstInv, InstTypeOK, InstDiskTypes, InstPurge, InstTrees
<1>4. ASSUME InstEnd(p, "ok", FALSE)
      PROVE  InstInv'
  <2>1. InstAgree'
      BY <1>1, <1>2, <1>4, InstOneWorks, InstTreesDiffer
         DEF InstAgree, InstHonest, InstEnd, InstRemoving, InstInv, InstLocked
  <2>2. InstOldKept'
      BY <1>1, <1>2, <1>4, InstTreesDiffer DEF InstOldKept, InstEnd, InstRemoving
  <2>q. QED BY <1>1, <1>3, <1>4, <2>1, <2>2, InstStops DEF InstEnds
<1>5. ASSUME InstEnd(p, "halfpurged", FALSE)
      PROVE  InstInv'
  <2>1. InstAgree'
      BY <1>1, <1>2, <1>5, InstOneWorks, InstTreesDiffer
         DEF InstAgree, InstHonest, InstEnd, InstRemoving, InstInv, InstLocked
  <2>2. InstOldKept'
      BY <1>1, <1>2, <1>5, InstTreesDiffer DEF InstOldKept, InstEnd, InstRemoving
  <2>q. QED BY <1>1, <1>3, <1>5, <2>1, <2>2, InstStops DEF InstEnds
<1>q. QED BY <1>4, <1>5, InstTreesDiffer DEF InstPurge

\* The undoing puts the ledger row back.
LEMMA InstRelistInv == ASSUME InstInv, NEW p \in InstProcs, InstRelist(p) PROVE InstInv'
<1>1. /\ ~InstAt(p, "idle") /\ instOp[p].pc = "relist"
      /\ UNCHANGED <<instCrashes, instTree, instBackup, instHold, instState>>
    BY DEF InstRelist, InstAt, instDisk, InstRestoreStep
<1>2. instOp[p] \in InstOpType /\ InstRemoving(p)
    BY <1>1, InstOneWorks DEF InstWorking, InstInstallPc
<1>3. InstDiskTypes'
    BY <1>1, <1>2, InstFaultType, InstTreesDiffer
       DEF InstInv, InstTypeOK, InstLocked, InstDiskTypes, InstRelist, InstRestoreStep, instDisk, InstTrees, InstRemoving
<1>4. ASSUME instLedger' = instOp[p].row, InstGo(p, "retree"), InstContinues
      PROVE  InstInv'
  <2>0. /\ instOp'[p].pc = "retree" /\ "retree" \in InstPc /\ "retree" # "idle"
        /\ instOp'[p].to = instOp[p].to /\ instOp'[p].row = instOp[p].row
        /\ instOp'[p].backed = instOp[p].backed /\ instOp'[p].owes = instOp[p].owes
        /\ instOp'[p].failed = instOp[p].failed
      BY <1>4, InstGoFields DEF InstPc
  <2>1. InstWorking(p)'
      BY <1>1, <1>2, <1>4, <2>0, InstTreesDiffer
         DEF InstWorking, InstInstallPc, InstRemoving, InstContinues, instHistory
  <2>2. InstOldKept'
      BY <1>1, <1>2, <1>4, InstTreesDiffer DEF InstOldKept, InstInv, InstRemoving, InstContinues, instHistory
  <2>q. QED BY <1>1, <1>3, <1>4, <2>0, <2>1, <2>2, InstGoesTo
<1>5. ASSUME UNCHANGED <<instTree, instBackup, instHold, instLedger, instState>>, instOp' = [instOp EXCEPT ![p] = [@ EXCEPT !.pc = "retree", !.failed = TRUE]], InstContinues
      PROVE  InstInv'
  <2> DEFINE o == [instOp[p] EXCEPT !.pc = "retree", !.failed = TRUE]
  <2>1. /\ o \in InstOpType /\ instOp' = [instOp EXCEPT ![p] = o] /\ instOp'[p] = o
        /\ o.pc = "retree" /\ o.to = instOp[p].to /\ o.row = instOp[p].row
        /\ o.backed = instOp[p].backed /\ o.owes = instOp[p].owes /\ o.failed = TRUE
      BY <1>2, <1>5 DEF InstOpType, InstPc, InstInv, InstTypeOK, InstTrees
  <2> HIDE DEF o
  <2>2. InstWorking(p)'
      BY <1>1, <1>2, <1>5, <2>1, InstTreesDiffer
         DEF InstWorking, InstInstallPc, InstRemoving, InstContinues, instHistory
  <2>3. InstOldKept'
      BY <1>1, <1>2, <1>5, InstTreesDiffer DEF InstOldKept, InstInv, InstRemoving, InstContinues, instHistory
  <2>q. QED BY <1>1, <1>3, <1>5, <2>1, <2>2, <2>3, InstGoes
<1>q. QED BY <1>4, <1>5 DEF InstRelist, InstRestoreStep, instDisk

\* The undoing puts the tree back.
LEMMA InstRetreeInv == ASSUME InstInv, NEW p \in InstProcs, InstRetree(p) PROVE InstInv'
<1>1. /\ ~InstAt(p, "idle") /\ instOp[p].pc = "retree"
      /\ UNCHANGED <<instCrashes, instBackup, instLedger, instState>>
    BY DEF InstRetree, InstAt, instDisk, InstRestoreStep
<1>2. instOp[p] \in InstOpType /\ InstRemoving(p)
    BY <1>1, InstOneWorks DEF InstWorking, InstInstallPc
<1>3. InstDiskTypes'
    BY <1>1, <1>2, InstFaultType, InstTreesDiffer
       DEF InstInv, InstTypeOK, InstLocked, InstDiskTypes, InstRetree, InstRestoreStep, instDisk, InstTrees, InstRemoving
<1>4. ASSUME instTree' = instHold, InstGo(p, "restate"), InstContinues
      PROVE  InstInv'
  <2>0. /\ instOp'[p].pc = "restate" /\ "restate" \in InstPc /\ "restate" # "idle"
        /\ instOp'[p].to = instOp[p].to /\ instOp'[p].row = instOp[p].row
        /\ instOp'[p].backed = instOp[p].backed /\ instOp'[p].owes = instOp[p].owes
        /\ instOp'[p].failed = instOp[p].failed
      BY <1>4, InstGoFields DEF InstPc
  <2>1. InstWorking(p)'
      BY <1>1, <1>2, <1>4, <2>0, InstTreesDiffer
         DEF InstWorking, InstInstallPc, InstRemoving, InstContinues, instHistory
  <2>2. InstOldKept'
      BY <1>1, <1>2, <1>4, InstTreesDiffer DEF InstOldKept, InstInv, InstRemoving, InstContinues, instHistory
  <2>q. QED BY <1>1, <1>3, <1>4, <2>0, <2>1, <2>2, InstGoesTo
<1>5. ASSUME UNCHANGED <<instTree, instBackup, instHold, instLedger, instState>>, instOp' = [instOp EXCEPT ![p] = [@ EXCEPT !.pc = "restate", !.failed = TRUE]], InstContinues
      PROVE  InstInv'
  <2> DEFINE o == [instOp[p] EXCEPT !.pc = "restate", !.failed = TRUE]
  <2>1. /\ o \in InstOpType /\ instOp' = [instOp EXCEPT ![p] = o] /\ instOp'[p] = o
        /\ o.pc = "restate" /\ o.to = instOp[p].to /\ o.row = instOp[p].row
        /\ o.backed = instOp[p].backed /\ o.owes = instOp[p].owes /\ o.failed = TRUE
      BY <1>2, <1>5 DEF InstOpType, InstPc, InstInv, InstTypeOK, InstTrees
  <2> HIDE DEF o
  <2>2. InstWorking(p)'
      BY <1>1, <1>2, <1>5, <2>1, InstTreesDiffer
         DEF InstWorking, InstInstallPc, InstRemoving, InstContinues, instHistory
  <2>3. InstOldKept'
      BY <1>1, <1>2, <1>5, InstTreesDiffer DEF InstOldKept, InstInv, InstRemoving, InstContinues, instHistory
  <2>q. QED BY <1>1, <1>3, <1>5, <2>1, <2>2, <2>3, InstGoes
<1>q. QED BY <1>4, <1>5 DEF InstRetree, InstRestoreStep, instDisk

\* The undoing puts the state back.
LEMMA InstRestateInv == ASSUME InstInv, NEW p \in InstProcs, InstRestate(p) PROVE InstInv'
<1> DEFINE partial == instTree = InstDamaged /\ instBefore.tree # InstDamaged
<1>1. /\ ~InstAt(p, "idle") /\ instOp[p].pc = "restate"
      /\ UNCHANGED <<instTree, instBackup, instHold, instLedger, instCrashes>>
    BY DEF InstRestate, InstAt
<1>2. instOp[p] \in InstOpType /\ InstRemoving(p)
    BY <1>1, InstOneWorks DEF InstWorking, InstInstallPc
<1>3. InstDiskTypes'
    BY <1>1, InstFaultType DEF InstInv, InstTypeOK, InstDiskTypes, InstRestate
<1>4. ASSUME InstEnd(p, "stuck", TRUE)
      PROVE  InstInv'
  <2>1. InstAgree' /\ InstOldKept'
      BY <1>2, <1>4 DEF InstAgree, InstHonest, InstEnd, InstOldKept, InstRemoving
  <2>q. QED BY <1>1, <1>3, <1>4, <2>1, InstStops DEF InstEnds
<1>5. ASSUME ~instOp[p].failed, instBefore.state \subseteq instState', InstEnd(p, "restored", partial)
      PROVE  InstInv'
  <2>1. InstAgree'
      BY <1>1, <1>2, <1>5, InstOneWorks DEF InstAgree, InstHonest, InstEnd, InstRemoving, InstInv, InstLocked
  <2>2. InstOldKept'
      BY <1>2, <1>5 DEF InstOldKept, InstEnd, InstRemoving
  <2>3. partial \in BOOLEAN /\ "restored" \in InstEnds \ {"running"}
      BY DEF InstEnds
  <2> HIDE DEF partial
  <2>q. QED BY <1>1, <1>3, <1>5, <2>1, <2>2, <2>3, InstStops
<1>6. instOp[p].failed \in BOOLEAN /\ instOp[p].owes \in BOOLEAN
    BY <1>2 DEF InstOpType
<1>7. \/ InstEnd(p, "stuck", TRUE)
      \/ /\ ~instOp[p].failed /\ InstEnd(p, "restored", partial)
         /\ \/ ~instOp[p].owes /\ UNCHANGED instState
            \/ instOp[p].owes /\ instState' = (instState \ {"hold"}) \cup {"dest"}
    BY <1>6 DEF InstRestate, InstEnd
<1>8. ~instOp[p].failed /\ (\/ ~instOp[p].owes /\ UNCHANGED instState
                            \/ instOp[p].owes /\ instState' = (instState \ {"hold"}) \cup {"dest"})
      => instBefore.state \subseteq instState'
    BY <1>1, <1>2 DEF InstRemoving, InstInv, InstTypeOK
<1>q. QED BY <1>4, <1>5, <1>7, <1>8

\* A plugin that runs makes its state directory.
LEMMA InstWritesInv == ASSUME InstInv, InstPluginWrites PROVE InstInv'
<1>1. /\ UNCHANGED <<instTree, instBackup, instHold, instLedger, instLock, instOp, instBefore, instSaid,
                     instTorn, instFaults, instCrashes>>
      /\ instState' = instState \cup {"dest"}
    BY DEF InstPluginWrites, instHistory
<1>2. InstTypeOK' /\ InstLocked' /\ InstOldKept'
    BY <1>1 DEF InstInv, InstTypeOK, InstLocked, InstAt, InstOldKept
<1>3. InstAgree'
    BY <1>1 DEF InstInv, InstAgree, InstHonest
<1>4. ASSUME NEW p \in InstProcs, ~InstAt(p, "idle")'
      PROVE  (IF instOp[p].pc \in InstInstallPc THEN InstUpdating(p) ELSE InstRemoving(p))'
  <2>1. InstWorking(p)
      BY <1>1, <1>4 DEF InstInv, InstWorking, InstAt
  <2>q. QED BY <1>1, <2>1 DEF InstWorking, InstUpdating, InstRemoving
<1>q. QED BY <1>2, <1>3, <1>4 DEF InstInv

\* A process dies within an operation, and the lock goes with it.
LEMMA InstCrashInv == ASSUME InstInv, NEW p \in InstProcs, InstCrash(p) PROVE InstInv'
<1>1. ~InstAt(p, "idle") /\ instLock = p
    BY InstOneWorks DEF InstCrash
<1>2. instOp \in [InstProcs -> InstOpType] /\ InstIdle \in InstOpType /\ InstIdle.pc = "idle"
    BY InstTreesDiffer DEF InstInv, InstTypeOK, InstOpType, InstIdle, InstPc
<1>3. /\ instOp' \in [InstProcs -> InstOpType]
      /\ \A q \in InstProcs : instOp'[q].pc = "idle"
    BY <1>1, <1>2, InstOneWorks DEF InstCrash, InstAt
<1>4. /\ instLock' = InstNobody /\ instSaid' = "crashed" /\ instTorn' = TRUE
      /\ UNCHANGED <<instTree, instBackup, instHold, instLedger, instState, instBefore, instFaults>>
    BY <1>1 DEF InstCrash, instDisk
<1>5. instCrashes' \in 0..InstMaxCrashes
    BY InstAssumption DEF InstCrash, InstInv, InstTypeOK
<1>6. InstTypeOK'
    BY <1>3, <1>4, <1>5 DEF InstInv, InstTypeOK, InstOpType, InstEnds
<1>7. InstLocked'
    BY <1>3, <1>4, InstAssumption DEF InstInv, InstLocked, InstAt
<1>8. InstAgree' /\ InstOldKept'
    BY <1>1, <1>4, InstOneWorks DEF InstInv, InstAgree, InstHonest, InstOldKept
<1>q. QED BY <1>3, <1>6, <1>7, <1>8 DEF InstInv, InstAt

\* Every step keeps the invariant.
LEMMA InstInductive == ASSUME InstInv, [InstNext]_instVars PROVE InstInv'
<1>1. CASE InstPluginWrites
    BY <1>1, InstWritesInv
<1>2. CASE UNCHANGED instVars
    BY <1>2 DEF instVars, InstInv, InstTypeOK, InstLocked, InstAt, InstUpdating, InstRemoving, InstAgree, InstHonest,
                InstOldKept
<1>3. ASSUME NEW p \in InstProcs, InstStep(p)
      PROVE  InstInv'
  <2>1. CASE InstInstall(p)
    <3>1. PICK v \in InstVersions : InstBegin(p, "install", "check", v, FALSE)
        BY <2>1 DEF InstInstall
    <3>q. QED BY <3>1, InstBeginInv DEF InstTrees
  <2>2. CASE InstRemove(p)
    <3>1. PICK purge \in BOOLEAN : InstBegin(p, "remove", "resolve", InstNone, purge)
        BY <2>2 DEF InstRemove
    <3>q. QED BY <3>1, InstBeginInv, InstTreesDiffer
  <2>3. CASE InstCheck(p) \/ InstStage(p) \/ InstDropBackup(p) \/ InstBackup(p) \/ InstCopy(p)
             \/ InstReceipt(p) \/ InstRecord(p) \/ InstUndo(p) \/ InstUndoHalf(p)
      BY <2>3, InstCheckInv, InstStageInv, InstDropBackupInv, InstBackupInv, InstCopyInv, InstReceiptInv,
         InstRecordInv, InstUndoInv, InstUndoHalfInv
  <2>4. CASE InstHealth(p) \/ InstCommit(p) \/ InstAside(p) \/ InstSwap(p) \/ InstUnaside(p)
             \/ InstUnfirst(p) \/ InstRollback(p)
      BY <2>4, InstHealthInv, InstCommitInv, InstAsideInv, InstSwapInv, InstUnasideInv, InstUnfirstInv,
         InstRollbackInv
  <2>5. CASE InstResolve(p) \/ InstHoldTree(p) \/ InstHoldState(p) \/ InstUnlist(p) \/ InstDelete(p)
             \/ InstPurge(p) \/ InstRelist(p) \/ InstRetree(p) \/ InstRestate(p)
      BY <2>5, InstResolveInv, InstHoldTreeInv, InstHoldStateInv, InstUnlistInv, InstDeleteInv, InstPurgeInv,
         InstRelistInv, InstRetreeInv, InstRestateInv
  <2>q. QED BY <1>3, <2>1, <2>2, <2>3, <2>4, <2>5 DEF InstStep
<1>4. ASSUME NEW p \in InstProcs, InstCrash(p) PROVE InstInv'
    BY <1>4, InstCrashInv
<1>q. QED BY <1>1, <1>2, <1>3, <1>4 DEF InstNext

\* Every field of the installer has its type in every reachable state.
THEOREM InstTypeCorrect == InstSpec => []InstTypeOK
<1>1. InstInv => InstTypeOK
    BY DEF InstInv
<1>q. QED BY <1>1, InstInitInv, InstInductive, PTL DEF InstSpec

\* For any number of versions, processes, failures and crashes: between
\* operations the tree is the version that the ledger trusts, unless one died
\* or could not undo its steps, and an operation that says it undid its steps
\* did (install_from_manifest_locked and remove_locked under PluginMutationLock).
THEOREM InstLedgerTrue == InstSpec => []InstAgree
<1>1. InstInv => InstAgree
    BY DEF InstInv
<1>q. QED BY <1>1, InstInitInv, InstInductive, PTL DEF InstSpec

\* For any number of failures and crashes: until an update has passed its health
\* check the complete version that it found is in the tree, in the backup or in
\* the hold.
THEOREM InstNeverLosesOld == InstSpec => []InstOldKept
<1>1. InstInv => InstOldKept
    BY DEF InstInv
<1>q. QED BY <1>1, InstInitInv, InstInductive, PTL DEF InstSpec

-----------------------------------------------------------------------------
(* Media worker pool *)

PoolTaskType == [pc : PoolTaskPc, pool : PoolIds \cup {0}]

\* The part of the invariant about permits and their queues.
PoolAdmission == PoolBuilt /\ PoolWaiting /\ PoolBalanced

\* A call that moves on keeps its pool.
LEMMA PoolGoEffect ==
    ASSUME PoolTypeOK, NEW j \in PoolJobs, NEW pc \in PoolTaskPc, PoolGo(j, pc)
    PROVE  /\ poolTask' \in [PoolJobs -> PoolTaskType]
           /\ poolTask'[j] = [pc |-> pc, pool |-> poolTask[j].pool]
           /\ \A k \in PoolJobs \ {j} : poolTask'[k] = poolTask[k]
BY DEF PoolTypeOK, PoolGo, PoolTaskType

\* The pools in use.
LEMMA PoolConfTypes ==
    ASSUME PoolTypeOK
    PROVE  /\ DOMAIN poolConf = 1..PoolNow /\ PoolNow \in PoolIds /\ 1..PoolNow \subseteq PoolIds
           /\ PoolIds \subseteq Nat \ {0}
           /\ \A p \in DOMAIN poolConf : /\ poolConf[p] \in PoolConfigs
                                         /\ poolConf[p].workers \in Nat
                                         /\ poolConf[p].runner \in PoolRunners
BY PoolAssumption DEF PoolTypeOK, PoolNow, PoolIds

\* A call that leaves the queues alone: the pools whose holders stay the same.
LEMMA PoolSameHolders ==
    ASSUME NEW p, \A k \in PoolJobs : k \in PoolHolders(p)' <=> k \in PoolHolders(p)
    PROVE  PoolHolders(p)' = PoolHolders(p)
BY DEF PoolHolders

\* What SubSeq and \o leave of a queue.
LEMMA PoolRemoved ==
    ASSUME NEW S, NEW q \in Seq(S), NEW i \in 1..Len(q)
    PROVE  /\ RemoveAt(q, i) \in Seq(S)
           /\ Len(RemoveAt(q, i)) = Len(q) - 1
           /\ \A k \in 1..Len(q) - 1 : RemoveAt(q, i)[k] = IF k < i THEN q[k] ELSE q[k + 1]
<1> DEFINE a == SubSeq(q, 1, i - 1)
           b == SubSeq(q, i + 1, Len(q))
<1>1. a \in Seq(S) /\ Len(a) = i - 1 /\ \A k \in 1..i - 1 : a[k] = q[k]
    OBVIOUS
<1>2. b \in Seq(S) /\ Len(b) = Len(q) - i /\ \A k \in 1..Len(q) - i : b[k] = q[k + i]
    OBVIOUS
<1>3. RemoveAt(q, i) = a \o b
    BY DEF RemoveAt
<1> HIDE DEF a, b
<1>4. /\ a \o b \in Seq(S) /\ Len(a \o b) = Len(q) - 1
      /\ \A k \in 1..Len(q) - 1 : (a \o b)[k] = IF k <= i - 1 THEN a[k] ELSE b[k - (i - 1)]
  <2>1. /\ a \o b \in Seq(S) /\ Len(a \o b) = Len(a) + Len(b)
        /\ \A k \in 1..Len(a) + Len(b) : (a \o b)[k] = IF k <= Len(a) THEN a[k] ELSE b[k - Len(a)]
      BY <1>1, <1>2, ConcatProperties, Zenon
  <2>2. Len(a) + Len(b) = Len(q) - 1 /\ Len(a) = i - 1
      BY <1>1, <1>2
  <2>q. QED BY <2>1, <2>2
<1>q. QED BY <1>1, <1>2, <1>3, <1>4

\* A call stands in a queue once.
LEMMA PoolOnce ==
    ASSUME PoolWaiting
    PROVE  \A r \in PoolIds : \A i, k \in DOMAIN poolQueue[r] : poolQueue[r][i] = poolQueue[r][k] => i = k
BY Zenon DEF PoolWaiting

\* The permits of a pool that holds j go on adding up when j gives its own to
\* the oldest waiter, or back.
LEMMA PoolReleaseKeeps ==
    ASSUME PoolInv, NEW j \in PoolJobs, poolTask[j].pc \in {"admitted", "running"},
           NEW pc \in {"ok", "error", "dropped"}, PoolRelease(j, pc), UNCHANGED poolConf
    PROVE  /\ poolTask' \in [PoolJobs -> PoolTaskType] /\ poolFree' \in [PoolIds -> Nat]
           /\ poolQueue' \in [PoolIds -> Seq(PoolJobs)]
           /\ poolTask'[j] = [pc |-> pc, pool |-> poolTask[j].pool]
           /\ \A k \in PoolJobs \ {j} :
                 \/ poolTask'[k] = poolTask[k]
                 \/ PoolAt(k, "wait") /\ poolTask'[k] = [pc |-> "admitted", pool |-> poolTask[k].pool]
           /\ PoolAdmission'
<1>0. PICK p \in PoolIds : p = poolTask[j].pool
    BY PoolConfTypes DEF PoolInv, PoolBuilt
<1>00. PICK q \in Seq(PoolJobs) : q = poolQueue[p]
    BY DEF PoolInv, PoolTypeOK
<1>1. /\ PoolTypeOK /\ PoolBuilt /\ PoolWaiting /\ PoolBalanced
      /\ p \in DOMAIN poolConf /\ p \in PoolIds /\ q \in Seq(PoolJobs)
      /\ poolConf' = poolConf /\ PoolNow' = PoolNow
      /\ j \in PoolHolders(p) /\ p = poolTask[j].pool /\ q = poolQueue[p]
    BY <1>0, <1>00, PoolConfTypes DEF PoolInv, PoolBuilt, PoolTypeOK, PoolHolders, PoolNow
<1>2. /\ pc \in PoolTaskPc
      /\ \A i \in DOMAIN q : poolTask[q[i]] = [pc |-> "wait", pool |-> p] /\ q[i] \in PoolJobs /\ q[i] # j
    BY <1>1 DEF PoolWaiting, PoolTaskPc
<1>3. \A r \in PoolIds : \A i \in DOMAIN poolQueue[r] :
          poolTask[poolQueue[r][i]] = [pc |-> "wait", pool |-> r] /\ poolQueue[r][i] \in PoolJobs \ {j}
  <2>1. \A r \in PoolIds : \A i \in DOMAIN poolQueue[r] : poolQueue[r][i] \in PoolJobs
      BY <1>1 DEF PoolTypeOK
  <2>2. \A r \in PoolIds : \A i \in DOMAIN poolQueue[r] : poolTask[poolQueue[r][i]] = [pc |-> "wait", pool |-> r]
      BY <1>1 DEF PoolWaiting
  <2>3. ASSUME NEW r \in PoolIds, NEW i \in DOMAIN poolQueue[r] PROVE poolQueue[r][i] # j
    <3>1. poolTask[poolQueue[r][i]] = [pc |-> "wait", pool |-> r]
        BY <2>2, <2>3
    <3>q. QED BY <3>1
  <2>q. QED BY <2>1, <2>2, <2>3
<1>4. CASE q = <<>>
  <2>1. /\ poolFree' = [poolFree EXCEPT ![p] = poolFree[p] + 1] /\ PoolGo(j, pc) /\ UNCHANGED poolQueue
      BY <1>1, <1>4 DEF PoolRelease
  <2>2. /\ poolTask' \in [PoolJobs -> PoolTaskType]
        /\ poolTask'[j] = [pc |-> pc, pool |-> p]
        /\ \A k \in PoolJobs \ {j} : poolTask'[k] = poolTask[k]
      BY <1>1, <1>2, <2>1, PoolGoEffect
  <2>3. poolFree' \in [PoolIds -> Nat] /\ poolFree'[p] = poolFree[p] + 1 /\ \A r \in PoolIds \ {p} : poolFree'[r] = poolFree[r]
      BY <1>1, <2>1 DEF PoolTypeOK
  <2>4. PoolBuilt'
      BY <1>1, <2>2 DEF PoolBuilt
  <2>5. PoolWaiting'
    <3>1. \A r \in PoolIds : \A i \in DOMAIN poolQueue[r] :
              poolTask'[poolQueue[r][i]] = [pc |-> "wait", pool |-> r]
        BY <1>3, <2>2
    <3>2. \A k \in PoolJobs : poolTask'[k].pc = "wait" => k # j /\ poolTask'[k] = poolTask[k]
        BY <2>2
    <3>3. poolQueue' = poolQueue
        BY <2>1
    <3>4. \A r \in PoolIds : \A i, k \in DOMAIN poolQueue[r] : poolQueue[r][i] = poolQueue[r][k] => i = k
        BY <1>1, PoolOnce
    <3>5. \A k \in PoolJobs : poolTask[k].pc = "wait" =>
              \E i \in DOMAIN poolQueue[poolTask[k].pool] : poolQueue[poolTask[k].pool][i] = k
        BY <1>1 DEF PoolWaiting, PoolAt
    <3>6. \A k \in PoolJobs : poolTask'[k].pc = "wait" =>
              \E i \in DOMAIN poolQueue[poolTask'[k].pool] : poolQueue[poolTask'[k].pool][i] = k
        BY <3>2, <3>5
    <3>q. QED BY <3>1, <3>3, <3>4, <3>6 DEF PoolWaiting, PoolAt
  <2>6. PoolHolders(p)' = PoolHolders(p) \ {j} /\ \A r : r # p => PoolHolders(r)' = PoolHolders(r)
      BY <1>1, <2>2 DEF PoolHolders
  <2>7. PoolBalanced'
    <3> SUFFICES ASSUME NEW r \in DOMAIN poolConf
                 PROVE  /\ IsFiniteSet(PoolHolders(r)')
                        /\ poolConf[r].runner # "refuse" =>
                              /\ poolFree'[r] + Cardinality(PoolHolders(r)') = poolConf[r].workers
                              /\ poolQueue'[r] # <<>> => poolFree'[r] = 0
        BY <1>1 DEF PoolBalanced
    <3>1. CASE r # p
        BY <1>1, <2>1, <2>3, <2>6, <3>1, PoolConfTypes DEF PoolBalanced
    <3>2. CASE r = p
      <4>1. /\ IsFiniteSet(PoolHolders(p)) /\ IsFiniteSet(PoolHolders(p) \ {j})
            /\ Cardinality(PoolHolders(p) \ {j}) = Cardinality(PoolHolders(p)) - 1
            /\ Cardinality(PoolHolders(p)) \in Nat
          BY <1>1, FS_RemoveElement, FS_CardinalityType DEF PoolBalanced
      <4>2. poolFree[p] \in Nat /\ poolConf[p].workers \in Nat
          BY <1>1, PoolConfTypes DEF PoolTypeOK
      <4>3. ASSUME poolConf[p].runner # "refuse"
            PROVE  (poolFree[p] + 1) + (Cardinality(PoolHolders(p)) - 1) = poolConf[p].workers
        <5>1. poolFree[p] + Cardinality(PoolHolders(p)) = poolConf[p].workers
            BY <1>1, <4>3 DEF PoolBalanced
        <5>q. QED BY <4>1, <4>2, <5>1
      <4>4. poolQueue'[p] = <<>>
          BY <1>1, <1>4, <2>1
      <4>q. QED BY <2>3, <2>6, <3>2, <4>1, <4>3, <4>4
    <3>q. QED BY <3>1, <3>2
  <2>q. QED BY <1>1, <2>1, <2>2, <2>3, <2>4, <2>5, <2>7 DEF PoolAdmission, PoolTypeOK
<1>5. CASE q # <<>>
  <2>0. PICK h : h = Head(q)
      OBVIOUS
  <2>1. /\ h \in PoolJobs /\ 1 \in DOMAIN q /\ h = q[1] /\ h # j
        /\ poolTask[h] = [pc |-> "wait", pool |-> p]
        /\ Tail(q) \in Seq(PoolJobs) /\ Len(Tail(q)) = Len(q) - 1
        /\ \A i \in 1..Len(q) - 1 : Tail(q)[i] = q[i + 1]
    <3>1. 1 \in DOMAIN q /\ h = q[1]
        BY <1>1, <1>5, <2>0
    <3>2. /\ Tail(q) \in Seq(PoolJobs) /\ Len(Tail(q)) = Len(q) - 1
          /\ \A i \in 1..Len(Tail(q)) : Tail(q)[i] = q[i + 1]
        BY <1>1, <1>5, HeadTailProperties, Zenon
    <3>q. QED BY <1>2, <3>1, <3>2
  <2>2. /\ poolQueue' = [poolQueue EXCEPT ![p] = Tail(q)] /\ UNCHANGED poolFree
        /\ poolTask' = [poolTask EXCEPT ![j].pc = pc, ![h].pc = "admitted"]
      BY <1>1, <1>5, <2>0 DEF PoolRelease
  <2>3. /\ poolTask' \in [PoolJobs -> PoolTaskType]
        /\ poolTask'[j] = [pc |-> pc, pool |-> p] /\ poolTask'[h] = [pc |-> "admitted", pool |-> p]
        /\ \A k \in PoolJobs \ {j, h} : poolTask'[k] = poolTask[k]
    <3>1. poolTask \in [PoolJobs -> PoolTaskType]
        BY <1>1 DEF PoolTypeOK, PoolTaskType
    <3>2. /\ poolTask' = [k \in PoolJobs |-> IF k = h THEN [poolTask[k] EXCEPT !.pc = "admitted"]
                                             ELSE IF k = j THEN [poolTask[k] EXCEPT !.pc = pc] ELSE poolTask[k]]
        BY <2>1, <2>2, <3>1
    <3>3. /\ [poolTask[j] EXCEPT !.pc = pc] = [pc |-> pc, pool |-> p]
          /\ [poolTask[h] EXCEPT !.pc = "admitted"] = [pc |-> "admitted", pool |-> p]
        BY <1>1, <2>1, <3>1 DEF PoolTaskType
    <3>4. {pc, "admitted"} \subseteq PoolTaskPc /\ p \in PoolIds
        BY <1>2 DEF PoolTaskPc
    <3>q. QED BY <2>1, <3>1, <3>2, <3>3, <3>4 DEF PoolTaskType
  <2>4. /\ poolQueue' \in [PoolIds -> Seq(PoolJobs)] /\ poolQueue'[p] = Tail(q)
        /\ \A r \in PoolIds \ {p} : poolQueue'[r] = poolQueue[r]
      BY <1>1, <2>1, <2>2 DEF PoolTypeOK
  <2>5. PoolBuilt'
      BY <1>1, <2>1, <2>3 DEF PoolBuilt
  <2>6. PoolWaiting'
    <3>1. ASSUME NEW r \in PoolIds, NEW i \in DOMAIN poolQueue'[r], NEW k \in DOMAIN poolQueue'[r]
          PROVE  /\ poolTask'[poolQueue'[r][i]] = [pc |-> "wait", pool |-> r]
                 /\ poolQueue'[r][i] = poolQueue'[r][k] => i = k
      <4>1. CASE r # p
        <5>1. poolQueue'[r] = poolQueue[r] /\ poolQueue[r][i] \in PoolJobs \ {j}
              /\ poolTask[poolQueue[r][i]] = [pc |-> "wait", pool |-> r]
            BY <1>3, <2>4, <3>1, <4>1
        <5>2. poolQueue[r][i] # h
            BY <2>1, <4>1, <5>1
        <5>q. QED BY <1>1, <2>3, <3>1, <5>1, <5>2 DEF PoolWaiting
      <4>2. CASE r = p
        <5>1. /\ i \in 1..Len(q) - 1 /\ k \in 1..Len(q) - 1
              /\ poolQueue'[r][i] = q[i + 1] /\ poolQueue'[r][k] = q[k + 1]
            BY <2>1, <2>4, <3>1, <4>2
        <5>2. i + 1 \in DOMAIN q /\ k + 1 \in DOMAIN q /\ i + 1 # 1 /\ (i + 1 = k + 1 => i = k)
            BY <1>1, <5>1
        <5>3. q[i + 1] # q[1] /\ (q[i + 1] = q[k + 1] => i + 1 = k + 1)
            BY <1>1, <2>1, <5>2 DEF PoolWaiting
        <5>q. QED BY <1>2, <2>1, <2>3, <4>2, <5>1, <5>2, <5>3
      <4>q. QED BY <4>1, <4>2
    <3>2. ASSUME NEW k \in PoolJobs, poolTask'[k].pc = "wait"
          PROVE  \E i \in DOMAIN poolQueue'[poolTask'[k].pool] : poolQueue'[poolTask'[k].pool][i] = k
      <4>1. k # j /\ k # h /\ poolTask'[k] = poolTask[k]
          BY <2>3, <3>2
      <4>2. PICK i \in DOMAIN poolQueue[poolTask[k].pool] : poolQueue[poolTask[k].pool][i] = k
          BY <1>1, <3>2, <4>1 DEF PoolWaiting, PoolAt
      <4>3. poolTask[k].pool \in PoolIds
          BY <1>1, <3>2, <4>1, PoolConfTypes DEF PoolBuilt
      <4>4. CASE poolTask[k].pool # p
          BY <2>4, <4>1, <4>2, <4>3, <4>4
      <4>5. CASE poolTask[k].pool = p
        <5>1. i \in 1..Len(q) /\ i # 1 /\ q[i] = k
            BY <1>1, <2>1, <4>1, <4>2, <4>5
        <5>2. i - 1 \in 1..Len(q) - 1 /\ (i - 1) + 1 = i
            BY <1>1, <5>1
        <5>3. Tail(q)[i - 1] = k /\ i - 1 \in DOMAIN Tail(q)
            BY <2>1, <5>1, <5>2
        <5>q. QED BY <2>4, <4>1, <4>5, <5>3
      <4>q. QED BY <4>4, <4>5
    <3>3. \A r \in PoolIds : \A i \in DOMAIN poolQueue'[r] : poolTask'[poolQueue'[r][i]] = [pc |-> "wait", pool |-> r]
      <4> SUFFICES ASSUME NEW r \in PoolIds, NEW i \in DOMAIN poolQueue'[r]
                    PROVE  poolTask'[poolQueue'[r][i]] = [pc |-> "wait", pool |-> r]
          OBVIOUS
      <4>q. QED BY <3>1, Zenon
    <3>4. \A r \in PoolIds : \A i, k \in DOMAIN poolQueue'[r] : poolQueue'[r][i] = poolQueue'[r][k] => i = k
      <4> SUFFICES ASSUME NEW r \in PoolIds, NEW i \in DOMAIN poolQueue'[r], NEW k \in DOMAIN poolQueue'[r]
                    PROVE  poolQueue'[r][i] = poolQueue'[r][k] => i = k
          OBVIOUS
      <4>1. /\ poolTask'[poolQueue'[r][i]] = [pc |-> "wait", pool |-> r]
            /\ poolQueue'[r][i] = poolQueue'[r][k] => i = k
          BY <3>1
      <4>q. QED BY <4>1
    <3>5. \A k \in PoolJobs : poolTask'[k].pc = "wait" =>
              \E i \in DOMAIN poolQueue'[poolTask'[k].pool] : poolQueue'[poolTask'[k].pool][i] = k
        BY <3>2
    <3>q. QED BY <3>3, <3>4, <3>5 DEF PoolWaiting, PoolAt
  <2>7. /\ PoolHolders(p)' = (PoolHolders(p) \ {j}) \cup {h} /\ h \notin PoolHolders(p)
        /\ \A r : r # p => PoolHolders(r)' = PoolHolders(r)
      BY <1>1, <2>1, <2>3 DEF PoolHolders
  <2>8. PoolBalanced'
    <3> SUFFICES ASSUME NEW r \in DOMAIN poolConf
                 PROVE  /\ IsFiniteSet(PoolHolders(r)')
                        /\ poolConf[r].runner # "refuse" =>
                              /\ poolFree'[r] + Cardinality(PoolHolders(r)') = poolConf[r].workers
                              /\ poolQueue'[r] # <<>> => poolFree'[r] = 0
        BY <1>1 DEF PoolBalanced
    <3>1. CASE r # p
        BY <1>1, <2>2, <2>4, <2>7, <3>1, PoolConfTypes DEF PoolBalanced
    <3>2. CASE r = p
      <4>1. /\ IsFiniteSet(PoolHolders(p)) /\ IsFiniteSet(PoolHolders(p) \ {j})
            /\ Cardinality(PoolHolders(p) \ {j}) = Cardinality(PoolHolders(p)) - 1
            /\ Cardinality(PoolHolders(p)) \in Nat
          BY <1>1, FS_RemoveElement, FS_CardinalityType DEF PoolBalanced
      <4>2. h \notin PoolHolders(p) \ {j}
          BY <2>7
      <4>3. /\ IsFiniteSet((PoolHolders(p) \ {j}) \cup {h})
            /\ Cardinality((PoolHolders(p) \ {j}) \cup {h}) = Cardinality(PoolHolders(p) \ {j}) + 1
          BY <4>1, <4>2, FS_AddElement, Zenon
      <4>4. Cardinality((PoolHolders(p) \ {j}) \cup {h}) = Cardinality(PoolHolders(p))
          BY <4>1, <4>3
      <4>q. QED BY <1>1, <1>5, <2>2, <2>7, <3>2, <4>3, <4>4 DEF PoolBalanced
    <3>q. QED BY <3>1, <3>2
  <2>9. poolFree' \in [PoolIds -> Nat]
      BY <1>1, <2>2 DEF PoolTypeOK
  <2>10. PoolAt(h, "wait") /\ poolTask[h].pool = p
      BY <2>1 DEF PoolAt
  <2>q. QED BY <1>1, <2>3, <2>4, <2>5, <2>6, <2>8, <2>9, <2>10 DEF PoolAdmission
<1>q. QED BY <1>4, <1>5

\* A step of one call that neither takes nor gives back a permit and waits
\* neither before nor after it.
LEMMA PoolQuietMove ==
    ASSUME PoolInv, NEW j \in PoolJobs, NEW t \in PoolTaskType, poolTask' = [poolTask EXCEPT ![j] = t],
           t.pool \in 1..PoolNow, t.pc # "wait", ~PoolAt(j, "wait"),
           (t.pc \in {"admitted", "running"} \/ poolTask[j].pc \in {"admitted", "running"}) =>
              /\ t.pc \in {"admitted", "running"} /\ poolTask[j].pc \in {"admitted", "running"}
              /\ t.pool = poolTask[j].pool,
           UNCHANGED <<poolConf, poolFree, poolQueue>>
    PROVE  /\ poolTask' \in [PoolJobs -> PoolTaskType] /\ poolTask'[j] = t
           /\ \A k \in PoolJobs \ {j} : poolTask'[k] = poolTask[k]
           /\ PoolAdmission'
<1>1. /\ poolTask' \in [PoolJobs -> PoolTaskType] /\ poolTask'[j] = t
      /\ \A k \in PoolJobs \ {j} : poolTask'[k] = poolTask[k]
    BY DEF PoolInv, PoolTypeOK, PoolTaskType
<1>2. PoolBuilt'
    BY <1>1, PoolConfTypes DEF PoolInv, PoolBuilt, PoolNow
<1>3. \A r : PoolHolders(r)' = PoolHolders(r)
    BY <1>1 DEF PoolHolders
<1>4. PoolBalanced'
    BY <1>3 DEF PoolInv, PoolBalanced
<1>5. PoolWaiting'
  <2>1. \A r \in PoolIds : \A i \in DOMAIN poolQueue[r] :
            poolTask'[poolQueue[r][i]] = [pc |-> "wait", pool |-> r]
    <3> SUFFICES ASSUME NEW r \in PoolIds, NEW i \in DOMAIN poolQueue[r]
                 PROVE  poolTask'[poolQueue[r][i]] = [pc |-> "wait", pool |-> r]
        OBVIOUS
    <3>1. poolTask[poolQueue[r][i]] = [pc |-> "wait", pool |-> r] /\ poolQueue[r][i] \in PoolJobs
        BY DEF PoolInv, PoolWaiting, PoolTypeOK
    <3>q. QED BY <1>1, <3>1 DEF PoolAt
  <2>2. \A k \in PoolJobs : poolTask'[k].pc = "wait" => k # j /\ poolTask'[k] = poolTask[k]
      BY <1>1
  <2>q. QED BY <2>1, <2>2 DEF PoolInv, PoolWaiting, PoolAt
<1>q. QED BY <1>1, <1>2, <1>4, <1>5 DEF PoolAdmission

\* What is left to show once the permits add up.
LEMMA PoolRest ==
    ASSUME PoolInv, PoolAdmission', poolConf' = poolConf, poolTask' \in [PoolJobs -> PoolTaskType],
           poolFree' \in [PoolIds -> Nat], poolQueue' \in [PoolIds -> Seq(PoolJobs)],
           poolProc' \in [PoolJobs -> PoolProcState], PoolConfined',
           PoolMayFail \/ UNCHANGED poolFaults,
           (poolDrops < PoolMaxDrops /\ poolDrops' = poolDrops + 1) \/ UNCHANGED poolDrops
    PROVE  PoolInv'
<1>1. poolFaults' \in 0..PoolMaxFaults /\ poolDrops' \in 0..PoolMaxDrops
  <2>1. poolFaults \in 0..PoolMaxFaults /\ poolDrops \in 0..PoolMaxDrops
      BY DEF PoolInv, PoolTypeOK
  <2>2. poolFaults' = poolFaults \/ (poolFaults < PoolMaxFaults /\ poolFaults' = poolFaults + 1)
      BY DEF PoolMayFail
  <2>3. PoolMaxFaults \in Nat /\ PoolMaxDrops \in Nat
      BY PoolAssumption
  <2>4. poolFaults' \in 0..PoolMaxFaults
      BY <2>1, <2>2, <2>3
  <2>5. poolDrops' \in 0..PoolMaxDrops
      BY <2>1, <2>3
  <2>q. QED BY <2>4, <2>5
<1>2. PoolTypeOK'
    BY <1>1 DEF PoolInv, PoolTypeOK, PoolTaskType
<1>q. QED BY <1>2 DEF PoolInv, PoolAdmission

\* At first every permit is free and nobody waits.
LEMMA PoolInitInv == PoolInit => PoolInv
<1> SUFFICES ASSUME PoolInit PROVE PoolInv
    OBVIOUS
<1>1. /\ poolConf \in Seq(PoolConfigs) /\ Len(poolConf) = 1 /\ poolConf[1] = PoolFirst /\ DOMAIN poolConf = {1}
    BY PoolAssumption DEF PoolInit
<1>2. /\ PoolFirst.workers \in Nat /\ 1 \in PoolIds
      /\ PoolMaxFaults \in Nat /\ PoolMaxDrops \in Nat
    BY PoolAssumption DEF PoolIds
<1>3. PoolTypeOK
    BY <1>1, <1>2 DEF PoolInit, PoolTypeOK, PoolTaskPc, PoolProcState
<1>4. PoolBuilt /\ PoolWaiting /\ PoolConfined
    BY <1>1 DEF PoolInit, PoolBuilt, PoolWaiting, PoolConfined, PoolNow, PoolAt
<1>5. \A p : PoolHolders(p) = {}
    BY DEF PoolInit, PoolHolders
<1>6. PoolBalanced
  <2>1. IsFiniteSet({}) /\ Cardinality({}) = 0
      BY FS_EmptySet
  <2>2. poolFree[1] = PoolFirst.workers /\ poolQueue[1] = <<>>
      BY <1>2 DEF PoolInit
  <2>3. poolFree[1] + Cardinality({}) = PoolFirst.workers
      BY <1>2, <2>1, <2>2
  <2>4. \A p \in DOMAIN poolConf : p = 1
      BY <1>1
  <2>q. QED BY <1>1, <1>5, <2>1, <2>2, <2>3, <2>4, Zenon DEF PoolBalanced
<1>q. QED BY <1>3, <1>4, <1>6 DEF PoolInv

\* A call clones the pool's handle.
LEMMA PoolHandleInv == ASSUME PoolInv, NEW j \in PoolJobs, PoolHandle(j) PROVE PoolInv'
<1>1. PICK t \in PoolTaskType : t = [pc |-> "handle", pool |-> PoolNow]
    BY PoolConfTypes DEF PoolInv, PoolTaskType, PoolTaskPc
<1>2. /\ poolTask' = [poolTask EXCEPT ![j] = t] /\ poolTask[j].pc = "idle"
      /\ UNCHANGED <<poolConf, poolFree, poolQueue, poolProc, poolFaults, poolDrops>>
    BY <1>1 DEF PoolHandle, PoolAt, poolBounds
<1>3. t.pool \in 1..PoolNow /\ t.pc = "handle"
    BY <1>1, PoolConfTypes DEF PoolInv
<1>4. /\ poolTask' \in [PoolJobs -> PoolTaskType] /\ poolTask'[j] = t
      /\ \A k \in PoolJobs \ {j} : poolTask'[k] = poolTask[k]
      /\ PoolAdmission'
    BY <1>2, <1>3, PoolQuietMove DEF PoolAt
<1>5. PoolConfined'
    BY <1>2, <1>4 DEF PoolInv, PoolConfined, PoolAt, PoolRunner
<1>q. QED BY <1>2, <1>4, <1>5, PoolRest DEF PoolInv, PoolTypeOK

\* A call takes a permit that nobody holds.
LEMMA PoolTakes ==
    ASSUME PoolInv, NEW j \in PoolJobs, PoolAt(j, "handle"), poolFree[poolTask[j].pool] > 0,
           poolFree' = [poolFree EXCEPT ![poolTask[j].pool] = @ - 1], PoolGo(j, "admitted"),
           UNCHANGED <<poolConf, poolQueue>>
    PROVE  PoolAdmission' /\ poolFree' \in [PoolIds -> Nat]
<1>1. PICK p \in PoolIds : p = poolTask[j].pool
    BY PoolConfTypes DEF PoolInv, PoolBuilt, PoolAt
<1>2. /\ poolTask' \in [PoolJobs -> PoolTaskType]
      /\ poolTask'[j] = [pc |-> "admitted", pool |-> p]
      /\ \A k \in PoolJobs \ {j} : poolTask'[k] = poolTask[k]
    BY <1>1, PoolGoEffect DEF PoolInv, PoolTaskPc
<1>3. /\ poolFree[p] \in Nat /\ poolFree[p] > 0 /\ poolFree'[p] = poolFree[p] - 1
      /\ \A r \in PoolIds \ {p} : poolFree'[r] = poolFree[r]
      /\ poolFree' \in [PoolIds -> Nat]
    BY <1>1 DEF PoolInv, PoolTypeOK
<1>4. PoolBuilt'
    BY <1>1, <1>2 DEF PoolInv, PoolBuilt, PoolNow, PoolAt
<1>5. PoolWaiting'
  <2>1. ASSUME NEW r \in PoolIds, NEW i \in DOMAIN poolQueue[r]
        PROVE  poolTask'[poolQueue[r][i]] = [pc |-> "wait", pool |-> r]
    <3>1. poolTask[poolQueue[r][i]] = [pc |-> "wait", pool |-> r] /\ poolQueue[r][i] \in PoolJobs
        BY <2>1 DEF PoolInv, PoolWaiting, PoolTypeOK
    <3>q. QED BY <1>2, <3>1 DEF PoolAt
  <2>2. \A k \in PoolJobs : poolTask'[k].pc = "wait" => k # j /\ poolTask'[k] = poolTask[k]
      BY <1>2
  <2>q. QED BY <2>1, <2>2 DEF PoolInv, PoolWaiting, PoolAt
<1>6. /\ PoolHolders(p)' = PoolHolders(p) \cup {j} /\ j \notin PoolHolders(p)
      /\ \A r : r # p => PoolHolders(r)' = PoolHolders(r)
    BY <1>1, <1>2 DEF PoolHolders, PoolAt
<1>7. PoolBalanced'
  <2> SUFFICES ASSUME NEW r \in DOMAIN poolConf
               PROVE  /\ IsFiniteSet(PoolHolders(r)')
                      /\ poolConf[r].runner # "refuse" =>
                            /\ poolFree'[r] + Cardinality(PoolHolders(r)') = poolConf[r].workers
                            /\ poolQueue[r] # <<>> => poolFree'[r] = 0
      BY DEF PoolBalanced
  <2>1. r \in PoolIds
      BY PoolConfTypes DEF PoolInv
  <2>2. CASE r # p
      BY <1>3, <1>6, <2>1, <2>2 DEF PoolInv, PoolBalanced
  <2>3. CASE r = p
    <3>1. /\ IsFiniteSet(PoolHolders(p)) /\ IsFiniteSet(PoolHolders(p) \cup {j})
          /\ Cardinality(PoolHolders(p) \cup {j}) = Cardinality(PoolHolders(p)) + 1
          /\ Cardinality(PoolHolders(p)) \in Nat
        BY <1>6, <2>3, FS_AddElement, FS_CardinalityType DEF PoolInv, PoolBalanced
    <3>2. ASSUME poolConf[p].runner # "refuse"
          PROVE  /\ (poolFree[p] - 1) + (Cardinality(PoolHolders(p)) + 1) = poolConf[p].workers
                 /\ poolQueue[p] = <<>>
      <4>1. poolFree[p] + Cardinality(PoolHolders(p)) = poolConf[p].workers
          BY <2>3, <3>2 DEF PoolInv, PoolBalanced
      <4>2. poolQueue[p] = <<>>
          BY <1>3, <2>3, <3>2 DEF PoolInv, PoolBalanced
      <4>q. QED BY <1>3, <3>1, <4>1, <4>2
    <3>q. QED BY <1>3, <1>6, <2>3, <3>1, <3>2
  <2>q. QED BY <2>2, <2>3
<1>q. QED BY <1>3, <1>4, <1>5, <1>7 DEF PoolAdmission

\* A call joins the end of the queue of its pool.
LEMMA PoolQueues ==
    ASSUME PoolInv, NEW j \in PoolJobs, PoolAt(j, "handle"), poolFree[poolTask[j].pool] = 0,
           poolQueue' = [poolQueue EXCEPT ![poolTask[j].pool] = Append(@, j)], PoolGo(j, "wait"),
           UNCHANGED <<poolConf, poolFree>>
    PROVE  PoolAdmission' /\ poolQueue' \in [PoolIds -> Seq(PoolJobs)]
<1>1. PICK p \in PoolIds : p = poolTask[j].pool
    BY PoolConfTypes DEF PoolInv, PoolBuilt, PoolAt
<1>2. /\ poolTask' \in [PoolJobs -> PoolTaskType]
      /\ poolTask'[j] = [pc |-> "wait", pool |-> p]
      /\ \A k \in PoolJobs \ {j} : poolTask'[k] = poolTask[k]
    BY <1>1, PoolGoEffect DEF PoolInv, PoolTaskPc
<1>3. PICK q \in Seq(PoolJobs) : q = poolQueue[p]
    BY <1>1 DEF PoolInv, PoolTypeOK
<1>4. PICK n : n = Append(q, j)
    OBVIOUS
<1>5. /\ n \in Seq(PoolJobs) /\ Len(q) \in Nat /\ DOMAIN q = 1..Len(q) /\ DOMAIN n = 1..Len(q) + 1
      /\ n[Len(q) + 1] = j /\ \A i \in 1..Len(q) : n[i] = q[i]
    BY <1>3, <1>4
<1>6. /\ poolQueue' \in [PoolIds -> Seq(PoolJobs)] /\ poolQueue'[p] = n
      /\ \A r \in PoolIds \ {p} : poolQueue'[r] = poolQueue[r]
    BY <1>1, <1>3, <1>4, <1>5 DEF PoolInv, PoolTypeOK
<1>7. PoolBuilt'
    BY <1>1, <1>2 DEF PoolInv, PoolBuilt, PoolNow, PoolAt
<1>8. \A r \in PoolIds : \A i \in DOMAIN poolQueue[r] :
          /\ poolQueue[r][i] \in PoolJobs \ {j}
          /\ poolTask'[poolQueue[r][i]] = [pc |-> "wait", pool |-> r]
  <2> SUFFICES ASSUME NEW r \in PoolIds, NEW i \in DOMAIN poolQueue[r]
               PROVE  /\ poolQueue[r][i] \in PoolJobs \ {j}
                      /\ poolTask'[poolQueue[r][i]] = [pc |-> "wait", pool |-> r]
      OBVIOUS
  <2>1. poolTask[poolQueue[r][i]] = [pc |-> "wait", pool |-> r] /\ poolQueue[r][i] \in PoolJobs
      BY DEF PoolInv, PoolWaiting, PoolTypeOK
  <2>q. QED BY <1>2, <2>1 DEF PoolAt
<1>9. PoolWaiting'
  <2>1. ASSUME NEW r \in PoolIds, NEW i \in DOMAIN poolQueue'[r], NEW k \in DOMAIN poolQueue'[r]
        PROVE  /\ poolTask'[poolQueue'[r][i]] = [pc |-> "wait", pool |-> r]
               /\ poolQueue'[r][i] = poolQueue'[r][k] => i = k
    <3>1. CASE r # p
        BY <1>6, <1>8, <2>1, <3>1 DEF PoolInv, PoolWaiting
    <3>2. CASE r = p
      <4>1. i \in 1..Len(q) + 1 /\ k \in 1..Len(q) + 1 /\ poolQueue'[r] = n
          BY <1>5, <1>6, <2>1, <3>2
      <4>2. \A m \in 1..Len(q) : n[m] = q[m] /\ q[m] # j /\ poolTask'[q[m]] = [pc |-> "wait", pool |-> p]
          BY <1>3, <1>5, <1>8
      <4>3. \A m, o \in 1..Len(q) : q[m] = q[o] => m = o
        <5>1. \A m, o \in DOMAIN poolQueue[p] : poolQueue[p][m] = poolQueue[p][o] => m = o
            BY PoolOnce DEF PoolInv
        <5>q. QED BY <1>3, <1>5, <5>1
      <4>4. (i \in 1..Len(q) \/ i = Len(q) + 1) /\ (k \in 1..Len(q) \/ k = Len(q) + 1)
          BY <1>5, <4>1
      <4>q. QED BY <1>2, <1>5, <3>2, <4>1, <4>2, <4>3, <4>4
    <3>q. QED BY <3>1, <3>2
  <2>2. ASSUME NEW k \in PoolJobs, poolTask'[k].pc = "wait"
        PROVE  \E i \in DOMAIN poolQueue'[poolTask'[k].pool] : poolQueue'[poolTask'[k].pool][i] = k
    <3>1. CASE k = j
      <4>1. poolTask'[k].pool = p /\ Len(q) + 1 \in DOMAIN n
          BY <1>2, <1>5, <3>1
      <4>q. QED BY <1>5, <1>6, <3>1, <4>1
    <3>2. CASE k # j
      <4>1. poolTask'[k] = poolTask[k]
          BY <1>2, <3>2
      <4>2. PICK i \in DOMAIN poolQueue[poolTask[k].pool] : poolQueue[poolTask[k].pool][i] = k
          BY <2>2, <4>1 DEF PoolInv, PoolWaiting, PoolAt
      <4>3. poolTask[k].pool \in PoolIds
          BY <2>2, <4>1, PoolConfTypes DEF PoolInv, PoolBuilt
      <4>4. CASE poolTask[k].pool # p
          BY <1>6, <4>1, <4>2, <4>3, <4>4
      <4>5. CASE poolTask[k].pool = p
        <5>1. i \in DOMAIN n /\ n[i] = k
            BY <1>3, <1>5, <4>2, <4>5
        <5>q. QED BY <1>6, <4>1, <4>5, <5>1
      <4>q. QED BY <4>4, <4>5
    <3>q. QED BY <3>1, <3>2
  <2>3. \A r \in PoolIds : \A i \in DOMAIN poolQueue'[r] : poolTask'[poolQueue'[r][i]] = [pc |-> "wait", pool |-> r]
    <3> SUFFICES ASSUME NEW r \in PoolIds, NEW i \in DOMAIN poolQueue'[r]
                  PROVE  poolTask'[poolQueue'[r][i]] = [pc |-> "wait", pool |-> r]
        OBVIOUS
    <3>q. QED BY <2>1, Zenon
  <2>4. \A r \in PoolIds : \A i, k \in DOMAIN poolQueue'[r] : poolQueue'[r][i] = poolQueue'[r][k] => i = k
    <3> SUFFICES ASSUME NEW r \in PoolIds, NEW i \in DOMAIN poolQueue'[r], NEW k \in DOMAIN poolQueue'[r]
                  PROVE  poolQueue'[r][i] = poolQueue'[r][k] => i = k
        OBVIOUS
    <3>1. /\ poolTask'[poolQueue'[r][i]] = [pc |-> "wait", pool |-> r]
          /\ poolQueue'[r][i] = poolQueue'[r][k] => i = k
        BY <2>1
    <3>q. QED BY <3>1
  <2>5. \A k \in PoolJobs : poolTask'[k].pc = "wait" =>
            \E i \in DOMAIN poolQueue'[poolTask'[k].pool] : poolQueue'[poolTask'[k].pool][i] = k
      BY <2>2
  <2>q. QED BY <2>3, <2>4, <2>5 DEF PoolWaiting, PoolAt
<1>10. \A r : PoolHolders(r)' = PoolHolders(r)
    BY <1>2 DEF PoolHolders, PoolAt
<1>11. PoolBalanced'
  <2> SUFFICES ASSUME NEW r \in DOMAIN poolConf
               PROVE  /\ IsFiniteSet(PoolHolders(r))
                      /\ poolConf[r].runner # "refuse" =>
                            /\ poolFree[r] + Cardinality(PoolHolders(r)) = poolConf[r].workers
                            /\ poolQueue'[r] # <<>> => poolFree[r] = 0
      BY <1>10 DEF PoolBalanced
  <2>1. r \in PoolIds
      BY PoolConfTypes DEF PoolInv
  <2>q. QED BY <1>1, <1>6, <2>1 DEF PoolInv, PoolBalanced
<1>q. QED BY <1>6, <1>7, <1>9, <1>11 DEF PoolAdmission

\* A call takes a permit, waits for one, or is refused.
LEMMA PoolAcquireInv == ASSUME PoolInv, NEW j \in PoolJobs, PoolAcquire(j) PROVE PoolInv'
<1>1. PICK p \in PoolIds : p = poolTask[j].pool
    BY PoolConfTypes DEF PoolInv, PoolBuilt, PoolAt, PoolAcquire
<1>2. /\ PoolAt(j, "handle") /\ UNCHANGED <<poolConf, poolProc, poolDrops>>
      /\ poolTask \in [PoolJobs -> PoolTaskType] /\ poolTask[j].pc = "handle"
      /\ p \in 1..PoolNow
    BY <1>1, PoolConfTypes DEF PoolAcquire, PoolInv, PoolTypeOK, PoolTaskType, PoolAt, PoolBuilt
<1>3. ~(poolProc[j] \in {"running", "replied"})
    BY <1>2 DEF PoolInv, PoolConfined, PoolAt
<1>4. ASSUME NEW pc \in PoolTaskPc, PoolGo(j, pc)
      PROVE  /\ PoolConfined' /\ poolTask' \in [PoolJobs -> PoolTaskType]
             /\ poolProc' \in [PoolJobs -> PoolProcState]
  <2>1. /\ poolTask' \in [PoolJobs -> PoolTaskType]
        /\ \A k \in PoolJobs \ {j} : poolTask'[k] = poolTask[k]
      BY <1>4, PoolGoEffect DEF PoolInv
  <2>q. QED BY <1>2, <1>3, <2>1 DEF PoolInv, PoolTypeOK, PoolConfined, PoolAt, PoolRunner
<1>5. ASSUME PoolGo(j, "error"), UNCHANGED <<poolFree, poolQueue>>, PoolMayFail \/ UNCHANGED poolFaults
      PROVE  PoolInv'
  <2>1. PICK t \in PoolTaskType : t = [pc |-> "error", pool |-> p]
      BY <1>1 DEF PoolTaskType, PoolTaskPc
  <2>2. poolTask' = [poolTask EXCEPT ![j] = t]
    <3>1. poolTask' = [poolTask EXCEPT ![j] = [poolTask[j] EXCEPT !.pc = "error"]]
        BY <1>2, <1>5 DEF PoolGo
    <3>2. [poolTask[j] EXCEPT !.pc = "error"] = t
        BY <1>1, <1>2, <2>1 DEF PoolTaskType
    <3>q. QED BY <3>1, <3>2
  <2>3. PoolAdmission'
      BY <1>2, <1>5, <2>1, <2>2, PoolQuietMove DEF PoolAt
  <2>4. "error" \in PoolTaskPc
      BY DEF PoolTaskPc
  <2>q. QED BY <1>2, <1>4, <1>5, <2>3, <2>4, PoolRest DEF PoolInv, PoolTypeOK
<1>6. ASSUME poolFree[poolTask[j].pool] > 0, poolFree' = [poolFree EXCEPT ![poolTask[j].pool] = @ - 1],
             PoolGo(j, "admitted"), UNCHANGED <<poolQueue, poolFaults>>
      PROVE  PoolInv'
  <2>1. PoolAdmission' /\ poolFree' \in [PoolIds -> Nat]
      BY <1>2, <1>6, PoolTakes
  <2>2. "admitted" \in PoolTaskPc
      BY DEF PoolTaskPc
  <2>q. QED BY <1>2, <1>4, <1>6, <2>1, <2>2, PoolRest DEF PoolInv, PoolTypeOK
<1>7. ASSUME poolFree[poolTask[j].pool] = 0,
             poolQueue' = [poolQueue EXCEPT ![poolTask[j].pool] = Append(@, j)],
             PoolGo(j, "wait"), UNCHANGED <<poolFree, poolFaults>>
      PROVE  PoolInv'
  <2>1. PoolAdmission' /\ poolQueue' \in [PoolIds -> Seq(PoolJobs)]
      BY <1>2, <1>7, PoolQueues
  <2>2. "wait" \in PoolTaskPc
      BY DEF PoolTaskPc
  <2>q. QED BY <1>2, <1>4, <1>7, <2>1, <2>2, PoolRest DEF PoolInv, PoolTypeOK
<1>q. QED BY <1>5, <1>6, <1>7 DEF PoolAcquire

\* The end of a run: its permit goes on, and no child of its own is left.
LEMMA PoolEnds ==
    ASSUME PoolInv, NEW j \in PoolJobs, poolTask[j].pc \in {"admitted", "running"},
           NEW pc \in {"ok", "error", "dropped"}, PoolRelease(j, pc), UNCHANGED poolConf,
           NEW s \in PoolProcState, poolProc' = [poolProc EXCEPT ![j] = s],
           s \in {"running", "replied"} => pc = "dropped" /\ PoolRunner(j) # "worker",
           PoolMayFail \/ UNCHANGED poolFaults,
           (poolDrops < PoolMaxDrops /\ poolDrops' = poolDrops + 1) \/ UNCHANGED poolDrops
    PROVE  PoolInv'
<1>1. /\ poolTask' \in [PoolJobs -> PoolTaskType] /\ poolFree' \in [PoolIds -> Nat]
      /\ poolQueue' \in [PoolIds -> Seq(PoolJobs)]
      /\ poolTask'[j] = [pc |-> pc, pool |-> poolTask[j].pool]
      /\ \A k \in PoolJobs \ {j} :
            \/ poolTask'[k] = poolTask[k]
            \/ PoolAt(k, "wait") /\ poolTask'[k] = [pc |-> "admitted", pool |-> poolTask[k].pool]
      /\ PoolAdmission'
    BY PoolReleaseKeeps
<1>2. /\ poolProc' \in [PoolJobs -> PoolProcState] /\ poolProc'[j] = s
      /\ \A k \in PoolJobs \ {j} : poolProc'[k] = poolProc[k]
    BY DEF PoolInv, PoolTypeOK
<1>3. PoolConfined'
  <2> SUFFICES ASSUME NEW k \in PoolJobs, poolProc'[k] \in {"running", "replied"}
               PROVE  \/ poolTask'[k].pc = "running"
                      \/ poolTask'[k].pc = "dropped" /\ poolConf[poolTask'[k].pool].runner # "worker"
      BY DEF PoolConfined, PoolAt, PoolRunner
  <2>1. CASE k = j
      BY <1>1, <1>2, <2>1 DEF PoolRunner
  <2>2. CASE k # j
    <3>1. \/ poolTask[k].pc = "running"
          \/ poolTask[k].pc = "dropped" /\ poolConf[poolTask[k].pool].runner # "worker"
        BY <1>2, <2>2 DEF PoolInv, PoolConfined, PoolAt, PoolRunner
    <3>2. poolTask'[k] = poolTask[k]
        BY <1>1, <2>2, <3>1 DEF PoolAt
    <3>q. QED BY <3>1, <3>2
  <2>q. QED BY <2>1, <2>2
<1>q. QED BY <1>1, <1>2, <1>3, PoolRest

\* A call starts its child or its thread, or fails to.
LEMMA PoolSpawnInv == ASSUME PoolInv, NEW j \in PoolJobs, PoolSpawn(j) PROVE PoolInv'
<1>1. PICK p \in PoolIds : p = poolTask[j].pool
    BY PoolConfTypes DEF PoolInv, PoolBuilt, PoolAt, PoolSpawn
<1>2. /\ UNCHANGED <<poolConf, poolDrops>>
      /\ poolTask \in [PoolJobs -> PoolTaskType] /\ poolTask[j].pc = "admitted"
      /\ p \in 1..PoolNow
    BY <1>1, PoolConfTypes DEF PoolSpawn, PoolInv, PoolTypeOK, PoolTaskType, PoolAt, PoolBuilt
<1>3. ASSUME poolProc' = [poolProc EXCEPT ![j] = "running"], PoolGo(j, "running"),
             UNCHANGED <<poolFree, poolQueue, poolFaults>>
      PROVE  PoolInv'
  <2>1. PICK t \in PoolTaskType : t = [pc |-> "running", pool |-> p]
      BY <1>1 DEF PoolTaskType, PoolTaskPc
  <2>2. poolTask' = [poolTask EXCEPT ![j] = t]
    <3>1. poolTask' = [poolTask EXCEPT ![j] = [poolTask[j] EXCEPT !.pc = "running"]]
        BY <1>2, <1>3 DEF PoolGo
    <3>2. [poolTask[j] EXCEPT !.pc = "running"] = t
        BY <1>1, <1>2, <2>1 DEF PoolTaskType
    <3>q. QED BY <3>1, <3>2
  <2>3. /\ poolTask' \in [PoolJobs -> PoolTaskType] /\ poolTask'[j] = t
        /\ \A k \in PoolJobs \ {j} : poolTask'[k] = poolTask[k]
        /\ PoolAdmission'
      BY <1>1, <1>2, <1>3, <2>1, <2>2, PoolQuietMove DEF PoolAt
  <2>4. poolProc' \in [PoolJobs -> PoolProcState] /\ \A k \in PoolJobs \ {j} : poolProc'[k] = poolProc[k]
      BY <1>3 DEF PoolInv, PoolTypeOK, PoolProcState
  <2>5. PoolConfined'
      BY <1>2, <2>1, <2>3, <2>4 DEF PoolInv, PoolConfined, PoolAt, PoolRunner
  <2>q. QED BY <1>2, <1>3, <2>3, <2>4, <2>5, PoolRest DEF PoolInv, PoolTypeOK
<1>4. ASSUME PoolMayFail, NEW gone \in {"none", "killed"}, poolProc' = [poolProc EXCEPT ![j] = gone],
             PoolRelease(j, "error")
      PROVE  PoolInv'
  <2>1. gone \in PoolProcState
      BY DEF PoolProcState
  <2>q. QED BY <1>2, <1>4, <2>1, PoolEnds
<1>q. QED BY <1>3, <1>4 DEF PoolSpawn

\* A child or a thread goes on by itself.
LEMMA PoolWorkInv == ASSUME PoolInv, NEW j \in PoolJobs, PoolWork(j) PROVE PoolInv'
<1>1. /\ UNCHANGED <<poolConf, poolFree, poolQueue, poolTask, poolDrops>>
      /\ PoolMayFail \/ UNCHANGED poolFaults
    BY DEF PoolWork
<1>2. PICK s \in PoolProcState : /\ poolProc' = [poolProc EXCEPT ![j] = s]
                                 /\ s \in {"running", "replied"} => poolProc[j] \in {"running", "replied"}
    BY DEF PoolWork, PoolProcState
<1>3. /\ poolProc' \in [PoolJobs -> PoolProcState] /\ poolProc'[j] = s
      /\ \A k \in PoolJobs \ {j} : poolProc'[k] = poolProc[k]
    BY <1>2 DEF PoolInv, PoolTypeOK
<1>4. PoolConfined'
    BY <1>1, <1>2, <1>3 DEF PoolInv, PoolConfined, PoolAt, PoolRunner
<1>5. PoolAdmission'
    BY <1>1 DEF PoolInv, PoolAdmission, PoolBuilt, PoolWaiting, PoolBalanced, PoolHolders, PoolNow, PoolAt
<1>6. /\ poolTask' \in [PoolJobs -> PoolTaskType] /\ poolFree' \in [PoolIds -> Nat]
      /\ poolQueue' \in [PoolIds -> Seq(PoolJobs)]
    BY <1>1 DEF PoolInv, PoolTypeOK, PoolTaskType
<1>q. QED BY <1>1, <1>3, <1>4, <1>5, <1>6, PoolRest

\* A call returns and gives its permit on.
LEMMA PoolReturnInv == ASSUME PoolInv, NEW j \in PoolJobs, PoolReturn(j) PROVE PoolInv'
<1>1. /\ poolTask[j].pc \in {"admitted", "running"} /\ UNCHANGED <<poolConf, poolFaults, poolDrops>>
      /\ poolProc' = poolProc /\ poolProc[j] \notin {"running", "replied"}
    BY DEF PoolReturn, PoolAt, poolBounds
<1>2. PICK pc \in {"ok", "error", "dropped"} : PoolRelease(j, pc)
    BY DEF PoolReturn
<1>3. /\ poolProc[j] \in PoolProcState /\ poolProc' = [poolProc EXCEPT ![j] = poolProc[j]]
    BY <1>1 DEF PoolInv, PoolTypeOK
<1>q. QED BY <1>1, <1>2, <1>3, PoolEnds

\* A call that runs is dropped.
LEMMA PoolDropRunningInv == ASSUME PoolInv, NEW j \in PoolJobs, PoolDropRunning(j) PROVE PoolInv'
<1>1. /\ poolTask[j].pc \in {"admitted", "running"} /\ UNCHANGED <<poolConf, poolFaults>>
      /\ poolDrops < PoolMaxDrops /\ poolDrops' = poolDrops + 1 /\ PoolRelease(j, "dropped")
    BY DEF PoolDropRunning
<1>2. PICK s \in PoolProcState : /\ poolProc' = [poolProc EXCEPT ![j] = s]
                                 /\ s \in {"running", "replied"} => PoolRunner(j) # "worker"
  <2>1. CASE PoolRunner(j) = "worker" /\ poolProc[j] \in {"running", "replied"}
    <3>1. "killed" \in PoolProcState /\ poolProc' = [poolProc EXCEPT ![j] = "killed"]
        BY <2>1 DEF PoolProcState, PoolDropRunning
    <3>q. QED BY <3>1
  <2>2. CASE ~(PoolRunner(j) = "worker" /\ poolProc[j] \in {"running", "replied"})
    <3>1. poolProc[j] \in PoolProcState /\ poolProc' = [poolProc EXCEPT ![j] = poolProc[j]]
        BY <2>2 DEF PoolInv, PoolTypeOK, PoolDropRunning
    <3>q. QED BY <2>2, <3>1
  <2>q. QED BY <2>1, <2>2
<1>q. QED BY <1>1, <1>2, PoolEnds

\* A call leaves the queue of its pool from wherever it stands in it.
LEMMA PoolLeaves ==
    ASSUME PoolInv, NEW j \in PoolJobs, PoolAt(j, "wait"), PoolGo(j, "dropped"),
           NEW at \in DOMAIN poolQueue[poolTask[j].pool], poolQueue[poolTask[j].pool][at] = j,
           poolQueue' = [poolQueue EXCEPT ![poolTask[j].pool] = RemoveAt(@, at)],
           UNCHANGED <<poolConf, poolFree>>
    PROVE  PoolAdmission' /\ poolQueue' \in [PoolIds -> Seq(PoolJobs)]
<1>1. PICK p \in PoolIds : p = poolTask[j].pool
    BY PoolConfTypes DEF PoolInv, PoolBuilt, PoolAt
<1>2. /\ poolTask' \in [PoolJobs -> PoolTaskType]
      /\ poolTask'[j] = [pc |-> "dropped", pool |-> p]
      /\ \A k \in PoolJobs \ {j} : poolTask'[k] = poolTask[k]
    BY <1>1, PoolGoEffect DEF PoolInv, PoolTaskPc
<1>3. PICK q \in Seq(PoolJobs) : q = poolQueue[p]
    BY <1>1 DEF PoolInv, PoolTypeOK
<1>4. /\ Len(q) \in Nat /\ DOMAIN q = 1..Len(q) /\ at \in 1..Len(q) /\ q[at] = j
    BY <1>1, <1>3
<1>5. PICK n : n = RemoveAt(q, at)
    OBVIOUS
<1>6. /\ n \in Seq(PoolJobs) /\ DOMAIN n = 1..Len(q) - 1
      /\ \A k \in 1..Len(q) - 1 : n[k] = IF k < at THEN q[k] ELSE q[k + 1]
  <2>1. /\ n \in Seq(PoolJobs) /\ Len(n) = Len(q) - 1
        /\ \A k \in 1..Len(q) - 1 : n[k] = IF k < at THEN q[k] ELSE q[k + 1]
      BY <1>3, <1>4, <1>5, PoolRemoved
  <2>q. QED BY <2>1
<1>7. /\ poolQueue' \in [PoolIds -> Seq(PoolJobs)] /\ poolQueue'[p] = n
      /\ \A r \in PoolIds \ {p} : poolQueue'[r] = poolQueue[r]
    BY <1>1, <1>3, <1>5, <1>6 DEF PoolInv, PoolTypeOK
<1>8. PoolBuilt'
    BY <1>1, <1>2 DEF PoolInv, PoolBuilt, PoolNow, PoolAt
<1>9. \A r \in PoolIds : \A i, k \in DOMAIN poolQueue[r] :
          /\ poolQueue[r][i] \in PoolJobs
          /\ poolTask[poolQueue[r][i]] = [pc |-> "wait", pool |-> r]
          /\ poolQueue[r][i] = poolQueue[r][k] => i = k
  <2> SUFFICES ASSUME NEW r \in PoolIds, NEW i \in DOMAIN poolQueue[r], NEW k \in DOMAIN poolQueue[r]
               PROVE  /\ poolQueue[r][i] \in PoolJobs
                      /\ poolTask[poolQueue[r][i]] = [pc |-> "wait", pool |-> r]
                      /\ poolQueue[r][i] = poolQueue[r][k] => i = k
      OBVIOUS
  <2>1. poolTask[poolQueue[r][i]] = [pc |-> "wait", pool |-> r]
      BY DEF PoolInv, PoolWaiting
  <2>2. poolQueue[r][i] \in PoolJobs
      BY DEF PoolInv, PoolTypeOK
  <2>3. poolQueue[r][i] = poolQueue[r][k] => i = k
      BY PoolOnce DEF PoolInv
  <2>q. QED BY <2>1, <2>2, <2>3
<1>10. PoolWaiting'
  <2>1. ASSUME NEW r \in PoolIds, NEW i \in DOMAIN poolQueue'[r], NEW k \in DOMAIN poolQueue'[r]
        PROVE  /\ poolTask'[poolQueue'[r][i]] = [pc |-> "wait", pool |-> r]
               /\ poolQueue'[r][i] = poolQueue'[r][k] => i = k
    <3>1. CASE r # p
      <4>1. poolQueue'[r] = poolQueue[r]
          BY <1>7, <2>1, <3>1
      <4>2. /\ poolQueue[r][i] \in PoolJobs /\ poolTask[poolQueue[r][i]] = [pc |-> "wait", pool |-> r]
            /\ poolQueue[r][i] = poolQueue[r][k] => i = k
          BY <1>9, <2>1, <4>1
      <4>3. poolQueue[r][i] # j
          BY <1>1, <3>1, <4>2
      <4>q. QED BY <1>2, <4>1, <4>2, <4>3
    <3>2. CASE r = p
      <4>1. i \in 1..Len(q) - 1 /\ k \in 1..Len(q) - 1 /\ poolQueue'[r] = n
          BY <1>6, <1>7, <2>1, <3>2
      <4>2. PICK ii \in 1..Len(q) : ii = (IF i < at THEN i ELSE i + 1) /\ n[i] = q[ii] /\ ii # at
          BY <1>4, <1>6, <4>1
      <4>3. PICK kk \in 1..Len(q) : kk = (IF k < at THEN k ELSE k + 1) /\ n[k] = q[kk]
          BY <1>4, <1>6, <4>1
      <4>4. ii = kk => i = k
          BY <1>4, <4>1, <4>2, <4>3
      <4>5. /\ q[ii] \in PoolJobs /\ poolTask[q[ii]] = [pc |-> "wait", pool |-> p]
            /\ q[ii] = q[kk] => ii = kk
            /\ q[ii] = q[at] => ii = at
          BY <1>3, <1>4, <1>9
      <4>6. q[ii] # j
          BY <1>4, <4>2, <4>5
      <4>q. QED BY <1>2, <3>2, <4>1, <4>2, <4>3, <4>4, <4>5, <4>6
    <3>q. QED BY <3>1, <3>2
  <2>2. ASSUME NEW k \in PoolJobs, poolTask'[k].pc = "wait"
        PROVE  \E i \in DOMAIN poolQueue'[poolTask'[k].pool] : poolQueue'[poolTask'[k].pool][i] = k
    <3>1. k # j /\ poolTask'[k] = poolTask[k]
        BY <1>2, <2>2
    <3>2. PICK i \in DOMAIN poolQueue[poolTask[k].pool] : poolQueue[poolTask[k].pool][i] = k
        BY <2>2, <3>1 DEF PoolInv, PoolWaiting, PoolAt
    <3>3. poolTask[k].pool \in PoolIds
        BY <2>2, <3>1, PoolConfTypes DEF PoolInv, PoolBuilt
    <3>4. CASE poolTask[k].pool # p
        BY <1>7, <3>1, <3>2, <3>3, <3>4
    <3>5. CASE poolTask[k].pool = p
      <4>1. i \in 1..Len(q) /\ q[i] = k /\ i # at
          BY <1>3, <1>4, <3>1, <3>2, <3>5
      <4>2. PICK m \in 1..Len(q) - 1 : i = (IF m < at THEN m ELSE m + 1)
        <5>1. CASE i < at
          <6>1. i \in 1..Len(q) - 1
              BY <1>4, <4>1, <5>1
          <6>q. QED BY <5>1, <6>1
        <5>2. CASE i > at
          <6>1. i - 1 \in 1..Len(q) - 1 /\ ~(i - 1 < at) /\ (i - 1) + 1 = i
              BY <1>4, <4>1, <5>2
          <6>q. QED BY <6>1
        <5>q. QED BY <1>4, <4>1, <5>1, <5>2
      <4>3. n[m] = k /\ m \in DOMAIN n
          BY <1>6, <4>1, <4>2
      <4>q. QED BY <1>7, <3>1, <3>5, <4>3
    <3>q. QED BY <3>4, <3>5
  <2>3. \A r \in PoolIds : \A i \in DOMAIN poolQueue'[r] : poolTask'[poolQueue'[r][i]] = [pc |-> "wait", pool |-> r]
    <3> SUFFICES ASSUME NEW r \in PoolIds, NEW i \in DOMAIN poolQueue'[r]
                  PROVE  poolTask'[poolQueue'[r][i]] = [pc |-> "wait", pool |-> r]
        OBVIOUS
    <3>q. QED BY <2>1, Zenon
  <2>4. \A r \in PoolIds : \A i, k \in DOMAIN poolQueue'[r] : poolQueue'[r][i] = poolQueue'[r][k] => i = k
    <3> SUFFICES ASSUME NEW r \in PoolIds, NEW i \in DOMAIN poolQueue'[r], NEW k \in DOMAIN poolQueue'[r]
                  PROVE  poolQueue'[r][i] = poolQueue'[r][k] => i = k
        OBVIOUS
    <3>1. /\ poolTask'[poolQueue'[r][i]] = [pc |-> "wait", pool |-> r]
          /\ poolQueue'[r][i] = poolQueue'[r][k] => i = k
        BY <2>1
    <3>q. QED BY <3>1
  <2>5. \A k \in PoolJobs : poolTask'[k].pc = "wait" =>
            \E i \in DOMAIN poolQueue'[poolTask'[k].pool] : poolQueue'[poolTask'[k].pool][i] = k
      BY <2>2
  <2>q. QED BY <2>3, <2>4, <2>5 DEF PoolWaiting, PoolAt
<1>11. \A r : PoolHolders(r)' = PoolHolders(r)
    BY <1>2 DEF PoolHolders, PoolAt
<1>12. PoolBalanced'
  <2> SUFFICES ASSUME NEW r \in DOMAIN poolConf
               PROVE  /\ IsFiniteSet(PoolHolders(r))
                      /\ poolConf[r].runner # "refuse" =>
                            /\ poolFree[r] + Cardinality(PoolHolders(r)) = poolConf[r].workers
                            /\ poolQueue'[r] # <<>> => poolFree[r] = 0
      BY <1>11 DEF PoolBalanced
  <2>1. r \in PoolIds
      BY PoolConfTypes DEF PoolInv
  <2>2. q # <<>>
      BY <1>4
  <2>q. QED BY <1>1, <1>3, <1>7, <2>1, <2>2 DEF PoolInv, PoolBalanced
<1>q. QED BY <1>7, <1>8, <1>10, <1>12 DEF PoolAdmission

\* A call that waits is dropped.
LEMMA PoolDropWaitingInv == ASSUME PoolInv, NEW j \in PoolJobs, PoolDropWaiting(j) PROVE PoolInv'
<1>1. /\ PoolAt(j, "wait") /\ PoolGo(j, "dropped") /\ UNCHANGED <<poolConf, poolFree, poolProc, poolFaults>>
      /\ poolDrops < PoolMaxDrops /\ poolDrops' = poolDrops + 1
    BY DEF PoolDropWaiting
<1>2. PICK at \in DOMAIN poolQueue[poolTask[j].pool] :
          /\ poolQueue[poolTask[j].pool][at] = j
          /\ poolQueue' = [poolQueue EXCEPT ![poolTask[j].pool] = RemoveAt(@, at)]
    BY DEF PoolDropWaiting
<1>3. PoolAdmission' /\ poolQueue' \in [PoolIds -> Seq(PoolJobs)]
    BY <1>1, <1>2, PoolLeaves
<1>4. /\ poolTask' \in [PoolJobs -> PoolTaskType]
      /\ \A k \in PoolJobs \ {j} : poolTask'[k] = poolTask[k]
    BY <1>1, PoolGoEffect DEF PoolInv, PoolTaskPc
<1>5. poolProc[j] \notin {"running", "replied"}
    BY <1>1 DEF PoolInv, PoolConfined, PoolAt
<1>6. PoolConfined'
    BY <1>1, <1>4, <1>5 DEF PoolInv, PoolConfined, PoolAt, PoolRunner
<1>q. QED BY <1>1, <1>3, <1>4, <1>6, PoolRest DEF PoolInv, PoolTypeOK

\* A reload adds a pool that nobody has a handle to yet.
LEMMA PoolReloadInv == ASSUME PoolInv, NEW c \in PoolConfigs, PoolReload(c) PROVE PoolInv'
<1>1. PICK n \in PoolIds : n = PoolNow
    BY PoolConfTypes DEF PoolInv
<1>2. /\ n + 1 \in PoolIds /\ n \in Nat \ {0} /\ DOMAIN poolConf = 1..n /\ 1..n \subseteq PoolIds
      /\ poolConf \in Seq(PoolConfigs) /\ Len(poolConf) = n
    BY <1>1, PoolAssumption, PoolConfTypes DEF PoolInv, PoolTypeOK, PoolReload, PoolIds, PoolNow
<1>3. /\ poolConf' = Append(poolConf, c) /\ poolFree' = [poolFree EXCEPT ![n + 1] = c.workers]
      /\ UNCHANGED <<poolQueue, poolTask, poolProc, poolFaults, poolDrops>>
    BY <1>1 DEF PoolReload, poolBounds
<1>4. /\ poolConf' \in Seq(PoolConfigs) /\ Len(poolConf') = n + 1 /\ DOMAIN poolConf' = 1..n + 1
      /\ poolConf'[n + 1] = c /\ \A p \in 1..n : poolConf'[p] = poolConf[p]
    BY <1>2, <1>3
<1>5. c.workers \in Nat
    BY PoolAssumption
<1>6. /\ poolFree' \in [PoolIds -> Nat] /\ poolFree'[n + 1] = c.workers
      /\ \A p \in 1..n : poolFree'[p] = poolFree[p]
    BY <1>2, <1>3, <1>5 DEF PoolInv, PoolTypeOK
<1>7. PoolTypeOK'
    BY <1>2, <1>3, <1>4, <1>6 DEF PoolInv, PoolTypeOK
<1>8. \A j \in PoolJobs : poolTask[j].pool \in 0..n /\ (poolTask[j].pc # "idle" => poolTask[j].pool \in 1..n)
    BY <1>1, <1>2 DEF PoolInv, PoolBuilt
<1>9. PoolBuilt'
    BY <1>2, <1>3, <1>4, <1>8 DEF PoolBuilt, PoolNow
<1>10. PoolWaiting'
    BY <1>3 DEF PoolInv, PoolWaiting, PoolAt
<1>11. PoolConfined'
  <2> SUFFICES ASSUME NEW j \in PoolJobs, poolProc[j] \in {"running", "replied"}
               PROVE  \/ poolTask[j].pc = "running"
                      \/ poolTask[j].pc = "dropped" /\ poolConf'[poolTask[j].pool].runner # "worker"
      BY <1>3 DEF PoolConfined, PoolAt, PoolRunner
  <2>1. \/ poolTask[j].pc = "running"
        \/ poolTask[j].pc = "dropped" /\ poolConf[poolTask[j].pool].runner # "worker"
      BY DEF PoolInv, PoolConfined, PoolAt, PoolRunner
  <2>q. QED BY <1>4, <1>8, <2>1
<1>12. \A p : PoolHolders(p)' = PoolHolders(p)
    BY <1>3 DEF PoolHolders
<1>13. PoolHolders(n + 1) = {} /\ poolQueue[n + 1] = <<>>
  <2>1. PoolHolders(n + 1) = {}
      BY <1>2, <1>8 DEF PoolHolders
  <2>2. poolQueue[n + 1] \in Seq(PoolJobs)
      BY <1>2 DEF PoolInv, PoolTypeOK
  <2>3. ASSUME poolQueue[n + 1] # <<>> PROVE FALSE
    <3>1. 1 \in DOMAIN poolQueue[n + 1] /\ poolQueue[n + 1][1] \in PoolJobs
        BY <2>2, <2>3
    <3>2. poolTask[poolQueue[n + 1][1]] = [pc |-> "wait", pool |-> n + 1]
        BY <1>2, <3>1, Zenon DEF PoolInv, PoolWaiting
    <3>q. QED BY <1>2, <1>8, <3>1, <3>2
  <2>q. QED BY <2>1, <2>3
<1>14. PoolBalanced'
  <2> SUFFICES ASSUME NEW r \in 1..n + 1
               PROVE  /\ IsFiniteSet(PoolHolders(r))
                      /\ poolConf'[r].runner # "refuse" =>
                            /\ poolFree'[r] + Cardinality(PoolHolders(r)) = poolConf'[r].workers
                            /\ poolQueue[r] # <<>> => poolFree'[r] = 0
      BY <1>3, <1>4, <1>12 DEF PoolBalanced
  <2>1. CASE r \in 1..n
      BY <1>2, <1>4, <1>6, <2>1 DEF PoolInv, PoolBalanced
  <2>2. CASE r = n + 1
    <3>1. IsFiniteSet({}) /\ Cardinality({}) = 0
        BY FS_EmptySet
    <3>2. poolFree'[n + 1] + Cardinality({}) = poolConf'[n + 1].workers
        BY <1>4, <1>5, <1>6, <3>1
    <3>q. QED BY <1>13, <2>2, <3>1, <3>2
  <2>q. QED BY <1>2, <2>1, <2>2
<1>q. QED BY <1>7, <1>9, <1>10, <1>11, <1>14 DEF PoolInv

\* Every step keeps the invariant.
LEMMA PoolInvInductive == PoolInv /\ [PoolNext]_poolVars => PoolInv'
<1> SUFFICES ASSUME PoolInv, [PoolNext]_poolVars PROVE PoolInv'
    OBVIOUS
<1>1. CASE UNCHANGED poolVars
  <2>1. PoolTypeOK'
      BY <1>1 DEF poolVars, PoolInv, PoolTypeOK
  <2>2. PoolBuilt' /\ PoolConfined'
      BY <1>1 DEF poolVars, PoolInv, PoolBuilt, PoolConfined, PoolNow, PoolAt, PoolRunner
  <2>3. PoolWaiting'
      BY <1>1 DEF poolVars, PoolInv, PoolWaiting, PoolAt
  <2>4. PoolBalanced'
      BY <1>1 DEF poolVars, PoolInv, PoolBalanced, PoolHolders
  <2>q. QED BY <2>1, <2>2, <2>3, <2>4 DEF PoolInv
<1>2. ASSUME NEW j \in PoolJobs, PoolHandle(j) \/ PoolStep(j) \/ PoolDrop(j) \/ PoolWork(j)
      PROVE  PoolInv'
    BY <1>2, PoolHandleInv, PoolAcquireInv, PoolSpawnInv, PoolReturnInv, PoolDropRunningInv,
       PoolDropWaitingInv, PoolWorkInv DEF PoolStep, PoolDrop
<1>3. ASSUME NEW c \in PoolConfigs, PoolReload(c) PROVE PoolInv'
    BY <1>3, PoolReloadInv
<1>q. QED BY <1>1, <1>2, <1>3 DEF PoolNext

\* The children of a confined pool belong to calls that hold its permits.
LEMMA PoolInvPermits == PoolInv => PoolPermits
<1> SUFFICES ASSUME PoolInv, NEW p \in DOMAIN poolConf, poolConf[p].runner # "refuse"
             PROVE  /\ poolConf[p].runner = "worker" => Cardinality(PoolCodecs(p)) <= poolConf[p].workers
                    /\ poolFree[p] + Cardinality(PoolHolders(p)) = poolConf[p].workers
                    /\ poolQueue[p] # <<>> => poolFree[p] = 0
    BY DEF PoolPermits
<1>1. /\ IsFiniteSet(PoolHolders(p))
      /\ poolQueue[p] # <<>> => poolFree[p] = 0
      /\ poolFree[p] + Cardinality(PoolHolders(p)) = poolConf[p].workers
    BY DEF PoolInv, PoolBalanced
<1>2. ASSUME poolConf[p].runner = "worker" PROVE Cardinality(PoolCodecs(p)) <= poolConf[p].workers
  <2>1. PoolCodecs(p) \subseteq PoolHolders(p)
      BY <1>2 DEF PoolInv, PoolConfined, PoolCodecs, PoolHolders, PoolAt, PoolRunner
  <2>2. /\ Cardinality(PoolCodecs(p)) <= Cardinality(PoolHolders(p)) /\ IsFiniteSet(PoolCodecs(p))
      BY <1>1, <2>1, FS_Subset
  <2>3. Cardinality(PoolCodecs(p)) \in Nat /\ Cardinality(PoolHolders(p)) \in Nat
      BY <1>1, <2>2, FS_CardinalityType
  <2>4. poolFree[p] \in Nat
      BY PoolConfTypes DEF PoolInv, PoolTypeOK
  <2>q. QED BY <1>1, <2>2, <2>3, <2>4
<1>q. QED BY <1>1, <1>2

\* Every field of the pool has its type in every reachable state.
THEOREM PoolTypeCorrect == PoolSpec => []PoolTypeOK
<1>1. PoolInv => PoolTypeOK
    BY DEF PoolInv
<1>q. QED BY <1>1, PoolInitInv, PoolInvInductive, PTL DEF PoolSpec

\* For any number of calls, configurations and reloads, whatever is dropped or
\* fails: every permit of a pool is free or held by a call that is in run,
\* nobody waits while one is free, and a confined pool never runs more codecs
\* than it has workers (MediaPool::run and init_pool_from_config).
THEOREM PoolNeverLosesPermit == PoolSpec => []PoolPermits
<1>q. QED BY PoolInvPermits, PoolInitInv, PoolInvInductive, PTL DEF PoolSpec

-----------------------------------------------------------------------------
(* Job scratch directories *)

ScrWrites == {"fetch", "enforce", "store", "enforceagain", "acquired"}

\* A step of a handler that has its daemon's work_lock, or takes it.
LEMMA ScrMoves ==
    ASSUME ScrInv, NEW r \in ScrRuns, ~ScrAt(r, "none"), scrLock[ScrNode(r)] \in {r, ScrNobody},
           NEW w, ScrHandler(w), w.node = ScrNode(r), w.pc # "none",
           scrRun' = [scrRun EXCEPT ![r] = w], UNCHANGED scrNode,
           scrLock' = [scrLock EXCEPT ![ScrNode(r)] = r],
           NEW size \in Int, scrDir' = [scrDir EXCEPT ![ScrNode(r)][ScrBook(r)] = size],
           w.pc \in ScrWrites => size # ScrNone
    PROVE  ScrInv'
<1>0. PICK n \in ScrNodes : n = ScrNode(r)
    BY DEF ScrInv, ScrAlone
<1>00. PICK b \in ScrBooks : b = ScrBook(r)
    BY DEF ScrBook, ScrBooks, ScrRuns
<1>1. /\ DOMAIN scrRun' = ScrRuns /\ scrRun'[r] = w
      /\ \A q \in ScrRuns \ {r} : scrRun'[q] = scrRun[q]
    BY DEF ScrInv, ScrDirTypes
<1>2. /\ scrLock' \in [ScrNodes -> ScrRuns \cup {ScrNobody}] /\ scrLock'[n] = r
      /\ \A m \in ScrNodes \ {n} : scrLock'[m] = scrLock[m]
    BY <1>0 DEF ScrInv, ScrDirTypes
<1>3. /\ scrDir' \in [ScrNodes -> [ScrBooks -> Int]] /\ scrDir'[n][b] = size
      /\ \A m \in ScrNodes \ {n} : scrDir'[m] = scrDir[m]
    BY <1>0, <1>00 DEF ScrInv, ScrDirTypes
<1>4. \A q \in ScrRuns \ {r} : scrRun[q].pc \notin {"none", "lock"} => ScrNode(q) # n
    BY <1>0, ScrAssumption DEF ScrInv, ScrAlone
<1>5. ScrDirTypes'
    BY <1>1, <1>2, <1>3 DEF ScrInv, ScrDirTypes, ScrHandler
<1>6. ScrAlone'
  <2> SUFFICES ASSUME NEW q \in ScrRuns
               PROVE  /\ scrRun'[q].pc # "none" => scrRun'[q].node \in ScrNodes /\ scrNode[scrRun'[q].node] = "up"
                      /\ scrRun'[q].pc \notin {"none", "lock"} => scrLock'[scrRun'[q].node] = q
      BY DEF ScrAlone, ScrAt, ScrNode
  <2>1. CASE q = r
      BY <1>0, <1>1, <1>2, <2>1 DEF ScrInv, ScrAlone
  <2>2. CASE q # r
    <3>1. /\ scrRun[q].pc # "none" => scrRun[q].node \in ScrNodes /\ scrNode[scrRun[q].node] = "up"
          /\ scrRun[q].pc \notin {"none", "lock"} => scrLock[scrRun[q].node] = q
        BY DEF ScrInv, ScrAlone, ScrAt, ScrNode
    <3>q. QED BY <1>1, <1>2, <1>4, <2>2, <3>1 DEF ScrNode
  <2>q. QED BY <2>1, <2>2
<1>7. ScrOwnDir'
  <2> SUFFICES ASSUME NEW q \in ScrRuns, scrRun'[q].pc \in ScrWrites
               PROVE  scrDir'[scrRun'[q].node][ScrBook(q)] # ScrNone
      BY DEF ScrOwnDir, ScrDirOf, ScrNode, ScrWrites, ScrBook
  <2>1. CASE q = r
      BY <1>0, <1>00, <1>1, <1>3, <2>1
  <2>2. CASE q # r
    <3>1. /\ scrRun[q].pc \in ScrWrites /\ scrRun[q].node \in ScrNodes
          /\ scrDir[scrRun[q].node][ScrBook(q)] # ScrNone
        BY <1>1, <2>2 DEF ScrInv, ScrAlone, ScrOwnDir, ScrDirOf, ScrNode, ScrWrites, ScrAt
    <3>2. scrRun[q].node # n
        BY <1>4, <2>2, <3>1 DEF ScrWrites, ScrNode
    <3>q. QED BY <1>1, <1>3, <2>2, <3>1, <3>2
  <2>q. QED BY <2>1, <2>2
<1>q. QED BY <1>5, <1>6, <1>7 DEF ScrInv

\* A handler that is past the lock has it.
LEMMA ScrHasLock ==
    ASSUME ScrInv, NEW r \in ScrRuns, scrRun[r].pc \notin {"none", "lock"}
    PROVE  /\ ~ScrAt(r, "none") /\ scrLock[ScrNode(r)] = r /\ ScrNode(r) \in ScrNodes
           /\ scrLock = [scrLock EXCEPT ![ScrNode(r)] = r]
           /\ ScrHandler(scrRun[r])
<1>1. /\ ~ScrAt(r, "none") /\ scrLock[ScrNode(r)] = r /\ ScrNode(r) \in ScrNodes /\ ScrHandler(scrRun[r])
    BY DEF ScrInv, ScrDirTypes, ScrAlone, ScrAt
<1>2. scrLock \in [ScrNodes -> ScrRuns \cup {ScrNobody}]
    BY DEF ScrInv, ScrDirTypes
<1>q. QED BY <1>1, <1>2

\* Nothing about the directory and the lock changes.
LEMMA ScrGoes ==
    ASSUME ScrInv, NEW r \in ScrRuns, scrRun[r].pc \notin {"none", "lock"},
           NEW w, ScrHandler(w), w.node = ScrNode(r), w.pc # "none", scrRun' = [scrRun EXCEPT ![r] = w],
           UNCHANGED <<scrNode, scrLock, scrDir>>,
           w.pc \in ScrWrites => scrRun[r].pc \in ScrWrites
    PROVE  ScrInv'
<1>1. /\ ~ScrAt(r, "none") /\ scrLock[ScrNode(r)] = r /\ scrLock' = [scrLock EXCEPT ![ScrNode(r)] = r]
      /\ ScrNode(r) \in ScrNodes
    BY ScrHasLock
<1>2. PICK b \in ScrBooks : b = ScrBook(r)
    BY DEF ScrBook, ScrBooks, ScrRuns
<1>3. PICK size \in Int : size = scrDir[ScrNode(r)][b]
    BY <1>1 DEF ScrInv, ScrDirTypes
<1>4. scrDir' = [scrDir EXCEPT ![ScrNode(r)][b] = size]
    BY <1>1, <1>3 DEF ScrInv, ScrDirTypes
<1>5. w.pc \in ScrWrites => size # ScrNone
    BY <1>2, <1>3 DEF ScrInv, ScrOwnDir, ScrDirOf, ScrWrites
<1>q. QED BY <1>1, <1>2, <1>4, <1>5, ScrMoves

\* What ScrGo and ScrBegin make of a handler.
LEMMA ScrGoEffect ==
    ASSUME ScrInv, NEW r \in ScrRuns, NEW pc \in ScrPc \ {"none"}, ScrGo(r, pc)
    PROVE  \E w : /\ ScrHandler(w) /\ w.node = ScrNode(r) /\ w.pc = pc /\ w.pc # "none"
                  /\ scrRun' = [scrRun EXCEPT ![r] = w]
<1>1. ScrHandler(scrRun[r]) /\ DOMAIN scrRun = ScrRuns
    BY DEF ScrInv, ScrDirTypes
<1>2. PICK w : w = [scrRun[r] EXCEPT !.pc = pc, !.left = 0]
    OBVIOUS
<1>3. ScrHandler(w) /\ w.node = scrRun[r].node /\ w.pc = pc
    BY <1>1, <1>2 DEF ScrHandler
<1>4. scrRun' = [scrRun EXCEPT ![r] = w]
    BY <1>2 DEF ScrGo
<1>q. QED BY <1>3, <1>4 DEF ScrNode

\* What ScrBegin makes of a handler.
LEMMA ScrBeginEffect ==
    ASSUME ScrInv, NEW r \in ScrRuns, NEW pc \in ScrPc \ {"none"}, ScrBegin(r, pc)
    PROVE  \E w : /\ ScrHandler(w) /\ w.node = ScrNode(r) /\ w.pc \in {pc, "error"} /\ w.pc # "none"
                  /\ scrRun' = [scrRun EXCEPT ![r] = w]
<1>1. ScrHandler(scrRun[r]) /\ DOMAIN scrRun = ScrRuns
    BY DEF ScrInv, ScrDirTypes
<1>2. PICK left : left = ScrRemaining(r)
    OBVIOUS
<1>3. PICK at \in {pc, "error"} : at = IF left = 0 THEN "error" ELSE pc
    OBVIOUS
<1>4. PICK w : w = [scrRun[r] EXCEPT !.pc = at, !.left = left]
    OBVIOUS
<1>5. ScrHandler(w) /\ w.node = scrRun[r].node /\ w.pc = at /\ at # "none"
    BY <1>1, <1>3, <1>4 DEF ScrHandler, ScrPc
<1>6. scrRun' = [scrRun EXCEPT ![r] = w]
    BY <1>2, <1>3, <1>4 DEF ScrBegin
<1>q. QED BY <1>3, <1>5, <1>6 DEF ScrNode

\* A status write of a handler that is past the lock.
LEMMA ScrStatusInv ==
    ASSUME ScrInv, NEW r \in ScrRuns, NEW pc \in ScrPc \ {"none", "lock"}, NEW status,
           NEW next \in ScrPc \ ({"none"} \cup ScrWrites), NEW failed \in ScrPc \ ({"none"} \cup ScrWrites),
           ScrStatus(r, pc, status, next, failed)
    PROVE  ScrInv'
<1>1. /\ scrRun[r].pc \notin {"none", "lock"} /\ UNCHANGED <<scrNode, scrLock, scrDir>>
      /\ \E to \in {next, failed} : ScrGo(r, to)
    BY DEF ScrStatus, ScrAt, scrStart
<1>2. PICK to \in ScrPc \ ({"none"} \cup ScrWrites) : ScrGo(r, to)
    BY <1>1
<1>3. PICK w : /\ ScrHandler(w) /\ w.node = ScrNode(r) /\ w.pc = to /\ w.pc # "none"
               /\ scrRun' = [scrRun EXCEPT ![r] = w]
    BY <1>2, ScrGoEffect
<1>q. QED BY <1>1, <1>3, ScrGoes

\* A step that leaves the directory and the lock alone and goes on to pc.
LEMMA ScrGoesTo ==
    ASSUME ScrInv, NEW r \in ScrRuns, scrRun[r].pc \notin {"none", "lock"},
           NEW pc \in ScrPc \ {"none"}, ScrGo(r, pc), UNCHANGED <<scrNode, scrLock, scrDir>>,
           pc \in ScrWrites => scrRun[r].pc \in ScrWrites
    PROVE  ScrInv'
<1>1. PICK w : /\ ScrHandler(w) /\ w.node = ScrNode(r) /\ w.pc = pc /\ w.pc # "none"
               /\ scrRun' = [scrRun EXCEPT ![r] = w]
    BY ScrGoEffect
<1>q. QED BY <1>1, ScrGoes

\* A step that goes on to a point where the handler may give up at once.
LEMMA ScrBegins ==
    ASSUME ScrInv, NEW r \in ScrRuns, scrRun[r].pc \notin {"none", "lock"},
           NEW pc \in ScrPc \ {"none"}, ScrBegin(r, pc), UNCHANGED <<scrNode, scrLock, scrDir>>,
           pc \in ScrWrites => scrRun[r].pc \in ScrWrites
    PROVE  ScrInv'
<1>1. PICK w : /\ ScrHandler(w) /\ w.node = ScrNode(r) /\ w.pc \in {pc, "error"} /\ w.pc # "none"
               /\ scrRun' = [scrRun EXCEPT ![r] = w]
    BY ScrBeginEffect
<1>2. w.pc \in ScrWrites => scrRun[r].pc \in ScrWrites
    BY <1>1 DEF ScrWrites
<1>q. QED BY <1>1, <1>2, ScrGoes

\* A handler takes its daemon's work_lock.
LEMMA ScrEnterInv == ASSUME ScrInv, NEW r \in ScrRuns, ScrEnter(r) PROVE ScrInv'
<1>1. /\ ~ScrAt(r, "none") /\ scrLock[ScrNode(r)] = ScrNobody /\ UNCHANGED <<scrNode, scrDir>>
      /\ scrLock' = [scrLock EXCEPT ![ScrNode(r)] = r]
    BY DEF ScrEnter, ScrAt, scrStart
<1>2. ScrHandler(scrRun[r]) /\ ScrNode(r) \in ScrNodes
    BY <1>1 DEF ScrInv, ScrDirTypes, ScrAlone
<1>3. PICK w : /\ ScrHandler(w) /\ w.node = ScrNode(r) /\ w.pc \in {"queued", "report"}
               /\ scrRun' = [scrRun EXCEPT ![r] = w]
  <2>1. CASE \E pc \in {"queued", "report"} : ScrGo(r, pc)
      BY <2>1, ScrGoEffect DEF ScrPc
  <2>2. CASE scrRun' = [scrRun EXCEPT ![r] = [@ EXCEPT !.pc = "report", !.ok = ScrFenced(r)]]
    <3>1. PICK ok : ok = ScrFenced(r)
        OBVIOUS
    <3>2. PICK w : w = [scrRun[r] EXCEPT !.pc = "report", !.ok = ok]
        OBVIOUS
    <3>3. ScrHandler(w) /\ w.node = scrRun[r].node /\ w.pc = "report"
        BY <1>2, <3>2 DEF ScrHandler, ScrPc
    <3>4. scrRun' = [scrRun EXCEPT ![r] = w]
        BY <2>2, <3>1, <3>2
    <3>q. QED BY <3>3, <3>4 DEF ScrNode
  <2>q. QED BY <2>1, <2>2 DEF ScrEnter
<1>4. PICK b \in ScrBooks : b = ScrBook(r)
    BY DEF ScrBook, ScrBooks, ScrRuns
<1>5. PICK size \in Int : size = scrDir[ScrNode(r)][b]
    BY <1>2 DEF ScrInv, ScrDirTypes
<1>6. scrDir' = [scrDir EXCEPT ![ScrNode(r)][b] = size]
    BY <1>1, <1>2, <1>5 DEF ScrInv, ScrDirTypes
<1>7. w.pc # "none" /\ w.pc \notin ScrWrites
    BY <1>3 DEF ScrWrites
<1>q. QED BY <1>1, <1>3, <1>4, <1>6, <1>7, ScrMoves

\* The handler's status writes.
LEMMA ScrStatusesInv ==
    ASSUME ScrInv, NEW r \in ScrRuns, ScrQueued(r) \/ ScrDownloading(r) \/ ScrAcquired(r) \/ ScrError(r)
    PROVE  ScrInv'
<1>1. {"queued", "download", "acquired", "error"} \subseteq ScrPc \ {"none", "lock"}
    BY DEF ScrPc
<1>2. {"download", "report", "budget", "error", "rmdir"} \subseteq ScrPc \ ({"none"} \cup ScrWrites)
    BY DEF ScrPc, ScrWrites
<1>q. QED BY <1>1, <1>2, ScrStatusInv DEF ScrQueued, ScrDownloading, ScrAcquired, ScrError

\* The budget is read, reserved and enforced; the directory stays.
LEMMA ScrBudgetInv ==
    ASSUME ScrInv, NEW r \in ScrRuns,
           ScrBudget(r) \/ ScrReserve(r) \/ ScrEnforce(r) \/ ScrEnforceAgain(r) \/ ScrBudgetFails(r)
    PROVE  ScrInv'
<1>1. /\ scrRun[r].pc \in {"budget", "reserve", "enforce", "enforceagain"}
      /\ UNCHANGED <<scrNode, scrLock, scrDir>>
    BY DEF ScrBudget, ScrReserve, ScrEnforce, ScrEnforceAgain, ScrBudgetFails, ScrAt, scrStart
<1>2. {"reserve", "mkdir", "store", "error"} \subseteq ScrPc \ {"none"}
    BY DEF ScrPc
<1>3. CASE ScrGo(r, "error")
    BY <1>1, <1>2, <1>3, ScrGoesTo DEF ScrWrites
<1>4. CASE ScrBudget(r)
    BY <1>1, <1>2, <1>4, ScrBegins DEF ScrWrites, ScrBudget
<1>5. CASE ScrReserve(r) /\ ScrGo(r, "mkdir")
    BY <1>1, <1>2, <1>5, ScrGoesTo DEF ScrWrites
<1>6. CASE ScrEnforce(r) /\ ScrBegin(r, "store")
    BY <1>1, <1>2, <1>6, ScrBegins DEF ScrWrites, ScrEnforce, ScrAt
<1>7. CASE ScrEnforceAgain(r) /\ scrRun' = [scrRun EXCEPT ![r] = [@ EXCEPT !.pc = "acquired", !.ok = TRUE]]
  <2>1. PICK w : w = [scrRun[r] EXCEPT !.pc = "acquired", !.ok = TRUE]
      OBVIOUS
  <2>2. ScrHandler(scrRun[r])
      BY DEF ScrInv, ScrDirTypes
  <2>3. ScrHandler(w) /\ w.node = scrRun[r].node /\ w.pc = "acquired"
      BY <2>1, <2>2 DEF ScrHandler, ScrPc
  <2>4. scrRun' = [scrRun EXCEPT ![r] = w] /\ scrRun[r].pc \in ScrWrites
      BY <1>7, <2>1 DEF ScrEnforceAgain, ScrAt, ScrWrites
  <2>q. QED BY <1>1, <2>3, <2>4, ScrGoes DEF ScrNode
<1>8. CASE ScrReserve(r)
    BY <1>3, <1>5, <1>8 DEF ScrReserve, ScrReserves
<1>9. CASE ScrEnforce(r)
    BY <1>3, <1>6, <1>9 DEF ScrEnforce, ScrReserves
<1>10. CASE ScrEnforceAgain(r)
    BY <1>3, <1>7, <1>10 DEF ScrEnforceAgain, ScrReserves
<1>11. CASE ScrBudgetFails(r)
    BY <1>3, <1>11 DEF ScrBudgetFails
<1>q. QED BY <1>4, <1>8, <1>9, <1>10, <1>11

\* A step that makes the directory or changes its size.
LEMMA ScrDirStep ==
    ASSUME ScrInv, NEW r \in ScrRuns, scrRun[r].pc \notin {"none", "lock"},
           NEW w, ScrHandler(w), w.node = ScrNode(r), w.pc # "none", scrRun' = [scrRun EXCEPT ![r] = w],
           UNCHANGED <<scrNode, scrLock>>, NEW size \in Int,
           scrDir' = [scrDir EXCEPT ![ScrNode(r)][ScrBook(r)] = size],
           w.pc \in ScrWrites => size # ScrNone
    PROVE  ScrInv'
<1>1. /\ ~ScrAt(r, "none") /\ scrLock[ScrNode(r)] = r /\ scrLock' = [scrLock EXCEPT ![ScrNode(r)] = r]
    BY ScrHasLock
<1>q. QED BY <1>1, ScrMoves

\* The handler makes its directory.
LEMMA ScrMkdirInv == ASSUME ScrInv, NEW r \in ScrRuns, ScrMkdir(r) PROVE ScrInv'
<1>1. scrRun[r].pc = "mkdir" /\ UNCHANGED <<scrNode, scrLock>>
    BY DEF ScrMkdir, ScrAt, scrStart
<1>2. {"error", "fetch"} \subseteq ScrPc \ {"none"} /\ "error" \notin ScrWrites
    BY DEF ScrPc, ScrWrites
<1>3. CASE ScrGo(r, "error") /\ UNCHANGED scrDir
    BY <1>1, <1>2, <1>3, ScrGoesTo
<1>4. CASE /\ scrDir' = [scrDir EXCEPT ![ScrNode(r)][ScrBook(r)] = ScrBytes(@)]
           /\ ScrBegin(r, "fetch")
  <2>1. PICK w : /\ ScrHandler(w) /\ w.node = ScrNode(r) /\ w.pc # "none"
                 /\ scrRun' = [scrRun EXCEPT ![r] = w]
      BY <1>2, <1>4, ScrBeginEffect
  <2>2. ScrBook(r) \in ScrBooks /\ ScrNode(r) \in ScrNodes
      BY <1>1, ScrHasLock DEF ScrBook, ScrBooks, ScrRuns
  <2>3. PICK size \in Int : size = ScrBytes(scrDir[ScrNode(r)][ScrBook(r)]) /\ size # ScrNone
    <3>1. PICK was \in Int : was = scrDir[ScrNode(r)][ScrBook(r)]
        BY <2>2 DEF ScrInv, ScrDirTypes
    <3>2. ScrBytes(was) \in Int /\ ScrBytes(was) # ScrNone
        BY DEF ScrBytes, ScrNone
    <3>q. QED BY <3>1, <3>2
  <2>4. scrDir' = [scrDir EXCEPT ![ScrNode(r)][ScrBook(r)] = size]
      BY <1>4, <2>3
  <2>q. QED BY <1>1, <2>1, <2>3, <2>4, ScrDirStep
<1>q. QED BY <1>3, <1>4 DEF ScrMkdir

\* The download and the conversion change the directory's size.
LEMMA ScrStageInv ==
    ASSUME ScrInv, NEW r \in ScrRuns, ScrFetch(r) \/ ScrStore(r)
    PROVE  ScrInv'
<1>1. scrRun[r].pc \in {"fetch", "store"} /\ UNCHANGED <<scrNode, scrLock>>
    BY DEF ScrFetch, ScrStore, ScrStage, ScrAt, scrStart
<1>2. {"error", "enforce", "enforceagain"} \subseteq ScrPc \ {"none"}
    BY DEF ScrPc
<1>3. PICK size \in ScrSizes, pc \in {"error", "enforce", "enforceagain"} :
          scrDir' = [scrDir EXCEPT ![ScrNode(r)][ScrBook(r)] = size] /\ ScrGo(r, pc)
    BY DEF ScrFetch, ScrStore, ScrStage
<1>4. size \in Int /\ size # ScrNone
    BY ScrAssumption DEF ScrSizes, ScrNone
<1>5. PICK w : /\ ScrHandler(w) /\ w.node = ScrNode(r) /\ w.pc # "none"
               /\ scrRun' = [scrRun EXCEPT ![r] = w]
    BY <1>2, <1>3, ScrGoEffect
<1>q. QED BY <1>1, <1>3, <1>4, <1>5, ScrDirStep

\* The handler deletes its own directory when it no longer writes there.
LEMMA ScrCleanInv == ASSUME ScrInv, NEW r \in ScrRuns, ScrRmdir(r) \/ ScrUnregister(r) PROVE ScrInv'
<1>1. scrRun[r].pc \in {"rmdir", "unregister"} /\ UNCHANGED <<scrNode, scrLock>>
    BY DEF ScrRmdir, ScrUnregister, ScrAt, scrStart
<1>2. {"unregister", "report"} \subseteq ScrPc \ {"none"} /\ {"unregister", "report"} \cap ScrWrites = {}
    BY DEF ScrPc, ScrWrites
<1>3. CASE ScrGo(r, "report") /\ UNCHANGED scrDir
    BY <1>1, <1>2, <1>3, ScrGoesTo
<1>4. CASE scrDir' = [scrDir EXCEPT ![ScrNode(r)][ScrBook(r)] = ScrNone] /\ ScrGo(r, "unregister")
  <2>1. PICK w : /\ ScrHandler(w) /\ w.node = ScrNode(r) /\ w.pc = "unregister" /\ w.pc # "none"
                 /\ scrRun' = [scrRun EXCEPT ![r] = w]
      BY <1>2, <1>4, ScrGoEffect
  <2>2. ScrNone \in Int
      BY DEF ScrNone
  <2>q. QED BY <1>1, <1>2, <1>4, <2>1, <2>2, ScrDirStep
<1>q. QED BY <1>3, <1>4 DEF ScrRmdir, ScrUnregister

\* A handler ends and frees the lock.
LEMMA ScrReportInv == ASSUME ScrInv, NEW r \in ScrRuns, ScrReport(r) PROVE ScrInv'
<1>1. /\ scrRun[r].pc = "report" /\ UNCHANGED <<scrNode, scrDir>>
      /\ scrLock' = [scrLock EXCEPT ![ScrNode(r)] = ScrNobody] /\ scrRun' = [scrRun EXCEPT ![r] = ScrIdle]
    BY DEF ScrReport, ScrAt, scrStart
<1>2. PICK n \in ScrNodes : n = ScrNode(r) /\ scrLock[n] = r
    BY <1>1, ScrHasLock
<1>3. /\ DOMAIN scrRun' = ScrRuns /\ scrRun'[r] = ScrIdle /\ ScrIdle.pc = "none" /\ ScrHandler(ScrIdle)
      /\ \A q \in ScrRuns \ {r} : scrRun'[q] = scrRun[q]
    BY <1>1 DEF ScrInv, ScrDirTypes, ScrIdle, ScrHandler, ScrPc
<1>4. /\ scrLock' \in [ScrNodes -> ScrRuns \cup {ScrNobody}]
      /\ \A m \in ScrNodes \ {n} : scrLock'[m] = scrLock[m]
    BY <1>1, <1>2 DEF ScrInv, ScrDirTypes
<1>5. \A q \in ScrRuns \ {r} : scrRun[q].pc \notin {"none", "lock"} => ScrNode(q) # n
    BY <1>2 DEF ScrInv, ScrAlone
<1>6. ScrDirTypes'
    BY <1>1, <1>3, <1>4 DEF ScrInv, ScrDirTypes, ScrHandler
<1>7. ScrAlone'
    BY <1>1, <1>3, <1>4, <1>5 DEF ScrInv, ScrAlone, ScrAt, ScrNode
<1>8. ScrOwnDir'
    BY <1>1, <1>3 DEF ScrInv, ScrOwnDir, ScrDirOf, ScrNode, ScrBook
<1>q. QED BY <1>6, <1>7, <1>8 DEF ScrInv

\* A daemon that is not up has no handler: it may go on starting, and sweep.
LEMMA ScrNodeStep ==
    ASSUME ScrInv, NEW n \in ScrNodes, scrNode[n] # "up", NEW to, scrNode' = [scrNode EXCEPT ![n] = to],
           UNCHANGED <<scrRun, scrLock>>, scrDir' \in [ScrNodes -> [ScrBooks -> Int]],
           \A m \in ScrNodes \ {n} : scrDir'[m] = scrDir[m]
    PROVE  ScrInv'
<1>1. DOMAIN scrNode' = ScrNodes /\ \A m \in ScrNodes \ {n} : scrNode'[m] = scrNode[m]
    BY DEF ScrInv, ScrDirTypes
<1>2. \A r \in ScrRuns : scrRun[r].pc # "none" => scrRun[r].node \in ScrNodes \ {n}
    BY DEF ScrInv, ScrAlone, ScrAt, ScrNode
<1>3. ScrDirTypes'
    BY <1>1 DEF ScrInv, ScrDirTypes, ScrHandler
<1>4. ScrAlone'
    BY <1>1, <1>2 DEF ScrInv, ScrAlone, ScrAt, ScrNode
<1>5. ScrOwnDir'
    BY <1>2 DEF ScrInv, ScrOwnDir, ScrDirOf, ScrNode, ScrBook
<1>q. QED BY <1>3, <1>4, <1>5 DEF ScrInv

\* A starting daemon reconciles and sweeps before it has handlers.
LEMMA ScrStartupInv == ASSUME ScrInv, NEW n \in ScrNodes, ScrStartupStep(n) PROVE ScrInv'
<1>0. scrDir \in [ScrNodes -> [ScrBooks -> Int]]
    BY DEF ScrInv, ScrDirTypes
<1>1. ASSUME scrNode[n] # "up", NEW to, scrNode' = [scrNode EXCEPT ![n] = to],
             UNCHANGED <<scrRun, scrLock, scrDir>>
      PROVE  ScrInv'
    BY <1>0, <1>1, ScrNodeStep
<1>2. ASSUME NEW at \in ScrStartup, NEW next, NEW ACTION works, ScrStartStep(n, at, next, works)
      PROVE  ScrInv'
  <2>1. /\ scrNode[n] # "up" /\ UNCHANGED <<scrRun, scrLock, scrDir>>
        /\ \E to \in {next, "up"} : scrNode' = [scrNode EXCEPT ![n] = to]
      BY <1>2 DEF ScrStartStep, ScrStartup
  <2>q. QED BY <1>1, <2>1
<1>3. CASE ScrBoot(n)
    BY <1>1, <1>3 DEF ScrBoot
<1>4. CASE ScrStartReclaim(n) \/ ScrStartOrphans(n) \/ ScrStartPrune(n)
    BY <1>2, <1>4 DEF ScrStartReclaim, ScrStartOrphans, ScrStartPrune, ScrStartup
<1>5. CASE ScrStartList(n)
    BY <1>1, <1>2, <1>5 DEF ScrStartList, ScrStartup
<1>6. CASE ScrSweep(n)
  <2>1. PICK stays \in SUBSET (ScrBooks \ scrKeep[n]) :
            scrDir' = [scrDir EXCEPT ![n] =
                [b \in ScrBooks |-> IF b \in scrKeep[n] \cup stays THEN scrDir[n][b] ELSE ScrNone]]
      BY <1>6 DEF ScrSweep
  <2>2. scrDir' \in [ScrNodes -> [ScrBooks -> Int]] /\ \A m \in ScrNodes \ {n} : scrDir'[m] = scrDir[m]
      BY <1>0, <2>1 DEF ScrNone
  <2>q. QED BY <1>6, <2>2, ScrNodeStep DEF ScrSweep
<1>q. QED BY <1>3, <1>4, <1>5, <1>6 DEF ScrStartupStep

\* A daemon stops with its handlers.
LEMMA ScrCrashInv == ASSUME ScrInv, NEW n \in ScrNodes, ScrCrash(n) PROVE ScrInv'
<1>1. /\ scrNode' = [scrNode EXCEPT ![n] = "down"] /\ scrLock' = [scrLock EXCEPT ![n] = ScrNobody]
      /\ scrRun' = [r \in ScrRuns |-> IF ScrNode(r) = n THEN ScrIdle ELSE scrRun[r]] /\ UNCHANGED scrDir
    BY DEF ScrCrash
<1>2. /\ DOMAIN scrNode' = ScrNodes /\ scrLock' \in [ScrNodes -> ScrRuns \cup {ScrNobody}]
      /\ \A m \in ScrNodes \ {n} : scrNode'[m] = scrNode[m] /\ scrLock'[m] = scrLock[m]
    BY <1>1 DEF ScrInv, ScrDirTypes
<1>3. ScrIdle.pc = "none" /\ ScrHandler(ScrIdle)
    BY DEF ScrIdle, ScrHandler, ScrPc
<1>4. /\ DOMAIN scrRun' = ScrRuns
      /\ \A r \in ScrRuns : \/ scrRun[r].node = n /\ scrRun'[r] = ScrIdle
                            \/ scrRun[r].node # n /\ scrRun'[r] = scrRun[r]
    BY <1>1 DEF ScrNode
<1>5. ScrDirTypes'
    BY <1>1, <1>2, <1>3, <1>4 DEF ScrInv, ScrDirTypes, ScrHandler
<1>6. ScrAlone'
    BY <1>2, <1>3, <1>4 DEF ScrInv, ScrAlone, ScrAt, ScrNode
<1>7. ScrOwnDir'
    BY <1>1, <1>3, <1>4 DEF ScrInv, ScrOwnDir, ScrDirOf, ScrNode, ScrBook
<1>q. QED BY <1>5, <1>6, <1>7 DEF ScrInv

\* A claim gives a running daemon another handler.
LEMMA ScrClaimInv == ASSUME ScrInv, NEW n \in ScrNodes, NEW j \in ScrJobs, ScrClaim(n, j) PROVE ScrInv'
<1>1. PICK r, w : /\ w = [ScrIdle EXCEPT !.pc = "lock", !.node = n]
                  /\ scrRun' = [scrRun EXCEPT ![r] = w]
    BY DEF ScrClaim
<1>2. /\ scrNode[n] = "up" /\ UNCHANGED <<scrNode, scrLock, scrDir>>
    BY DEF ScrClaim, scrStart
<1>3. ScrHandler(w) /\ w.pc = "lock" /\ w.node = n
    BY <1>1 DEF ScrIdle, ScrHandler, ScrPc
<1>4. /\ DOMAIN scrRun' = ScrRuns
      /\ \A q \in ScrRuns : scrRun'[q] = w \/ scrRun'[q] = scrRun[q]
    BY <1>1 DEF ScrInv, ScrDirTypes
<1>5. ScrDirTypes'
    BY <1>2, <1>3, <1>4 DEF ScrInv, ScrDirTypes, ScrHandler
<1>6. ScrAlone'
    BY <1>2, <1>3, <1>4 DEF ScrInv, ScrAlone, ScrAt, ScrNode
<1>7. ScrOwnDir'
    BY <1>2, <1>3, <1>4 DEF ScrInv, ScrOwnDir, ScrDirOf, ScrNode, ScrBook
<1>q. QED BY <1>5, <1>6, <1>7 DEF ScrInv

\* A step that touches neither directories nor handlers.
LEMMA ScrFrame == ASSUME ScrInv, UNCHANGED <<scrDir, scrRun, scrLock, scrNode>> PROVE ScrInv'
BY DEF ScrInv, ScrDirTypes, ScrHandler, ScrAlone, ScrOwnDir, ScrAt, ScrDirOf, ScrNode, ScrBook

\* At first there are no handlers.
LEMMA ScrInitInv == ScrInit => ScrInv
<1> SUFFICES ASSUME ScrInit PROVE ScrInv
    OBVIOUS
<1>1. ScrIdle.pc = "none" /\ ScrHandler(ScrIdle) /\ ScrNone \in Int
    BY DEF ScrIdle, ScrHandler, ScrPc, ScrNone
<1>2. /\ DOMAIN scrRun = ScrRuns /\ \A r \in ScrRuns : scrRun[r] = ScrIdle
    BY DEF ScrInit
<1>3. ScrDirTypes
    BY <1>1, <1>2 DEF ScrInit, ScrDirTypes
<1>q. QED BY <1>1, <1>2, <1>3 DEF ScrInv, ScrAlone, ScrOwnDir, ScrAt

\* Every step keeps the invariant.
LEMMA ScrInductive == ScrInv /\ [ScrNext]_scrVars => ScrInv'
<1> SUFFICES ASSUME ScrInv, [ScrNext]_scrVars PROVE ScrInv'
    OBVIOUS
<1>1. CASE UNCHANGED scrVars
    BY <1>1, ScrFrame DEF scrVars
<1>2. ASSUME NEW n \in ScrNodes, ScrReclaim(n) \/ ScrPrune(n) PROVE ScrInv'
    BY <1>2, ScrFrame DEF ScrReclaim, ScrPrune, scrStart
<1>3. ASSUME NEW j \in ScrJobs, ScrLeaseExpires(j) PROVE ScrInv'
    BY <1>3, ScrFrame DEF ScrLeaseExpires, scrStart
<1>4. ASSUME NEW r \in ScrRuns, ScrHandlerStep(r) PROVE ScrInv'
    BY <1>4, ScrEnterInv, ScrStatusesInv, ScrBudgetInv, ScrMkdirInv, ScrStageInv, ScrCleanInv, ScrReportInv
       DEF ScrHandlerStep
<1>q. QED BY <1>1, <1>2, <1>3, <1>4, ScrStartupInv, ScrCrashInv, ScrClaimInv DEF ScrNext

\* For any number of daemons, jobs, attempts, crashes and lapsed leases, the
\* directory of a handler that writes is there: neither the handler of a lost
\* attempt nor a starting daemon's sweep deletes it (work_lock, and
\* reconcile_on_startup before the workers).
THEOREM ScrDirSurvives == ScrSpec => []ScrOwnDir
<1>1. ScrInv => ScrOwnDir
    BY DEF ScrInv
<1>q. QED BY <1>1, ScrInitInv, ScrInductive, PTL DEF ScrSpec
-----------------------------------------------------------------------------
(* Reservations of scratch *)

\* What a table of rows reserves, row by row and in all.
ScrRowBytes(row) == [x \in ScrJobs \X ScrNodes |-> ScrBytes(row[x[1]][x[2]])]
ScrRowSum(row) == SumFunctionOnSet(ScrRowBytes(row), ScrJobs \X ScrNodes)
ScrRowTable == [ScrJobs -> [ScrNodes -> Nat \cup {ScrNone}]]

LEMMA ScrReservedIs ==
    ScrReservedBytes = ScrRowSum(scrRow) /\ ScrReservedBytes' = ScrRowSum(scrRow')
BY DEF ScrReservedBytes, SumFunction, ScrRowSum, ScrRowBytes, ScrBytes

LEMMA ScrBytesType ==
    ASSUME NEW v \in Nat \cup {ScrNone}
    PROVE  ScrBytes(v) \in Nat
BY DEF ScrBytes, ScrNone

\* Every row reserves a number of bytes, and so do all rows.
LEMMA ScrRowSumType ==
    ASSUME NEW row \in ScrRowTable
    PROVE  /\ IsFiniteSet(ScrJobs \X ScrNodes)
           /\ \A x \in ScrJobs \X ScrNodes : ScrRowBytes(row)[x] \in Nat
           /\ ScrRowSum(row) \in Nat
<1>1. IsFiniteSet(ScrJobs \X ScrNodes)
    BY ScrAssumption, FS_Product
<1>2. ASSUME NEW x \in ScrJobs \X ScrNodes
      PROVE  ScrRowBytes(row)[x] \in Nat
  <2>1. row[x[1]][x[2]] \in Nat \cup {ScrNone}
      BY DEF ScrRowTable
  <2>q. QED BY <2>1, ScrBytesType DEF ScrRowBytes
<1>3. ScrRowSum(row) \in Nat
    BY <1>1, <1>2, SumNat DEF ScrRowSum
<1>q. QED BY <1>1, <1>2, <1>3

\* No row reserves more than all of them.
LEMMA ScrRowWithin ==
    ASSUME NEW row \in ScrRowTable, NEW j \in ScrJobs, NEW n \in ScrNodes
    PROVE  ScrBytes(row[j][n]) <= ScrRowSum(row)
<1> DEFINE x == <<j, n>>
<1>1. /\ IsFiniteSet(ScrJobs \X ScrNodes) /\ x \in ScrJobs \X ScrNodes
      /\ \A y \in ScrJobs \X ScrNodes : ScrRowBytes(row)[y] \in Nat
    BY ScrRowSumType
<1>2. ScrRowBytes(row)[x] <= ScrRowSum(row)
    BY <1>1, SumAtLeast DEF ScrRowSum
<1>3. ScrRowBytes(row)[x] = ScrBytes(row[j][n])
    BY DEF ScrRowBytes
<1>q. QED BY <1>2, <1>3

\* One row changes, and the sum with it.
LEMMA ScrRowChange ==
    ASSUME NEW row \in ScrRowTable, NEW new \in ScrRowTable, NEW j \in ScrJobs, NEW n \in ScrNodes,
           \A i \in ScrJobs, m \in ScrNodes : <<i, m>> # <<j, n>> => new[i][m] = row[i][m]
    PROVE  ScrRowSum(new) = ScrRowSum(row) - ScrBytes(row[j][n]) + ScrBytes(new[j][n])
<1> DEFINE S == ScrJobs \X ScrNodes
           f == ScrRowBytes(row)
           g == ScrRowBytes(new)
           x == <<j, n>>
<1>1. IsFiniteSet(S) /\ \A y \in S : f[y] \in Nat
    BY ScrRowSumType
<1>2. \A y \in S : g[y] \in Nat
    BY ScrRowSumType
<1>3. x \in S /\ \A y \in S : f[y] \in Int /\ g[y] \in Int
  <2> HIDE DEF f, g
  <2>q. QED BY <1>1, <1>2
<1>4. ASSUME NEW y \in S, y # x
      PROVE  f[y] = g[y]
  <2>1. y = <<y[1], y[2]>> /\ y[1] \in ScrJobs /\ y[2] \in ScrNodes
      OBVIOUS
  <2>2. new[y[1]][y[2]] = row[y[1]][y[2]]
      BY <1>4, <2>1
  <2>q. QED BY <2>2 DEF ScrRowBytes
<1>5. f[x] = ScrBytes(row[j][n]) /\ g[x] = ScrBytes(new[j][n])
    BY DEF ScrRowBytes
<1> HIDE DEF f, g, S, x
<1>6. SumFunctionOnSet(g, S) = SumFunctionOnSet(f, S) - f[x] + g[x]
    BY <1>1, <1>3, <1>4, SumChange
<1>q. QED BY <1>5, <1>6 DEF ScrRowSum, f, g, S

ScrRowPut(row, j, n, v) == [row EXCEPT ![j][n] = v]

LEMMA ScrRowPutIs ==
    ASSUME NEW row \in ScrRowTable, NEW j \in ScrJobs, NEW n \in ScrNodes, NEW v \in Nat \cup {ScrNone}
    PROVE  /\ ScrRowPut(row, j, n, v) \in ScrRowTable /\ ScrRowPut(row, j, n, v)[j][n] = v
           /\ \A i \in ScrJobs, m \in ScrNodes : <<i, m>> # <<j, n>> => ScrRowPut(row, j, n, v)[i][m] = row[i][m]
           /\ ScrRowSum(ScrRowPut(row, j, n, v)) = ScrRowSum(row) - ScrBytes(row[j][n]) + ScrBytes(v)
<1> DEFINE new == ScrRowPut(row, j, n, v)
<1>1. /\ new \in ScrRowTable /\ new[j][n] = v
      /\ \A i \in ScrJobs, m \in ScrNodes : <<i, m>> # <<j, n>> => new[i][m] = row[i][m]
    BY DEF ScrRowTable, ScrRowPut
<1> HIDE DEF new
<1>2. ScrRowSum(new) = ScrRowSum(row) - ScrBytes(row[j][n]) + ScrBytes(v)
    BY <1>1, ScrRowChange
<1>q. QED BY <1>1, <1>2 DEF new

\* Rows that go reserve nothing any more.
LEMMA ScrRowsGo ==
    ASSUME NEW row \in ScrRowTable, NEW new \in ScrRowTable,
           \A j \in ScrJobs, n \in ScrNodes : new[j][n] = ScrNone \/ new[j][n] = row[j][n]
    PROVE  ScrRowSum(new) <= ScrRowSum(row)
<1> DEFINE S == ScrJobs \X ScrNodes
           f == ScrRowBytes(row)
           g == ScrRowBytes(new)
<1>1. /\ IsFiniteSet(S)
      /\ \A y \in S : f[y] \in Nat /\ g[y] \in Nat
    BY ScrRowSumType
<1>2. ASSUME NEW y \in S
      PROVE  g[y] <= f[y]
  <2>1. f[y] = ScrBytes(row[y[1]][y[2]]) /\ g[y] = ScrBytes(new[y[1]][y[2]])
      BY DEF ScrRowBytes
  <2>2. f[y] \in Nat /\ ScrBytes(ScrNone) = 0
      BY <1>1 DEF ScrBytes
  <2>3. new[y[1]][y[2]] = ScrNone \/ new[y[1]][y[2]] = row[y[1]][y[2]]
      OBVIOUS
  <2> HIDE DEF f, g
  <2>q. QED BY <2>1, <2>2, <2>3
<1> HIDE DEF f, g, S
<1>3. SumFunctionOnSet(g, S) <= SumFunctionOnSet(f, S)
    BY <1>1, <1>2, SumLess
<1>q. QED BY <1>3 DEF ScrRowSum, f, g, S

\* What ScrRowInv says of the state after a step.
LEMMA ScrRowInvNext ==
    ASSUME scrRow' \in ScrRowTable, \A r \in ScrRuns : scrRun'[r].left \in Nat,
           ScrRowSum(scrRow') <= ScrQuota,
           \A r \in ScrRuns :
               /\ scrRun'[r].pc = "mkdir" => scrRow'[r[1]][scrRun'[r].node] # ScrNone
               /\ scrRun'[r].pc = "unregister" => scrDir'[scrRun'[r].node][ScrBook(r)] = ScrNone,
           \A n \in ScrNodes, b \in ScrBooks : scrDir'[n][b] # ScrNone /\ <<n, b>> \notin scrLost' =>
               \E j \in ScrJobs : ScrBookOf[j] = b /\ scrRow'[j][n] # ScrNone
    PROVE  ScrRowInv'
<1>1. ScrRowTypes'
    BY DEF ScrRowTypes, ScrRowTable
<1>2. ScrRowOutlives'
    BY DEF ScrRowOutlives, ScrAt, ScrNode, ScrDirOf, ScrBook
<1>3. ScrAccounted'
    BY ScrReservedIs DEF ScrAccounted
<1>q. QED BY <1>1, <1>2, <1>3 DEF ScrRowInv

\* What it says of the state before.
LEMMA ScrRowInvNow ==
    ASSUME ScrRowInv
    PROVE  /\ scrRow \in ScrRowTable /\ \A r \in ScrRuns : scrRun[r].left \in Nat
           /\ ScrRowSum(scrRow) \in Nat /\ ScrRowSum(scrRow) <= ScrQuota
           /\ \A r \in ScrRuns :
                  /\ scrRun[r].pc = "mkdir" => scrRow[r[1]][scrRun[r].node] # ScrNone
                  /\ scrRun[r].pc = "unregister" => scrDir[scrRun[r].node][ScrBook(r)] = ScrNone
           /\ \A n \in ScrNodes, b \in ScrBooks : scrDir[n][b] # ScrNone /\ <<n, b>> \notin scrLost =>
                  \E j \in ScrJobs : ScrBookOf[j] = b /\ scrRow[j][n] # ScrNone
<1>1. scrRow \in ScrRowTable /\ \A r \in ScrRuns : scrRun[r].left \in Nat
    BY DEF ScrRowInv, ScrRowTypes, ScrRowTable
<1>2. ScrRowSum(scrRow) \in Nat /\ ScrRowSum(scrRow) <= ScrQuota
    BY <1>1, ScrRowSumType, ScrReservedIs DEF ScrRowInv, ScrAccounted
<1>3. \A r \in ScrRuns :
          /\ scrRun[r].pc = "mkdir" => scrRow[r[1]][scrRun[r].node] # ScrNone
          /\ scrRun[r].pc = "unregister" => scrDir[scrRun[r].node][ScrBook(r)] = ScrNone
    BY DEF ScrRowInv, ScrRowOutlives, ScrAt, ScrNode, ScrDirOf
<1>q. QED BY <1>1, <1>2, <1>3 DEF ScrRowInv, ScrAccounted

ScrUntouched == UNCHANGED <<scrRow, scrDir, scrLost>>

\* No row and no directory changes, and no handler comes to mkdir or unregister.
LEMMA ScrQuiet ==
    ASSUME ScrRowInv, ScrUntouched,
           \A q \in ScrRuns : \/ scrRun'[q] = scrRun[q]
                              \/ scrRun'[q].pc \notin {"mkdir", "unregister"} /\ scrRun'[q].left \in Nat
    PROVE  ScrRowInv'
BY ScrRowInvNow, ScrRowInvNext DEF ScrUntouched

\* No other handler is past the lock of this one's daemon.
LEMMA ScrOnlyOne ==
    ASSUME ScrInv, NEW r \in ScrRuns, scrRun[r].pc \notin {"none", "lock"}
    PROVE  /\ scrRun[r].node \in ScrNodes /\ r[1] \in ScrJobs /\ ScrBook(r) \in ScrBooks /\ ScrBook(r) = ScrBookOf[r[1]]
           /\ \A q \in ScrRuns \ {r} : scrRun[q].pc \notin {"none", "lock"} => scrRun[q].node # scrRun[r].node
<1>1. scrRun[r].node \in ScrNodes /\ scrLock[scrRun[r].node] = r
    BY ScrHasLock DEF ScrNode
<1>2. r[1] \in ScrJobs /\ ScrBook(r) \in ScrBooks /\ ScrBook(r) = ScrBookOf[r[1]]
    BY DEF ScrRuns, ScrBook, ScrBooks
<1>3. \A q \in ScrRuns : scrRun[q].pc \notin {"none", "lock"} => scrLock[scrRun[q].node] = q
    BY DEF ScrInv, ScrAlone, ScrNode
<1>q. QED BY <1>1, <1>2, <1>3

\* A handler's row gets a number of bytes that the others leave room for.
LEMMA ScrRowSet ==
    ASSUME ScrInv, ScrRowInv, NEW r \in ScrRuns, scrRun[r].pc \notin {"none", "lock"},
           NEW w, scrRun' = [scrRun EXCEPT ![r] = w], w.node = scrRun[r].node, w.pc # "unregister", w.left \in Nat,
           NEW v \in Nat, scrRow' = [scrRow EXCEPT ![r[1]][ScrNode(r)] = v], UNCHANGED <<scrDir, scrLost>>,
           ScrRowSum(scrRow) - ScrBytes(scrRow[r[1]][ScrNode(r)]) + v <= ScrQuota
    PROVE  ScrRowInv'
<1>1. /\ scrRun[r].node \in ScrNodes /\ r[1] \in ScrJobs
    BY ScrOnlyOne
<1>2. ScrBytes(v) = v /\ v # ScrNone
    BY DEF ScrBytes, ScrNone
<1>3. /\ scrRow' \in ScrRowTable /\ scrRow'[r[1]][scrRun[r].node] = v
      /\ \A i \in ScrJobs, m \in ScrNodes : <<i, m>> # <<r[1], scrRun[r].node>> => scrRow'[i][m] = scrRow[i][m]
      /\ ScrRowSum(scrRow') <= ScrQuota
  <2>1. scrRow' = ScrRowPut(scrRow, r[1], scrRun[r].node, v)
      BY DEF ScrNode, ScrRowPut
  <2>2. ScrRowSum(scrRow) - ScrBytes(scrRow[r[1]][scrRun[r].node]) + v <= ScrQuota
      BY DEF ScrNode
  <2>3. scrRow \in ScrRowTable /\ v \in Nat \cup {ScrNone}
      BY ScrRowInvNow
  <2>4. /\ scrRow' \in ScrRowTable /\ scrRow'[r[1]][scrRun[r].node] = v
        /\ \A i \in ScrJobs, m \in ScrNodes : <<i, m>> # <<r[1], scrRun[r].node>> => scrRow'[i][m] = scrRow[i][m]
        /\ ScrRowSum(scrRow') = ScrRowSum(scrRow) - ScrBytes(scrRow[r[1]][scrRun[r].node]) + ScrBytes(v)
    <3>1. ASSUME NEW j \in ScrJobs, NEW n \in ScrNodes, NEW u \in Nat \cup {ScrNone},
                 scrRow' = ScrRowPut(scrRow, j, n, u)
          PROVE  /\ scrRow' \in ScrRowTable /\ scrRow'[j][n] = u
                 /\ \A i \in ScrJobs, m \in ScrNodes : <<i, m>> # <<j, n>> => scrRow'[i][m] = scrRow[i][m]
                 /\ ScrRowSum(scrRow') = ScrRowSum(scrRow) - ScrBytes(scrRow[j][n]) + ScrBytes(u)
      <4>1. scrRow \in ScrRowTable
          BY <2>3
      <4>q. QED BY ONLY <3>1, <4>1, ScrRowPutIs
    <3>q. QED BY ONLY <1>1, <2>1, <2>3, <3>1
  <2>q. QED BY <1>2, <2>2, <2>4
<1>4. \A i \in ScrJobs, m \in ScrNodes : scrRow[i][m] # ScrNone => scrRow'[i][m] # ScrNone
    BY <1>2, <1>3
<1>5. scrRun'[r] = w /\ \A q \in ScrRuns \ {r} : scrRun'[q] = scrRun[q]
    BY DEF ScrInv, ScrDirTypes
<1>6. \A q \in ScrRuns : scrRun'[q].left \in Nat
    BY <1>5, ScrRowInvNow
<1>7. ASSUME NEW q \in ScrRuns
      PROVE  /\ scrRun'[q].pc = "mkdir" => scrRow'[q[1]][scrRun'[q].node] # ScrNone
             /\ scrRun'[q].pc = "unregister" => scrDir'[scrRun'[q].node][ScrBook(q)] = ScrNone
  <2>1. CASE q = r
      BY <1>2, <1>3, <1>5, <2>1
  <2>2. CASE q # r
    <3>1. scrRun[q].pc = "mkdir" => scrRun[q].node \in ScrNodes /\ q[1] \in ScrJobs
        BY ScrOnlyOne
    <3>q. QED BY <1>4, <1>5, <2>2, <3>1, ScrRowInvNow
  <2>q. QED BY <2>1, <2>2
<1>8. \A n \in ScrNodes, b \in ScrBooks : scrDir'[n][b] # ScrNone /\ <<n, b>> \notin scrLost' =>
          \E j \in ScrJobs : ScrBookOf[j] = b /\ scrRow'[j][n] # ScrNone
    BY <1>4, ScrRowInvNow
<1>q. QED BY <1>3, <1>6, <1>7, <1>8, ScrRowInvNext

\* A handler's directory gets another size, or goes.
LEMMA ScrDirSet ==
    ASSUME ScrInv, ScrRowInv, NEW r \in ScrRuns, scrRun[r].pc \notin {"none", "lock"},
           NEW w, scrRun' = [scrRun EXCEPT ![r] = w], w.node = scrRun[r].node, w.pc # "mkdir", w.left \in Nat,
           NEW size, scrDir' = [scrDir EXCEPT ![ScrNode(r)][ScrBook(r)] = size], UNCHANGED <<scrRow, scrLost>>,
           w.pc = "unregister" => size = ScrNone,
           \/ size = ScrNone
           \/ scrDir[ScrNode(r)][ScrBook(r)] # ScrNone
           \/ scrRow[r[1]][ScrNode(r)] # ScrNone
    PROVE  ScrRowInv'
<1> DEFINE n == scrRun[r].node
           b == ScrBook(r)
<1>1. /\ n \in ScrNodes /\ r[1] \in ScrJobs /\ b \in ScrBooks /\ b = ScrBookOf[r[1]]
      /\ \A q \in ScrRuns \ {r} : scrRun[q].pc \notin {"none", "lock"} => scrRun[q].node # n
    BY ScrOnlyOne
<1>2. scrRun'[r] = w /\ \A q \in ScrRuns \ {r} : scrRun'[q] = scrRun[q]
    BY DEF ScrInv, ScrDirTypes
<1> HIDE DEF n, b
<1>3. /\ scrDir'[n][b] = size
      /\ \A m \in ScrNodes, c \in ScrBooks : <<m, c>> # <<n, b>> => scrDir'[m][c] = scrDir[m][c]
    BY <1>1 DEF ScrInv, ScrDirTypes, ScrNode, n, b
<1>4. \A q \in ScrRuns : scrRun'[q].left \in Nat
    BY <1>2, ScrRowInvNow
<1>5. ASSUME NEW q \in ScrRuns
      PROVE  /\ scrRun'[q].pc = "mkdir" => scrRow'[q[1]][scrRun'[q].node] # ScrNone
             /\ scrRun'[q].pc = "unregister" => scrDir'[scrRun'[q].node][ScrBook(q)] = ScrNone
  <2>1. CASE q = r
      BY <1>2, <1>3, <2>1 DEF n, b
  <2>2. CASE q # r
    <3>1. scrRun[q].pc = "unregister" => scrRun[q].node \in ScrNodes /\ scrRun[q].node # n /\ ScrBook(q) \in ScrBooks
        BY <1>1, <2>2, ScrOnlyOne
    <3>2. scrRun[q].pc = "unregister" => scrDir'[scrRun[q].node][ScrBook(q)] = scrDir[scrRun[q].node][ScrBook(q)]
        BY <1>3, <3>1
    <3>q. QED BY <1>2, <2>2, <3>2, ScrRowInvNow
  <2>q. QED BY <2>1, <2>2
<1>6. ASSUME NEW m \in ScrNodes, NEW c \in ScrBooks, scrDir'[m][c] # ScrNone, <<m, c>> \notin scrLost'
      PROVE  \E j \in ScrJobs : ScrBookOf[j] = c /\ scrRow'[j][m] # ScrNone
  <2>1. CASE scrDir[m][c] # ScrNone
      BY <1>6, <2>1, ScrRowInvNow
  <2>2. CASE scrDir[m][c] = ScrNone
    <3>1. m = n /\ c = b
        BY <1>3, <1>6, <2>2
    <3>2. scrRow[r[1]][n] # ScrNone
        BY <1>3, <1>6, <2>2, <3>1 DEF ScrNode, n, b
    <3>q. QED BY <1>1, <3>1, <3>2
  <2>q. QED BY <2>1, <2>2
<1>q. QED BY <1>4, <1>5, <1>6, ScrRowInvNow, ScrRowInvNext

\* The budget is what the other rows leave of the quota.
LEMMA ScrBudgetIs ==
    ASSUME ScrInv, ScrRowInv, NEW r \in ScrRuns, scrRun[r].pc \notin {"none", "lock"}
    PROVE  /\ ScrRemaining(r) = ScrQuota - (ScrRowSum(scrRow) - ScrBytes(scrRow[r[1]][ScrNode(r)]))
           /\ ScrRemaining(r) \in Nat
           /\ scrRow[r[1]][ScrNode(r)] \in Nat \cup {ScrNone}
<1>1. ScrNode(r) \in ScrNodes /\ r[1] \in ScrJobs /\ scrRow \in ScrRowTable
    BY ScrOnlyOne, ScrRowInvNow DEF ScrNode
<1>2. scrRow[r[1]][ScrNode(r)] \in Nat \cup {ScrNone}
    BY <1>1 DEF ScrRowTable
<1>3. ScrBytes(scrRow[r[1]][ScrNode(r)]) \in Nat
    BY <1>2, ScrBytesType
<1>4. ScrRowSum(scrRow) \in Nat /\ ScrRowSum(scrRow) <= ScrQuota /\ ScrQuota \in Nat
    BY ScrRowInvNow, ScrAssumption
<1>5. ScrReservedBytes = ScrRowSum(scrRow)
    BY ScrReservedIs
<1>6. ScrRowSum(scrRow) - ScrBytes(scrRow[r[1]][ScrNode(r)]) <= ScrQuota
    BY <1>3, <1>4
<1>q. QED BY <1>2, <1>3, <1>4, <1>5, <1>6 DEF ScrRemaining

\* What becomes of a handler that goes on, or reads its budget.
LEMMA ScrStepLeft ==
    ASSUME ScrInv, ScrRowInv, NEW r \in ScrRuns, NEW pc \in ScrPc,
           scrRun[r].pc \notin {"none", "lock"} \/ ScrGo(r, pc), ScrGo(r, pc) \/ ScrBegin(r, pc)
    PROVE  \E w : /\ scrRun' = [scrRun EXCEPT ![r] = w] /\ w.node = scrRun[r].node
                  /\ w.pc \in {pc, "error"} /\ w.left \in Nat
                  /\ ScrGo(r, pc) => w.pc = pc
<1>1. DOMAIN scrRun[r] = {"pc", "node", "left", "ok"}
    BY DEF ScrInv, ScrDirTypes, ScrHandler
<1>2. CASE ScrGo(r, pc)
  <2>1. PICK w : w = [scrRun[r] EXCEPT !.pc = pc, !.left = 0]
      OBVIOUS
  <2>2. w.pc = pc /\ w.left = 0 /\ w.node = scrRun[r].node
      BY <1>1, <2>1
  <2>3. scrRun' = [scrRun EXCEPT ![r] = w]
      BY <1>2, <2>1 DEF ScrGo
  <2>4. w.pc \in {pc, "error"} /\ w.left \in Nat
      BY <2>2
  <2>q. QED BY <2>2, <2>3, <2>4, Zenon
<1>3. CASE ScrBegin(r, pc) /\ ~ScrGo(r, pc)
  <2>1. PICK left \in Nat : left = ScrRemaining(r)
      BY <1>3, ScrBudgetIs
  <2>2. PICK at \in {pc, "error"} : at = IF left = 0 THEN "error" ELSE pc
      OBVIOUS
  <2>3. PICK w : w = [scrRun[r] EXCEPT !.pc = at, !.left = left]
      OBVIOUS
  <2>4. w.pc = at /\ w.left = left /\ w.node = scrRun[r].node
      BY <1>1, <2>3
  <2>5. scrRun' = [scrRun EXCEPT ![r] = w]
      BY <1>3, <2>1, <2>2, <2>3 DEF ScrBegin
  <2>q. QED BY <1>3, <2>2, <2>4, <2>5
<1>q. QED BY <1>2, <1>3

\* A handler that only goes on.
LEMMA ScrQuietGo ==
    ASSUME ScrInv, ScrRowInv, NEW r \in ScrRuns, NEW pc \in ScrPc \ {"mkdir", "unregister"},
           scrRun[r].pc \notin {"none", "lock"} \/ ScrGo(r, pc), ScrGo(r, pc) \/ ScrBegin(r, pc), ScrUntouched
    PROVE  ScrRowInv'
<1>1. PICK w : scrRun' = [scrRun EXCEPT ![r] = w] /\ w.pc \in {pc, "error"} /\ w.left \in Nat
    BY ScrStepLeft
<1>2. \A q \in ScrRuns : scrRun'[q] = scrRun[q] \/ scrRun'[q] = w
    BY <1>1 DEF ScrInv, ScrDirTypes
<1>q. QED BY <1>1, <1>2, ScrQuiet

\* A reservation: made when the others leave room, refused otherwise.
LEMMA ScrReserved ==
    ASSUME ScrInv, ScrRowInv, NEW r \in ScrRuns, scrRun[r].pc \notin {"none", "lock"},
           NEW w, scrRun' = [scrRun EXCEPT ![r] = w], w.node = scrRun[r].node, w.left \in Nat,
           UNCHANGED <<scrDir, scrLost>>,
           \/ /\ w.pc # "unregister"
              /\ \E bytes \in Nat : /\ bytes <= ScrRemaining(r)
                                    /\ scrRow' = [scrRow EXCEPT ![r[1]][ScrNode(r)] = bytes]
           \/ /\ w.pc = "error"
              /\ scrRow' = IF ScrPlan THEN [scrRow EXCEPT ![r[1]][ScrNode(r)] = ScrBytes(@)] ELSE scrRow
    PROVE  ScrRowInv'
<1> DEFINE sum == ScrRowSum(scrRow)
           mine == ScrBytes(scrRow[r[1]][ScrNode(r)])
<1>1. /\ ScrRemaining(r) = ScrQuota - (sum - mine)
      /\ scrRow[r[1]][ScrNode(r)] \in Nat \cup {ScrNone}
    BY ScrBudgetIs
<1>2. mine \in Nat
    BY <1>1, ScrBytesType
<1>3. sum \in Nat /\ sum <= ScrQuota /\ ScrQuota \in Nat
    BY ScrRowInvNow, ScrAssumption
<1>4. CASE /\ w.pc # "unregister"
           /\ \E bytes \in Nat : /\ bytes <= ScrRemaining(r)
                                 /\ scrRow' = [scrRow EXCEPT ![r[1]][ScrNode(r)] = bytes]
  <2>1. PICK bytes \in Nat : /\ bytes <= ScrRemaining(r)
                             /\ scrRow' = [scrRow EXCEPT ![r[1]][ScrNode(r)] = bytes]
      BY <1>4
  <2> HIDE DEF sum, mine
  <2>2. sum - mine + bytes <= ScrQuota
      BY <1>1, <1>2, <1>3, <2>1
  <2>q. QED BY <1>4, <2>1, <2>2, ScrRowSet DEF sum, mine
<1>5. CASE w.pc = "error" /\ scrRow' = [scrRow EXCEPT ![r[1]][ScrNode(r)] = ScrBytes(@)]
  <2>1. PICK v \in Nat : v = mine
      BY <1>2
  <2>2. scrRow' = [scrRow EXCEPT ![r[1]][ScrNode(r)] = v]
      BY <1>5, <2>1
  <2> HIDE DEF sum, mine
  <2>3. sum - mine + v <= ScrQuota
      BY <1>3, <2>1
  <2>q. QED BY <1>5, <2>2, <2>3, ScrRowSet DEF sum, mine
<1>6. CASE w.pc = "error" /\ UNCHANGED scrRow
  <2>1. \A q \in ScrRuns : scrRun'[q] = scrRun[q] \/ scrRun'[q] = w
      BY DEF ScrInv, ScrDirTypes
  <2>q. QED BY <1>6, <2>1, ScrQuiet DEF ScrUntouched
<1>q. QED BY <1>4, <1>5, <1>6

\* The handler's own reservations.
LEMMA ScrBytesAsked ==
    /\ \A left \in Nat : Min({ScrInitial, left}) \in Nat
    /\ \A size \in Int : Max({size, 1}) \in Nat
<1>1. ASSUME NEW left \in Nat PROVE Min({ScrInitial, left}) \in Nat
  <2>1. ScrInitial \in Nat
      BY ScrAssumption
  <2>2. \E x \in {ScrInitial, left} : \A y \in {ScrInitial, left} : x <= y
      BY <2>1
  <2>3. Min({ScrInitial, left}) \in {ScrInitial, left}
      BY <2>2 DEF Min
  <2>q. QED BY <2>1, <2>3
<1>2. ASSUME NEW size \in Int PROVE Max({size, 1}) \in Nat
  <2>1. \E x \in {size, 1} : \A y \in {size, 1} : x >= y
      OBVIOUS
  <2>2. Max({size, 1}) \in {size, 1} /\ \A y \in {size, 1} : Max({size, 1}) >= y
      BY <2>1 DEF Max
  <2>q. QED BY <2>2
<1>q. QED BY <1>1, <1>2

LEMMA ScrReserveRows ==
    ASSUME ScrInv, ScrRowInv, NEW r \in ScrRuns, ScrReserve(r) \/ ScrEnforce(r) \/ ScrEnforceAgain(r)
    PROVE  ScrRowInv'
<1>1. scrRun[r].pc \in {"reserve", "enforce", "enforceagain"} /\ UNCHANGED <<scrDir, scrLost>>
    BY DEF ScrReserve, ScrEnforce, ScrEnforceAgain, ScrAt, scrOther
<1>2. ScrDirOf(r) \in Int /\ scrRun[r].left \in Nat
    BY <1>1, ScrOnlyOne, ScrRowInvNow DEF ScrInv, ScrDirTypes, ScrDirOf, ScrNode
<1>3. ASSUME NEW bytes \in Nat, NEW w, scrRun' = [scrRun EXCEPT ![r] = w], w.node = scrRun[r].node, w.left \in Nat,
             w.pc # "unregister", bytes <= ScrRemaining(r), scrRow' = [scrRow EXCEPT ![r[1]][ScrNode(r)] = bytes]
      PROVE  ScrRowInv'
    BY <1>1, <1>3, ScrReserved
<1>4. ASSUME ScrGo(r, "error"),
             scrRow' = IF ScrPlan THEN [scrRow EXCEPT ![r[1]][ScrNode(r)] = ScrBytes(@)] ELSE scrRow
      PROVE  ScrRowInv'
  <2>1. "error" \in ScrPc
      BY DEF ScrPc
  <2>2. PICK w : /\ scrRun' = [scrRun EXCEPT ![r] = w] /\ w.node = scrRun[r].node
                 /\ w.pc = "error" /\ w.left \in Nat
      BY <1>4, <2>1, ScrStepLeft
  <2>q. QED BY <1>1, <1>4, <2>2, ScrReserved
<1>5. ASSUME NEW bytes \in Nat, NEW pc \in {"mkdir", "store"}, ScrGo(r, pc) \/ ScrBegin(r, pc),
             bytes <= ScrRemaining(r), scrRow' = [scrRow EXCEPT ![r[1]][ScrNode(r)] = bytes]
      PROVE  ScrRowInv'
  <2>1. pc \in ScrPc
      BY DEF ScrPc
  <2>2. PICK w : /\ scrRun' = [scrRun EXCEPT ![r] = w] /\ w.node = scrRun[r].node
                 /\ w.pc \in {pc, "error"} /\ w.left \in Nat
      BY <1>1, <1>5, <2>1, ScrStepLeft
  <2>q. QED BY <1>3, <1>5, <2>2
<1>6. CASE ScrReserve(r)
  <2>1. PICK bytes \in Nat : bytes = Min({ScrInitial, scrRun[r].left})
      BY <1>2, ScrBytesAsked
  <2>2. ScrReserves(r, bytes, ScrGo(r, "mkdir"))
      BY <1>6, <2>1 DEF ScrReserve
  <2>q. QED BY <1>4, <1>5, <2>2 DEF ScrReserves
<1>7. CASE ScrEnforce(r)
  <2>1. PICK bytes \in Nat : bytes = Max({ScrDirOf(r), 1})
      BY <1>2, ScrBytesAsked
  <2>2. ScrReserves(r, bytes, ScrBegin(r, "store"))
      BY <1>7, <2>1 DEF ScrEnforce
  <2>q. QED BY <1>4, <1>5, <2>2 DEF ScrReserves
<1>8. CASE ScrEnforceAgain(r)
  <2>1. PICK bytes \in Nat : bytes = Max({ScrDirOf(r), 1})
      BY <1>2, ScrBytesAsked
  <2>2. PICK w : w = [scrRun[r] EXCEPT !.pc = "acquired", !.ok = TRUE]
      OBVIOUS
  <2>3. DOMAIN scrRun[r] = {"pc", "node", "left", "ok"}
      BY DEF ScrInv, ScrDirTypes, ScrHandler
  <2>4. w.pc = "acquired" /\ w.node = scrRun[r].node /\ w.left = scrRun[r].left
      BY <2>2, <2>3
  <2>5. ScrReserves(r, bytes, scrRun' = [scrRun EXCEPT ![r] = w])
      BY <1>8, <2>1, <2>2 DEF ScrEnforceAgain
  <2>6. CASE /\ bytes <= ScrRemaining(r) /\ scrRow' = [scrRow EXCEPT ![r[1]][ScrNode(r)] = bytes]
             /\ scrRun' = [scrRun EXCEPT ![r] = w]
      BY <1>2, <1>3, <2>4, <2>6
  <2>q. QED BY <1>4, <2>5, <2>6 DEF ScrReserves
<1>q. QED BY <1>6, <1>7, <1>8

\* Steps of a handler that leave rows and directories alone.
LEMMA ScrQuietSteps ==
    ASSUME ScrInv, ScrRowInv, NEW r \in ScrRuns,
           \/ ScrEnter(r) \/ ScrQueued(r) \/ ScrDownloading(r) \/ ScrAcquired(r) \/ ScrError(r)
           \/ ScrBudget(r) \/ ScrBudgetFails(r) \/ ScrReport(r)
    PROVE  ScrRowInv'
<1>1. ScrUntouched
    BY DEF ScrEnter, ScrQueued, ScrDownloading, ScrAcquired, ScrError, ScrStatus, ScrBudget, ScrBudgetFails,
           ScrReport, ScrUntouched, scrOther
<1>2. {"queued", "report", "download", "budget", "error", "rmdir", "reserve"} \subseteq ScrPc \ {"mkdir", "unregister"}
    BY DEF ScrPc
<1>3. CASE \E pc \in {"queued", "report", "download", "budget", "error", "rmdir"} : ScrGo(r, pc)
    BY <1>1, <1>2, <1>3, ScrQuietGo
<1>4. CASE ScrBudget(r)
    BY <1>1, <1>2, <1>4, ScrQuietGo DEF ScrBudget, ScrAt
<1>5. ASSUME NEW ok, scrRun' = [scrRun EXCEPT ![r] = [@ EXCEPT !.pc = "report", !.ok = ok]]
      PROVE  ScrRowInv'
  <2>1. PICK w : w = [scrRun[r] EXCEPT !.pc = "report", !.ok = ok]
      OBVIOUS
  <2>2. DOMAIN scrRun[r] = {"pc", "node", "left", "ok"} /\ scrRun[r].left \in Nat
      BY ScrRowInvNow DEF ScrInv, ScrDirTypes, ScrHandler
  <2>3. w.pc = "report" /\ w.left \in Nat
      BY <2>1, <2>2
  <2>4. \A q \in ScrRuns : scrRun'[q] = scrRun[q] \/ scrRun'[q] = w
      BY <1>5, <2>1 DEF ScrInv, ScrDirTypes
  <2>q. QED BY <1>1, <2>3, <2>4, ScrQuiet
<1>6. CASE ScrReport(r)
  <2>1. \A q \in ScrRuns : scrRun'[q] = scrRun[q] \/ scrRun'[q] = ScrIdle
      BY <1>6 DEF ScrReport, ScrInv, ScrDirTypes
  <2>2. ScrIdle.pc = "none" /\ ScrIdle.left = 0
      BY DEF ScrIdle
  <2>q. QED BY <1>1, <2>1, <2>2, ScrQuiet
<1>7. CASE ScrEnter(r)
  <2>1. \/ \E pc \in {"queued", "report"} : ScrGo(r, pc)
        \/ scrRun' = [scrRun EXCEPT ![r] = [@ EXCEPT !.pc = "report", !.ok = ScrFenced(r)]]
      BY <1>7 DEF ScrEnter
  <2>2. PICK ok : ok = ScrFenced(r)
      OBVIOUS
  <2>q. QED BY <1>3, <1>5, <2>1, <2>2
<1>8. CASE ScrQueued(r) \/ ScrDownloading(r) \/ ScrAcquired(r) \/ ScrError(r) \/ ScrBudgetFails(r)
    BY <1>3, <1>8 DEF ScrQueued, ScrDownloading, ScrAcquired, ScrError, ScrStatus, ScrBudgetFails
<1>q. QED BY <1>4, <1>6, <1>7, <1>8

\* Steps of a handler that make, fill and delete its directory.
LEMMA ScrDirRows ==
    ASSUME ScrInv, ScrRowInv, NEW r \in ScrRuns, ScrMkdir(r) \/ ScrFetch(r) \/ ScrStore(r) \/ ScrRmdir(r)
    PROVE  ScrRowInv'
<1>1. scrRun[r].pc \in {"mkdir", "fetch", "store", "rmdir"} /\ UNCHANGED <<scrRow, scrLost>>
    BY DEF ScrMkdir, ScrFetch, ScrStore, ScrStage, ScrRmdir, ScrAt, scrOther
<1>2. {"error", "report", "fetch", "enforce", "enforceagain", "unregister"} \subseteq ScrPc
    BY DEF ScrPc
<1>3. ASSUME NEW pc \in {"error", "report"}, ScrGo(r, pc), UNCHANGED scrDir
      PROVE  ScrRowInv'
    BY <1>1, <1>2, <1>3, ScrQuietGo DEF ScrUntouched
<1>4. ASSUME NEW pc \in {"error", "fetch", "enforce", "enforceagain", "unregister"}, ScrGo(r, pc) \/ ScrBegin(r, pc),
             NEW size, scrDir' = [scrDir EXCEPT ![ScrNode(r)][ScrBook(r)] = size],
             pc = "unregister" => size = ScrNone,
             \/ size = ScrNone \/ scrDir[ScrNode(r)][ScrBook(r)] # ScrNone \/ scrRow[r[1]][ScrNode(r)] # ScrNone
      PROVE  ScrRowInv'
  <2>1. PICK w : /\ scrRun' = [scrRun EXCEPT ![r] = w] /\ w.node = scrRun[r].node
                 /\ w.pc \in {pc, "error"} /\ w.left \in Nat
      BY <1>1, <1>2, <1>4, ScrStepLeft
  <2>q. QED BY <1>1, <1>4, <2>1, ScrDirSet
<1>5. CASE ScrMkdir(r)
  <2>1. scrRow[r[1]][ScrNode(r)] # ScrNone
      BY <1>5, ScrRowInvNow DEF ScrMkdir, ScrAt, ScrNode
  <2>2. CASE ScrBegin(r, "fetch") /\ scrDir' = [scrDir EXCEPT ![ScrNode(r)][ScrBook(r)] = ScrBytes(@)]
    <3>1. PICK size : size = ScrBytes(scrDir[ScrNode(r)][ScrBook(r)])
        OBVIOUS
    <3>2. scrDir' = [scrDir EXCEPT ![ScrNode(r)][ScrBook(r)] = size]
        BY <2>2, <3>1
    <3>q. QED BY <1>4, <2>1, <2>2, <3>2
  <2>q. QED BY <1>3, <1>5, <2>2 DEF ScrMkdir
<1>6. CASE ScrFetch(r) \/ ScrStore(r)
  <2>1. scrDir[ScrNode(r)][ScrBook(r)] # ScrNone
      BY <1>6 DEF ScrInv, ScrOwnDir, ScrDirOf, ScrFetch, ScrStore, ScrStage, ScrAt
  <2>2. PICK size \in ScrSizes, pc \in {"error", "enforce", "enforceagain"} :
            scrDir' = [scrDir EXCEPT ![ScrNode(r)][ScrBook(r)] = size] /\ ScrGo(r, pc)
      BY <1>6 DEF ScrFetch, ScrStore, ScrStage
  <2>q. QED BY <1>4, <2>1, <2>2
<1>7. CASE ScrRmdir(r)
    BY <1>3, <1>4, <1>7 DEF ScrRmdir
<1>q. QED BY <1>5, <1>6, <1>7

\* A handler gives its reservation back, when its directory is gone.
LEMMA ScrUnregisterRows ==
    ASSUME ScrInv, ScrRowInv, NEW r \in ScrRuns, ScrUnregister(r)
    PROVE  ScrRowInv'
<1>1. scrRun[r].pc = "unregister" /\ UNCHANGED <<scrDir, scrLost>> /\ ScrGo(r, "report")
    BY DEF ScrUnregister, ScrAt, scrOther
<1>2. "report" \in ScrPc \ {"mkdir", "unregister"}
    BY DEF ScrPc
<1>3. CASE UNCHANGED scrRow
    BY <1>1, <1>2, <1>3, ScrQuietGo DEF ScrUntouched
<1>4. CASE scrRow' = [scrRow EXCEPT ![r[1]][ScrNode(r)] = ScrNone]
  <2> DEFINE n == scrRun[r].node
  <2>1. /\ n \in ScrNodes /\ r[1] \in ScrJobs /\ ScrBook(r) = ScrBookOf[r[1]] /\ ScrBook(r) \in ScrBooks
        /\ \A q \in ScrRuns \ {r} : scrRun[q].pc \notin {"none", "lock"} => scrRun[q].node # n
      BY <1>1, ScrOnlyOne
  <2>2. scrRow \in ScrRowTable /\ scrDir[n][ScrBook(r)] = ScrNone
      BY <1>1, ScrRowInvNow
  <2>3. PICK w : scrRun' = [scrRun EXCEPT ![r] = w] /\ w.pc = "report" /\ w.left \in Nat
      BY <1>1, <1>2, ScrStepLeft
  <2>4. scrRun'[r] = w /\ \A q \in ScrRuns \ {r} : scrRun'[q] = scrRun[q]
      BY <2>3 DEF ScrInv, ScrDirTypes
  <2>5. scrRow' = [scrRow EXCEPT ![r[1]][n] = ScrNone] /\ ScrNone \in Nat \cup {ScrNone}
      BY <1>4 DEF ScrNode
  <2> HIDE DEF n
  <2>6. /\ scrRow' \in ScrRowTable /\ scrRow'[r[1]][n] = ScrNone
        /\ \A i \in ScrJobs, m \in ScrNodes : <<i, m>> # <<r[1], n>> => scrRow'[i][m] = scrRow[i][m]
      BY <2>1, <2>2, <2>5 DEF ScrRowTable
  <2>7. ScrRowSum(scrRow') <= ScrQuota
    <3>1. \A i \in ScrJobs, m \in ScrNodes : scrRow'[i][m] = ScrNone \/ scrRow'[i][m] = scrRow[i][m]
        BY <2>6
    <3>2. ScrRowSum(scrRow') <= ScrRowSum(scrRow)
        BY <2>2, <2>6, <3>1, ScrRowsGo
    <3>3. ScrRowSum(scrRow') \in Nat
        BY <2>6, ScrRowSumType
    <3>q. QED BY <3>2, <3>3, ScrRowInvNow, ScrAssumption
  <2>8. \A q \in ScrRuns : scrRun'[q].left \in Nat
      BY <2>3, <2>4, ScrRowInvNow
  <2>9. ASSUME NEW q \in ScrRuns
        PROVE  /\ scrRun'[q].pc = "mkdir" => scrRow'[q[1]][scrRun'[q].node] # ScrNone
               /\ scrRun'[q].pc = "unregister" => scrDir'[scrRun'[q].node][ScrBook(q)] = ScrNone
    <3>1. CASE q = r
        BY <2>3, <2>4, <3>1
    <3>2. CASE q # r
      <4>1. scrRun[q].pc = "mkdir" => scrRun[q].node \in ScrNodes /\ scrRun[q].node # n /\ q[1] \in ScrJobs
          BY <2>1, <3>2, ScrOnlyOne
      <4>2. scrRun[q].pc = "mkdir" => scrRow'[q[1]][scrRun[q].node] = scrRow[q[1]][scrRun[q].node]
          BY <2>6, <4>1
      <4>q. QED BY <1>1, <2>4, <3>2, <4>2, ScrRowInvNow
    <3>q. QED BY <3>1, <3>2
  <2>10. ASSUME NEW m \in ScrNodes, NEW b \in ScrBooks, scrDir'[m][b] # ScrNone, <<m, b>> \notin scrLost'
         PROVE  \E j \in ScrJobs : ScrBookOf[j] = b /\ scrRow'[j][m] # ScrNone
    <3>1. PICK j \in ScrJobs : ScrBookOf[j] = b /\ scrRow[j][m] # ScrNone
        BY <1>1, <2>10, ScrRowInvNow
    <3>2. <<j, m>> # <<r[1], n>>
        BY <1>1, <2>1, <2>2, <2>10, <3>1
    <3>q. QED BY <2>6, <3>1, <3>2
  <2>q. QED BY <2>6, <2>7, <2>8, <2>9, <2>10, ScrRowInvNext
<1>q. QED BY <1>3, <1>4 DEF ScrUnregister

\* Finished jobs are pruned: none of them has a handler, and directories that
\* lose their row are recorded.
LEMMA ScrPrunesRows ==
    ASSUME ScrInv, ScrRowInv, NEW js \in SUBSET ScrOld, ScrPrunes(js), UNCHANGED <<scrDir, scrRun>>
    PROVE  ScrRowInv'
<1>1. /\ scrRow' \in ScrRowTable
      /\ \A j \in ScrJobs, n \in ScrNodes : scrRow'[j][n] = IF j \in js THEN ScrNone ELSE scrRow[j][n]
    BY ScrRowInvNow DEF ScrPrunes, ScrRowTable
<1>2. ScrRowSum(scrRow') <= ScrQuota
  <2>1. \A i \in ScrJobs, m \in ScrNodes : scrRow'[i][m] = ScrNone \/ scrRow'[i][m] = scrRow[i][m]
      BY <1>1
  <2>2. ScrRowSum(scrRow') <= ScrRowSum(scrRow)
      BY <1>1, <2>1, ScrRowsGo, ScrRowInvNow
  <2>3. ScrRowSum(scrRow') \in Nat
      BY <1>1, ScrRowSumType
  <2>q. QED BY <2>2, <2>3, ScrRowInvNow, ScrAssumption
<1>3. ASSUME NEW q \in ScrRuns
      PROVE  /\ scrRun'[q].pc = "mkdir" => scrRow'[q[1]][scrRun'[q].node] # ScrNone
             /\ scrRun'[q].pc = "unregister" => scrDir'[scrRun'[q].node][ScrBook(q)] = ScrNone
  <2>1. scrRun[q].pc = "mkdir" => q[1] \notin js
      BY DEF ScrOld, ScrAt
  <2>2. scrRun[q].pc = "mkdir" => scrRun[q].node \in ScrNodes /\ q[1] \in ScrJobs
      BY ScrOnlyOne
  <2>q. QED BY <1>1, <2>1, <2>2, ScrRowInvNow
<1>4. ASSUME NEW m \in ScrNodes, NEW b \in ScrBooks, scrDir'[m][b] # ScrNone, <<m, b>> \notin scrLost'
      PROVE  \E j \in ScrJobs : ScrBookOf[j] = b /\ scrRow'[j][m] # ScrNone
  <2>1. <<m, b>> \notin scrLost /\ ~\E j \in js : ScrBookOf[j] = b /\ scrRow[j][m] # ScrNone
      BY <1>4 DEF ScrPrunes
  <2>2. PICK j \in ScrJobs : ScrBookOf[j] = b /\ scrRow[j][m] # ScrNone
      BY <1>4, <2>1, ScrRowInvNow
  <2>3. j \notin js
      BY <2>1, <2>2
  <2>q. QED BY <1>1, <2>2, <2>3
<1>q. QED BY <1>1, <1>2, <1>3, <1>4, ScrRowInvNow, ScrRowInvNext

\* A starting daemon's steps.
LEMMA ScrStartupRows ==
    ASSUME ScrInv, ScrRowInv, NEW n \in ScrNodes, ScrStartupStep(n)
    PROVE  ScrRowInv'
<1>0. UNCHANGED scrRun
    BY DEF ScrStartupStep, ScrBoot, ScrStartReclaim, ScrStartOrphans, ScrStartPrune, ScrStartList, ScrSweep,
           ScrStartStep
<1>1. ASSUME ScrUntouched PROVE ScrRowInv'
    BY <1>0, <1>1, ScrQuiet
<1>2. CASE ScrBoot(n)
    BY <1>1, <1>2 DEF ScrBoot, ScrUntouched, scrOther
<1>3. CASE ScrStartReclaim(n) \/ ScrStartOrphans(n)
    BY <1>1, <1>3 DEF ScrStartReclaim, ScrStartOrphans, ScrStartStep, ScrUntouched
<1>4. CASE ScrStartList(n)
    BY <1>1, <1>4 DEF ScrStartList, ScrStartStep, ScrUntouched, scrOther
<1>5. CASE ScrStartPrune(n)
  <2>1. UNCHANGED scrDir /\ (ScrUntouched \/ \E js \in SUBSET ScrOld : ScrPrunes(js))
      BY <1>5 DEF ScrStartPrune, ScrStartStep, ScrUntouched
  <2>q. QED BY <1>0, <1>1, <2>1, ScrPrunesRows
<1>6. CASE ScrSweep(n)
  <2>1. UNCHANGED <<scrRow, scrLost>>
      BY <1>6 DEF ScrSweep, scrOther
  <2>2. \A m \in ScrNodes, b \in ScrBooks : scrDir'[m][b] \in {ScrNone, scrDir[m][b]}
    <3>1. PICK stays \in SUBSET (ScrBooks \ scrKeep[n]) :
              scrDir' = [scrDir EXCEPT ![n] =
                  [b \in ScrBooks |-> IF b \in scrKeep[n] \cup stays THEN scrDir[n][b] ELSE ScrNone]]
        BY <1>6 DEF ScrSweep
    <3>q. QED BY <3>1 DEF ScrInv, ScrDirTypes
  <2>3. ASSUME NEW q \in ScrRuns
        PROVE  /\ scrRun'[q].pc = "mkdir" => scrRow'[q[1]][scrRun'[q].node] # ScrNone
               /\ scrRun'[q].pc = "unregister" => scrDir'[scrRun'[q].node][ScrBook(q)] = ScrNone
    <3>1. scrRun[q].pc = "unregister" => scrRun[q].node \in ScrNodes /\ ScrBook(q) \in ScrBooks
        BY ScrOnlyOne
    <3>q. QED BY <1>0, <2>1, <2>2, <3>1, ScrRowInvNow
  <2>4. ASSUME NEW m \in ScrNodes, NEW b \in ScrBooks, scrDir'[m][b] # ScrNone, <<m, b>> \notin scrLost'
        PROVE  \E j \in ScrJobs : ScrBookOf[j] = b /\ scrRow'[j][m] # ScrNone
    <3>1. scrDir[m][b] # ScrNone
        BY <2>2, <2>4
    <3>q. QED BY <2>1, <2>4, <3>1, ScrRowInvNow
  <2>q. QED BY <1>0, <2>1, <2>3, <2>4, ScrRowInvNow, ScrRowInvNext
<1>q. QED BY <1>2, <1>3, <1>4, <1>5, <1>6 DEF ScrStartupStep

\* Handlers start and die; jobs change hands.
LEMMA ScrHandsRows ==
    ASSUME ScrInv, ScrRowInv,
           \/ \E n \in ScrNodes : ScrCrash(n) \/ ScrReclaim(n)
           \/ \E n \in ScrNodes, j \in ScrJobs : ScrClaim(n, j)
           \/ \E j \in ScrJobs : ScrLeaseExpires(j)
    PROVE  ScrRowInv'
<1>1. ScrUntouched
    BY DEF ScrCrash, ScrReclaim, ScrClaim, ScrLeaseExpires, ScrUntouched, scrOther
<1>2. ScrIdle.pc = "none" /\ ScrIdle.left = 0
    BY DEF ScrIdle
<1>3. ASSUME UNCHANGED scrRun PROVE ScrRowInv'
    BY <1>1, <1>3, ScrQuiet
<1>4. ASSUME NEW n \in ScrNodes, ScrCrash(n) PROVE ScrRowInv'
  <2>1. \A q \in ScrRuns : scrRun'[q] = scrRun[q] \/ scrRun'[q] = ScrIdle
      BY <1>4 DEF ScrCrash
  <2>q. QED BY <1>1, <1>2, <2>1, ScrQuiet
<1>5. ASSUME NEW n \in ScrNodes, NEW j \in ScrJobs, ScrClaim(n, j) PROVE ScrRowInv'
  <2>1. PICK r, w : w = [ScrIdle EXCEPT !.pc = "lock", !.node = n] /\ scrRun' = [scrRun EXCEPT ![r] = w]
      BY <1>5 DEF ScrClaim
  <2>2. w.pc = "lock" /\ w.left = 0
      BY <2>1 DEF ScrIdle
  <2>3. \A q \in ScrRuns : scrRun'[q] = scrRun[q] \/ scrRun'[q] = w
      BY <2>1 DEF ScrInv, ScrDirTypes
  <2>q. QED BY <1>1, <2>2, <2>3, ScrQuiet
<1>6. ASSUME NEW n \in ScrNodes, ScrReclaim(n) PROVE ScrRowInv'
    BY <1>3, <1>6 DEF ScrReclaim
<1>7. ASSUME NEW j \in ScrJobs, ScrLeaseExpires(j) PROVE ScrRowInv'
    BY <1>3, <1>7 DEF ScrLeaseExpires
<1>q. QED BY <1>4, <1>5, <1>6, <1>7

\* At first nothing is reserved.
LEMMA ScrRowInit == ScrInit => ScrRowInv
<1> SUFFICES ASSUME ScrInit PROVE ScrRowInv
    OBVIOUS
<1>1. scrRow \in ScrRowTable
    BY DEF ScrInit, ScrRowTable
<1>2. ScrRowSum(scrRow) <= ScrQuota
  <2> DEFINE S == ScrJobs \X ScrNodes
             f == ScrRowBytes(scrRow)
             g == [x \in S |-> 0]
  <2>1. IsFiniteSet(S) /\ \A x \in S : f[x] = 0
    <3>1. IsFiniteSet(S)
        BY <1>1, ScrRowSumType
    <3>2. ASSUME NEW x \in S PROVE f[x] = 0
      <4>1. scrRow[x[1]][x[2]] = ScrNone
          BY DEF ScrInit
      <4>q. QED BY <4>1 DEF ScrRowBytes, ScrBytes
    <3>q. QED BY <3>1, <3>2
  <2> DEFINE Q == {s \in SUBSET S : SumFunctionOnSet(f, s) = 0}
  <2>2. {} \in Q
      BY SumEmpty
  <2> HIDE DEF f, S
  <2>3. ASSUME NEW s \in SUBSET S, NEW x \in S, s \in Q, x \notin s
        PROVE  s \cup {x} \in Q
    <3>1. SumFunctionOnSet(f, s \cup {x}) = f[x] + SumFunctionOnSet(f, s)
        BY <2>1, <2>3, SumAdd
    <3>q. QED BY <2>1, <2>3, <3>1
  <2> HIDE DEF Q
  <2>4. S \in Q
      BY <2>1, <2>2, <2>3, FiniteInduction
  <2>5. SumFunctionOnSet(f, S) = 0
      BY <2>4 DEF Q
  <2>q. QED BY <2>5, ScrAssumption DEF ScrRowSum, f, S
<1>3. \A r \in ScrRuns : scrRun[r] = ScrIdle
    BY DEF ScrInit
<1>4. ScrIdle.pc = "none" /\ ScrIdle.left = 0
    BY DEF ScrIdle
<1>5. ScrRowTypes
    BY <1>1, <1>3, <1>4 DEF ScrRowTypes, ScrRowTable
<1>6. ScrRowOutlives
    BY <1>3, <1>4 DEF ScrRowOutlives, ScrAt
<1>7. ScrAccounted
    BY <1>2, ScrReservedIs DEF ScrAccounted, ScrInit
<1>q. QED BY <1>5, <1>6, <1>7 DEF ScrRowInv

\* Every step keeps the books.
LEMMA ScrRowInductive == ScrInv /\ ScrRowInv /\ [ScrNext]_scrVars => ScrRowInv'
<1> SUFFICES ASSUME ScrInv, ScrRowInv, [ScrNext]_scrVars PROVE ScrRowInv'
    OBVIOUS
<1>1. CASE UNCHANGED scrVars
    BY <1>1, ScrQuiet DEF scrVars, ScrUntouched
<1>2. ASSUME NEW r \in ScrRuns, ScrHandlerStep(r) PROVE ScrRowInv'
    BY <1>2, ScrQuietSteps, ScrReserveRows, ScrDirRows, ScrUnregisterRows DEF ScrHandlerStep
<1>3. ASSUME NEW n \in ScrNodes, ScrPrune(n) PROVE ScrRowInv'
    BY <1>3, ScrPrunesRows DEF ScrPrune
<1>q. QED BY <1>1, <1>2, <1>3, ScrStartupRows, ScrHandsRows DEF ScrNext

\* For any number of daemons, jobs and attempts, through crashes, lapsed leases,
\* faults and prunes: the reservations of all daemons together stay within the
\* quota, and a directory on disk has a reservation unless its job was pruned
\* (reserve_job_temp_path, prepare_work_dir, cleanup_work_dir).
THEOREM ScrQuotaKept == ScrSpec => []ScrAccounted
<1>1. ScrRowInv => ScrAccounted
    BY DEF ScrRowInv
<1>q. QED BY <1>1, ScrInitInv, ScrInductive, ScrRowInit, ScrRowInductive, PTL DEF ScrSpec

-----------------------------------------------------------------------------
(* Types of the scratch reservations *)

ScrRunType == [pc : ScrPc, node : ScrNodes \cup {ScrNobody}, left : 0..ScrQuota, ok : BOOLEAN]
ScrJobType == [state : {"pending", "running", "done", "gone"}, attempts : 0..ScrMaxAttempts, live : BOOLEAN]

\* What a handler becomes when it goes on or reads its budget.
LEMMA ScrGoTypes ==
    ASSUME ScrTypeOK, NEW r \in ScrRuns, NEW pc \in ScrPc, ScrGo(r, pc)
    PROVE  scrRun' \in [ScrRuns -> ScrRunType]
<1>1. scrRun \in [ScrRuns -> ScrRunType] /\ 0 \in 0..ScrQuota
    BY ScrAssumption DEF ScrTypeOK, ScrRunType
<1>2. [scrRun[r] EXCEPT !.pc = pc, !.left = 0] \in ScrRunType
    BY <1>1 DEF ScrRunType
<1>q. QED BY <1>1, <1>2 DEF ScrGo

LEMMA ScrBeginTypes ==
    ASSUME ScrTypeOK, ScrInv, ScrRowInv, NEW r \in ScrRuns, scrRun[r].pc \notin {"none", "lock"},
           NEW pc \in ScrPc, ScrBegin(r, pc)
    PROVE  scrRun' \in [ScrRuns -> ScrRunType]
<1>1. scrRun \in [ScrRuns -> ScrRunType]
    BY DEF ScrTypeOK, ScrRunType
<1> DEFINE left == ScrRemaining(r)
           at == IF left = 0 THEN "error" ELSE pc
<1>2. left \in 0..ScrQuota
  <2>1. ScrQuota \in Nat /\ left \in Nat
      BY ScrBudgetIs, ScrAssumption
  <2>2. left <= ScrQuota
    <3>1. scrRow[r[1]][ScrNode(r)] \in Nat \cup {ScrNone} /\ ScrRowSum(scrRow) \in Nat
        BY ScrBudgetIs, ScrRowInvNow
    <3>2. ScrBytes(scrRow[r[1]][ScrNode(r)]) <= ScrRowSum(scrRow)
        BY ScrRowWithin, ScrOnlyOne, ScrRowInvNow DEF ScrNode
    <3>3. ScrBytes(scrRow[r[1]][ScrNode(r)]) \in Nat
        BY <3>1, ScrBytesType
    <3>4. left = ScrQuota - (ScrRowSum(scrRow) - ScrBytes(scrRow[r[1]][ScrNode(r)]))
        BY ScrBudgetIs
    <3> HIDE DEF left
    <3>q. QED BY <2>1, <3>1, <3>2, <3>3, <3>4
  <2>q. QED BY <2>1, <2>2
<1>3. at \in ScrPc
    BY DEF ScrPc
<1> HIDE DEF left, at
<1>4. [scrRun[r] EXCEPT !.pc = at, !.left = left] \in ScrRunType
    BY <1>1, <1>2, <1>3 DEF ScrRunType
<1>5. scrRun' = [scrRun EXCEPT ![r] = [scrRun[r] EXCEPT !.pc = at, !.left = left]]
    BY DEF ScrBegin, left, at
<1>q. QED BY <1>1, <1>4, <1>5

\* The handler types of every step.
LEMMA ScrHandlerTypes ==
    ASSUME ScrTypeOK, ScrInv, ScrRowInv, NEW r \in ScrRuns, ScrHandlerStep(r)
    PROVE  scrRun' \in [ScrRuns -> ScrRunType]
<1>0. scrRun \in [ScrRuns -> ScrRunType] /\ scrRun[r] \in ScrRunType
    BY DEF ScrTypeOK, ScrRunType
<1>1. CASE \E pc \in ScrPc : ScrGo(r, pc)
    BY <1>1, ScrGoTypes
<1>2. CASE scrRun[r].pc \notin {"none", "lock"} /\ \E pc \in ScrPc : ScrBegin(r, pc)
    BY <1>2, ScrBeginTypes
<1>3. ASSUME NEW pc \in ScrPc, NEW ok \in BOOLEAN, scrRun' = [scrRun EXCEPT ![r] = [@ EXCEPT !.pc = pc, !.ok = ok]]
      PROVE  scrRun' \in [ScrRuns -> ScrRunType]
  <2>1. [scrRun[r] EXCEPT !.pc = pc, !.ok = ok] \in ScrRunType
      BY <1>0 DEF ScrRunType
  <2>q. QED BY <1>0, <1>3, <2>1
<1>4. CASE ScrEnter(r)
  <2>1. PICK ok \in BOOLEAN : ok = ScrFenced(r)
      BY DEF ScrFenced
  <2>2. \/ \E pc \in ScrPc : ScrGo(r, pc)
        \/ scrRun' = [scrRun EXCEPT ![r] = [@ EXCEPT !.pc = "report", !.ok = ok]]
      BY <1>4, <2>1 DEF ScrEnter, ScrPc
  <2>q. QED BY <1>1, <1>3, <2>2 DEF ScrPc
<1>5. CASE ScrQueued(r) \/ ScrDownloading(r) \/ ScrAcquired(r) \/ ScrError(r)
    BY <1>1, <1>5 DEF ScrQueued, ScrDownloading, ScrAcquired, ScrError, ScrStatus, ScrPc
<1>6. CASE ScrBudget(r)
    BY <1>2, <1>6 DEF ScrBudget, ScrAt, ScrPc
<1>7. CASE ScrReserve(r)
    BY <1>1, <1>7 DEF ScrReserve, ScrReserves, ScrPc
<1>8. CASE ScrMkdir(r)
    BY <1>1, <1>2, <1>8 DEF ScrMkdir, ScrAt, ScrPc
<1>9. CASE ScrFetch(r) \/ ScrStore(r)
    BY <1>1, <1>9 DEF ScrFetch, ScrStore, ScrStage, ScrPc
<1>10. CASE ScrEnforce(r)
    BY <1>1, <1>2, <1>10 DEF ScrEnforce, ScrReserves, ScrAt, ScrPc
<1>11. CASE ScrEnforceAgain(r)
    BY <1>1, <1>3, <1>11 DEF ScrEnforceAgain, ScrReserves, ScrPc
<1>12. CASE ScrBudgetFails(r) \/ ScrRmdir(r) \/ ScrUnregister(r)
    BY <1>1, <1>12 DEF ScrBudgetFails, ScrRmdir, ScrUnregister, ScrPc
<1>13. CASE ScrReport(r)
  <2>1. ScrIdle \in ScrRunType
      BY ScrAssumption DEF ScrIdle, ScrRunType, ScrPc
  <2>q. QED BY <1>0, <1>13, <2>1 DEF ScrReport
<1>q. QED BY <1>4, <1>5, <1>6, <1>7, <1>8, <1>9, <1>10, <1>11, <1>12, <1>13 DEF ScrHandlerStep

\* A job that runs may be tried again while it has attempts.
LEMMA ScrRetriedTypes ==
    ASSUME ScrTypeOK, NEW j \in ScrJobs
    PROVE  /\ ScrRetried(j) \in ScrJobType /\ ScrRetried(j).attempts = scrJob[j].attempts
           /\ ScrRetried(j).state = "pending" => scrJob[j].attempts < ScrMaxAttempts
<1> DEFINE to == IF scrJob[j].state = "running" /\ scrJob[j].attempts < ScrMaxAttempts THEN "pending" ELSE "done"
<1>1. scrJob[j] \in ScrJobType
    BY DEF ScrTypeOK, ScrJobType
<1>2. ScrRetried(j) = [scrJob[j] EXCEPT !.state = to, !.live = FALSE]
    BY DEF ScrRetried
<1>3. to \in {"pending", "done"} /\ (to = "pending" => scrJob[j].attempts < ScrMaxAttempts)
    OBVIOUS
<1> HIDE DEF to
<1>4. /\ ScrRetried(j) \in ScrJobType /\ ScrRetried(j).attempts = scrJob[j].attempts
      /\ ScrRetried(j).state = to
    BY <1>1, <1>2, <1>3 DEF ScrJobType
<1>q. QED BY <1>3, <1>4

\* What a table of jobs says of each row.
ScrJobsOK(jobs) ==
    /\ jobs \in [ScrJobs -> ScrJobType]
    /\ \A j \in ScrJobs : jobs[j].state = "pending" => jobs[j].attempts < ScrMaxAttempts

LEMMA ScrJobsNow ==
    ASSUME ScrTypeOK, ScrTriesLeft
    PROVE  /\ ScrJobsOK(scrJob) /\ ScrJobsOK(ScrReclaimAll)
           /\ \A j \in ScrJobs, row \in ScrJobType :
                 (row.state = "pending" => row.attempts < ScrMaxAttempts) => ScrJobsOK([scrJob EXCEPT ![j] = row])
           /\ \A js : ScrPrunes(js) => ScrJobsOK(scrJob')
<1>1. ScrJobsOK(scrJob)
    BY DEF ScrJobsOK, ScrTypeOK, ScrTriesLeft, ScrJobType
<1>2. ScrJobsOK(ScrReclaimAll)
  <2>1. \A j \in ScrJobs : ScrReclaimAll[j] = ScrRetried(j) \/ ScrReclaimAll[j] = scrJob[j]
      BY DEF ScrReclaimAll
  <2>2. DOMAIN ScrReclaimAll = ScrJobs /\ ScrReclaimAll = [j \in ScrJobs |-> ScrReclaimAll[j]]
      BY DEF ScrReclaimAll
  <2>3. \A j \in ScrJobs : ScrReclaimAll[j] \in ScrJobType
      BY <1>1, <2>1, ScrRetriedTypes DEF ScrJobsOK
  <2>4. ScrReclaimAll \in [ScrJobs -> ScrJobType]
      BY <2>2, <2>3
  <2>5. \A j \in ScrJobs : ScrReclaimAll[j].state = "pending" => ScrReclaimAll[j].attempts < ScrMaxAttempts
      BY <1>1, <2>1, ScrRetriedTypes DEF ScrJobsOK
  <2>q. QED BY <2>4, <2>5 DEF ScrJobsOK
<1>3. ASSUME NEW j \in ScrJobs, NEW row \in ScrJobType, row.state = "pending" => row.attempts < ScrMaxAttempts
      PROVE  ScrJobsOK([scrJob EXCEPT ![j] = row])
    BY <1>1, <1>3 DEF ScrJobsOK
<1>4. ASSUME NEW js, ScrPrunes(js)
      PROVE  ScrJobsOK(scrJob')
  <2> DEFINE gone == [state |-> "gone", attempts |-> 0, live |-> FALSE]
  <2>1. gone \in ScrJobType /\ gone.state # "pending"
      BY ScrAssumption DEF ScrJobType
  <2>2. scrJob' = [j \in ScrJobs |-> IF j \in js THEN gone ELSE scrJob[j]]
      BY <1>4 DEF ScrPrunes
  <2> HIDE DEF gone
  <2>q. QED BY <1>1, <2>1, <2>2 DEF ScrJobsOK
<1>q. QED BY <1>1, <1>2, <1>3, <1>4

\* No step leaves a waiting job without an attempt.
LEMMA ScrJobsKept ==
    ASSUME ScrTypeOK, ScrTriesLeft, ScrNext
    PROVE  ScrJobsOK(scrJob')
<1>0. /\ ScrJobsOK(scrJob) /\ ScrJobsOK(ScrReclaimAll)
      /\ \A js : ScrPrunes(js) => ScrJobsOK(scrJob')
    BY ScrJobsNow
<1>1. ASSUME NEW j \in ScrJobs, NEW row \in ScrJobType, scrJob' = [scrJob EXCEPT ![j] = row],
             row.state = "pending" => row.attempts < ScrMaxAttempts
      PROVE  ScrJobsOK(scrJob')
    BY <1>1, ScrJobsNow
<1>j. ASSUME NEW j \in ScrJobs
      PROVE  scrJob[j] \in ScrJobType /\ scrJob[j].attempts \in 0..ScrMaxAttempts /\ ScrMaxAttempts \in Nat
    BY ScrAssumption DEF ScrTypeOK, ScrJobType
<1>2. ASSUME NEW n \in ScrNodes, ScrStartupStep(n) PROVE ScrJobsOK(scrJob')
    BY <1>0, <1>2 DEF ScrStartupStep, ScrBoot, ScrStartReclaim, ScrStartOrphans, ScrStartPrune, ScrStartList,
                      ScrSweep, ScrStartStep
<1>3. ASSUME NEW n \in ScrNodes, ScrCrash(n) \/ ScrReclaim(n) \/ ScrPrune(n) PROVE ScrJobsOK(scrJob')
    BY <1>0, <1>3 DEF ScrCrash, ScrReclaim, ScrPrune
<1>4. ASSUME NEW n \in ScrNodes, NEW j \in ScrJobs, ScrClaim(n, j) PROVE ScrJobsOK(scrJob')
  <2> DEFINE k == scrJob[j].attempts + 1
             row == [state |-> "running", attempts |-> k, live |-> TRUE]
  <2>1. scrJob[j].attempts < ScrMaxAttempts
      BY <1>4 DEF ScrClaim, ScrTriesLeft
  <2>2. k \in 0..ScrMaxAttempts
      BY <1>j, <2>1
  <2>3. scrJob' = [scrJob EXCEPT ![j] = row]
      BY <1>4 DEF ScrClaim
  <2> HIDE DEF k
  <2>4. row \in ScrJobType /\ row.state # "pending"
      BY <2>2 DEF ScrJobType
  <2> HIDE DEF row
  <2>q. QED BY <1>1, <2>3, <2>4
<1>5. ASSUME NEW j \in ScrJobs, ScrLeaseExpires(j) PROVE ScrJobsOK(scrJob')
  <2> DEFINE row == [scrJob[j] EXCEPT !.live = FALSE]
  <2>1. row \in ScrJobType /\ row.state = scrJob[j].state
      BY <1>j DEF ScrJobType
  <2>2. scrJob' = [scrJob EXCEPT ![j] = row] /\ scrJob[j].state = "running"
    <3>1. scrJob' = [scrJob EXCEPT ![j].live = FALSE] /\ scrJob[j].state = "running"
        BY <1>5 DEF ScrLeaseExpires
    <3>q. QED BY <3>1
  <2> HIDE DEF row
  <2>q. QED BY <1>1, <2>1, <2>2
<1>6. ASSUME NEW r \in ScrRuns, ScrReport(r) PROVE ScrJobsOK(scrJob')
  <2>1. PICK j \in ScrJobs : j = r[1]
      BY DEF ScrRuns
  <2> DEFINE row == [scrJob[j] EXCEPT !.state = "done", !.live = FALSE]
  <2>2. row \in ScrJobType /\ row.state = "done"
      BY <1>j DEF ScrJobType
  <2>3. \/ scrJob' = [scrJob EXCEPT ![j] = row] \/ scrJob' = [scrJob EXCEPT ![j] = ScrRetried(j)]
        \/ scrJob' = scrJob
      BY <1>6, <2>1 DEF ScrReport
  <2> HIDE DEF row
  <2>4. /\ ScrRetried(j) \in ScrJobType
        /\ ScrRetried(j).state = "pending" => ScrRetried(j).attempts < ScrMaxAttempts
      BY ScrRetriedTypes
  <2>5. CASE scrJob' = [scrJob EXCEPT ![j] = row]
      BY <1>1, <2>2, <2>5
  <2>6. CASE scrJob' = [scrJob EXCEPT ![j] = ScrRetried(j)]
      BY <1>1, <2>4, <2>6
  <2>q. QED BY <1>0, <2>3, <2>5, <2>6
<1>7. ASSUME NEW r \in ScrRuns, ScrHandlerStep(r) PROVE ScrJobsOK(scrJob')
  <2>1. ScrReport(r) \/ scrJob' = scrJob
      BY <1>7 DEF ScrHandlerStep, ScrEnter, ScrQueued, ScrDownloading, ScrAcquired, ScrError, ScrStatus, ScrBudget,
                  ScrReserve, ScrMkdir, ScrFetch, ScrStore, ScrStage, ScrEnforce, ScrEnforceAgain, ScrBudgetFails,
                  ScrRmdir, ScrUnregister
  <2>q. QED BY <1>0, <1>6, <2>1
<1>q. QED BY <1>2, <1>3, <1>4, <1>5, <1>7 DEF ScrNext

LEMMA ScrRunsKept ==
    ASSUME ScrTypeOK, ScrTriesLeft, ScrInv, ScrRowInv, ScrNext
    PROVE  scrRun' \in [ScrRuns -> ScrRunType]
<1>0. scrRun \in [ScrRuns -> ScrRunType]
    BY DEF ScrTypeOK, ScrRunType
<1>1. ScrIdle \in ScrRunType
    BY ScrAssumption DEF ScrIdle, ScrRunType, ScrPc
<1>2. ASSUME NEW n \in ScrNodes, ScrStartupStep(n) \/ ScrReclaim(n) \/ ScrPrune(n)
      PROVE  scrRun' = scrRun
    BY <1>2 DEF ScrStartupStep, ScrBoot, ScrStartReclaim, ScrStartOrphans, ScrStartPrune, ScrStartList,
                ScrSweep, ScrStartStep, ScrReclaim, ScrPrune
<1>3. ASSUME NEW n \in ScrNodes, ScrCrash(n) PROVE scrRun' \in [ScrRuns -> ScrRunType]
    BY <1>0, <1>1, <1>3 DEF ScrCrash
<1>4. ASSUME NEW n \in ScrNodes, NEW j \in ScrJobs, ScrClaim(n, j) PROVE scrRun' \in [ScrRuns -> ScrRunType]
  <2> DEFINE w == [ScrIdle EXCEPT !.pc = "lock", !.node = n]
  <2>1. w \in ScrRunType
    <3>1. "lock" \in ScrPc
        BY DEF ScrPc
    <3> HIDE DEF ScrIdle
    <3>q. QED BY <1>1, <3>1 DEF ScrRunType
  <2>2. PICK k : scrRun' = [scrRun EXCEPT ![<<j, k>>] = w]
      BY <1>4 DEF ScrClaim
  <2> HIDE DEF w
  <2>q. QED BY <1>0, <2>1, <2>2
<1>5. ASSUME NEW j \in ScrJobs, ScrLeaseExpires(j) PROVE scrRun' = scrRun
    BY <1>5 DEF ScrLeaseExpires
<1>6. ASSUME NEW r \in ScrRuns, ScrHandlerStep(r) PROVE scrRun' \in [ScrRuns -> ScrRunType]
    BY <1>6, ScrHandlerTypes
<1>q. QED BY <1>0, <1>2, <1>3, <1>4, <1>5, <1>6 DEF ScrNext

\* Directories have one of the sizes, or are absent.
LEMMA ScrDirsKept ==
    ASSUME ScrTypeOK, ScrInv, ScrNext
    PROVE  scrDir' \in [ScrNodes -> [ScrBooks -> ScrSizes \cup {ScrNone}]]
<1> DEFINE D == ScrSizes \cup {ScrNone}
<1>0. scrDir \in [ScrNodes -> [ScrBooks -> D]]
    BY DEF ScrTypeOK
<1>1. ScrNone \in D /\ \A v \in D : ScrBytes(v) \in D
    BY ScrAssumption DEF ScrBytes, ScrSizes, ScrNone
<1>s. \A v \in ScrSizes : v \in D
    OBVIOUS
<1> HIDE DEF D
<1>2. ASSUME NEW n \in ScrNodes, NEW b \in ScrBooks, NEW v \in D, scrDir' = [scrDir EXCEPT ![n][b] = v]
      PROVE  scrDir' \in [ScrNodes -> [ScrBooks -> D]]
    BY <1>0, <1>2
<1>3. ASSUME NEW n \in ScrNodes, ScrStartupStep(n) \/ ScrCrash(n) \/ ScrReclaim(n) \/ ScrPrune(n)
      PROVE  scrDir' \in [ScrNodes -> [ScrBooks -> D]]
  <2>1. CASE ScrSweep(n)
    <3>1. PICK keep : scrDir' = [scrDir EXCEPT ![n] =
                 [b \in ScrBooks |-> IF b \in keep THEN scrDir[n][b] ELSE ScrNone]]
        BY <2>1 DEF ScrSweep
    <3>2. [b \in ScrBooks |-> IF b \in keep THEN scrDir[n][b] ELSE ScrNone] \in [ScrBooks -> D]
        BY <1>0, <1>1
    <3>q. QED BY <1>0, <3>1, <3>2
  <2>2. CASE ~ScrSweep(n)
    <3>1. scrDir' = scrDir
        BY <1>3, <2>2 DEF ScrStartupStep, ScrBoot, ScrStartReclaim, ScrStartOrphans, ScrStartPrune, ScrStartList,
                          ScrStartStep, ScrReclaim, ScrPrune, ScrCrash
    <3>q. QED BY <1>0, <3>1
  <2>q. QED BY <2>1, <2>2
<1>4. ASSUME NEW r \in ScrRuns, ScrHandlerStep(r)
      PROVE  scrDir' \in [ScrNodes -> [ScrBooks -> D]]
  <2>1. CASE scrDir' = scrDir
      BY <1>0, <2>1
  <2>2. CASE ScrMkdir(r) \/ ScrFetch(r) \/ ScrStore(r) \/ ScrRmdir(r)
    <3>1. scrRun[r].pc \notin {"none", "lock"}
        BY <2>2 DEF ScrMkdir, ScrFetch, ScrStore, ScrStage, ScrRmdir, ScrAt
    <3>2. ScrNode(r) \in ScrNodes /\ ScrBook(r) \in ScrBooks
        BY <3>1, ScrOnlyOne DEF ScrNode
    <3>3. scrDir[ScrNode(r)][ScrBook(r)] \in D
        BY <1>0, <3>2
    <3>4. \/ scrDir' = scrDir
          \/ scrDir' = [scrDir EXCEPT ![ScrNode(r)][ScrBook(r)] = ScrBytes(scrDir[ScrNode(r)][ScrBook(r)])]
          \/ scrDir' = [scrDir EXCEPT ![ScrNode(r)][ScrBook(r)] = ScrNone]
          \/ \E size \in ScrSizes : scrDir' = [scrDir EXCEPT ![ScrNode(r)][ScrBook(r)] = size]
      <4>1. ASSUME ScrMkdir(r)
            PROVE  \/ scrDir' = scrDir
                   \/ scrDir' = [scrDir EXCEPT ![ScrNode(r)][ScrBook(r)] = ScrBytes(scrDir[ScrNode(r)][ScrBook(r)])]
        <5>1. \/ scrDir' = scrDir
              \/ scrDir' = [scrDir EXCEPT ![ScrNode(r)][ScrBook(r)] = ScrBytes(@)]
            BY <4>1 DEF ScrMkdir
        <5>q. QED BY <1>0, <3>2, <5>1
      <4>2. CASE ScrRmdir(r)
          BY <4>2 DEF ScrRmdir
      <4>3. CASE ScrFetch(r) \/ ScrStore(r)
          BY <4>3 DEF ScrFetch, ScrStore, ScrStage
      <4>q. QED BY <2>2, <4>1, <4>2, <4>3
    <3>q. QED BY <1>0, <1>1, <1>2, <1>s, <3>2, <3>3, <3>4
  <2>3. CASE ~(ScrMkdir(r) \/ ScrFetch(r) \/ ScrStore(r) \/ ScrRmdir(r))
    <3>1. scrDir' = scrDir
        BY <1>4, <2>3 DEF ScrHandlerStep, ScrEnter, ScrQueued, ScrDownloading, ScrAcquired, ScrError, ScrStatus,
                  ScrBudget, ScrReserve, ScrEnforce, ScrEnforceAgain, ScrBudgetFails, ScrUnregister, ScrReport
    <3>q. QED BY <2>1, <3>1
  <2>q. QED BY <2>2, <2>3
<1>5. ASSUME NEW n \in ScrNodes, NEW j \in ScrJobs, ScrClaim(n, j) PROVE scrDir' = scrDir
    BY <1>5 DEF ScrClaim
<1>6. ASSUME NEW j \in ScrJobs, ScrLeaseExpires(j) PROVE scrDir' = scrDir
    BY <1>6 DEF ScrLeaseExpires
<1>q. QED BY <1>0, <1>3, <1>4, <1>5, <1>6 DEF ScrNext, D

ScrBookState == {"none", "queued", "downloading", "acquired", "error"}

LEMMA ScrBooksKept ==
    ASSUME ScrTypeOK, ScrNext
    PROVE  scrBook' \in [ScrBooks -> ScrBookState]
<1>0. scrBook \in [ScrBooks -> ScrBookState]
    BY DEF ScrTypeOK, ScrBookState
<1>1. ASSUME NEW n \in ScrNodes, ScrStartupStep(n) \/ ScrCrash(n) \/ ScrReclaim(n) \/ ScrPrune(n)
      PROVE  scrBook' \in [ScrBooks -> ScrBookState]
  <2>1. \/ scrBook' = scrBook
        \/ \E ends : scrBook' = [b \in ScrBooks |-> IF ends /\ ScrInFlight(b) THEN "error" ELSE scrBook[b]]
      BY <1>1 DEF ScrStartupStep, ScrBoot, ScrStartReclaim, ScrStartOrphans, ScrStartPrune, ScrStartList,
                  ScrSweep, ScrStartStep, ScrReclaim, ScrPrune, ScrCrash
  <2>q. QED BY <1>0, <2>1 DEF ScrBookState
<1>2. ASSUME NEW r \in ScrRuns, ScrHandlerStep(r)
      PROVE  scrBook' \in [ScrBooks -> ScrBookState]
  <2>1. \/ scrBook' = scrBook
        \/ \E status \in ScrBookState : scrBook' = [scrBook EXCEPT ![ScrBook(r)] = status]
      BY <1>2 DEF ScrHandlerStep, ScrEnter, ScrQueued, ScrDownloading, ScrAcquired, ScrError, ScrStatus, ScrBudget,
                  ScrReserve, ScrMkdir, ScrFetch, ScrStore, ScrStage, ScrEnforce, ScrEnforceAgain, ScrBudgetFails,
                  ScrRmdir, ScrUnregister, ScrReport, ScrBookState
  <2>q. QED BY <1>0, <2>1
<1>3. ASSUME NEW n \in ScrNodes, NEW j \in ScrJobs, ScrClaim(n, j) PROVE scrBook' = scrBook
    BY <1>3 DEF ScrClaim
<1>4. ASSUME NEW j \in ScrJobs, ScrLeaseExpires(j) PROVE scrBook' = scrBook
    BY <1>4 DEF ScrLeaseExpires
<1>q. QED BY <1>0, <1>1, <1>2, <1>3, <1>4 DEF ScrNext

\* Where a daemon is in its startup, and what its sweep keeps.
LEMMA ScrNodesKept ==
    ASSUME ScrTypeOK, ScrNext
    PROVE  scrNode' \in [ScrNodes -> ScrStartup \cup {"down", "up"}] /\ scrKeep' \in [ScrNodes -> SUBSET ScrBooks]
<1> DEFINE P == ScrStartup \cup {"down", "up"}
<1>0. scrNode \in [ScrNodes -> P] /\ scrKeep \in [ScrNodes -> SUBSET ScrBooks]
    BY DEF ScrTypeOK
<1>1. ASSUME NEW n \in ScrNodes, ScrStartupStep(n) \/ ScrCrash(n) \/ ScrReclaim(n) \/ ScrPrune(n)
      PROVE  /\ scrNode' = scrNode \/ \E at \in P : scrNode' = [scrNode EXCEPT ![n] = at]
             /\ scrKeep' = scrKeep \/ \E keep \in SUBSET ScrBooks : scrKeep' = [scrKeep EXCEPT ![n] = keep]
  <2>1. ScrActiveDirs(n) \in SUBSET ScrBooks
      BY DEF ScrActiveDirs, ScrBooks
  <2>2. CASE ScrStartList(n)
    <3>1. scrNode' = scrNode \/ \E at \in P : scrNode' = [scrNode EXCEPT ![n] = at]
        BY <2>2 DEF ScrStartList, ScrStartStep, ScrStartup
    <3>2. \/ scrKeep' = scrKeep \/ scrKeep' = [scrKeep EXCEPT ![n] = ScrActiveDirs(n)]
          \/ \E unread : scrKeep' = [scrKeep EXCEPT ![n] = ScrActiveDirs(n) \ {unread}]
        BY <2>2 DEF ScrStartList, ScrStartStep
    <3>3. \A unread : ScrActiveDirs(n) \ {unread} \in SUBSET ScrBooks
        BY <2>1
    <3>q. QED BY <2>1, <3>1, <3>2, <3>3
  <2>3. CASE ScrSweep(n) \/ ScrCrash(n)
      BY <2>3 DEF ScrSweep, ScrCrash
  <2>4. CASE ScrBoot(n) \/ ScrStartReclaim(n) \/ ScrStartOrphans(n) \/ ScrStartPrune(n)
    <3>1. scrKeep' = scrKeep
        BY <2>4 DEF ScrBoot, ScrStartReclaim, ScrStartOrphans, ScrStartPrune, ScrStartStep
    <3>2. \E at \in P : scrNode' = [scrNode EXCEPT ![n] = at]
        BY <2>4 DEF ScrBoot, ScrStartReclaim, ScrStartOrphans, ScrStartPrune, ScrStartStep, ScrStartup
    <3>q. QED BY <3>1, <3>2
  <2>5. CASE ScrReclaim(n) \/ ScrPrune(n)
      BY <2>5 DEF ScrReclaim, ScrPrune, scrStart
  <2>q. QED BY <1>1, <2>2, <2>3, <2>4, <2>5 DEF ScrStartupStep
<1>2. ASSUME NEW r \in ScrRuns, ScrHandlerStep(r)
      PROVE  scrNode' = scrNode /\ scrKeep' = scrKeep
    BY <1>2 DEF ScrHandlerStep, ScrEnter, ScrQueued, ScrDownloading, ScrAcquired, ScrError, ScrStatus, ScrBudget,
                ScrReserve, ScrMkdir, ScrFetch, ScrStore, ScrStage, ScrEnforce, ScrEnforceAgain, ScrBudgetFails,
                ScrRmdir, ScrUnregister, ScrReport, scrStart
<1>3. ASSUME NEW n \in ScrNodes, NEW j \in ScrJobs, ScrClaim(n, j) PROVE scrNode' = scrNode /\ scrKeep' = scrKeep
    BY <1>3 DEF ScrClaim, scrStart
<1>4. ASSUME NEW j \in ScrJobs, ScrLeaseExpires(j) PROVE scrNode' = scrNode /\ scrKeep' = scrKeep
    BY <1>4 DEF ScrLeaseExpires, scrStart
<1> HIDE DEF P
<1>5. ASSUME NEW n \in ScrNodes, NEW at \in P, scrNode' = [scrNode EXCEPT ![n] = at] PROVE scrNode' \in [ScrNodes -> P]
    BY <1>0, <1>5
<1>6. ASSUME NEW n \in ScrNodes, NEW keep \in SUBSET ScrBooks, scrKeep' = [scrKeep EXCEPT ![n] = keep]
      PROVE  scrKeep' \in [ScrNodes -> SUBSET ScrBooks]
    BY <1>0, <1>6
<1>7. scrNode' \in [ScrNodes -> P] /\ scrKeep' \in [ScrNodes -> SUBSET ScrBooks]
    BY <1>0, <1>1, <1>2, <1>3, <1>4, <1>5, <1>6 DEF ScrNext
<1>q. QED BY <1>7 DEF P

\* Counters stay within their bounds, and only directories are lost.
LEMMA ScrBoundsKept ==
    ASSUME ScrTypeOK, ScrNext
    PROVE  /\ scrLost' \subseteq ScrNodes \X ScrBooks
           /\ scrFaults' \in 0..ScrMaxFaults /\ scrCrashes' \in 0..ScrMaxCrashes /\ scrLapses' \in 0..ScrMaxLapses
<1>0. /\ scrLost \subseteq ScrNodes \X ScrBooks
      /\ scrFaults \in 0..ScrMaxFaults /\ scrCrashes \in 0..ScrMaxCrashes /\ scrLapses \in 0..ScrMaxLapses
      /\ {ScrMaxFaults, ScrMaxCrashes, ScrMaxLapses} \subseteq Nat
    BY ScrAssumption DEF ScrTypeOK
<1>f. ScrMayFail => scrFaults' \in 0..ScrMaxFaults
    BY <1>0 DEF ScrMayFail
<1>p. ASSUME NEW js, ScrPrunes(js) PROVE scrLost' \subseteq ScrNodes \X ScrBooks
    BY <1>0, <1>p DEF ScrPrunes
<1>1. ASSUME NEW n \in ScrNodes, ScrStartupStep(n) \/ ScrReclaim(n) \/ ScrPrune(n)
      PROVE  /\ scrFaults' = scrFaults \/ ScrMayFail
             /\ scrLost' = scrLost \/ \E js : ScrPrunes(js)
             /\ scrCrashes' = scrCrashes /\ scrLapses' = scrLapses
  <2>1. CASE ScrStartReclaim(n) \/ ScrStartOrphans(n) \/ ScrStartPrune(n)
      BY <2>1 DEF ScrStartReclaim, ScrStartOrphans, ScrStartPrune, ScrStartStep, ScrNoFault
  <2>2. CASE ScrStartList(n)
      BY <2>2 DEF ScrStartList, ScrStartStep, ScrNoFault, scrOther
  <2>3. CASE ScrBoot(n) \/ ScrSweep(n)
      BY <2>3 DEF ScrBoot, ScrSweep, ScrNoFault, scrOther
  <2>4. CASE ScrReclaim(n) \/ ScrPrune(n)
      BY <2>4 DEF ScrReclaim, ScrPrune, scrOther
  <2>q. QED BY <1>1, <2>1, <2>2, <2>3, <2>4 DEF ScrStartupStep
<1>2. ASSUME NEW n \in ScrNodes, ScrCrash(n)
      PROVE  scrFaults' = scrFaults /\ scrLost' = scrLost /\ scrLapses' = scrLapses /\ scrCrashes' \in 0..ScrMaxCrashes
    BY <1>0, <1>2 DEF ScrCrash
<1>3. ASSUME NEW r \in ScrRuns, ScrHandlerStep(r)
      PROVE  /\ scrFaults' = scrFaults \/ ScrMayFail
             /\ scrLost' = scrLost /\ scrCrashes' = scrCrashes /\ scrLapses' = scrLapses
    BY <1>3 DEF ScrHandlerStep, ScrEnter, ScrQueued, ScrDownloading, ScrAcquired, ScrError, ScrStatus, ScrBudget,
                ScrReserve, ScrMkdir, ScrFetch, ScrStore, ScrStage, ScrEnforce, ScrEnforceAgain, ScrBudgetFails,
                ScrRmdir, ScrUnregister, ScrReport, ScrNoFault, scrOther
<1>4. ASSUME NEW n \in ScrNodes, NEW j \in ScrJobs, ScrClaim(n, j)
      PROVE  scrFaults' = scrFaults /\ scrLost' = scrLost /\ scrCrashes' = scrCrashes /\ scrLapses' = scrLapses
    BY <1>4 DEF ScrClaim, scrOther
<1>5. ASSUME NEW j \in ScrJobs, ScrLeaseExpires(j)
      PROVE  scrFaults' = scrFaults /\ scrLost' = scrLost /\ scrCrashes' = scrCrashes /\ scrLapses' \in 0..ScrMaxLapses
    BY <1>0, <1>5 DEF ScrLeaseExpires
<1>q. QED BY <1>0, <1>1, <1>2, <1>3, <1>4, <1>5, <1>f, <1>p DEF ScrNext

\* A row is within the quota when all of them are.
LEMMA ScrRowsSized ==
    ASSUME ScrRowInv'
    PROVE  scrRow' \in [ScrJobs -> [ScrNodes -> ScrSizes \cup {ScrNone}]]
<1>1. scrRow' \in ScrRowTable /\ ScrRowSum(scrRow') <= ScrQuota /\ ScrQuota \in Nat
    BY ScrReservedIs, ScrAssumption DEF ScrRowInv, ScrRowTypes, ScrRowTable, ScrAccounted
<1>2. ASSUME NEW j \in ScrJobs, NEW n \in ScrNodes
      PROVE  scrRow'[j][n] \in ScrSizes \cup {ScrNone}
  <2>1. scrRow'[j][n] \in Nat \cup {ScrNone}
      BY <1>1 DEF ScrRowTable
  <2>2. ScrBytes(scrRow'[j][n]) <= ScrRowSum(scrRow') /\ ScrRowSum(scrRow') \in Nat
      BY <1>1, ScrRowWithin, ScrRowSumType
  <2>q. QED BY <1>1, <2>1, <2>2 DEF ScrBytes, ScrSizes, ScrNone
<1>q. QED BY <1>1, <1>2 DEF ScrRowTable

LEMMA ScrTypesInductive ==
    ScrTypeOK /\ ScrTriesLeft /\ ScrInv /\ ScrRowInv /\ [ScrNext]_scrVars => ScrTypeOK' /\ ScrTriesLeft'
<1> SUFFICES ASSUME ScrTypeOK, ScrTriesLeft, ScrInv, ScrRowInv, [ScrNext]_scrVars
             PROVE  ScrTypeOK' /\ ScrTriesLeft'
    OBVIOUS
<1>1. CASE UNCHANGED scrVars
    BY <1>1 DEF scrVars, ScrTypeOK, ScrTriesLeft
<1>2. CASE ScrNext
  <2>1. ScrJobsOK(scrJob') /\ scrRun' \in [ScrRuns -> ScrRunType]
      BY <1>2, ScrJobsKept, ScrRunsKept
  <2>2. /\ scrDir' \in [ScrNodes -> [ScrBooks -> ScrSizes \cup {ScrNone}]] /\ scrBook' \in [ScrBooks -> ScrBookState]
        /\ scrNode' \in [ScrNodes -> ScrStartup \cup {"down", "up"}] /\ scrKeep' \in [ScrNodes -> SUBSET ScrBooks]
      BY <1>2, ScrDirsKept, ScrBooksKept, ScrNodesKept
  <2>3. /\ scrLost' \subseteq ScrNodes \X ScrBooks
        /\ scrFaults' \in 0..ScrMaxFaults /\ scrCrashes' \in 0..ScrMaxCrashes /\ scrLapses' \in 0..ScrMaxLapses
      BY <1>2, ScrBoundsKept
  <2>4. ScrInv' /\ ScrRowInv'
      BY ScrInductive, ScrRowInductive
  <2>5. scrLock' \in [ScrNodes -> ScrRuns \cup {ScrNobody}]
      BY <2>4 DEF ScrInv, ScrDirTypes
  <2>6. scrRow' \in [ScrJobs -> [ScrNodes -> ScrSizes \cup {ScrNone}]]
      BY <2>4, ScrRowsSized
  <2>7. ScrTypeOK'
      BY <2>1, <2>2, <2>3, <2>5, <2>6 DEF ScrTypeOK, ScrJobsOK, ScrJobType, ScrRunType, ScrBookState
  <2>8. ScrTriesLeft'
      BY <2>1 DEF ScrTriesLeft, ScrJobsOK
  <2>q. QED BY <2>7, <2>8
<1>q. QED BY <1>1, <1>2

LEMMA ScrTypesInit == ScrInit => ScrTypeOK /\ ScrTriesLeft
<1> SUFFICES ASSUME ScrInit PROVE ScrTypeOK /\ ScrTriesLeft
    OBVIOUS
<1>1. ScrIdle \in ScrRunType
    BY ScrAssumption DEF ScrIdle, ScrRunType, ScrPc
<1>2. [state |-> "pending", attempts |-> 0, live |-> FALSE] \in ScrJobType /\ 0 < ScrMaxAttempts
    BY ScrAssumption DEF ScrJobType
<1>3. scrJob \in [ScrJobs -> ScrJobType] /\ ScrTriesLeft
    BY <1>2 DEF ScrInit, ScrTriesLeft
<1>4. scrRun \in [ScrRuns -> ScrRunType]
    BY <1>1 DEF ScrInit
<1>5. 0 \in 0..ScrMaxFaults /\ 0 \in 0..ScrMaxCrashes /\ 0 \in 0..ScrMaxLapses
    BY ScrAssumption
<1>q. QED BY <1>3, <1>4, <1>5 DEF ScrInit, ScrTypeOK, ScrJobType, ScrRunType

\* For any number of daemons, jobs and attempts: no job is claimed beyond
\* max_attempts, no row reserves more than the quota and no handler reads a
\* budget beyond it (claim_next_job, reclaim_expired_leases,
\* remaining_temp_budget).
THEOREM ScrTypeCorrect == ScrSpec => []ScrTypeOK
<1>q. QED BY ScrInitInv, ScrInductive, ScrRowInit, ScrRowInductive, ScrTypesInit, ScrTypesInductive, PTL DEF ScrSpec

-----------------------------------------------------------------------------
(* Storage scan sessions *)

ScanJobType == [state : {"pending", "running", "terminal"}, lease : Nat,
                owner : ScanNodes \cup {ScanNobody}, attempts : 0..ScanMaxAttempts,
                cancel : BOOLEAN, ckpt : ScanCkpt]
ScanWorkType == [pc : ScanPc, lease : Nat, ckpt : ScanCkpt,
                 again : BOOLEAN, ok : BOOLEAN, todo : SUBSET ScanObjects]

\* An idle worker, an empty generation and an absent checkpoint.
LEMMA ScanEmpties ==
    /\ NoScanCkpt \in ScanCkpt /\ NoScanCkpt.scan = 0
    /\ ScanIdle \in ScanWorkType /\ ScanIdle.pc = "idle" /\ ScanIdle.lease = 0
    /\ NoScanGen \in ScanGen /\ ~NoScanGen.live
<1>1. ScanPlaces # {}
    BY ScanAssumption DEF ScanPlaces
<1>2. (CHOOSE p \in ScanPlaces : TRUE) \in ScanPlaces
    BY <1>1
<1>3. 0 \in 0..ScanPages
    BY ScanAssumption
<1>4. NoScanCkpt \in ScanCkpt /\ NoScanCkpt.scan = 0
    BY <1>2, <1>3 DEF NoScanCkpt, ScanCkpt
<1>5. ScanIdle \in ScanWorkType /\ ScanIdle.pc = "idle" /\ ScanIdle.lease = 0
    BY <1>4 DEF ScanIdle, ScanWorkType, ScanPc
<1>6. NoScanGen \in ScanGen /\ ~NoScanGen.live
    BY DEF NoScanGen, ScanGen
<1>q. QED BY <1>4, <1>5, <1>6

\* Typed parts of the state.
LEMMA ScanTypes ==
    ASSUME ScanInv
    PROVE  /\ ScanTypeOK /\ ScanCounts /\ scanDrawn \in Nat /\ scanLapses \in Nat
           /\ scanJob \in ScanJobType /\ scanJob.ckpt \in ScanCkpt
           /\ scanWork \in [ScanNodes -> ScanWorkType]
           /\ \A n \in ScanNodes : scanWork[n] \in ScanWorkType /\ scanWork[n].ckpt \in ScanCkpt
           /\ scanGen \in [ScanIds -> ScanGen]
BY DEF ScanInv, ScanTypeOK, ScanCounts, ScanJobType, ScanWorkType

\* One scan changes its local state.
LEMMA ScanWrites ==
    ASSUME ScanInv, NEW n \in ScanNodes, NEW w \in ScanWorkType, scanWork' = [scanWork EXCEPT ![n] = w]
    PROVE  /\ scanWork' \in [ScanNodes -> ScanWorkType] /\ scanWork'[n] = w
           /\ \A m \in ScanNodes \ {n} : scanWork'[m] = scanWork[m]
BY ScanTypes

\* One generation changes.
LEMMA ScanGenWrites ==
    ASSUME ScanInv, NEW s, NEW g, s \in ScanIds => g \in ScanGen, scanGen' = [scanGen EXCEPT ![s] = g]
    PROVE  /\ scanGen' \in [ScanIds -> ScanGen]
           /\ s \in ScanIds => scanGen'[s] = g
           /\ \A t \in ScanIds \ {s} : scanGen'[t] = scanGen[t]
<1>1. scanGen \in [ScanIds -> ScanGen]
    BY ScanTypes
<1>2. CASE s \in ScanIds
    BY <1>1, <1>2
<1>3. CASE s \notin ScanIds
  <2>1. scanGen' = scanGen
      BY <1>1, <1>3
  <2>q. QED BY <1>1, <1>3, <2>1
<1>q. QED BY <1>2, <1>3

\* What a step owes besides the good states.
LEMMA ScanStepInv ==
    ASSUME ScanInv, scanPresent' \subseteq scanPresent,
           scanBook' \in [ScanObjects -> {"stale", "here", "cleared"}],
           scanJob' \in ScanJobType, scanJob'.state = "pending" => scanJob'.attempts < ScanMaxAttempts,
           scanGen' \in [ScanIds -> ScanGen], scanWork' \in [ScanNodes -> ScanWorkType],
           scanDrawn' \in {scanDrawn, scanDrawn + 1}, scanFaults' \in {scanFaults, scanFaults + 1},
           scanLapses' \in {scanLapses, scanLapses + 1},
           ScanTimely /\ scanLapses' = scanLapses => ScanGood'
    PROVE  ScanInv'
<1>1. ScanTypeOK'
    BY DEF ScanInv, ScanTypeOK, ScanJobType, ScanWorkType
<1>2. ScanCounts'
    BY DEF ScanInv, ScanCounts
<1>3. ScanTimely' => ScanTimely /\ scanLapses' = scanLapses
    BY ScanTypes DEF ScanTimely
<1>q. QED BY <1>1, <1>2, <1>3 DEF ScanInv

\* Two scans at work are of different generations, and only one is of the job.
LEMMA ScanPrivate ==
    ASSUME ScanInv, ScanGood, NEW n \in ScanNodes, NEW m \in ScanNodes \ {n}, ScanBusy(n), ScanBusy(m)
    PROVE  /\ scanWork[n].ckpt.scan # scanWork[m].ckpt.scan
           /\ scanWork[n].lease = 0 \/ scanWork[m].lease = 0
<1>1. scanWork[n].lease = 0 \/ scanWork[m].lease = 0
    BY DEF ScanGood, ScanHolds, ScanFenceHolds
<1>q. QED BY <1>1 DEF ScanGood, ScanApart

\* A step of one scan within its generation; the job may take its checkpoint.
LEMMA ScanOwnStep ==
    ASSUME ScanInv, ScanGood, NEW n \in ScanNodes, ScanBusy(n), NEW w \in ScanWorkType,
           scanWork' = [scanWork EXCEPT ![n] = w], w.lease = scanWork[n].lease,
           w.ckpt.scan = scanWork[n].ckpt.scan,
           scanGen' \in [ScanIds -> ScanGen],
           \A t \in ScanIds \ {w.ckpt.scan} : scanGen'[t] = scanGen[t],
           scanGen' = scanGen \/ w.ckpt.scan \in 1..scanDrawn,
           UNCHANGED <<scanPresent, scanDrawn>>,
           \A o \in ScanObjects : scanBook'[o] = "cleared" => o \notin scanPresent,
           scanJob'.state = scanJob.state, scanJob'.lease = scanJob.lease, scanJob'.owner = scanJob.owner,
           scanJob'.ckpt = scanJob.ckpt \/ (w.lease # 0 /\ scanJob'.ckpt = w.ckpt),
           ScanBusy(n)', ScanHolds(n)', ScanListed(n)', ScanResumable'
    PROVE  ScanGood'
<1>1. /\ scanWork' \in [ScanNodes -> ScanWorkType] /\ scanWork'[n] = w
      /\ \A m \in ScanNodes \ {n} : scanWork'[m] = scanWork[m]
    BY ScanWrites
<1>2. ASSUME NEW m \in ScanNodes \ {n}, ScanBusy(m)
      PROVE  /\ ScanHolds(m)' /\ ScanListed(m)'
             /\ scanWork[m].ckpt.scan # w.ckpt.scan
             /\ scanWork[m].lease = 0 \/ scanJob'.ckpt = scanJob.ckpt
  <2>1. /\ scanWork[m].ckpt.scan # w.ckpt.scan /\ scanWork'[m] = scanWork[m]
        /\ scanWork[m].lease = 0 \/ scanWork[n].lease = 0
      BY <1>1, <1>2, ScanPrivate
  <2>2. scanWork[m].lease = 0 \/ scanJob'.ckpt = scanJob.ckpt
      BY <2>1
  <2>3. ScanHolds(m) /\ ScanListed(m)
      BY <1>2 DEF ScanGood
  <2>4. scanWork[m].pc # "adopt" => scanWork[m].ckpt.scan \in ScanIds
    <3>1. scanWork[m].ckpt.scan \in ScanIds \cup {0}
        BY ScanTypes DEF ScanCkpt
    <3>2. scanWork[m].pc # "adopt" => scanWork[m].ckpt.scan \in 1..scanDrawn
        BY <2>3 DEF ScanHolds
    <3>q. QED BY <3>1, <3>2, ScanTypes
  <2>5. scanWork[m].pc # "adopt" => scanGen'[scanWork[m].ckpt.scan] = scanGen[scanWork[m].ckpt.scan]
      BY <2>1, <2>4
  <2>6. ScanHolds(m)'
      BY <2>1, <2>2, <2>3, <2>5 DEF ScanHolds, ScanFenceHolds, ScanGenOf
  <2>7. ScanListed(m)'
      BY <2>1, <2>3, <2>5 DEF ScanListed, ScanCovers
  <2>q. QED BY <2>1, <2>2, <2>6, <2>7
<1>3. \A m \in ScanNodes \ {n} : ScanBusy(m)' <=> ScanBusy(m)
    BY <1>1 DEF ScanBusy
<1>4. ScanApart'
  <2> SUFFICES ASSUME NEW m \in ScanNodes, ScanBusy(m)', scanWork'[m].lease = 0
               PROVE  /\ scanWork'[m].ckpt.scan # scanJob'.ckpt.scan
                      /\ \A k \in ScanNodes \ {m} : ScanBusy(k)' => scanWork'[k].ckpt.scan # scanWork'[m].ckpt.scan
      BY DEF ScanApart
  <2>1. /\ scanWork'[m].lease = scanWork[m].lease /\ ScanBusy(m)
        /\ \A k \in ScanNodes : scanWork'[k].ckpt.scan = scanWork[k].ckpt.scan /\ (ScanBusy(k)' => ScanBusy(k))
      BY <1>1, <1>3
  <2>2. /\ scanWork[m].ckpt.scan # scanJob.ckpt.scan
        /\ \A k \in ScanNodes \ {m} : ScanBusy(k) => scanWork[k].ckpt.scan # scanWork[m].ckpt.scan
      BY <2>1 DEF ScanGood, ScanApart
  <2>3. scanWork[m].ckpt.scan # scanJob'.ckpt.scan
      BY <1>1, <1>2, <2>1, <2>2
  <2>q. QED BY <2>1, <2>2, <2>3
<1>5. ScanUndrawn'
  <2>1. \A t \in ScanIds : t > scanDrawn => scanGen'[t] = scanGen[t]
      BY ScanTypes, ScanAssumption
  <2>q. QED BY <2>1 DEF ScanGood, ScanUndrawn
<1>6. \A m \in ScanNodes : ScanBusy(m)' => (ScanHolds(m) /\ ScanListed(m))'
    BY <1>2, <1>3
<1>q. QED BY <1>4, <1>5, <1>6 DEF ScanGood

\* Scans that stop, generations that nobody uses and go, files that vanish, a
\* job that changes hands: what is left to those who go on is as it was.
LEMMA ScanQuietStep ==
    ASSUME ScanInv, ScanGood,
           \A m \in ScanNodes : scanWork'[m] = scanWork[m] \/ ~ScanBusy(m)',
           \A t \in ScanIds : \/ scanGen'[t] = scanGen[t]
                              \/ /\ \A m \in ScanNodes : ScanBusy(m)' =>
                                       scanWork[m].pc = "adopt" \/ scanWork[m].ckpt.scan # t
                                 /\ scanGen'[t].live => /\ scanGen[t].live
                                                        /\ scanGen'[t].rows = scanGen[t].rows
                                                        /\ scanGen'[t].jobless = scanGen[t].jobless,
           scanPresent' \subseteq scanPresent, UNCHANGED <<scanBook, scanDrawn>>,
           scanJob'.ckpt = scanJob.ckpt, scanJob'.state = "running" => scanJob'.lease # 0,
           \A m \in ScanNodes : ScanBusy(m)' /\ scanWork[m].lease # 0 => ScanFenceHolds(m)'
    PROVE  ScanGood'
<1>1. \A m \in ScanNodes : ScanBusy(m)' => scanWork'[m] = scanWork[m] /\ ScanBusy(m)
    BY DEF ScanBusy
<1>2. ASSUME NEW m \in ScanNodes, ScanBusy(m)'
      PROVE  ScanHolds(m)' /\ ScanListed(m)'
  <2>1. scanWork'[m] = scanWork[m] /\ ScanHolds(m) /\ ScanListed(m)
      BY <1>1, <1>2 DEF ScanGood
  <2>2. scanWork[m].pc # "adopt" => scanWork[m].ckpt.scan \in ScanIds
    <3>1. scanWork[m].ckpt.scan \in ScanIds \cup {0}
        BY ScanTypes DEF ScanCkpt
    <3>2. scanWork[m].pc # "adopt" => scanWork[m].ckpt.scan \in 1..scanDrawn
        BY <2>1 DEF ScanHolds
    <3>q. QED BY <3>1, <3>2, ScanTypes
  <2>3. scanWork[m].pc # "adopt" => scanGen'[scanWork[m].ckpt.scan] = scanGen[scanWork[m].ckpt.scan]
      BY <1>2, <2>2
  <2>4. scanWork[m].lease # 0 => ScanFenceHolds(m)'
      BY <1>2
  <2>5. ScanHolds(m)'
      BY <2>1, <2>3, <2>4 DEF ScanHolds, ScanGenOf
  <2>6. ScanListed(m)'
      BY <2>1, <2>3 DEF ScanListed, ScanCovers
  <2>q. QED BY <2>5, <2>6
<1>3. ScanApart'
    BY <1>1 DEF ScanGood, ScanApart
<1>4. ScanResumable'
  <2>1. /\ scanJob.ckpt.scan \in ScanIds \cup {0} /\ scanJob.ckpt.scan \in 0..scanDrawn
      BY ScanTypes DEF ScanCkpt, ScanGood, ScanResumable
  <2>2. scanJob.ckpt.scan # 0 /\ scanGen'[scanJob.ckpt.scan].live =>
            /\ scanGen[scanJob.ckpt.scan].live
            /\ scanGen'[scanJob.ckpt.scan].rows = scanGen[scanJob.ckpt.scan].rows
            /\ scanGen'[scanJob.ckpt.scan].jobless = scanGen[scanJob.ckpt.scan].jobless
      BY <2>1
  <2>q. QED BY <2>1, <2>2 DEF ScanGood, ScanResumable, ScanCovers
<1>5. ScanUndrawn'
    BY DEF ScanGood, ScanUndrawn
<1>6. \A o \in ScanObjects : scanBook'[o] = "cleared" => o \notin scanPresent'
    BY DEF ScanGood
<1>q. QED BY <1>2, <1>3, <1>4, <1>5, <1>6 DEF ScanGood

\* A scan begins to list a generation that nobody has used.
LEMMA ScanFreshStep ==
    ASSUME ScanInv, ScanGood, NEW n \in ScanNodes, NEW w \in ScanWorkType,
           scanWork' = [scanWork EXCEPT ![n] = w], w.pc = "bind", w.ckpt = ScanFresh(n),
           w.lease # 0 => w.lease = scanWork[n].lease /\ ScanBusy(n),
           scanDrawn' = scanDrawn + 1, scanDrawn + 1 \in ScanIds,
           \/ scanGen' = scanGen
           \/ ScanBusy(n) /\ scanWork[n].pc # "adopt" /\ ScanDrop(scanWork[n].ckpt.scan),
           UNCHANGED <<scanPresent, scanBook, scanJob>>
    PROVE  ScanGood'
<1>1. /\ scanWork' \in [ScanNodes -> ScanWorkType] /\ scanWork'[n] = w
      /\ \A m \in ScanNodes \ {n} : scanWork'[m] = scanWork[m]
    BY ScanWrites
<1>2. w.ckpt.scan = scanDrawn + 1 /\ w.ckpt.phase = "list" /\ w.ckpt.cur = 0 /\ scanDrawn \in Nat
    BY ScanTypes DEF ScanFresh
<1>3. \A m \in ScanNodes : ScanBusy(m) => scanWork[m].ckpt.scan \in 0..scanDrawn
    BY ScanTypes DEF ScanGood, ScanHolds, ScanResumable
<1>4. /\ \A t \in ScanIds : scanGen'[t] = scanGen[t] \/ (ScanBusy(n) /\ scanWork[n].ckpt.scan = t /\ ~scanGen'[t].live)
    BY ScanEmpties, ScanTypes DEF ScanDrop
<1>5. ~scanGen'[scanDrawn + 1].live
    BY <1>2, <1>4 DEF ScanGood, ScanUndrawn
<1>6. ScanHolds(n)' /\ ScanListed(n)'
  <2>1. w.lease # 0 => ScanFenceHolds(n)'
      BY <1>1 DEF ScanGood, ScanHolds, ScanFenceHolds
  <2>2. w.ckpt.scan # scanJob.ckpt.scan /\ w.ckpt.scan \in 1..scanDrawn'
      BY <1>2 DEF ScanGood, ScanResumable
  <2>3. ScanHolds(n)'
      BY <1>1, <1>2, <1>5, <2>1, <2>2 DEF ScanHolds, ScanGenOf
  <2>4. 1..0 = {}
      OBVIOUS
  <2>5. ScanListed(n)'
      BY <1>1, <1>2, <2>4 DEF ScanListed, ScanCovers
  <2>q. QED BY <2>3, <2>5
<1>7. ASSUME NEW m \in ScanNodes \ {n}, ScanBusy(m)'
      PROVE  ScanHolds(m)' /\ ScanListed(m)' /\ ScanBusy(m)
  <2>1. scanWork'[m] = scanWork[m] /\ ScanBusy(m) /\ ScanHolds(m) /\ ScanListed(m)
      BY <1>1, <1>7 DEF ScanGood, ScanBusy
  <2>2. scanWork[m].pc # "adopt" => scanWork[m].ckpt.scan \in ScanIds
    <3>1. scanWork[m].ckpt.scan \in ScanIds \cup {0}
        BY ScanTypes DEF ScanCkpt
    <3>2. scanWork[m].pc # "adopt" => scanWork[m].ckpt.scan \in 1..scanDrawn
        BY <2>1 DEF ScanHolds
    <3>q. QED BY <3>1, <3>2, ScanTypes
  <2>3. scanWork[m].pc # "adopt" => scanGen'[scanWork[m].ckpt.scan] = scanGen[scanWork[m].ckpt.scan]
      BY <1>4, <2>1, <2>2, ScanPrivate
  <2>4. scanWork[m].ckpt.scan \in 1..scanDrawn => scanWork[m].ckpt.scan \in 1..scanDrawn'
      BY <1>2
  <2>5. ScanHolds(m)'
      BY <2>1, <2>3, <2>4 DEF ScanHolds, ScanGenOf, ScanFenceHolds
  <2>6. ScanListed(m)'
      BY <2>1, <2>3 DEF ScanListed, ScanCovers
  <2>q. QED BY <2>1, <2>5, <2>6
<1>8. ScanApart'
  <2> SUFFICES ASSUME NEW m \in ScanNodes, ScanBusy(m)', scanWork'[m].lease = 0
               PROVE  /\ scanWork'[m].ckpt.scan # scanJob.ckpt.scan
                      /\ \A k \in ScanNodes \ {m} : ScanBusy(k)' => scanWork'[k].ckpt.scan # scanWork'[m].ckpt.scan
      BY DEF ScanApart
  <2>1. CASE m = n
    <3>1. w.ckpt.scan # scanJob.ckpt.scan
        BY <1>2 DEF ScanGood, ScanResumable
    <3>2. \A k \in ScanNodes \ {n} : ScanBusy(k)' => scanWork[k].ckpt.scan # scanDrawn + 1
        BY <1>2, <1>3, <1>7
    <3>q. QED BY <1>1, <1>2, <2>1, <3>1, <3>2
  <2>2. CASE m # n
    <3>1. /\ ScanBusy(m) /\ scanWork'[m] = scanWork[m]
          /\ scanWork[m].ckpt.scan # scanJob.ckpt.scan
          /\ \A k \in ScanNodes \ {m} : ScanBusy(k) => scanWork[k].ckpt.scan # scanWork[m].ckpt.scan
        BY <1>1, <1>7, <2>2 DEF ScanGood, ScanApart
    <3>2. scanWork[m].ckpt.scan # scanDrawn + 1
        BY <1>2, <1>3, <3>1
    <3>q. QED BY <1>1, <1>2, <1>7, <3>1, <3>2
  <2>q. QED BY <2>1, <2>2
<1>9. ScanResumable'
  <2>1. /\ scanJob.ckpt.scan \in ScanIds \cup {0} /\ scanJob.ckpt.scan \in 0..scanDrawn
      BY ScanTypes DEF ScanCkpt, ScanGood, ScanResumable
  <2>2. scanJob.ckpt.scan \in 0..scanDrawn'
      BY <1>2, <2>1
  <2>3. scanJob.ckpt.scan # 0 /\ scanGen'[scanJob.ckpt.scan].live =>
            scanGen'[scanJob.ckpt.scan] = scanGen[scanJob.ckpt.scan]
      BY <1>4, <2>1
  <2>q. QED BY <2>2, <2>3 DEF ScanGood, ScanResumable, ScanCovers
<1>10. ScanUndrawn'
    BY <1>2, <1>4, ScanAssumption DEF ScanGood, ScanUndrawn
<1>11. \A m \in ScanNodes : ScanBusy(m)' => (ScanHolds(m) /\ ScanListed(m))'
    BY <1>6, <1>7
<1>q. QED BY <1>8, <1>9, <1>10, <1>11 DEF ScanGood

\* A scan stops; the generations and the job stay.
LEMMA ScanStops ==
    ASSUME ScanInv, NEW n \in ScanNodes, NEW w \in ScanWorkType,
           scanWork' = [scanWork EXCEPT ![n] = w], w.pc \in {"idle", "report", "sweep"},
           scanFaults' \in {scanFaults, scanFaults + 1},
           UNCHANGED <<scanPresent, scanBook, scanJob, scanGen, scanDrawn, scanLapses>>
    PROVE  ScanInv'
<1>1. /\ scanWork' \in [ScanNodes -> ScanWorkType] /\ scanWork'[n] = w
      /\ \A m \in ScanNodes \ {n} : scanWork'[m] = scanWork[m]
    BY ScanWrites
<1>2. ~ScanBusy(n)' /\ \A m \in ScanNodes \ {n} : scanWork'[m] = scanWork[m] /\ (ScanBusy(m)' <=> ScanBusy(m))
    BY <1>1 DEF ScanBusy
<1>3. ASSUME ScanGood PROVE ScanGood'
  <2>1. \A m \in ScanNodes : ScanBusy(m)' /\ scanWork[m].lease # 0 => ScanFenceHolds(m)'
      BY <1>2, <1>3 DEF ScanGood, ScanHolds, ScanFenceHolds
  <2>2. scanJob.state = "running" => scanJob.lease # 0
      BY <1>3 DEF ScanGood, ScanResumable
  <2>q. QED BY <1>2, <1>3, <2>1, <2>2, ScanQuietStep
<1>4. ScanTimely => ScanGood'
    BY <1>3 DEF ScanInv
<1>5. /\ scanJob \in ScanJobType /\ (scanJob.state = "pending" => scanJob.attempts < ScanMaxAttempts)
      /\ scanBook \in [ScanObjects -> {"stale", "here", "cleared"}] /\ scanGen \in [ScanIds -> ScanGen]
    BY ScanTypes DEF ScanTypeOK, ScanCounts
<1>q. QED BY <1>1, <1>4, <1>5, ScanStepInv

\* The handler returns an error.
LEMMA ScanFailedInv ==
    ASSUME ScanInv, NEW n \in ScanNodes, ScanFailed(n), scanFaults' \in {scanFaults, scanFaults + 1},
           UNCHANGED <<scanPresent, scanBook, scanJob, scanGen, scanDrawn, scanLapses>>
    PROVE  ScanInv'
<1>1. PICK w : w = IF scanWork[n].lease = 0 THEN ScanIdle
                   ELSE [scanWork[n] EXCEPT !.pc = "report", !.ok = FALSE]
    OBVIOUS
<1>2. scanWork' = [scanWork EXCEPT ![n] = w]
    BY <1>1 DEF ScanFailed
<1>3. w \in ScanWorkType /\ w.pc \in {"idle", "report", "sweep"}
    BY <1>1, ScanEmpties, ScanTypes DEF ScanWorkType, ScanPc
<1>q. QED BY <1>2, <1>3, ScanStops

\* A daemon stops within its scan.
LEMMA ScanCrashInv == ASSUME ScanInv, NEW n \in ScanNodes, ScanCrash(n) PROVE ScanInv'
<1>1. /\ scanWork' = [scanWork EXCEPT ![n] = ScanIdle] /\ scanFaults' = scanFaults + 1
      /\ UNCHANGED <<scanPresent, scanBook, scanJob, scanGen, scanDrawn, scanLapses>>
    BY DEF ScanCrash
<1>q. QED BY <1>1, ScanEmpties, ScanStops

\* A statement of the scan fails.
LEMMA ScanFaultInv == ASSUME ScanInv, NEW n \in ScanNodes, ScanFault(n) PROVE ScanInv'
<1>1. /\ ScanFailed(n) /\ scanFaults' = scanFaults + 1
      /\ UNCHANGED <<scanPresent, scanBook, scanJob, scanGen, scanDrawn, scanLapses>>
    BY DEF ScanFault
<1>q. QED BY <1>1, ScanFailedInv

\* The job ends or goes back to the queue when no scan of it is at work.
LEMMA ScanJobStep ==
    ASSUME ScanInv, NEW j \in ScanJobType, scanJob' = j, j.ckpt = scanJob.ckpt, j.lease = scanJob.lease,
           j.state = "pending" => j.attempts < ScanMaxAttempts,
           j.state = "running" => scanJob.state = "running",
           scanWork' \in [ScanNodes -> ScanWorkType],
           \A m \in ScanNodes : scanWork'[m] = scanWork[m] \/ ~ScanBusy(m)',
           UNCHANGED <<scanPresent, scanBook, scanGen, scanDrawn, scanFaults>>,
           scanLapses' \in {scanLapses, scanLapses + 1},
           scanLapses' = scanLapses =>
              \A m \in ScanNodes : ScanBusy(m)' /\ scanWork[m].lease # 0 /\ ScanFenceHolds(m) => ScanFenceHolds(m)'
    PROVE  ScanInv'
<1>1. ASSUME ScanGood, scanLapses' = scanLapses PROVE ScanGood'
  <2>1. \A m \in ScanNodes : ScanBusy(m)' => ScanBusy(m)
      BY DEF ScanBusy
  <2>2. \A m \in ScanNodes : ScanBusy(m)' /\ scanWork[m].lease # 0 => ScanFenceHolds(m)'
      BY <1>1, <2>1 DEF ScanGood, ScanHolds
  <2>3. scanJob'.state = "running" => scanJob'.lease # 0
      BY <1>1 DEF ScanGood, ScanResumable
  <2>q. QED BY <1>1, <2>2, <2>3, ScanQuietStep
<1>2. ScanTimely /\ scanLapses' = scanLapses => ScanGood'
    BY <1>1 DEF ScanInv
<1>3. /\ scanBook \in [ScanObjects -> {"stale", "here", "cleared"}] /\ scanGen \in [ScanIds -> ScanGen]
    BY ScanTypes DEF ScanTypeOK
<1>q. QED BY <1>2, <1>3, ScanStepInv

\* Another attempt, unless cancelled or used up.
LEMMA ScanGivenUpIs ==
    ASSUME ScanInv
    PROVE  /\ ScanGivenUp \in ScanJobType /\ ScanGivenUp.ckpt = scanJob.ckpt
           /\ ScanGivenUp.lease = scanJob.lease /\ ScanGivenUp.state # "running"
           /\ ScanGivenUp.state = "pending" => ScanGivenUp.attempts < ScanMaxAttempts
<1>1. scanJob \in ScanJobType
    BY ScanTypes
<1>2. PICK st \in {"terminal", "pending"} :
          st = IF scanJob.cancel \/ scanJob.attempts >= ScanMaxAttempts THEN "terminal" ELSE "pending"
    OBVIOUS
<1>3. ScanGivenUp = [scanJob EXCEPT !.owner = ScanNobody, !.state = st]
    BY <1>2 DEF ScanGivenUp
<1>4. /\ ScanGivenUp \in ScanJobType /\ ScanGivenUp.ckpt = scanJob.ckpt /\ ScanGivenUp.lease = scanJob.lease
      /\ ScanGivenUp.state = st /\ ScanGivenUp.attempts = scanJob.attempts
    BY <1>1, <1>3 DEF ScanJobType
<1>5. st = "pending" => scanJob.attempts < ScanMaxAttempts
  <2>1. scanJob.attempts \in Int /\ ScanMaxAttempts \in Int
      BY <1>1, ScanAssumption DEF ScanJobType
  <2>q. QED BY <1>2, <2>1
<1>q. QED BY <1>4, <1>5

\* A cancel marks the job, or ends it when it waits.
LEMMA ScanCancelInv == ASSUME ScanInv, ScanCancel PROVE ScanInv'
<1>1. PICK j : j = [scanJob EXCEPT !.cancel = TRUE, !.state = IF @ = "pending" THEN "terminal" ELSE @]
    OBVIOUS
<1>2. /\ scanJob' = j
      /\ UNCHANGED <<scanPresent, scanBook, scanGen, scanDrawn, scanWork, scanFaults, scanLapses>>
    BY <1>1 DEF ScanCancel
<1>3. /\ j \in ScanJobType /\ j.ckpt = scanJob.ckpt /\ j.lease = scanJob.lease /\ j.state # "pending"
      /\ j.state = "running" <=> scanJob.state = "running"
      /\ j.owner = scanJob.owner
    BY <1>1, ScanTypes DEF ScanJobType
<1>4. scanWork' \in [ScanNodes -> ScanWorkType]
    BY <1>2, ScanTypes
<1>q. QED BY <1>2, <1>3, <1>4, ScanJobStep DEF ScanFenceHolds

\* A lapsed lease gives the job up.
LEMMA ScanLeaseExpiresInv == ASSUME ScanInv, ScanLeaseExpires PROVE ScanInv'
<1>1. /\ scanJob' = ScanGivenUp /\ scanLapses' \in {scanLapses, scanLapses + 1}
      /\ UNCHANGED <<scanPresent, scanBook, scanGen, scanDrawn, scanWork, scanFaults>>
      /\ scanLapses' = scanLapses => ~ScanFenceHolds(scanJob.owner)
    BY ScanTypes DEF ScanLeaseExpires
<1>2. scanWork' \in [ScanNodes -> ScanWorkType]
    BY <1>1, ScanTypes
<1>3. scanLapses' = scanLapses => \A m \in ScanNodes : ~ScanFenceHolds(m)
    BY <1>1 DEF ScanFenceHolds
<1>q. QED BY <1>1, <1>2, <1>3, ScanGivenUpIs, ScanJobStep

\* The worker reports the end of its attempt, if the lease is still its own.
LEMMA ScanReportInv == ASSUME ScanInv, NEW n \in ScanNodes, ScanReport(n) PROVE ScanInv'
<1>0. UNCHANGED <<scanPresent, scanBook, scanGen, scanDrawn, scanFaults, scanLapses>>
    BY DEF ScanReport
<1>1. CASE scanWork' = [scanWork EXCEPT ![n] = ScanIdle] /\ UNCHANGED scanJob
    BY <1>0, <1>1, ScanEmpties, ScanStops
<1>2. ASSUME ScanFenceHolds(n), ScanMove(n, "sweep"), NEW j \in ScanJobType, scanJob' = j,
             j.ckpt = scanJob.ckpt, j.lease = scanJob.lease, j.state # "running",
             j.state = "pending" => j.attempts < ScanMaxAttempts
      PROVE  ScanInv'
  <2>1. PICK w : w = [scanWork[n] EXCEPT !.pc = "sweep"]
      OBVIOUS
  <2>2. w \in ScanWorkType /\ w.pc = "sweep" /\ scanWork' = [scanWork EXCEPT ![n] = w]
      BY <1>2, <2>1, ScanTypes DEF ScanWorkType, ScanPc, ScanMove
  <2>3. /\ scanWork' \in [ScanNodes -> ScanWorkType] /\ scanWork'[n] = w
        /\ \A m \in ScanNodes \ {n} : scanWork'[m] = scanWork[m]
      BY <2>2, ScanWrites
  <2>4. \A m \in ScanNodes : scanWork'[m] = scanWork[m] \/ ~ScanBusy(m)'
      BY <2>2, <2>3 DEF ScanBusy
  <2>5. \A m \in ScanNodes : ScanBusy(m)' => ~ScanFenceHolds(m)
      BY <1>2, <2>2, <2>3 DEF ScanFenceHolds, ScanBusy
  <2>q. QED BY <1>0, <1>2, <2>3, <2>4, <2>5, ScanJobStep
<1>3. CASE ScanFenceHolds(n)
  <2>1. ScanMove(n, "sweep")
      BY <1>3 DEF ScanReport
  <2>2. CASE scanWork[n].ok
    <3>1. PICK j : j = [scanJob EXCEPT !.owner = ScanNobody, !.state = "terminal"]
        OBVIOUS
    <3>2. scanJob' = j /\ j \in ScanJobType /\ j.ckpt = scanJob.ckpt /\ j.lease = scanJob.lease /\ j.state = "terminal"
        BY <1>3, <2>2, <3>1, ScanTypes DEF ScanReport, ScanJobType
    <3>q. QED BY <1>2, <1>3, <2>1, <3>2
  <2>3. CASE ~scanWork[n].ok
    <3>1. scanJob' = ScanGivenUp
        BY <1>3, <2>3 DEF ScanReport
    <3>q. QED BY <1>2, <1>3, <2>1, <3>1, ScanGivenUpIs
  <2>q. QED BY <2>2, <2>3
<1>q. QED BY <1>1, <1>3 DEF ScanReport

\* A file disappears from storage: nothing said of present files changes.
LEMMA ScanVanishInv == ASSUME ScanInv, NEW o \in ScanObjects, ScanVanish(o) PROVE ScanInv'
<1>1. /\ scanPresent' \subseteq scanPresent
      /\ UNCHANGED <<scanBook, scanJob, scanGen, scanDrawn, scanWork, scanFaults, scanLapses>>
    BY DEF ScanVanish
<1>2. ASSUME ScanGood PROVE ScanGood'
  <2>1. \A m \in ScanNodes : ScanBusy(m)' /\ scanWork[m].lease # 0 => ScanFenceHolds(m)'
      BY <1>1, <1>2 DEF ScanGood, ScanHolds, ScanFenceHolds, ScanBusy
  <2>2. scanJob.state = "running" => scanJob.lease # 0
      BY <1>2 DEF ScanGood, ScanResumable
  <2>q. QED BY <1>1, <1>2, <2>1, <2>2, ScanQuietStep
<1>3. ScanTimely => ScanGood'
    BY <1>2 DEF ScanInv
<1>4. /\ scanJob \in ScanJobType /\ (scanJob.state = "pending" => scanJob.attempts < ScanMaxAttempts)
      /\ scanBook \in [ScanObjects -> {"stale", "here", "cleared"}] /\ scanGen \in [ScanIds -> ScanGen]
      /\ scanWork \in [ScanNodes -> ScanWorkType]
    BY ScanTypes DEF ScanTypeOK, ScanCounts
<1>q. QED BY <1>1, <1>3, <1>4, ScanStepInv

\* A generation in use is not one that the reclaimers take.
LEMMA ScanSpared ==
    ASSUME ScanInv, ScanGood, NEW n \in ScanNodes, ScanBusy(n), scanWork[n].pc # "adopt", ScanGenOf(n).live
    PROVE  IF ScanGenOf(n).jobless THEN ScanGenOf(n).fresh ELSE ~ScanTerminal
<1>1. ScanHolds(n)
    BY DEF ScanGood
<1>q. QED BY <1>1 DEF ScanHolds, ScanFenceHolds, ScanTerminal

\* Reclaimers take generations that nobody uses; a scan may stop with it.
LEMMA ScanReclaims ==
    ASSUME ScanInv, scanGen' \in [ScanIds -> ScanGen], scanWork' \in [ScanNodes -> ScanWorkType],
           \A m \in ScanNodes : scanWork'[m] = scanWork[m] \/ ~ScanBusy(m)',
           \A t \in ScanIds :
              \/ scanGen'[t] = scanGen[t]
              \/ /\ scanGen'[t] = NoScanGen
                 /\ \/ scanGen[t].live /\ IF scanGen[t].jobless THEN ~scanGen[t].fresh ELSE ScanTerminal
                    \/ \E n \in ScanNodes : ScanBusy(n) /\ ~ScanBusy(n)' /\ scanWork[n].ckpt.scan = t,
           UNCHANGED <<scanPresent, scanBook, scanJob, scanDrawn, scanFaults, scanLapses>>
    PROVE  ScanInv'
<1>1. \A m \in ScanNodes : ScanBusy(m)' => ScanBusy(m) /\ scanWork'[m] = scanWork[m]
    BY DEF ScanBusy
<1>2. ASSUME ScanGood PROVE ScanGood'
  <2>1. \A m \in ScanNodes : ScanBusy(m)' /\ scanWork[m].lease # 0 => ScanFenceHolds(m)'
      BY <1>1, <1>2 DEF ScanGood, ScanHolds, ScanFenceHolds
  <2>2. scanJob.state = "running" => scanJob.lease # 0
      BY <1>2 DEF ScanGood, ScanResumable
  <2>3. ASSUME NEW t \in ScanIds, scanGen'[t] # scanGen[t], NEW m \in ScanNodes, ScanBusy(m)',
               scanWork[m].pc # "adopt", scanWork[m].ckpt.scan = t
        PROVE  FALSE
    <3>1. CASE scanGen[t].live /\ IF scanGen[t].jobless THEN ~scanGen[t].fresh ELSE ScanTerminal
        BY <1>1, <1>2, <2>3, <3>1, ScanSpared DEF ScanGenOf
    <3>2. CASE \E n \in ScanNodes : ScanBusy(n) /\ ~ScanBusy(n)' /\ scanWork[n].ckpt.scan = t
        BY <1>1, <1>2, <2>3, <3>2, ScanPrivate
    <3>q. QED BY <2>3, <3>1, <3>2
  <2>4. ~NoScanGen.live
      BY ScanEmpties
  <2>5. \A t \in ScanIds : \/ scanGen'[t] = scanGen[t]
                           \/ /\ \A m \in ScanNodes : ScanBusy(m)' =>
                                    scanWork[m].pc = "adopt" \/ scanWork[m].ckpt.scan # t
                              /\ ~scanGen'[t].live
      BY <2>3, <2>4
  <2>q. QED BY <1>2, <2>1, <2>2, <2>5, ScanQuietStep
<1>3. ScanTimely => ScanGood'
    BY <1>2 DEF ScanInv
<1>4. /\ scanJob \in ScanJobType /\ (scanJob.state = "pending" => scanJob.attempts < ScanMaxAttempts)
      /\ scanBook \in [ScanObjects -> {"stale", "here", "cleared"}]
    BY ScanTypes DEF ScanTypeOK, ScanCounts
<1>q. QED BY <1>3, <1>4, ScanStepInv

\* The reclaimers' page and abandoned generations.
LEMMA ScanReclaimInv ==
    ASSUME ScanInv, NEW s \in ScanIds, ScanReclaimPage(s) \/ ScanReclaimAbandoned(s)
    PROVE  ScanInv'
<1>1. /\ scanGen' = [scanGen EXCEPT ![s] = NoScanGen]
      /\ scanGen[s].live /\ IF scanGen[s].jobless THEN ~scanGen[s].fresh ELSE ScanTerminal
      /\ UNCHANGED <<scanPresent, scanBook, scanJob, scanDrawn, scanWork, scanFaults, scanLapses>>
    BY DEF ScanReclaimPage, ScanReclaimAbandoned, ScanDrop
<1>2. /\ scanGen' \in [ScanIds -> ScanGen] /\ scanGen'[s] = NoScanGen
      /\ \A t \in ScanIds \ {s} : scanGen'[t] = scanGen[t]
      /\ scanWork' \in [ScanNodes -> ScanWorkType]
    BY <1>1, ScanTypes, ScanEmpties
<1>q. QED BY <1>1, <1>2, ScanReclaims

\* The worker deletes the job's generation after the job.
LEMMA ScanSweepInv == ASSUME ScanInv, NEW n \in ScanNodes, ScanSweep(n) PROVE ScanInv'
<1>1. /\ scanWork' = [scanWork EXCEPT ![n] = ScanIdle]
      /\ UNCHANGED <<scanPresent, scanBook, scanJob, scanDrawn, scanFaults, scanLapses>>
    BY DEF ScanSweep
<1>2. /\ scanWork' \in [ScanNodes -> ScanWorkType]
      /\ \A m \in ScanNodes : scanWork'[m] = scanWork[m] \/ ~ScanBusy(m)'
    BY <1>1, ScanWrites, ScanEmpties DEF ScanBusy
<1>3. /\ scanGen' \in [ScanIds -> ScanGen]
      /\ \A t \in ScanIds :
            \/ scanGen'[t] = scanGen[t]
            \/ /\ scanGen'[t] = NoScanGen
               /\ scanGen[t].live /\ IF scanGen[t].jobless THEN ~scanGen[t].fresh ELSE ScanTerminal
    BY ScanTypes, ScanEmpties DEF ScanSweep
<1>q. QED BY <1>1, <1>2, <1>3, ScanReclaims

\* A generation loses its heartbeat.
LEMMA ScanGoesStaleInv == ASSUME ScanInv, NEW s \in ScanIds, ScanGoesStale(s) PROVE ScanInv'
<1>1. /\ scanGen' = [scanGen EXCEPT ![s] = [scanGen[s] EXCEPT !.fresh = FALSE]]
      /\ UNCHANGED <<scanPresent, scanBook, scanJob, scanDrawn, scanWork, scanFaults>>
      /\ scanLapses' \in {scanLapses, scanLapses + 1}
      /\ scanLapses' = scanLapses => \A n \in ScanNodes : ~ScanUses(n, s)
    BY ScanTypes DEF ScanGoesStale
<1>2. PICK g \in ScanGen : g = [scanGen[s] EXCEPT !.fresh = FALSE]
    BY ScanTypes DEF ScanGen
<1>3. /\ scanGen' \in [ScanIds -> ScanGen] /\ scanGen'[s] = g
      /\ \A t \in ScanIds \ {s} : scanGen'[t] = scanGen[t]
      /\ g.live = scanGen[s].live /\ g.rows = scanGen[s].rows /\ g.jobless = scanGen[s].jobless
    BY <1>1, <1>2, ScanTypes DEF ScanGen
<1>4. ASSUME ScanGood, scanLapses' = scanLapses PROVE ScanGood'
  <2>1. \A m \in ScanNodes : ScanBusy(m)' /\ scanWork[m].lease # 0 => ScanFenceHolds(m)'
      BY <1>1, <1>4 DEF ScanGood, ScanHolds, ScanFenceHolds, ScanBusy
  <2>2. scanJob.state = "running" => scanJob.lease # 0
      BY <1>4 DEF ScanGood, ScanResumable
  <2>3. \A m \in ScanNodes : ScanBusy(m)' => scanWork[m].ckpt.scan # s
      BY <1>1, <1>4 DEF ScanUses, ScanBusy
  <2>q. QED BY <1>1, <1>3, <1>4, <2>1, <2>2, <2>3, ScanQuietStep
<1>5. ScanTimely /\ scanLapses' = scanLapses => ScanGood'
    BY <1>4 DEF ScanInv
<1>6. /\ scanJob \in ScanJobType /\ (scanJob.state = "pending" => scanJob.attempts < ScanMaxAttempts)
      /\ scanBook \in [ScanObjects -> {"stale", "here", "cleared"}]
      /\ scanWork' \in [ScanNodes -> ScanWorkType]
    BY <1>1, ScanTypes DEF ScanTypeOK, ScanCounts
<1>q. QED BY <1>1, <1>3, <1>5, <1>6, ScanStepInv

\* The types of a step of one scan that leaves the job alone.
LEMMA ScanOwnInv ==
    ASSUME ScanInv, NEW n \in ScanNodes, NEW w \in ScanWorkType, scanWork' = [scanWork EXCEPT ![n] = w],
           scanGen' \in [ScanIds -> ScanGen], scanDrawn' \in {scanDrawn, scanDrawn + 1},
           scanBook' \in [ScanObjects -> {"stale", "here", "cleared"}],
           UNCHANGED <<scanPresent, scanJob, scanFaults, scanLapses>>,
           ScanGood => ScanGood'
    PROVE  ScanInv'
<1>1. scanWork' \in [ScanNodes -> ScanWorkType]
    BY ScanWrites
<1>2. scanJob \in ScanJobType /\ (scanJob.state = "pending" => scanJob.attempts < ScanMaxAttempts)
    BY ScanTypes DEF ScanCounts
<1>3. ScanTimely => ScanGood'
    BY DEF ScanInv
<1>q. QED BY <1>1, <1>2, <1>3, ScanStepInv

\* A new checkpoint is a checkpoint.
LEMMA ScanFreshIs ==
    ASSUME ScanInv, NEW n \in ScanNodes, ScanCanDraw
    PROVE  ScanFresh(n) \in ScanCkpt /\ ScanFresh(n).scan = scanDrawn + 1
<1>1. ScanPlaceOf[n] \in ScanPlaces /\ 0 \in 0..ScanPages /\ scanDrawn + 1 \in ScanIds
    BY ScanAssumption DEF ScanPlaces, ScanCanDraw
<1>q. QED BY <1>1 DEF ScanFresh, ScanCkpt

\* A claim hands the job's checkpoint to a scan.
LEMMA ScanClaimInv == ASSUME ScanInv, NEW n \in ScanNodes, ScanClaim(n) PROVE ScanInv'
<1>1. PICK k \in Nat \ {0} : k = scanJob.lease + 1
    BY ScanTypes DEF ScanJobType
<1>2. PICK w : w = [ScanIdle EXCEPT !.pc = "adopt", !.lease = k, !.ckpt = scanJob.ckpt]
    OBVIOUS
<1>3. w \in ScanWorkType /\ w.pc = "adopt" /\ w.lease = k /\ w.ckpt = scanJob.ckpt
    BY <1>2, ScanEmpties, ScanTypes DEF ScanWorkType, ScanPc
<1>4. PICK j : j = [scanJob EXCEPT !.state = "running", !.owner = n, !.lease = @ + 1, !.attempts = @ + 1]
    OBVIOUS
<1>5. /\ j \in ScanJobType /\ j.state = "running" /\ j.owner = n /\ j.lease = k /\ j.ckpt = scanJob.ckpt
  <2>1. scanJob \in ScanJobType /\ scanJob.attempts < ScanMaxAttempts
      BY ScanTypes DEF ScanCounts, ScanClaim
  <2>2. scanJob.attempts + 1 \in 0..ScanMaxAttempts
      BY <2>1, ScanAssumption DEF ScanJobType
  <2>3. j = [scanJob EXCEPT !.state = "running", !.owner = n, !.lease = k, !.attempts = scanJob.attempts + 1]
      BY <1>1, <1>4
  <2>q. QED BY <2>1, <2>2, <2>3 DEF ScanJobType
<1>6. /\ scanWork' = [scanWork EXCEPT ![n] = w] /\ scanJob' = j
      /\ scanJob.state = "pending" /\ scanWork[n].pc = "idle"
      /\ UNCHANGED <<scanPresent, scanBook, scanGen, scanDrawn, scanFaults, scanLapses>>
    BY <1>1, <1>2, <1>4 DEF ScanClaim
<1>7. /\ scanWork' \in [ScanNodes -> ScanWorkType] /\ scanWork'[n] = w
      /\ \A m \in ScanNodes \ {n} : scanWork'[m] = scanWork[m]
    BY <1>3, <1>6, ScanWrites
<1>8. ASSUME ScanGood PROVE ScanGood'
  <2>1. \A m \in ScanNodes : ScanBusy(m) => m # n /\ scanWork[m].lease = 0
      BY <1>6, <1>8 DEF ScanGood, ScanHolds, ScanFenceHolds, ScanBusy
  <2>2. \A m \in ScanNodes \ {n} : ScanBusy(m)' <=> ScanBusy(m)
      BY <1>7 DEF ScanBusy
  <2>3. ScanHolds(n)' /\ ScanListed(n)'
      BY <1>3, <1>5, <1>6, <1>7 DEF ScanHolds, ScanListed, ScanFenceHolds
  <2>4. ASSUME NEW m \in ScanNodes \ {n}, ScanBusy(m)'
        PROVE  ScanHolds(m)' /\ ScanListed(m)'
    <3>1. scanWork[m].lease = 0 /\ ScanHolds(m) /\ ScanListed(m) /\ scanWork'[m] = scanWork[m]
        BY <1>7, <1>8, <2>1, <2>2, <2>4 DEF ScanGood
    <3>q. QED BY <1>6, <3>1 DEF ScanHolds, ScanListed, ScanGenOf, ScanCovers
  <2>5. ScanApart'
    <3> SUFFICES ASSUME NEW m \in ScanNodes, ScanBusy(m)', scanWork'[m].lease = 0
                 PROVE  /\ scanWork'[m].ckpt.scan # scanJob'.ckpt.scan
                        /\ \A q \in ScanNodes \ {m} : ScanBusy(q)' => scanWork'[q].ckpt.scan # scanWork'[m].ckpt.scan
        BY DEF ScanApart
    <3>1. m # n /\ ScanBusy(m) /\ scanWork'[m] = scanWork[m]
        BY <1>1, <1>3, <1>7, <2>2
    <3>2. /\ scanWork[m].ckpt.scan # scanJob.ckpt.scan
          /\ \A q \in ScanNodes \ {m} : ScanBusy(q) => scanWork[q].ckpt.scan # scanWork[m].ckpt.scan
        BY <1>7, <1>8, <3>1 DEF ScanGood, ScanApart
    <3>q. QED BY <1>3, <1>5, <1>6, <1>7, <2>2, <3>1, <3>2
  <2>6. ScanResumable' /\ ScanUndrawn'
      BY <1>1, <1>5, <1>6, <1>8 DEF ScanGood, ScanResumable, ScanUndrawn, ScanCovers
  <2>7. \A m \in ScanNodes : ScanBusy(m)' => (ScanHolds(m) /\ ScanListed(m))'
      BY <2>3, <2>4
  <2>q. QED BY <1>6, <1>8, <2>5, <2>6, <2>7 DEF ScanGood
<1>9. ScanTimely => ScanGood'
    BY <1>8 DEF ScanInv
<1>10. /\ scanBook \in [ScanObjects -> {"stale", "here", "cleared"}] /\ scanGen \in [ScanIds -> ScanGen]
    BY ScanTypes DEF ScanTypeOK
<1>q. QED BY <1>5, <1>6, <1>7, <1>9, <1>10, ScanStepInv

\* A scan without a job draws a generation of its own.
LEMMA ScanStartJoblessInv == ASSUME ScanInv, NEW n \in ScanNodes, ScanStartJobless(n) PROVE ScanInv'
<1>1. PICK w : w = [ScanIdle EXCEPT !.pc = "bind", !.ckpt = ScanFresh(n)]
    OBVIOUS
<1>2. /\ scanWork' = [scanWork EXCEPT ![n] = w] /\ scanDrawn' = scanDrawn + 1 /\ ScanCanDraw
      /\ UNCHANGED <<scanPresent, scanBook, scanJob, scanGen, scanFaults, scanLapses>>
    BY <1>1 DEF ScanStartJobless
<1>3. w \in ScanWorkType /\ w.pc = "bind" /\ w.ckpt = ScanFresh(n) /\ w.lease = 0
    BY <1>1, <1>2, ScanEmpties, ScanFreshIs DEF ScanWorkType, ScanPc
<1>4. ScanGood => ScanGood'
    BY <1>2, <1>3, ScanFreshStep DEF ScanCanDraw
<1>5. scanBook \in [ScanObjects -> {"stale", "here", "cleared"}] /\ scanGen \in [ScanIds -> ScanGen]
    BY ScanTypes DEF ScanTypeOK
<1>q. QED BY <1>2, <1>3, <1>4, <1>5, ScanOwnInv

\* A step of one scan that keeps the generations, the books and the job.
LEMMA ScanGoesOn ==
    ASSUME ScanInv, NEW n \in ScanNodes, ScanBusy(n), NEW w \in ScanWorkType,
           scanWork' = [scanWork EXCEPT ![n] = w], w.lease = scanWork[n].lease, w.ckpt.scan = scanWork[n].ckpt.scan,
           w.pc \notin {"idle", "report", "sweep"},
           UNCHANGED <<scanPresent, scanBook, scanJob, scanGen, scanDrawn, scanLapses>>,
           scanFaults' \in {scanFaults, scanFaults + 1},
           ScanGood => ScanHolds(n)' /\ ScanListed(n)'
    PROVE  ScanInv'
<1>1. scanWork' \in [ScanNodes -> ScanWorkType] /\ scanWork'[n] = w
    BY ScanWrites
<1>2. ASSUME ScanGood PROVE ScanGood'
  <2>1. ScanBusy(n)'
      BY <1>1 DEF ScanBusy
  <2>2. ScanResumable'
      BY <1>2 DEF ScanGood, ScanResumable, ScanCovers
  <2>3. \A o \in ScanObjects : scanBook'[o] = "cleared" => o \notin scanPresent
      BY <1>2 DEF ScanGood
  <2>4. scanGen' \in [ScanIds -> ScanGen]
      BY ScanTypes
  <2>q. QED BY <1>2, <2>1, <2>2, <2>3, <2>4, ScanOwnStep
<1>3. ScanTimely => ScanGood'
    BY <1>2 DEF ScanInv
<1>4. /\ scanJob \in ScanJobType /\ (scanJob.state = "pending" => scanJob.attempts < ScanMaxAttempts)
      /\ scanBook \in [ScanObjects -> {"stale", "here", "cleared"}] /\ scanGen \in [ScanIds -> ScanGen]
    BY ScanTypes DEF ScanTypeOK, ScanCounts
<1>q. QED BY <1>1, <1>3, <1>4, ScanStepInv

\* A claimed checkpoint is resumed, or replaced by a new one.
LEMMA ScanAdoptInv == ASSUME ScanInv, NEW n \in ScanNodes, ScanAdopt(n) PROVE ScanInv'
<1>0. /\ scanWork[n].pc = "adopt" /\ ScanBusy(n) /\ scanWork[n] \in ScanWorkType
      /\ UNCHANGED <<scanPresent, scanBook, scanJob, scanGen, scanFaults, scanLapses>>
      /\ scanWork[n].ckpt.scan \in ScanIds \cup {0}
    BY ScanTypes DEF ScanAdopt, ScanBusy, ScanCkpt
<1>1. ASSUME ScanGood
      PROVE  /\ scanWork[n].lease # 0 /\ scanWork[n].ckpt = scanJob.ckpt /\ ScanFenceHolds(n)
             /\ scanWork[n].ckpt.scan \in 0..scanDrawn
             /\ scanWork[n].ckpt.scan # 0 /\ scanGen[scanWork[n].ckpt.scan].live =>
                   /\ ~scanGen[scanWork[n].ckpt.scan].jobless
                   /\ ScanCovers(scanWork[n].ckpt.scan,
                                 IF scanWork[n].ckpt.phase = "list" THEN scanWork[n].ckpt.cur ELSE ScanPages)
    BY <1>0, <1>1 DEF ScanGood, ScanHolds, ScanResumable
<1>2. CASE /\ scanWork[n].ckpt.scan # 0 /\ ScanAdopts(n) /\ UNCHANGED scanDrawn
           /\ scanWork' = [scanWork EXCEPT ![n] = [@ EXCEPT !.pc = "match", !.todo = ScanObjects]]
  <2>1. PICK w : w = [scanWork[n] EXCEPT !.pc = "match", !.todo = ScanObjects]
      OBVIOUS
  <2>2. /\ w \in ScanWorkType /\ w.pc = "match" /\ w.lease = scanWork[n].lease /\ w.ckpt = scanWork[n].ckpt
        /\ scanWork' = [scanWork EXCEPT ![n] = w]
      BY <1>0, <1>2, <2>1 DEF ScanWorkType, ScanPc
  <2>3. scanWork'[n] = w
      BY <2>2, ScanWrites
  <2>4. ASSUME ScanGood PROVE ScanHolds(n)' /\ ScanListed(n)'
    <3>1. scanGen[scanWork[n].ckpt.scan].live /\ scanWork[n].ckpt.phase = "apply" /\ scanWork[n].ckpt.scan \in 1..scanDrawn
        BY <1>1, <1>2, <2>4, ScanTypes DEF ScanAdopts
    <3>2. ScanHolds(n)'
        BY <1>0, <1>1, <1>2, <2>2, <2>3, <2>4, <3>1 DEF ScanHolds, ScanGenOf, ScanFenceHolds
    <3>3. ScanListed(n)'
        BY <1>0, <1>1, <1>2, <2>2, <2>3, <2>4, <3>1 DEF ScanListed, ScanCovers
    <3>q. QED BY <3>2, <3>3
  <2>q. QED BY <1>0, <1>2, <2>2, <2>4, ScanGoesOn
<1>3. CASE scanWork[n].ckpt.scan # 0 /\ ScanResumes(n) /\ ScanMove(n, "bind") /\ UNCHANGED scanDrawn
  <2>1. PICK w : w = [scanWork[n] EXCEPT !.pc = "bind"]
      OBVIOUS
  <2>2. /\ w \in ScanWorkType /\ w.pc = "bind" /\ w.lease = scanWork[n].lease /\ w.ckpt = scanWork[n].ckpt
        /\ scanWork' = [scanWork EXCEPT ![n] = w]
      BY <1>0, <1>3, <2>1 DEF ScanWorkType, ScanPc, ScanMove
  <2>3. scanWork'[n] = w
      BY <2>2, ScanWrites
  <2>4. ASSUME ScanGood PROVE ScanHolds(n)' /\ ScanListed(n)'
    <3>1. scanGen[scanWork[n].ckpt.scan].live /\ scanWork[n].ckpt.phase = "list" /\ scanWork[n].ckpt.scan \in 1..scanDrawn
        BY <1>1, <1>3, <2>4, ScanTypes DEF ScanResumes
    <3>2. ScanHolds(n)'
        BY <1>0, <1>1, <1>3, <2>2, <2>3, <2>4, <3>1 DEF ScanHolds, ScanGenOf, ScanFenceHolds
    <3>3. ScanListed(n)'
        BY <1>0, <1>1, <1>3, <2>2, <2>3, <2>4, <3>1 DEF ScanListed, ScanCovers
    <3>q. QED BY <3>2, <3>3
  <2>q. QED BY <1>0, <1>3, <2>2, <2>4, ScanGoesOn
<1>4. CASE /\ ScanCanDraw /\ scanDrawn' = scanDrawn + 1
           /\ scanWork' = [scanWork EXCEPT ![n] = [@ EXCEPT !.pc = "bind", !.ckpt = ScanFresh(n)]]
  <2>1. PICK w : w = [scanWork[n] EXCEPT !.pc = "bind", !.ckpt = ScanFresh(n)]
      OBVIOUS
  <2>2. /\ w \in ScanWorkType /\ w.pc = "bind" /\ w.lease = scanWork[n].lease /\ w.ckpt = ScanFresh(n)
        /\ scanWork' = [scanWork EXCEPT ![n] = w]
      BY <1>0, <1>4, <2>1, ScanFreshIs DEF ScanWorkType, ScanPc
  <2>3. ScanGood => ScanGood'
      BY <1>0, <1>4, <2>2, ScanFreshStep DEF ScanCanDraw
  <2>4. scanBook \in [ScanObjects -> {"stale", "here", "cleared"}] /\ scanGen \in [ScanIds -> ScanGen]
      BY ScanTypes DEF ScanTypeOK
  <2>q. QED BY <1>0, <1>4, <2>2, <2>3, <2>4, ScanOwnInv
<1>q. QED BY <1>2, <1>3, <1>4 DEF ScanAdopt

\* A scan past the adoption: its generation, and what is said of it.
LEMMA ScanMine ==
    ASSUME ScanInv, ScanGood, NEW n \in ScanNodes, ScanBusy(n), scanWork[n].pc # "adopt"
    PROVE  /\ ScanHolds(n) /\ ScanListed(n)
           /\ scanWork[n].ckpt.scan \in 1..scanDrawn /\ scanWork[n].ckpt.scan \in ScanIds
<1>1. ScanHolds(n) /\ ScanListed(n)
    BY DEF ScanGood
<1>2. scanWork[n].ckpt.scan \in 1..scanDrawn
    BY <1>1 DEF ScanHolds
<1>3. scanWork[n].ckpt.scan \in ScanIds \cup {0}
    BY ScanTypes DEF ScanCkpt
<1>q. QED BY <1>1, <1>2, <1>3, ScanTypes

\* A step of one scan that changes its own generation to g, in the good states.
LEMMA ScanGenStep ==
    ASSUME ScanInv, NEW n \in ScanNodes, ScanBusy(n), scanWork[n].pc # "adopt", NEW w \in ScanWorkType,
           scanWork' = [scanWork EXCEPT ![n] = w], w.lease = scanWork[n].lease, w.ckpt.scan = scanWork[n].ckpt.scan,
           w.pc \notin {"idle", "report", "sweep"},
           scanGen' \in [ScanIds -> ScanGen],
           \A t \in ScanIds \ {w.ckpt.scan} : scanGen'[t] = scanGen[t],
           ScanGood => /\ scanGen[w.ckpt.scan].rows \subseteq scanGen'[w.ckpt.scan].rows
                       /\ w.ckpt.scan = scanJob.ckpt.scan =>
                            scanGen[w.ckpt.scan].live /\ ~scanGen'[w.ckpt.scan].jobless,
           UNCHANGED <<scanPresent, scanBook, scanJob, scanDrawn, scanFaults, scanLapses>>,
           ScanGood => ScanHolds(n)' /\ ScanListed(n)'
    PROVE  ScanInv'
<1>1. scanWork' \in [ScanNodes -> ScanWorkType] /\ scanWork'[n] = w
    BY ScanWrites
<1>2. ASSUME ScanGood PROVE ScanGood'
  <2>1. ScanBusy(n)'
      BY <1>1 DEF ScanBusy
  <2>2. w.ckpt.scan \in 1..scanDrawn
      BY <1>2, ScanMine
  <2>3. ScanResumable'
    <3>1. scanJob.ckpt.scan \in ScanIds \cup {0}
        BY ScanTypes DEF ScanCkpt
    <3>2. CASE scanJob.ckpt.scan # w.ckpt.scan
        BY <1>2, <3>1, <3>2 DEF ScanGood, ScanResumable, ScanCovers
    <3>3. CASE scanJob.ckpt.scan = w.ckpt.scan
      <4>1. /\ scanGen[scanJob.ckpt.scan].live /\ ~scanGen'[scanJob.ckpt.scan].jobless
            /\ scanGen[scanJob.ckpt.scan].rows \subseteq scanGen'[scanJob.ckpt.scan].rows
          BY <1>2, <3>3
      <4>q. QED BY <1>2, <4>1 DEF ScanGood, ScanResumable, ScanCovers
    <3>q. QED BY <3>2, <3>3
  <2>4. \A o \in ScanObjects : scanBook'[o] = "cleared" => o \notin scanPresent
      BY <1>2 DEF ScanGood
  <2>q. QED BY <1>2, <2>1, <2>2, <2>3, <2>4, ScanOwnStep
<1>3. scanBook \in [ScanObjects -> {"stale", "here", "cleared"}]
    BY ScanTypes DEF ScanTypeOK
<1>q. QED BY <1>2, <1>3, ScanOwnInv

\* The generation row is written, or found.
LEMMA ScanBindInv == ASSUME ScanInv, NEW n \in ScanNodes, ScanBind(n) PROVE ScanInv'
<1>0. /\ scanWork[n].pc = "bind" /\ ScanBusy(n) /\ scanWork[n] \in ScanWorkType
      /\ UNCHANGED <<scanPresent, scanBook, scanJob, scanDrawn, scanFaults, scanLapses>>
    BY ScanTypes DEF ScanBind, ScanBusy
<1>1. PICK s : s = scanWork[n].ckpt.scan
    OBVIOUS
<1>2. PICK g : g = [scanGen[s] EXCEPT !.live = TRUE, !.fresh = TRUE, !.done = scanGen[s].live /\ scanGen[s].done,
                      !.jobless = scanWork[n].lease = 0 /\ (scanGen[s].live => scanGen[s].jobless)]
    OBVIOUS
<1>3. PICK w : \E pc \in {"save", "page"} : w = [scanWork[n] EXCEPT !.pc = pc] /\ ScanMove(n, pc)
    BY DEF ScanBind
<1>4. /\ w \in ScanWorkType /\ w.pc \in {"save", "page"} /\ w.lease = scanWork[n].lease /\ w.ckpt = scanWork[n].ckpt
      /\ scanWork' = [scanWork EXCEPT ![n] = w]
    BY <1>0, <1>3 DEF ScanWorkType, ScanPc, ScanMove
<1>5. scanWork'[n] = w
    BY <1>4, ScanWrites
<1>6. scanGen' = [scanGen EXCEPT ![s] = g]
    BY <1>1, <1>2 DEF ScanBind
<1>7. s \in ScanIds => /\ g \in ScanGen /\ scanGen'[s] = g /\ g.live /\ g.fresh /\ g.rows = scanGen[s].rows
                       /\ g.jobless <=> scanWork[n].lease = 0 /\ (scanGen[s].live => scanGen[s].jobless)
    BY <1>2, <1>6, ScanTypes DEF ScanGen
<1>8. scanGen' \in [ScanIds -> ScanGen] /\ \A t \in ScanIds \ {s} : scanGen'[t] = scanGen[t]
    BY <1>6, <1>7, ScanTypes
<1>9. ASSUME ScanGood
      PROVE  /\ ScanHolds(n)' /\ ScanListed(n)'
             /\ scanGen[s].rows \subseteq scanGen'[s].rows
             /\ s = scanJob.ckpt.scan => scanGen[s].live /\ ~scanGen'[s].jobless
  <2>1. /\ ScanHolds(n) /\ ScanListed(n) /\ s \in ScanIds /\ s \in 1..scanDrawn
      BY <1>0, <1>1, <1>9, ScanMine
  <2>2. g.jobless <=> scanWork[n].lease = 0
      BY <1>0, <1>1, <1>7, <2>1 DEF ScanHolds, ScanGenOf
  <2>3. ScanHolds(n)'
      BY <1>0, <1>1, <1>4, <1>5, <1>7, <2>1, <2>2 DEF ScanHolds, ScanGenOf, ScanFenceHolds
  <2>4. ScanListed(n)'
      BY <1>0, <1>1, <1>4, <1>5, <1>7, <2>1 DEF ScanListed, ScanCovers
  <2>5. s = scanJob.ckpt.scan => scanWork[n].lease # 0
      BY <1>0, <1>1, <1>9 DEF ScanGood, ScanApart
  <2>6. s = scanJob.ckpt.scan => scanGen[s].live
      BY <1>0, <1>1, <2>1, <2>5 DEF ScanHolds, ScanGenOf
  <2>q. QED BY <1>7, <2>1, <2>2, <2>3, <2>4, <2>5, <2>6
<1>q. QED BY <1>0, <1>1, <1>4, <1>8, <1>9, ScanGenStep

\* The inventory is marked complete.
LEMMA ScanCompleteInv == ASSUME ScanInv, NEW n \in ScanNodes, ScanComplete(n) PROVE ScanInv'
<1>0. /\ scanWork[n].pc = "complete" /\ ScanBusy(n) /\ scanWork[n] \in ScanWorkType
      /\ UNCHANGED <<scanPresent, scanBook, scanJob, scanDrawn, scanFaults, scanLapses>>
    BY ScanTypes DEF ScanComplete, ScanBusy
<1>1. PICK s : s = scanWork[n].ckpt.scan
    OBVIOUS
<1>2. PICK g : g = [scanGen[s] EXCEPT !.done = scanGen[s].live]
    OBVIOUS
<1>3. PICK w : w = [scanWork[n] EXCEPT !.pc = "apply"]
    OBVIOUS
<1>4. /\ w \in ScanWorkType /\ w.pc = "apply" /\ w.lease = scanWork[n].lease /\ w.ckpt = scanWork[n].ckpt
      /\ scanWork' = [scanWork EXCEPT ![n] = w]
    BY <1>0, <1>3 DEF ScanWorkType, ScanPc, ScanMove, ScanComplete
<1>5. scanWork'[n] = w
    BY <1>4, ScanWrites
<1>6. scanGen' = [scanGen EXCEPT ![s] = g]
    BY <1>1, <1>2 DEF ScanComplete
<1>7. s \in ScanIds => /\ g \in ScanGen /\ scanGen'[s] = g /\ g.live = scanGen[s].live /\ g.fresh = scanGen[s].fresh
                       /\ g.rows = scanGen[s].rows /\ g.jobless = scanGen[s].jobless
    BY <1>2, <1>6, ScanTypes DEF ScanGen
<1>8. scanGen' \in [ScanIds -> ScanGen] /\ \A t \in ScanIds \ {s} : scanGen'[t] = scanGen[t]
    BY <1>6, <1>7, ScanTypes
<1>9. ASSUME ScanGood
      PROVE  /\ ScanHolds(n)' /\ ScanListed(n)'
             /\ scanGen[s].rows \subseteq scanGen'[s].rows
             /\ s = scanJob.ckpt.scan => scanGen[s].live /\ ~scanGen'[s].jobless
  <2>1. /\ ScanHolds(n) /\ ScanListed(n) /\ s \in ScanIds /\ s \in 1..scanDrawn
      BY <1>0, <1>1, <1>9, ScanMine
  <2>3. ScanHolds(n)'
      BY <1>0, <1>1, <1>4, <1>5, <1>7, <2>1 DEF ScanHolds, ScanGenOf, ScanFenceHolds
  <2>4. ScanListed(n)'
      BY <1>0, <1>1, <1>4, <1>5, <1>7, <2>1 DEF ScanListed, ScanCovers
  <2>5. s = scanJob.ckpt.scan => scanWork[n].lease # 0
      BY <1>0, <1>1, <1>9 DEF ScanGood, ScanApart
  <2>6. s = scanJob.ckpt.scan => scanGen[s].live /\ ~scanGen[s].jobless
      BY <1>0, <1>1, <2>1, <2>5 DEF ScanHolds, ScanGenOf
  <2>q. QED BY <1>7, <2>1, <2>3, <2>4, <2>5, <2>6
<1>q. QED BY <1>0, <1>1, <1>4, <1>8, <1>9, ScanGenStep

\* An invalid cursor: the inventory is wiped and starts anew.
LEMMA ScanWipeInv == ASSUME ScanInv, NEW n \in ScanNodes, ScanWipe(n) PROVE ScanInv'
<1>0. /\ scanWork[n].pc = "wipe" /\ ScanBusy(n) /\ scanWork[n] \in ScanWorkType
      /\ ScanCanDraw /\ scanDrawn' = scanDrawn + 1 /\ ScanDrop(scanWork[n].ckpt.scan)
      /\ UNCHANGED <<scanPresent, scanBook, scanJob, scanFaults, scanLapses>>
    BY ScanTypes DEF ScanWipe, ScanBusy
<1>1. PICK w : w = [scanWork[n] EXCEPT !.pc = "bind", !.ckpt = ScanFresh(n), !.again = TRUE]
    OBVIOUS
<1>2. /\ w \in ScanWorkType /\ w.pc = "bind" /\ w.lease = scanWork[n].lease /\ w.ckpt = ScanFresh(n)
      /\ scanWork' = [scanWork EXCEPT ![n] = w]
    BY <1>0, <1>1, ScanFreshIs DEF ScanWorkType, ScanPc, ScanWipe
<1>3. ScanGood => ScanGood'
    BY <1>0, <1>2, ScanFreshStep DEF ScanCanDraw
<1>4. scanBook \in [ScanObjects -> {"stale", "here", "cleared"}] /\ scanGen' \in [ScanIds -> ScanGen]
    BY <1>0, ScanTypes, ScanEmpties DEF ScanTypeOK, ScanDrop
<1>q. QED BY <1>0, <1>2, <1>3, <1>4, ScanOwnInv

\* One book is matched against a complete inventory.
LEMMA ScanMatchBookInv == ASSUME ScanInv, NEW n \in ScanNodes, ScanMatchBook(n) PROVE ScanInv'
<1>0. /\ scanWork[n].pc = "match" /\ ScanBusy(n) /\ scanWork[n] \in ScanWorkType /\ scanWork[n].todo # {}
      /\ UNCHANGED <<scanPresent, scanJob, scanGen, scanDrawn, scanFaults, scanLapses>>
    BY ScanTypes DEF ScanMatchBook, ScanBusy
<1>a. PICK o : o = CHOOSE x \in scanWork[n].todo : \A y \in scanWork[n].todo : x <= y
    OBVIOUS
<1>b. PICK status \in {"here", "cleared"} : status = IF ScanFinds(n, o) THEN "here" ELSE "cleared"
    OBVIOUS
<1>c. PICK pc \in {"finish", "match"} : pc = IF scanWork[n].todo = {o} THEN "finish" ELSE "match"
    OBVIOUS
<1>1. /\ status = IF ScanFinds(n, o) THEN "here" ELSE "cleared"
      /\ scanBook' = [scanBook EXCEPT ![o] = status]
      /\ scanWork' = [scanWork EXCEPT ![n] = [scanWork[n] EXCEPT !.todo = scanWork[n].todo \ {o}, !.pc = pc]]
    BY <1>a, <1>b, <1>c DEF ScanMatchBook
<1>2. PICK w : w = [scanWork[n] EXCEPT !.todo = scanWork[n].todo \ {o}, !.pc = pc]
    OBVIOUS
<1>3. /\ w \in ScanWorkType /\ w.pc \in {"finish", "match"} /\ w.lease = scanWork[n].lease /\ w.ckpt = scanWork[n].ckpt
      /\ scanWork' = [scanWork EXCEPT ![n] = w]
    BY <1>0, <1>1, <1>2 DEF ScanWorkType, ScanPc
<1>4. scanWork'[n] = w
    BY <1>3, ScanWrites
<1>5. /\ scanBook' \in [ScanObjects -> {"stale", "here", "cleared"}]
      /\ \A x \in ScanObjects : scanBook'[x] = IF x = o THEN status ELSE scanBook[x]
    BY <1>1, ScanTypes DEF ScanTypeOK
<1>6. ASSUME ScanGood PROVE ScanGood'
  <2>1. ScanHolds(n) /\ ScanListed(n)
      BY <1>0, <1>6, ScanMine
  <2>2. ScanHolds(n)' /\ ScanListed(n)' /\ ScanBusy(n)'
      BY <1>0, <1>3, <1>4, <2>1 DEF ScanHolds, ScanListed, ScanGenOf, ScanFenceHolds, ScanCovers, ScanBusy
  <2>3. scanPresent \subseteq scanGen[scanWork[n].ckpt.scan].rows
    <3>1. scanPresent \subseteq 1..ScanPages
        BY ScanTypes DEF ScanTypeOK, ScanObjects
    <3>2. ScanCovers(scanWork[n].ckpt.scan, ScanPages)
        BY <1>0, <2>1 DEF ScanListed
    <3>q. QED BY <3>1, <3>2 DEF ScanCovers
  <2>4. status = "cleared" => o \notin scanPresent
      BY <1>1, <2>3 DEF ScanFinds
  <2>5. \A x \in ScanObjects : scanBook'[x] = "cleared" => x \notin scanPresent
      BY <1>5, <1>6, <2>4 DEF ScanGood
  <2>6. ScanResumable'
      BY <1>0, <1>6 DEF ScanGood, ScanResumable, ScanCovers
  <2>7. scanGen' \in [ScanIds -> ScanGen]
      BY <1>0, ScanTypes
  <2>q. QED BY <1>0, <1>3, <1>6, <2>2, <2>5, <2>6, <2>7, ScanOwnStep
<1>7. scanGen' \in [ScanIds -> ScanGen]
    BY <1>0, ScanTypes
<1>q. QED BY <1>0, <1>3, <1>5, <1>6, <1>7, ScanOwnInv

\* The generation is deleted at the end of the scan.
LEMMA ScanFinishInv == ASSUME ScanInv, NEW n \in ScanNodes, ScanFinish(n) PROVE ScanInv'
<1>0. /\ scanWork[n].pc = "finish" /\ ScanBusy(n) /\ scanWork[n] \in ScanWorkType
      /\ UNCHANGED <<scanPresent, scanBook, scanJob, scanDrawn, scanLapses>>
    BY ScanTypes DEF ScanFinish, ScanBusy
<1>1. PICK w : w = IF scanWork[n].lease = 0 THEN ScanIdle ELSE [scanWork[n] EXCEPT !.pc = "report", !.ok = TRUE]
    OBVIOUS
<1>2. w \in ScanWorkType /\ w.pc \in {"idle", "report"}
    BY <1>0, <1>1, ScanEmpties DEF ScanWorkType, ScanPc
<1>3. CASE ScanDrop(scanWork[n].ckpt.scan) /\ scanWork' = [scanWork EXCEPT ![n] = w] /\ UNCHANGED scanFaults
  <2>1. /\ scanWork' \in [ScanNodes -> ScanWorkType] /\ scanWork'[n] = w
        /\ \A m \in ScanNodes \ {n} : scanWork'[m] = scanWork[m]
      BY <1>2, <1>3, ScanWrites
  <2>2. ~ScanBusy(n)' /\ \A m \in ScanNodes : scanWork'[m] = scanWork[m] \/ ~ScanBusy(m)'
      BY <1>2, <2>1 DEF ScanBusy
  <2>3. /\ scanGen' \in [ScanIds -> ScanGen]
        /\ \A t \in ScanIds : \/ scanGen'[t] = scanGen[t]
                              \/ scanGen'[t] = NoScanGen /\ t = scanWork[n].ckpt.scan
      BY <1>3, ScanTypes, ScanEmpties DEF ScanDrop
  <2>q. QED BY <1>0, <1>3, <2>1, <2>2, <2>3, ScanReclaims
<1>4. CASE scanFaults' = scanFaults + 1 /\ scanWork' = [scanWork EXCEPT ![n] = w] /\ UNCHANGED scanGen
    BY <1>0, <1>2, <1>4, ScanStops
<1>5. CASE ScanFailed(n) /\ UNCHANGED <<scanGen, scanFaults>>
    BY <1>0, <1>5, ScanFailedInv
<1>q. QED BY <1>1, <1>3, <1>4, <1>5 DEF ScanFinish

\* A page is listed: its object, when it is there, is in the inventory.
LEMMA ScanListsInv ==
    ASSUME ScanInv, NEW n \in ScanNodes, scanWork[n].pc = "page", NEW o, o = scanWork[n].ckpt.cur + 1,
           scanGen' = [scanGen EXCEPT ![scanWork[n].ckpt.scan].rows = @ \cup ({o} \cap scanPresent)],
           NEW v, v = [scanWork[n] EXCEPT !.pc = "save", !.ckpt = [scanWork[n].ckpt EXCEPT !.cur = o]],
           o < ScanPages => scanWork' = [scanWork EXCEPT ![n] = v],
           ~(o < ScanPages) => scanWork' = [scanWork EXCEPT ![n].pc = "complete"],
           UNCHANGED <<scanPresent, scanBook, scanJob, scanDrawn, scanFaults, scanLapses>>
    PROVE  ScanInv'
<1>0. /\ ScanBusy(n) /\ scanWork[n] \in ScanWorkType /\ scanWork[n].ckpt \in ScanCkpt
      /\ scanWork[n].ckpt.cur \in 0..ScanPages /\ ScanPages \in Nat /\ o \in Nat \ {0}
    BY ScanTypes, ScanAssumption DEF ScanBusy, ScanCkpt
<1>1. PICK s : s = scanWork[n].ckpt.scan
    OBVIOUS
<1>2. PICK g : g = [scanGen[s] EXCEPT !.rows = scanGen[s].rows \cup ({o} \cap scanPresent)]
    OBVIOUS
<1>3. PICK c \in ScanCkpt : /\ c.scan = s /\ c.phase = scanWork[n].ckpt.phase
                            /\ c.cur = (IF o < ScanPages THEN o ELSE scanWork[n].ckpt.cur)
                            /\ o < ScanPages => c = [scanWork[n].ckpt EXCEPT !.cur = o]
                            /\ ~(o < ScanPages) => c = scanWork[n].ckpt
  <2>1. CASE o < ScanPages
    <3>1. o \in 0..ScanPages
        BY <1>0, <2>1
    <3>2. PICK c : c = [scanWork[n].ckpt EXCEPT !.cur = o]
        OBVIOUS
    <3>3. c \in ScanCkpt /\ c.scan = s /\ c.phase = scanWork[n].ckpt.phase /\ c.cur = o
        BY <1>0, <1>1, <3>1, <3>2 DEF ScanCkpt
    <3>q. QED BY <2>1, <3>2, <3>3
  <2>2. CASE ~(o < ScanPages)
      BY <1>0, <1>1, <2>2
  <2>q. QED BY <2>1, <2>2
<1>4. PICK pc \in {"save", "complete"} : pc = IF o < ScanPages THEN "save" ELSE "complete"
    OBVIOUS
<1>5. PICK w : w = [scanWork[n] EXCEPT !.pc = pc, !.ckpt = c]
    OBVIOUS
<1>6. /\ w \in ScanWorkType /\ w.pc = pc /\ w.lease = scanWork[n].lease /\ w.ckpt = c
    BY <1>0, <1>5 DEF ScanWorkType, ScanPc
<1>7. scanWork' = [scanWork EXCEPT ![n] = w]
  <2>1. CASE o < ScanPages
    <3>1. w = v
        BY <1>3, <1>4, <1>5, <2>1
    <3>q. QED BY <2>1, <3>1
  <2>2. CASE ~(o < ScanPages)
    <3>1. w = [scanWork[n] EXCEPT !.pc = "complete"]
        BY <1>0, <1>3, <1>4, <1>5, <2>2 DEF ScanWorkType
    <3>q. QED BY <2>2, <3>1
  <2>q. QED BY <2>1, <2>2
<1>8. scanWork'[n] = w
    BY <1>6, <1>7, ScanWrites
<1>9. scanGen' = [scanGen EXCEPT ![s] = g]
    BY <1>1, <1>2
<1>10. s \in ScanIds => /\ g \in ScanGen /\ scanGen'[s] = g /\ g.live = scanGen[s].live /\ g.fresh = scanGen[s].fresh
                        /\ g.rows = scanGen[s].rows \cup ({o} \cap scanPresent) /\ g.jobless = scanGen[s].jobless
  <2>1. PICK rows : rows = scanGen[s].rows \cup ({o} \cap scanPresent)
      OBVIOUS
  <2>2. g = [scanGen[s] EXCEPT !.rows = rows]
      BY <1>2, <2>1
  <2>3. ASSUME s \in ScanIds PROVE scanGen[s] \in ScanGen /\ rows \in SUBSET ScanObjects
    <3>1. scanGen[s] \in ScanGen
        BY <2>3, ScanTypes
    <3>2. scanPresent \subseteq ScanObjects /\ scanGen[s].rows \subseteq ScanObjects
        BY <3>1, ScanTypes DEF ScanTypeOK, ScanGen
    <3>q. QED BY <2>1, <3>1, <3>2
  <2>4. ASSUME s \in ScanIds
        PROVE  /\ g \in ScanGen /\ g.live = scanGen[s].live /\ g.fresh = scanGen[s].fresh
               /\ g.rows = rows /\ g.jobless = scanGen[s].jobless
      BY <2>2, <2>3, <2>4 DEF ScanGen
  <2>5. s \in ScanIds => scanGen'[s] = g
      BY <1>9, ScanTypes
  <2>q. QED BY <2>1, <2>4, <2>5
<1>11. scanGen' \in [ScanIds -> ScanGen] /\ \A t \in ScanIds \ {s} : scanGen'[t] = scanGen[t]
  <2>1. s \in ScanIds => g \in ScanGen
      BY <1>10
  <2>q. QED BY <1>9, <2>1, ScanGenWrites
<1>12. ASSUME ScanGood
       PROVE  /\ ScanHolds(n)' /\ ScanListed(n)'
              /\ scanGen[s].rows \subseteq scanGen'[s].rows
              /\ s = scanJob.ckpt.scan => scanGen[s].live /\ ~scanGen'[s].jobless
  <2>1. /\ ScanHolds(n) /\ ScanListed(n) /\ s \in ScanIds /\ s \in 1..scanDrawn
      BY <1>0, <1>1, <1>12, ScanMine
  <2>2. /\ scanWork'[n].ckpt.scan = s /\ scanWork'[n].pc \in {"save", "complete"} /\ scanWork'[n].lease = scanWork[n].lease
        /\ scanGen'[s] = g /\ g.live = scanGen[s].live /\ g.fresh = scanGen[s].fresh /\ g.jobless = scanGen[s].jobless
      BY <1>3, <1>4, <1>6, <1>8, <1>10, <2>1
  <2>3. ScanHolds(n)'
      BY <1>1, <2>1, <2>2 DEF ScanHolds, ScanGenOf, ScanFenceHolds
  <2>4. ScanListed(n)'
    <3>1. scanWork[n].ckpt.phase = "list" /\ scanPresent \cap (1..scanWork[n].ckpt.cur) \subseteq scanGen[s].rows
        BY <1>1, <2>1 DEF ScanListed, ScanCovers
    <3>2. \A x \in 1..o : x \in 1..scanWork[n].ckpt.cur \/ x = o
        BY <1>0
    <3>3. scanPresent \cap (1..o) \subseteq g.rows
        BY <1>10, <2>1, <3>1, <3>2
    <3>4. ~(o < ScanPages) => 1..ScanPages \subseteq 1..o
        BY <1>0
    <3>5. ~(o < ScanPages) => scanPresent \cap (1..ScanPages) \subseteq g.rows
        BY <3>3, <3>4
    <3>q. QED BY <1>3, <1>4, <1>6, <1>8, <1>10, <2>1, <3>1, <3>3, <3>5 DEF ScanListed, ScanCovers
  <2>5. s = scanJob.ckpt.scan => scanWork[n].lease # 0
      BY <1>0, <1>1, <1>12 DEF ScanGood, ScanApart
  <2>6. s = scanJob.ckpt.scan => scanGen[s].live /\ ~scanGen[s].jobless
      BY <1>1, <2>1, <2>5 DEF ScanHolds, ScanGenOf
  <2>q. QED BY <1>10, <2>1, <2>3, <2>4, <2>5, <2>6
<1>13. w.ckpt.scan = s /\ w.ckpt.scan = scanWork[n].ckpt.scan
    BY <1>1, <1>3, <1>6
<1>14. w.pc \notin {"idle", "report", "sweep"} /\ scanWork[n].pc # "adopt"
    BY <1>4, <1>6
<1>15. \A t \in ScanIds \ {w.ckpt.scan} : scanGen'[t] = scanGen[t]
    BY <1>11, <1>13
<1>16. ScanGood => /\ scanGen[w.ckpt.scan].rows \subseteq scanGen'[w.ckpt.scan].rows
                   /\ w.ckpt.scan = scanJob.ckpt.scan =>
                        scanGen[w.ckpt.scan].live /\ ~scanGen'[w.ckpt.scan].jobless
    BY <1>12, <1>13
<1>17. ScanGood => ScanHolds(n)' /\ ScanListed(n)'
    BY <1>12
<1>18. w \in ScanWorkType /\ w.lease = scanWork[n].lease
    BY <1>6
<1>19. scanGen' \in [ScanIds -> ScanGen]
    BY <1>11
<1>20. ScanBusy(n)
    BY <1>0
<1>q. QED BY <1>7, <1>13, <1>14, <1>15, <1>16, <1>17, <1>18, <1>19, <1>20, ScanGenStep

\* One page of the listing.
LEMMA ScanPageInv == ASSUME ScanInv, NEW n \in ScanNodes, ScanPage(n) PROVE ScanInv'
<1>0. /\ scanWork[n].pc = "page" /\ ScanBusy(n) /\ scanWork[n] \in ScanWorkType
      /\ UNCHANGED <<scanPresent, scanBook, scanJob, scanDrawn, scanLapses>>
    BY ScanTypes DEF ScanPage, ScanBusy
<1>1. CASE ScanFailed(n) /\ UNCHANGED scanGen /\ scanFaults' \in {scanFaults, scanFaults + 1}
    BY <1>0, <1>1, ScanFailedInv
<1>2. CASE ScanMove(n, "wipe") /\ UNCHANGED scanGen /\ scanFaults' = scanFaults + 1
  <2>1. PICK w : w = [scanWork[n] EXCEPT !.pc = "wipe"]
      OBVIOUS
  <2>2. /\ w \in ScanWorkType /\ w.pc = "wipe" /\ w.lease = scanWork[n].lease /\ w.ckpt = scanWork[n].ckpt
        /\ scanWork' = [scanWork EXCEPT ![n] = w]
      BY <1>0, <1>2, <2>1 DEF ScanWorkType, ScanPc, ScanMove
  <2>3. scanWork'[n] = w
      BY <2>2, ScanWrites
  <2>4. ASSUME ScanGood PROVE ScanHolds(n)' /\ ScanListed(n)'
    <3>1. ScanHolds(n)
        BY <1>0, <2>4, ScanMine
    <3>q. QED BY <1>0, <1>2, <2>2, <2>3, <3>1 DEF ScanHolds, ScanListed, ScanGenOf, ScanFenceHolds
  <2>q. QED BY <1>0, <1>2, <2>2, <2>4, ScanGoesOn
<1>3. PICK o : o = scanWork[n].ckpt.cur + 1
    OBVIOUS
<1>v. PICK v : v = [scanWork[n] EXCEPT !.pc = "save", !.ckpt = [scanWork[n].ckpt EXCEPT !.cur = o]]
    OBVIOUS
<1>4. CASE /\ scanGen' = [scanGen EXCEPT ![scanWork[n].ckpt.scan].rows = @ \cup ({o} \cap scanPresent)]
           /\ scanWork' = IF o < ScanPages
                          THEN [scanWork EXCEPT ![n] = v]
                          ELSE [scanWork EXCEPT ![n].pc = "complete"]
           /\ UNCHANGED scanFaults
  <2>1. /\ o < ScanPages => scanWork' = [scanWork EXCEPT ![n] = v]
        /\ ~(o < ScanPages) => scanWork' = [scanWork EXCEPT ![n].pc = "complete"]
      BY <1>4
  <2>q. QED BY <1>0, <1>3, <1>v, <1>4, <2>1, ScanListsInv
<1>q. QED BY <1>1, <1>2, <1>3, <1>v, <1>4 DEF ScanPage

\* A scan saves its checkpoint and goes on, or has lost its fence.
LEMMA ScanPersistInv ==
    ASSUME ScanInv, NEW n \in ScanNodes, scanWork[n].pc \in {"save", "apply"},
           NEW w \in ScanWorkType, w.lease = scanWork[n].lease, w.ckpt.scan = scanWork[n].ckpt.scan,
           ScanPersist(n, [scanWork EXCEPT ![n] = w]),
           NEW g, scanGen' = [scanGen EXCEPT ![scanWork[n].ckpt.scan] = g],
           scanWork[n].ckpt.scan \in ScanIds =>
              /\ g \in ScanGen /\ g.live = scanGen[scanWork[n].ckpt.scan].live
              /\ g.rows = scanGen[scanWork[n].ckpt.scan].rows /\ g.jobless = scanGen[scanWork[n].ckpt.scan].jobless
              /\ scanGen[scanWork[n].ckpt.scan].fresh => g.fresh,
           \/ scanWork[n].pc = "save" /\ w.pc = "page" /\ w.ckpt = scanWork[n].ckpt
           \/ scanWork[n].pc = "apply" /\ w.pc = "match" /\ w.ckpt.phase = "apply" /\ g = scanGen[scanWork[n].ckpt.scan],
           UNCHANGED <<scanPresent, scanBook, scanDrawn, scanFaults, scanLapses>>
    PROVE  ScanInv'
<1>0. ScanBusy(n) /\ scanWork[n] \in ScanWorkType /\ scanWork[n].pc # "adopt"
    BY ScanTypes DEF ScanBusy
<1>1. PICK s : s = scanWork[n].ckpt.scan
    OBVIOUS
<1>2. /\ scanGen' \in [ScanIds -> ScanGen] /\ \A t \in ScanIds \ {s} : scanGen'[t] = scanGen[t]
      /\ s \in ScanIds => scanGen'[s] = g
    BY <1>1, ScanTypes
<1>3. /\ scanBook \in [ScanObjects -> {"stale", "here", "cleared"}]
      /\ scanJob \in ScanJobType /\ (scanJob.state = "pending" => scanJob.attempts < ScanMaxAttempts)
    BY ScanTypes DEF ScanTypeOK, ScanCounts
<1>4. CASE scanWork[n].lease # 0 /\ ~ScanFenceHolds(n) /\ ScanFailed(n) /\ UNCHANGED scanJob
  <2>1. PICK v : v = [scanWork[n] EXCEPT !.pc = "report", !.ok = FALSE]
      OBVIOUS
  <2>2. v \in ScanWorkType /\ scanWork' = [scanWork EXCEPT ![n] = v]
      BY <1>0, <1>4, <2>1 DEF ScanFailed, ScanWorkType, ScanPc
  <2>3. scanWork' \in [ScanNodes -> ScanWorkType]
      BY <2>2, ScanWrites
  <2>4. ~ScanGood
      BY <1>0, <1>4 DEF ScanGood, ScanHolds
  <2>5. ScanTimely => ScanGood'
      BY <2>4 DEF ScanInv
  <2>q. QED BY <1>2, <1>3, <1>4, <2>3, <2>5, ScanStepInv
<1>5. CASE /\ scanWork' = [scanWork EXCEPT ![n] = w]
           /\ \/ scanWork[n].lease = 0 /\ UNCHANGED scanJob
              \/ ScanFenceHolds(n) /\ ScanPersisted(n)
  <2>1. /\ scanWork' \in [ScanNodes -> ScanWorkType] /\ scanWork'[n] = w
      BY <1>5, ScanWrites
  <2>2. /\ scanJob' \in ScanJobType
        /\ scanJob'.state = scanJob.state /\ scanJob'.lease = scanJob.lease /\ scanJob'.owner = scanJob.owner
        /\ scanJob'.attempts = scanJob.attempts
        /\ \/ scanWork[n].lease = 0 /\ scanJob'.ckpt = scanJob.ckpt
           \/ ScanFenceHolds(n) /\ scanJob'.ckpt = w.ckpt
    <3>1. w.ckpt \in ScanCkpt
        BY DEF ScanWorkType
    <3>q. QED BY <1>3, <1>5, <2>1, <3>1 DEF ScanPersisted, ScanJobType
  <2>3. ASSUME ScanGood PROVE ScanGood'
    <3>1. ScanHolds(n) /\ ScanListed(n) /\ s \in ScanIds /\ s \in 1..scanDrawn
        BY <1>0, <1>1, <2>3, ScanMine
    <3>2. /\ scanGen'[s] = g /\ g.live /\ (g.jobless <=> scanWork[n].lease = 0)
          /\ g.rows = scanGen[s].rows /\ (scanWork[n].lease = 0 => g.fresh)
        BY <1>1, <1>2, <3>1 DEF ScanHolds, ScanGenOf
    <3>3. /\ w.pc = "page" => w.ckpt.phase = "list" /\ scanPresent \cap (1..w.ckpt.cur) \subseteq g.rows
          /\ w.pc = "match" => scanPresent \cap (1..ScanPages) \subseteq g.rows
        BY <1>1, <3>1, <3>2 DEF ScanListed, ScanCovers
    <3>4. scanWork[n].lease # 0 => ScanFenceHolds(n)'
        BY <2>1, <2>2, <3>1 DEF ScanHolds, ScanFenceHolds
    <3>5. ScanHolds(n)'
      <4>1. w.lease # 0 => scanJob'.ckpt = w.ckpt
          BY <2>2
      <4>q. QED BY <1>1, <2>1, <3>1, <3>2, <3>3, <3>4, <4>1 DEF ScanHolds, ScanGenOf
    <3>6. ScanListed(n)' /\ ScanBusy(n)'
        BY <1>1, <2>1, <3>2, <3>3 DEF ScanListed, ScanCovers, ScanBusy
    <3>7. scanJob.state = "running" => scanJob.lease # 0
        BY <2>3 DEF ScanGood, ScanResumable
    <3>8. ScanFenceHolds(n) => scanWork[n].lease # 0
        BY <3>7 DEF ScanFenceHolds
    <3>9. ScanResumable'
      <4>1. CASE ScanFenceHolds(n) /\ scanJob'.ckpt = w.ckpt
        <5>1. w.ckpt.scan = s /\ w.ckpt.scan \in 0..scanDrawn'
            BY <1>1, <3>1
        <5>2. scanPresent \cap (1..(IF w.ckpt.phase = "list" THEN w.ckpt.cur ELSE ScanPages)) \subseteq g.rows
            BY <3>3
        <5>3. ~scanGen'[s].jobless
            BY <3>2, <3>8, <4>1
        <5>q. QED BY <2>2, <3>2, <3>7, <4>1, <5>1, <5>2, <5>3 DEF ScanResumable, ScanCovers
      <4>2. CASE scanWork[n].lease = 0 /\ scanJob'.ckpt = scanJob.ckpt
        <5>1. scanJob.ckpt.scan # s /\ scanJob.ckpt.scan \in ScanIds \cup {0}
            BY <1>0, <1>1, <2>3, <4>2, ScanTypes DEF ScanGood, ScanApart, ScanCkpt
        <5>2. scanJob.ckpt.scan # 0 => scanGen'[scanJob.ckpt.scan] = scanGen[scanJob.ckpt.scan]
            BY <1>2, <5>1
        <5>q. QED BY <2>2, <2>3, <4>2, <5>2 DEF ScanGood, ScanResumable, ScanCovers
      <4>q. QED BY <2>2, <4>1, <4>2
    <3>10. \A o \in ScanObjects : scanBook'[o] = "cleared" => o \notin scanPresent
        BY <2>3 DEF ScanGood
    <3>11. scanJob'.ckpt = scanJob.ckpt \/ (w.lease # 0 /\ scanJob'.ckpt = w.ckpt)
        BY <2>2, <3>8
    <3>12. /\ \A t \in ScanIds \ {w.ckpt.scan} : scanGen'[t] = scanGen[t] /\ w.ckpt.scan \in 1..scanDrawn
        BY <1>1, <1>2, <3>1
    <3>13. w.ckpt.scan \in 1..scanDrawn
        BY <1>1, <3>1
    <3>q. QED BY <1>0, <1>2, <1>5, <2>2, <2>3, <3>5, <3>6, <3>9, <3>10, <3>11, <3>12, <3>13, ScanOwnStep
  <2>4. ScanTimely => ScanGood'
      BY <2>3 DEF ScanInv
  <2>q. QED BY <1>2, <1>3, <2>1, <2>2, <2>4, ScanStepInv
<1>q. QED BY <1>4, <1>5 DEF ScanPersist

\* The cursor is saved in the job.
LEMMA ScanSaveInv == ASSUME ScanInv, NEW n \in ScanNodes, ScanSave(n) PROVE ScanInv'
<1>0. /\ scanWork[n].pc = "save" /\ scanWork[n] \in ScanWorkType
      /\ UNCHANGED <<scanPresent, scanBook, scanDrawn, scanFaults, scanLapses>>
    BY ScanTypes DEF ScanSave
<1>1. PICK s : s = scanWork[n].ckpt.scan
    OBVIOUS
<1>2. PICK g : g = [scanGen[s] EXCEPT !.fresh = scanGen[s].fresh \/ scanGen[s].live]
    OBVIOUS
<1>3. scanGen' = [scanGen EXCEPT ![s] = g]
    BY <1>1, <1>2 DEF ScanSave
<1>4. s \in ScanIds => /\ g \in ScanGen /\ g.live = scanGen[s].live /\ g.rows = scanGen[s].rows
                       /\ g.jobless = scanGen[s].jobless /\ (scanGen[s].fresh => g.fresh)
    BY <1>2, ScanTypes DEF ScanGen
<1>5. PICK w : w = [scanWork[n] EXCEPT !.pc = "page"]
    OBVIOUS
<1>6. w \in ScanWorkType /\ w.pc = "page" /\ w.lease = scanWork[n].lease /\ w.ckpt = scanWork[n].ckpt
    BY <1>0, <1>5 DEF ScanWorkType, ScanPc
<1>7. ScanPersist(n, [scanWork EXCEPT ![n] = w])
    BY <1>5 DEF ScanSave
<1>q. QED BY <1>0, <1>1, <1>3, <1>4, <1>6, <1>7, ScanPersistInv

\* The apply phase is saved in the job.
LEMMA ScanApplyInv == ASSUME ScanInv, NEW n \in ScanNodes, ScanApply(n) PROVE ScanInv'
<1>0. /\ scanWork[n].pc = "apply" /\ scanWork[n] \in ScanWorkType /\ scanWork[n].ckpt \in ScanCkpt
      /\ UNCHANGED <<scanPresent, scanBook, scanGen, scanDrawn, scanFaults, scanLapses>>
    BY ScanTypes DEF ScanApply
<1>1. PICK s, g : s = scanWork[n].ckpt.scan /\ g = scanGen[s]
    OBVIOUS
<1>2. scanGen' = [scanGen EXCEPT ![s] = g] /\ (s \in ScanIds => g \in ScanGen)
    BY <1>0, <1>1, ScanTypes
<1>3. PICK c : c = [scanWork[n].ckpt EXCEPT !.phase = "apply", !.cur = 0]
    OBVIOUS
<1>4. c \in ScanCkpt /\ c.scan = s /\ c.phase = "apply"
  <2>1. 0 \in 0..ScanPages
      BY ScanAssumption
  <2>q. QED BY <1>0, <1>1, <1>3, <2>1 DEF ScanCkpt
<1>5. PICK w : w = [scanWork[n] EXCEPT !.pc = "match", !.todo = ScanObjects, !.ckpt = c]
    OBVIOUS
<1>6. w \in ScanWorkType /\ w.pc = "match" /\ w.lease = scanWork[n].lease /\ w.ckpt = c
    BY <1>0, <1>4, <1>5 DEF ScanWorkType, ScanPc
<1>7. w = [scanWork[n] EXCEPT !.pc = "match", !.todo = ScanObjects,
                              !.ckpt = [scanWork[n].ckpt EXCEPT !.phase = "apply", !.cur = 0]]
    BY <1>3, <1>5
<1>8. ScanPersist(n, [scanWork EXCEPT ![n] = w])
    BY <1>7 DEF ScanApply
<1>9. /\ w \in ScanWorkType /\ w.lease = scanWork[n].lease /\ w.ckpt.scan = scanWork[n].ckpt.scan
      /\ scanWork[n].pc = "apply" /\ w.pc = "match" /\ w.ckpt.phase = "apply" /\ g = scanGen[scanWork[n].ckpt.scan]
    BY <1>0, <1>1, <1>4, <1>6
<1>10. /\ scanGen' = [scanGen EXCEPT ![scanWork[n].ckpt.scan] = g]
       /\ scanWork[n].ckpt.scan \in ScanIds => g \in ScanGen
    BY <1>1, <1>2
<1>11. UNCHANGED <<scanPresent, scanBook, scanDrawn, scanFaults, scanLapses>>
    BY <1>0
<1>q. QED BY <1>8, <1>9, <1>10, <1>11, ScanPersistInv

\* At first no generation is live and no book is cleared.
LEMMA ScanInitInv == ScanInit => ScanInv
<1> SUFFICES ASSUME ScanInit PROVE ScanInv
    OBVIOUS
<1>1. /\ ScanIdle.pc = "idle" /\ \A n \in ScanNodes : scanWork[n] = ScanIdle
      /\ scanWork \in [ScanNodes -> ScanWorkType] /\ scanGen \in [ScanIds -> ScanGen]
      /\ \A s \in ScanIds : ~scanGen[s].live
    BY ScanEmpties DEF ScanInit
<1>2. scanJob \in ScanJobType /\ scanJob.ckpt = NoScanCkpt /\ scanJob.state = "pending" /\ scanJob.attempts = 0
    BY ScanEmpties, ScanAssumption DEF ScanInit, ScanJobType
<1>3. ScanTypeOK
    BY <1>1, <1>2 DEF ScanInit, ScanTypeOK, ScanJobType, ScanWorkType
<1>4. ScanCounts
    BY <1>2, ScanAssumption DEF ScanInit, ScanCounts
<1>5. \A n \in ScanNodes : ~ScanBusy(n)
    BY <1>1 DEF ScanBusy
<1>6. ScanResumable /\ ScanUndrawn
    BY <1>1, <1>2, ScanEmpties DEF ScanInit, ScanResumable, ScanUndrawn
<1>7. \A o \in ScanObjects : scanBook[o] # "cleared"
    BY DEF ScanInit
<1>q. QED BY <1>3, <1>4, <1>5, <1>6, <1>7 DEF ScanInv, ScanGood, ScanApart

\* Every step keeps the invariant.
LEMMA ScanInductive == ScanInv /\ [ScanNext]_scanVars => ScanInv'
<1> SUFFICES ASSUME ScanInv, [ScanNext]_scanVars PROVE ScanInv'
    OBVIOUS
<1>1. CASE UNCHANGED scanVars
  <2>1. ScanGood => ScanGood'
      BY <1>1 DEF scanVars, ScanGood, ScanBusy, ScanHolds, ScanListed, ScanApart, ScanResumable, ScanUndrawn,
                  ScanCovers, ScanGenOf, ScanFenceHolds
  <2>2. ScanTypeOK' /\ ScanCounts' /\ (ScanTimely' <=> ScanTimely)
      BY <1>1 DEF scanVars, ScanInv, ScanTypeOK, ScanCounts, ScanTimely
  <2>q. QED BY <2>1, <2>2 DEF ScanInv
<1>2. ASSUME NEW n \in ScanNodes, ScanClaim(n) \/ ScanStartJobless(n) \/ ScanCrash(n) \/ ScanFault(n)
      PROVE  ScanInv'
    BY <1>2, ScanClaimInv, ScanStartJoblessInv, ScanCrashInv, ScanFaultInv
<1>3. ASSUME NEW n \in ScanNodes, ScanStep(n) PROVE ScanInv'
    BY <1>3, ScanReportInv, ScanAdoptInv, ScanBindInv, ScanPageInv, ScanSaveInv, ScanWipeInv, ScanCompleteInv,
       ScanApplyInv, ScanMatchBookInv, ScanFinishInv, ScanSweepInv DEF ScanStep
<1>4. ASSUME NEW s \in ScanIds, ScanReclaimPage(s) \/ ScanReclaimAbandoned(s) \/ ScanGoesStale(s) PROVE ScanInv'
    BY <1>4, ScanReclaimInv, ScanGoesStaleInv
<1>q. QED BY <1>1, <1>2, <1>3, <1>4, ScanCancelInv, ScanLeaseExpiresInv, ScanVanishInv DEF ScanNext

\* Every field of the scan has its type in every reachable state.
THEOREM ScanTypeCorrect == ScanSpec => []ScanTypeOK
<1>1. ScanInv => ScanTypeOK
    BY DEF ScanInv
<1>q. QED BY <1>1, ScanInitInv, ScanInductive, PTL DEF ScanSpec

\* For any number of objects, scans, generations, attempts, crashes and failed
\* statements: as long as no lease and no heartbeat lapses under a scan that
\* still works, match_storage_using_index never clears a book whose file is
\* there, whatever checkpoint the inventory was resumed from.
THEOREM ScanNeverClearsPresent == ScanSpec => []ScanClearsOnlyMissing
<1>1. ScanInv => ScanClearsOnlyMissing
    BY DEF ScanInv, ScanGood, ScanClearsOnlyMissing
<1>q. QED BY <1>1, ScanInitInv, ScanInductive, PTL DEF ScanSpec
=============================================================================
