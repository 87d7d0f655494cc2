---------------------------- MODULE PluginInstall ----------------------------
(***************************************************************************)
(* Installing, updating and removing one plugin                            *)
(* (bookclerk-plugin-catalog/src/install.rs, ledger.rs, mutation_lock.rs,  *)
(* with the health check and the commit or rollback of                     *)
(* bookclerk-cli/src/commands/plugins.rs).                                 *)
(*                                                                         *)
(* The command line runs as several processes that take the host's         *)
(* mutation lock.  Each statement that changes the disk is a step; it may  *)
(* fail, and the process may die before the next.  Deleting a directory    *)
(* can fail half way, and a directory that was copied or deleted in part   *)
(* is "damaged": it has no valid receipt and may lack its plugin.toml.     *)
(* Held and backed-up trees get names nobody else uses, except the backup  *)
(* of an update, whose name is fixed: what an ended operation still holds  *)
(* is out of reach of the next.  Rules about aliases, kinds, capabilities  *)
(* and paths only refuse an operation before it changes anything: a        *)
(* refusal is always possible.                                             *)
(***************************************************************************)
EXTENDS Integers, FiniteSets

CONSTANTS
    InstProcs,      \* command-line processes
    InstNobody,     \* the mutation lock is free
    InstVersions,   \* versions of the package, numbered from 1
    InstMaxFaults,  \* bound: file operations that fail
    InstMaxCrashes  \* bound: processes that die

InstNone == 0      \* no directory, no ledger row
InstDamaged == -1  \* a directory that is not all there

ASSUME InstAssumption ==
    /\ InstNobody \notin InstProcs /\ InstVersions \subseteq Nat \ {0}
    /\ InstMaxFaults \in Nat /\ InstMaxCrashes \in Nat

VARIABLES
    instTree,    \* plugins/<fs-id>
    instBackup,  \* plugins/.staging/<fs-id>.backup
    instHold,    \* the tree the running operation holds: .removing or .rollback-new
    instLedger,  \* version in the row of install-ledger.json
    instState,   \* where there is plugin state: "dest" is plugin-state/<fs-id>, "hold"
                 \* the operation's place under .plugin-hold, "left" an earlier one's
    instLock,    \* holder of .plugin-mutation.lock
    instOp,      \* local state of each process
    instBefore,  \* history: the last operation, and what it found
    instSaid,    \* history: how the last operation ended
    instTorn,    \* history: one died, or ended without undoing its steps, and none succeeded since
    instFaults, instCrashes

instVars == <<instTree, instBackup, instHold, instLedger, instState, instLock, instOp, instBefore,
              instSaid, instTorn, instFaults, instCrashes>>
instDisk == <<instTree, instBackup, instHold, instLedger, instState>>
instHistory == <<instBefore, instSaid, instTorn>>

InstTrees == {InstDamaged, InstNone} \cup InstVersions
InstPc == {"idle", "check", "stage", "dropbackup", "backup", "copy", "receipt", "ledger", "undo",
           "health", "commit", "aside", "swap", "unaside", "unfirst", "rollback",
           "resolve", "hold", "holdstate", "unlist", "delete", "purge",
           "relist", "retree", "restate"}
\* `backed`: the operation moved a previous tree to the backup; `owes`: the
\* state it holds; `failed`: a step of its undoing failed.
InstIdle == [pc |-> "idle", to |-> InstNone, purge |-> FALSE, row |-> InstNone,
             backed |-> FALSE, owes |-> FALSE, failed |-> FALSE]
\* "stuck": the message says which part of an undoing failed; "early": a
\* remove returned with the tree held.
InstEnds == {"none", "running", "ok", "leftover", "refused", "absent", "error", "rolledback", "stuck",
             "restored", "early", "halfpurged", "crashed"}

InstInit ==
    /\ instTree = InstNone /\ instBackup = InstNone /\ instHold = InstNone
    /\ instLedger = InstNone /\ instState = {}
    /\ instLock = InstNobody
    /\ instOp = [p \in InstProcs |-> InstIdle]
    /\ instBefore = [op |-> "none", tree |-> InstNone, row |-> InstNone, state |-> {}]
    /\ instSaid = "none" /\ instTorn = FALSE
    /\ instFaults = 0 /\ instCrashes = 0

InstAt(p, pc) == instOp[p].pc = pc
InstGo(p, pc) == instOp' = [instOp EXCEPT ![p].pc = pc]
InstMayFail == instFaults < InstMaxFaults /\ instFaults' = instFaults + 1
InstNoFault == UNCHANGED instFaults

\* The process ends: its message, and the lock.
InstEnd(p, said, torn) ==
    /\ instOp' = [instOp EXCEPT ![p] = InstIdle]
    /\ instLock' = InstNobody
    /\ instSaid' = said
    /\ instTorn' = (said \notin {"ok", "leftover"} /\ (instTorn \/ torn))
    /\ UNCHANGED instBefore
InstContinues == UNCHANGED <<instLock, instHistory>>

\* remove_dir_all: done, or failed with part of the directory gone.
InstDeletes(tree, gone) ==
    \/ gone = InstNone /\ InstNoFault
    \/ gone \in {tree, InstDamaged} /\ InstMayFail

\* A process takes the mutation lock for its whole operation.
InstBegin(p, op, pc, to, purge) ==
    /\ InstAt(p, "idle") /\ instLock = InstNobody
    /\ instLock' = p
    /\ instOp' = [instOp EXCEPT ![p] = [InstIdle EXCEPT !.pc = pc, !.to = to, !.purge = purge]]
    /\ instBefore' = [op |-> op, tree |-> instTree, row |-> instLedger, state |-> instState \ {"hold"}]
    /\ instHold' = InstNone
    /\ instState' = {IF s = "hold" THEN "left" ELSE s : s \in instState}
    /\ instSaid' = "running"
    /\ UNCHANGED <<instTree, instBackup, instLedger, instTorn, instFaults, instCrashes>>
-----------------------------------------------------------------------------
(* install_from_manifest_locked *)

InstInstall(p) == \E v \in InstVersions : InstBegin(p, "install", "check", v, FALSE)

\* The ledger is read and every rule checked before anything changes.
InstCheck(p) ==
    /\ InstAt(p, "check")
    /\ \/ InstEnd(p, "refused", FALSE)
       \/ /\ instOp' = [instOp EXCEPT ![p] = [@ EXCEPT !.pc = "stage", !.row = instLedger]]
          /\ InstContinues
    /\ UNCHANGED <<instDisk, instFaults, instCrashes>>

\* Download, verify, extract under .staging: a failure has touched nothing.
InstStage(p) ==
    /\ InstAt(p, "stage")
    /\ \/ InstNoFault /\ InstGo(p, IF instTree = InstNone THEN "copy" ELSE "dropbackup") /\ InstContinues
       \/ InstMayFail /\ InstEnd(p, "error", FALSE)
    /\ UNCHANGED <<instDisk, instCrashes>>

\* An old backup under the fixed name is deleted first.
InstDropBackup(p) ==
    /\ InstAt(p, "dropbackup")
    /\ \E gone \in InstTrees :
          /\ IF instBackup = InstNone THEN gone = InstNone /\ InstNoFault ELSE InstDeletes(instBackup, gone)
          /\ instBackup' = gone
          /\ IF gone = InstNone THEN InstGo(p, "backup") /\ InstContinues ELSE InstEnd(p, "error", FALSE)
    /\ UNCHANGED <<instTree, instHold, instLedger, instState, instCrashes>>

InstBackup(p) ==
    /\ InstAt(p, "backup")
    /\ \/ /\ instBackup' = instTree /\ instTree' = InstNone
          /\ instOp' = [instOp EXCEPT ![p] = [@ EXCEPT !.pc = "copy", !.backed = TRUE]]
          /\ InstNoFault /\ InstContinues
       \/ InstMayFail /\ InstEnd(p, "error", FALSE) /\ UNCHANGED <<instTree, instBackup>>
    /\ UNCHANGED <<instHold, instLedger, instState, instCrashes>>

\* copy_dir_all; until the receipt is stored the tree is not all there.
InstCopy(p) ==
    /\ InstAt(p, "copy")
    /\ instTree' = InstDamaged
    /\ \/ InstNoFault /\ InstGo(p, "receipt")
       \/ InstMayFail /\ InstGo(p, "undo")
    /\ InstContinues
    /\ UNCHANGED <<instBackup, instHold, instLedger, instState, instCrashes>>

InstReceipt(p) ==
    /\ InstAt(p, "receipt")
    /\ \/ InstNoFault /\ instTree' = instOp[p].to /\ InstGo(p, "ledger")
       \/ InstMayFail /\ InstGo(p, "undo") /\ UNCHANGED instTree
    /\ InstContinues
    /\ UNCHANGED <<instBackup, instHold, instLedger, instState, instCrashes>>

\* Faulty: the backup goes as soon as the new version is recorded.
InstRecordDropping(p) ==
    /\ InstAt(p, "ledger")
    /\ \/ InstNoFault /\ instLedger' = instOp[p].to /\ instBackup' = InstNone /\ InstGo(p, "health")
       \/ InstMayFail /\ InstGo(p, "undo") /\ UNCHANGED <<instLedger, instBackup>>
    /\ InstContinues
    /\ UNCHANGED <<instTree, instHold, instState, instCrashes>>

\* record_install replaces the ledger file in one rename.
InstRecord(p) ==
    /\ InstAt(p, "ledger")
    /\ \/ InstNoFault /\ instLedger' = instOp[p].to /\ InstGo(p, "health")
       \/ InstMayFail /\ InstGo(p, "undo") /\ UNCHANGED instLedger
    /\ InstContinues
    /\ UNCHANGED <<instTree, instBackup, instHold, instState, instCrashes>>

\* Faulty: the new tree is left where it is.
InstUndoNothing(p) ==
    /\ InstAt(p, "undo")
    /\ InstEnd(p, "error", FALSE)
    /\ InstNoFault
    /\ UNCHANGED <<instDisk, instCrashes>>

\* restore_tree ignores its errors: a tree that could not be deleted is in the
\* way of the rename.  The ledger row is put back after it; it never changed.
InstUndo(p) ==
    /\ InstAt(p, "undo")
    /\ \E gone \in InstTrees :
          /\ InstDeletes(instTree, gone)
          /\ \/ /\ gone = InstNone /\ instOp[p].backed
                /\ instTree' = instBackup /\ instBackup' = InstNone
                /\ InstEnd(p, "error", FALSE)
             \/ /\ gone # InstNone \/ ~instOp[p].backed
                /\ instTree' = gone /\ UNCHANGED instBackup
                /\ InstEnd(p, "error", gone # InstNone)
    /\ UNCHANGED <<instHold, instLedger, instState, instCrashes>>

\* The delete of restore_tree succeeds and its rename does not.
InstUndoHalf(p) ==
    /\ InstAt(p, "undo") /\ instOp[p].backed
    /\ InstMayFail
    /\ instTree' = InstNone
    /\ InstEnd(p, "error", TRUE)
    /\ UNCHANGED <<instBackup, instHold, instLedger, instState, instCrashes>>
-----------------------------------------------------------------------------
(* Health check, then Installer::commit or Installer::rollback *)

\* The rollback goes by the backup: put it back, or delete a first install.
InstHealth(p) ==
    /\ InstAt(p, "health")
    /\ InstGo(p, "commit") \/ InstGo(p, IF instOp[p].backed THEN "aside" ELSE "unfirst")
    /\ InstContinues
    /\ UNCHANGED <<instDisk, instFaults, instCrashes>>

InstCommit(p) ==
    /\ InstAt(p, "commit")
    /\ \E gone \in InstTrees :
          /\ IF instOp[p].backed THEN InstDeletes(instBackup, gone) ELSE gone = instBackup /\ InstNoFault
          /\ instBackup' = gone
          /\ InstEnd(p, IF instOp[p].backed /\ gone # InstNone THEN "leftover" ELSE "ok", FALSE)
    /\ UNCHANGED <<instTree, instHold, instLedger, instState, instCrashes>>

\* restore_update_tree_from_backup: the new tree goes aside first.
InstAside(p) ==
    /\ InstAt(p, "aside")
    /\ \/ /\ InstNoFault
          /\ instHold' = instTree /\ instTree' = InstNone
          /\ InstGo(p, "swap") /\ InstContinues
       \/ InstMayFail /\ InstEnd(p, "stuck", TRUE) /\ UNCHANGED <<instTree, instHold>>
    /\ UNCHANGED <<instBackup, instLedger, instState, instCrashes>>

\* The old tree comes back; the one set aside is deleted if that works.
InstSwap(p) ==
    /\ InstAt(p, "swap")
    /\ \/ /\ InstNoFault
          /\ instTree' = instBackup /\ instBackup' = InstNone /\ instHold' = InstNone
          /\ InstGo(p, "rollback")
       \/ InstMayFail /\ InstGo(p, "unaside") /\ UNCHANGED <<instTree, instBackup, instHold>>
    /\ InstContinues
    /\ UNCHANGED <<instLedger, instState, instCrashes>>

InstUnaside(p) ==
    /\ InstAt(p, "unaside")
    /\ \/ InstNoFault /\ instTree' = instHold /\ instHold' = InstNone
       \/ InstMayFail /\ UNCHANGED <<instTree, instHold>>
    /\ InstEnd(p, "stuck", TRUE)
    /\ UNCHANGED <<instBackup, instLedger, instState, instCrashes>>

InstUnfirst(p) ==
    /\ InstAt(p, "unfirst")
    /\ \E gone \in InstTrees :
          /\ InstDeletes(instTree, gone)
          /\ instTree' = gone
          /\ IF gone = InstNone THEN InstGo(p, "rollback") /\ InstContinues ELSE InstEnd(p, "stuck", TRUE)
    /\ UNCHANGED <<instBackup, instHold, instLedger, instState, instCrashes>>

\* restore_ledger_for_rollback is the last phase; only then is the message
\* that the previous version was restored.
InstRollback(p) ==
    /\ InstAt(p, "rollback")
    /\ \/ InstNoFault /\ instLedger' = instOp[p].row /\ InstEnd(p, "rolledback", FALSE)
       \/ InstMayFail /\ InstEnd(p, "stuck", TRUE) /\ UNCHANGED instLedger
    /\ UNCHANGED <<instTree, instBackup, instHold, instState, instCrashes>>
-----------------------------------------------------------------------------
(* remove_locked *)

InstRemove(p) == \E purge \in BOOLEAN : InstBegin(p, "remove", "resolve", InstNone, purge)

\* The tree must exist and name itself, and the ledger must know it.
InstResolve(p) ==
    /\ InstAt(p, "resolve")
    /\ \/ instTree = InstNone /\ InstEnd(p, "absent", FALSE)
       \/ instTree # InstNone /\ InstEnd(p, "refused", FALSE)
       \/ /\ instTree # InstNone /\ instLedger # InstNone
          /\ instOp' = [instOp EXCEPT ![p] = [@ EXCEPT !.pc = "hold", !.row = instLedger]]
          /\ InstContinues
    /\ UNCHANGED <<instDisk, instFaults, instCrashes>>

InstHoldTree(p) ==
    /\ InstAt(p, "hold")
    /\ \/ /\ InstNoFault
          /\ instHold' = instTree /\ instTree' = InstNone
          /\ InstGo(p, IF instOp[p].purge /\ "dest" \in instState THEN "holdstate" ELSE "unlist")
          /\ InstContinues
       \/ InstMayFail /\ InstEnd(p, "error", FALSE) /\ UNCHANGED <<instTree, instHold>>
    /\ UNCHANGED <<instBackup, instLedger, instState, instCrashes>>

\* The state is moved under .plugin-hold.  A rename that fails is undone; a
\* .plugin-hold that cannot be created returns at once, the tree still held.
InstHoldState(p) ==
    /\ InstAt(p, "holdstate")
    /\ \/ /\ InstNoFault
          /\ instState' = (instState \ {"dest"}) \cup {"hold"}
          /\ instOp' = [instOp EXCEPT ![p] = [@ EXCEPT !.pc = "unlist", !.owes = TRUE]]
          /\ InstContinues
       \/ InstMayFail /\ InstGo(p, "relist") /\ InstContinues /\ UNCHANGED instState
       \/ InstMayFail /\ InstEnd(p, "early", TRUE) /\ UNCHANGED instState
    /\ UNCHANGED <<instTree, instBackup, instHold, instLedger, instCrashes>>

\* The commit point: the ledger without the row.
InstUnlist(p) ==
    /\ InstAt(p, "unlist")
    /\ \/ InstNoFault /\ instLedger' = InstNone /\ InstGo(p, "delete")
       \/ InstMayFail /\ InstGo(p, "relist") /\ UNCHANGED instLedger
    /\ InstContinues
    /\ UNCHANGED <<instTree, instBackup, instHold, instState, instCrashes>>

InstDelete(p) ==
    /\ InstAt(p, "delete")
    /\ \E gone \in InstTrees :
          /\ InstDeletes(instHold, gone)
          /\ instHold' = gone
          /\ CASE gone # InstNone -> InstGo(p, "relist") /\ InstContinues
               [] gone = InstNone /\ instOp[p].owes -> InstGo(p, "purge") /\ InstContinues
               [] OTHER -> InstEnd(p, "ok", FALSE)
    /\ UNCHANGED <<instTree, instBackup, instLedger, instState, instCrashes>>

\* Last, the held state; a failure asks for remove --purge-state again.
InstPurge(p) ==
    /\ InstAt(p, "purge")
    /\ \/ InstNoFault /\ instState' = instState \ {"hold"} /\ InstEnd(p, "ok", FALSE)
       \/ InstMayFail /\ InstEnd(p, "halfpurged", FALSE) /\ UNCHANGED instState
    /\ UNCHANGED <<instTree, instBackup, instHold, instLedger, instCrashes>>

\* remove_after_hold_failure: ledger, tree, state, each tried whatever became
\* of the others; the message names the ones that failed.
InstRestoreStep(p, pc, next, done) ==
    /\ InstAt(p, pc)
    /\ \/ InstNoFault /\ done /\ InstGo(p, next)
       \/ /\ InstMayFail
          /\ instOp' = [instOp EXCEPT ![p] = [@ EXCEPT !.pc = next, !.failed = TRUE]]
          /\ UNCHANGED instDisk
    /\ InstContinues /\ UNCHANGED instCrashes

InstRelist(p) ==
    InstRestoreStep(p, "relist", "retree",
                    instLedger' = instOp[p].row /\ UNCHANGED <<instTree, instBackup, instHold, instState>>)

InstRetree(p) ==
    InstRestoreStep(p, "retree", "restate",
                    /\ instTree' = instHold /\ instHold' = InstNone
                    /\ UNCHANGED <<instBackup, instLedger, instState>>)

\* Nothing held, or the held state goes back where none has appeared since.
InstRestate(p) ==
    LET owes == instOp[p].owes
        partial == instTree = InstDamaged /\ instBefore.tree # InstDamaged
        ends(failed) == InstEnd(p, IF failed THEN "stuck" ELSE "restored", failed \/ partial)
    IN
    /\ InstAt(p, "restate")
    /\ \/ ~owes /\ InstNoFault /\ ends(instOp[p].failed) /\ UNCHANGED instState
       \/ /\ owes /\ "dest" \notin instState /\ InstNoFault
          /\ instState' = (instState \ {"hold"}) \cup {"dest"}
          /\ ends(instOp[p].failed)
       \/ owes /\ "dest" \in instState /\ InstNoFault /\ ends(TRUE) /\ UNCHANGED instState
       \/ owes /\ "dest" \notin instState /\ InstMayFail /\ ends(TRUE) /\ UNCHANGED instState
    /\ UNCHANGED <<instTree, instBackup, instHold, instLedger, instCrashes>>
-----------------------------------------------------------------------------
(* The world around *)

\* The daemon runs an installed plugin, and it keeps files of its own, without
\* the mutation lock.
InstPluginWrites ==
    /\ instTree \in InstVersions /\ "dest" \notin instState
    /\ instState' = instState \cup {"dest"}
    /\ UNCHANGED <<instTree, instBackup, instHold, instLedger, instLock, instOp, instHistory,
                   instFaults, instCrashes>>

\* The process dies; the operating system releases its lock.
InstCrash(p) ==
    /\ ~InstAt(p, "idle") /\ instCrashes < InstMaxCrashes
    /\ instCrashes' = instCrashes + 1
    /\ instOp' = [instOp EXCEPT ![p] = InstIdle]
    /\ instLock' = IF instLock = p THEN InstNobody ELSE instLock
    /\ instTorn' = TRUE /\ instSaid' = "crashed"
    /\ UNCHANGED <<instDisk, instBefore, instFaults>>

InstStep(p) ==
    \/ InstInstall(p) \/ InstCheck(p) \/ InstStage(p) \/ InstDropBackup(p) \/ InstBackup(p)
    \/ InstCopy(p) \/ InstReceipt(p) \/ InstRecord(p) \/ InstUndo(p) \/ InstUndoHalf(p)
    \/ InstHealth(p) \/ InstCommit(p) \/ InstAside(p) \/ InstSwap(p) \/ InstUnaside(p)
    \/ InstUnfirst(p) \/ InstRollback(p)
    \/ InstRemove(p) \/ InstResolve(p) \/ InstHoldTree(p) \/ InstHoldState(p) \/ InstUnlist(p)
    \/ InstDelete(p) \/ InstPurge(p) \/ InstRelist(p) \/ InstRetree(p) \/ InstRestate(p)

InstNext == InstPluginWrites \/ \E p \in InstProcs : InstStep(p) \/ InstCrash(p)

InstSpec == InstInit /\ [][InstNext]_instVars
-----------------------------------------------------------------------------
(* Properties *)

InstTypeOK ==
    /\ {instTree, instBackup, instHold} \subseteq InstTrees /\ instLedger \in InstVersions \cup {InstNone}
    /\ instState \subseteq {"dest", "hold", "left"}
    /\ instLock \in InstProcs \cup {InstNobody}
    /\ instOp \in [InstProcs -> [pc : InstPc, to : InstTrees, purge : BOOLEAN, row : InstTrees,
                                 backed : BOOLEAN, owes : BOOLEAN, failed : BOOLEAN]]
    /\ instBefore \in [op : {"none", "install", "remove"}, tree : InstTrees, row : InstTrees,
                        state : SUBSET {"dest", "left"}]
    /\ instSaid \in InstEnds /\ instTorn \in BOOLEAN
    /\ instFaults \in 0..InstMaxFaults /\ instCrashes \in 0..InstMaxCrashes

\* The messages are true.  A health failure that says the previous version was
\* restored (or the install rolled back) left the tree and the row it found; a
\* remove that names no failed restore has put back the row, the state, and the
\* tree, unless deleting the tree is what failed.
InstHonest ==
    /\ instSaid = "rolledback" => instTree = instBefore.tree /\ instLedger = instBefore.row
    /\ instSaid = "restored" => /\ instLedger = instBefore.row /\ instBefore.state \subseteq instState
                                /\ instTree \in {instBefore.tree, InstDamaged}

\* Between operations the tree is the version the ledger trusts, whatever
\* failed, unless an operation died or could not undo its steps; the next one
\* that succeeds mends it.  And an operation says it undid its steps only when
\* it did.
InstAgree == InstHonest /\ (instLock = InstNobody /\ ~instTorn => instTree = instLedger)

\* Until an update has passed its health check the complete version it found
\* is still on disk, even when the update dies or its undoing fails.
InstOldKept ==
    instBefore.op = "install" /\ instBefore.tree \in InstVersions /\ instSaid \notin {"ok", "leftover"} =>
        instBefore.tree \in {instTree, instBackup, instHold}

(* The inductive invariant *)

\* One operation at a time, and it is the last one begun.
InstLocked ==
    /\ \A p \in InstProcs : instLock = p <=> ~InstAt(p, "idle")
    /\ instLock = InstNobody <=> instSaid # "running"
    /\ instLock # InstNobody /\ ~instTorn => instBefore.tree = instBefore.row
    /\ instBefore.row \in InstVersions \cup {InstNone}

\* What an install has done so far, and that the version it found is in the
\* backup from its move there until the backup is dropped or put back.
InstUpdating(p) ==
    LET o == instOp[p]
        found == instTree = instBefore.tree
        kept == instBefore.tree = IF o.backed THEN instBackup ELSE InstNone
    IN
    /\ instBefore.op = "install" /\ o.to \in InstVersions
    /\ o.pc # "check" => o.row = instBefore.row
    /\ o.pc \in {"check", "stage", "dropbackup", "backup"} => found /\ ~o.backed
    /\ o.pc \in {"copy", "receipt", "ledger", "undo", "health", "commit", "aside", "swap",
                 "unaside", "unfirst"} => kept
    /\ o.pc \in {"check", "stage", "dropbackup", "backup", "copy", "receipt", "ledger", "undo"} =>
          instLedger = instBefore.row
    /\ o.pc \in {"receipt", "undo"} => instTree # InstNone
    /\ o.pc \in {"ledger", "health", "commit"} => instTree = o.to
    /\ o.pc \in {"health", "commit"} => instLedger = o.to
    /\ o.pc \in {"aside", "swap", "unaside"} => o.backed
    /\ o.pc = "unfirst" => ~o.backed
    /\ o.pc = "rollback" => found

\* What a remove has done so far: the tree it found is held, and so is the
\* state it owes; what its undoing did not report as failed is back.
InstRemoving(p) ==
    LET o == instOp[p]
        held == instTree = InstNone /\ instHold \in {instBefore.tree, InstDamaged}
    IN
    /\ instBefore.op = "remove"
    /\ o.pc # "resolve" => o.row = instBefore.row
    /\ o.pc \in {"resolve", "hold"} => instTree = instBefore.tree
    /\ o.pc \in {"resolve", "hold", "holdstate", "unlist"} => instLedger = instBefore.row
    /\ o.pc \in {"holdstate", "unlist", "delete", "relist", "retree"} => held
    /\ o.pc \in {"delete", "purge"} => instTree = InstNone /\ instLedger = InstNone
    /\ o.pc \in {"resolve", "hold", "holdstate"} => ~o.owes
    /\ o.pc # "purge" => instBefore.state \subseteq instState \cup (IF o.owes THEN {"dest"} ELSE {})
    /\ o.pc \in {"retree", "restate"} /\ ~o.failed => instLedger = instBefore.row
    /\ o.pc = "restate" /\ ~o.failed => instTree \in {instBefore.tree, InstDamaged}

InstInstallPc == {"check", "stage", "dropbackup", "backup", "copy", "receipt", "ledger", "undo",
                  "health", "commit", "aside", "swap", "unaside", "unfirst", "rollback"}

\* With the properties above these are inductive.
InstInv ==
    /\ InstTypeOK /\ InstLocked
    /\ \A p \in InstProcs : ~InstAt(p, "idle") =>
          IF instOp[p].pc \in InstInstallPc THEN InstUpdating(p) ELSE InstRemoving(p)
    /\ InstAgree /\ InstOldKept
=============================================================================
