-------------------------- MODULE BackupRepository --------------------------
(***************************************************************************)
(* The content-addressed backup repository under files_dir/backups: object *)
(* files, manifests with their .sha256 sidecars, capture, publication,     *)
(* pruning and garbage collection (bookclerk-library/src/backup/), run by  *)
(* several processes at once, any of which may die between two file        *)
(* operations.                                                             *)
(*                                                                         *)
(* Recovery points are numbered in the order of their created_at, which is *)
(* taken under the lock.  Files appear by link or rename and are whole;    *)
(* dot-files are ignored by every reader and left out.  A listing's entry  *)
(* is read in one step: JSON and sidecar are both there or it fails.       *)
(***************************************************************************)
EXTENDS Integers, FiniteSets

CONSTANTS
    BakProcs,      \* processes: daemons at a migration, the command line
    BakMigrating,  \* those whose backup is a task that may change its thread
    BakNobody,     \* backups/.lock is free
    BakObjects,    \* canonical objects (schema, chunks, identity)
    BakPoints,     \* 1..n: recovery points in the order they are drawn
    BakRetention,  \* BACKUP_RETENTION
    BakMaxCrashes  \* bound: processes that die

ASSUME BakAssumption ==
    /\ BakMigrating \subseteq BakProcs /\ BakNobody \notin BakProcs
    /\ BakPoints \subseteq Nat \ {0} /\ BakRetention \in Nat \ {0} /\ BakMaxCrashes \in Nat

VARIABLES
    bakObj,       \* object files
    bakJson,      \* manifests/<id>.json
    bakHash,      \* manifests/<id>.sha256
    bakPoint,     \* what each manifest says: reason and referenced objects
    bakDrawn,     \* recovery points drawn so far
    bakPublished, \* history: points that were published
    bakLock,      \* holder of the repository lock
    bakProc,      \* local state of a process
    bakCrashes

bakVars == <<bakObj, bakJson, bakHash, bakPoint, bakDrawn, bakPublished, bakLock, bakProc, bakCrashes>>

BakManifest == [manual : BOOLEAN, refs : SUBSET BakObjects]
BakPc == {"idle", "await", "put", "sidecar", "json", "list", "read", "prune", "delete", "gc"}
\* `away`: the task runs on another thread than the one that took the lock.
BakIdle == [pc |-> "idle", point |-> 0, todo |-> {}, away |-> FALSE, list |-> {}, seen |-> {}, live |-> {}]

BakInit ==
    /\ bakObj = {} /\ bakJson = {} /\ bakHash = {} /\ bakPublished = {}
    /\ bakPoint = [x \in BakPoints |-> [manual |-> TRUE, refs |-> {}]]
    /\ bakDrawn = 0
    /\ bakLock = BakNobody
    /\ bakProc = [p \in BakProcs |-> BakIdle]
    /\ bakCrashes = 0

BakAt(p, pc) == bakProc[p].pc = pc
BakGo(p, pc) == bakProc' = [bakProc EXCEPT ![p].pc = pc]
BakEnds(p) == bakProc' = [bakProc EXCEPT ![p] = BakIdle]
-----------------------------------------------------------------------------
(* backup_library: the lock covers capture and publication *)

BakStart(p, m) ==
    /\ BakAt(p, "idle") /\ bakLock = BakNobody
    /\ bakDrawn + 1 \in BakPoints
    /\ bakLock' = p /\ bakDrawn' = bakDrawn + 1
    /\ bakPoint' = [bakPoint EXCEPT ![bakDrawn + 1] = m]
    /\ bakProc' = [bakProc EXCEPT ![p] =
           [BakIdle EXCEPT !.pc = "await", !.point = bakDrawn + 1, !.todo = m.refs]]
    /\ UNCHANGED <<bakObj, bakJson, bakHash, bakPublished, bakCrashes>>

\* Rows are read from the database: an await, after which a spawned task may
\* find itself on another thread.
BakAwait(p) ==
    /\ BakAt(p, "await")
    /\ \E away \in BOOLEAN :
          /\ away => p \in BakMigrating
          /\ bakProc' = [bakProc EXCEPT ![p] = [@ EXCEPT !.pc = "put", !.away = away]]
    /\ UNCHANGED <<bakObj, bakJson, bakHash, bakPoint, bakDrawn, bakPublished, bakLock, bakCrashes>>

\* lock_exclusive of put_object and publish_manifest: reentry for the owning
\* thread only; any other thread of the process waits for the guard to drop.
BakReenters(p) == bakLock = p /\ ~bakProc[p].away

BakPut(p) ==
    /\ BakAt(p, "put") /\ BakReenters(p)
    /\ \E o \in bakProc[p].todo :
          /\ bakObj' = bakObj \cup {o}
          /\ bakProc' = [bakProc EXCEPT ![p] = [@ EXCEPT !.pc = "await", !.todo = bakProc[p].todo \ {o}]]
    /\ UNCHANGED <<bakJson, bakHash, bakPoint, bakDrawn, bakPublished, bakLock, bakCrashes>>

\* publish_manifest: every referenced object is verified first.
BakPublishCheck(p) ==
    /\ BakAt(p, "put") /\ BakReenters(p) /\ bakProc[p].todo = {}
    /\ IF bakPoint[bakProc[p].point].refs \subseteq bakObj
       THEN BakGo(p, "sidecar") /\ UNCHANGED bakLock
       ELSE BakEnds(p) /\ bakLock' = BakNobody
    /\ UNCHANGED <<bakObj, bakJson, bakHash, bakPoint, bakDrawn, bakPublished, bakCrashes>>

\* The sidecar is renamed into place before the manifest.
BakPublishSidecar(p) ==
    /\ BakAt(p, "sidecar")
    /\ bakHash' = bakHash \cup {bakProc[p].point}
    /\ BakGo(p, "json")
    /\ UNCHANGED <<bakObj, bakJson, bakPoint, bakDrawn, bakPublished, bakLock, bakCrashes>>

\* A manual backup ends here; one made before a migration prunes.
BakPublishJson(p) ==
    LET x == bakProc[p].point IN
    /\ BakAt(p, "json")
    /\ bakJson' = bakJson \cup {x} /\ bakPublished' = bakPublished \cup {x}
    /\ bakLock' = BakNobody
    /\ bakProc' = [bakProc EXCEPT ![p] = [BakIdle EXCEPT !.pc = IF bakPoint[x].manual THEN "idle" ELSE "list"]]
    /\ UNCHANGED <<bakObj, bakHash, bakPoint, bakDrawn, bakCrashes>>
-----------------------------------------------------------------------------
(* prune_automatic_backups: listed without the lock, deleted under it *)

BakPruneList(p) ==
    /\ BakAt(p, "list")
    /\ bakProc' = [bakProc EXCEPT ![p] = [@ EXCEPT !.pc = "read", !.list = bakJson]]
    /\ UNCHANGED <<bakObj, bakJson, bakHash, bakPoint, bakDrawn, bakPublished, bakLock, bakCrashes>>

\* list_manifests_strict fails on an entry that cannot be verified any more.
BakPruneRead(p) ==
    /\ BakAt(p, "read") /\ bakProc[p].list # {}
    /\ \E x \in bakProc[p].list :
          IF x \in bakJson \cap bakHash
          THEN bakProc' = [bakProc EXCEPT ![p] = [@ EXCEPT !.list = bakProc[p].list \ {x},
                                                           !.seen = bakProc[p].seen \cup {x}]]
          ELSE BakEnds(p)
    /\ UNCHANGED <<bakObj, bakJson, bakHash, bakPoint, bakDrawn, bakPublished, bakLock, bakCrashes>>

BakNewest(s, n) == {x \in s : Cardinality({y \in s : y > x}) < n}

\* The oldest automatic points beyond the retention.
BakExtra(s) == LET autos == {x \in s : ~bakPoint[x].manual} IN autos \ BakNewest(autos, BakRetention)

BakPruneDecide(p) ==
    /\ BakAt(p, "read") /\ bakProc[p].list = {}
    /\ bakProc' = [bakProc EXCEPT ![p] = [@ EXCEPT !.pc = "prune", !.list = BakExtra(bakProc[p].seen)]]
    /\ UNCHANGED <<bakObj, bakJson, bakHash, bakPoint, bakDrawn, bakPublished, bakLock, bakCrashes>>

\* delete_manifest: the manifest first, then its sidecar; missing files are fine.
BakDeleteJson(p) ==
    /\ BakAt(p, "prune") /\ bakLock = BakNobody
    /\ \E x \in bakProc[p].list :
          /\ bakJson' = bakJson \ {x}
          /\ bakProc' = [bakProc EXCEPT ![p] = [@ EXCEPT !.pc = "delete", !.point = x,
                                                         !.list = bakProc[p].list \ {x}]]
    /\ bakLock' = p
    /\ UNCHANGED <<bakObj, bakHash, bakPoint, bakDrawn, bakPublished, bakCrashes>>

BakDeleteHash(p) ==
    /\ BakAt(p, "delete")
    /\ bakHash' = bakHash \ {bakProc[p].point}
    /\ bakLock' = BakNobody
    /\ BakGo(p, "prune")
    /\ UNCHANGED <<bakObj, bakJson, bakPoint, bakDrawn, bakPublished, bakCrashes>>

\* Faulty: the collection does not take the lock.
BakGcUnlocked(p) ==
    /\ BakAt(p, "prune") /\ bakProc[p].list = {}
    /\ bakProc' = [bakProc EXCEPT ![p] = [@ EXCEPT !.pc = "gc",
                                                   !.live = UNION {bakPoint[x].refs : x \in bakJson}]]
    /\ UNCHANGED <<bakObj, bakJson, bakHash, bakPoint, bakDrawn, bakPublished, bakLock, bakCrashes>>

\* gc_unreferenced_objects: reachability from a strict listing, under the lock;
\* a manifest that does not verify stops the collection.
BakGcMark(p) ==
    /\ BakAt(p, "prune") /\ bakProc[p].list = {} /\ bakLock = BakNobody
    /\ IF bakJson \subseteq bakHash
       THEN /\ bakLock' = p
            /\ bakProc' = [bakProc EXCEPT ![p] = [@ EXCEPT !.pc = "gc",
                               !.live = UNION {bakPoint[x].refs : x \in bakJson}]]
       ELSE BakEnds(p) /\ UNCHANGED bakLock
    /\ UNCHANGED <<bakObj, bakJson, bakHash, bakPoint, bakDrawn, bakPublished, bakCrashes>>

BakGcSweep(p) ==
    /\ BakAt(p, "gc")
    /\ \/ /\ \E o \in bakObj \ bakProc[p].live : bakObj' = bakObj \ {o}
          /\ UNCHANGED <<bakProc, bakLock>>
       \/ /\ bakObj \subseteq bakProc[p].live
          /\ BakEnds(p)
          /\ bakLock' = IF bakLock = p THEN BakNobody ELSE bakLock
          /\ UNCHANGED bakObj
    /\ UNCHANGED <<bakJson, bakHash, bakPoint, bakDrawn, bakPublished, bakCrashes>>

\* A process dies, or one of its file operations fails: the lock is released and
\* nothing is undone.
BakCrash(p) ==
    /\ bakProc[p].pc # "idle" /\ bakCrashes < BakMaxCrashes
    /\ bakCrashes' = bakCrashes + 1
    /\ BakEnds(p)
    /\ bakLock' = IF bakLock = p THEN BakNobody ELSE bakLock
    /\ UNCHANGED <<bakObj, bakJson, bakHash, bakPoint, bakDrawn, bakPublished>>

BakStep(p) ==
    \/ BakAwait(p) \/ BakPut(p) \/ BakPublishCheck(p) \/ BakPublishSidecar(p) \/ BakPublishJson(p)
    \/ BakPruneList(p) \/ BakPruneRead(p) \/ BakPruneDecide(p)
    \/ BakDeleteJson(p) \/ BakDeleteHash(p) \/ BakGcMark(p) \/ BakGcSweep(p)

BakNext == \E p \in BakProcs :
    BakStep(p) \/ BakCrash(p) \/ \E m \in BakManifest : BakStart(p, m)

BakSpec == BakInit /\ [][BakNext]_bakVars

\* Every task is scheduled.
BakFairness == \A p \in BakProcs : WF_bakVars(BakStep(p))
-----------------------------------------------------------------------------
(* Properties *)

BakTypeOK ==
    /\ bakObj \subseteq BakObjects /\ bakPoint \in [BakPoints -> BakManifest]
    /\ bakJson \subseteq BakPoints /\ bakHash \subseteq BakPoints /\ bakPublished \subseteq BakPoints
    /\ bakDrawn \in BakPoints \cup {0} /\ bakLock \in BakProcs \cup {BakNobody}
    /\ bakProc \in [BakProcs -> [pc : BakPc, point : BakPoints \cup {0}, todo : SUBSET BakObjects,
           away : BOOLEAN, list : SUBSET BakPoints, seen : SUBSET BakPoints, live : SUBSET BakObjects]]
    /\ bakCrashes \in 0..BakMaxCrashes

\* What is promised can be restored.  Pruning keeps every manual backup and the
\* newest automatic ones, also when several processes prune from listings of
\* different ages; and a manifest that can be listed has its sidecar and all its
\* objects, at every moment, whichever process dies or collects meanwhile.
BakRestorable ==
    LET manual == {x \in bakPublished : bakPoint[x].manual} IN
    /\ manual \cup BakNewest(bakPublished \ manual, BakRetention) \subseteq bakJson
    /\ \A x \in bakJson : x \in bakHash /\ bakPoint[x].refs \subseteq bakObj

(* The inductive invariant. *)

\* Captures, deletions and collections run one at a time.
BakLocked ==
    \A p \in BakProcs :
        bakProc[p].pc \in {"await", "put", "sidecar", "json", "delete", "gc"} => bakLock = p

\* The point that is captured is the newest one, its objects are there before
\* its sidecar, and its sidecar before its manifest.
BakCapturing ==
    \A p \in BakProcs :
        /\ bakProc[p].pc \in {"await", "put", "sidecar", "json"} =>
              bakProc[p].point \in BakPoints /\ bakProc[p].point = bakDrawn
        /\ bakProc[p].pc \in {"sidecar", "json"} => bakPoint[bakProc[p].point].refs \subseteq bakObj
        /\ bakProc[p].pc = "json" => bakProc[p].point \in bakHash

\* A manifest goes before its sidecar, and a collection knows every manifest.
BakCollecting ==
    \A p \in BakProcs :
        /\ bakProc[p].pc = "delete" => bakProc[p].point \notin bakJson
        /\ bakProc[p].pc = "gc" => \A x \in bakJson : bakPoint[x].refs \subseteq bakProc[p].live

\* An automatic point with enough newer ones: that does not change any more,
\* so a listing may be as old as it likes.
BakBeyond(x) ==
    /\ x \in bakPublished /\ ~bakPoint[x].manual
    /\ Cardinality({y \in bakPublished : ~bakPoint[y].manual /\ y > x}) >= BakRetention

\* What is listed was published, and only what is beyond the retention is
\* deleted or about to be.
BakPruning ==
    /\ IsFiniteSet(bakPublished) /\ bakJson \subseteq bakPublished
    /\ \A x \in bakPublished : x <= bakDrawn
    /\ \A x \in bakPublished \ bakJson : BakBeyond(x)
    /\ \A p \in BakProcs :
          /\ bakProc[p].list \subseteq bakPublished /\ bakProc[p].seen \subseteq bakPublished
          /\ bakProc[p].pc \in {"prune", "delete"} => \A x \in bakProc[p].list : BakBeyond(x)

BakWhole == \A x \in bakJson : x \in bakHash /\ bakPoint[x].refs \subseteq bakObj

\* These are inductive and imply BakRestorable.
BakInv == BakTypeOK /\ BakLocked /\ BakCapturing /\ BakCollecting /\ BakPruning /\ BakWhole

\* "Same-thread reentry is allowed so [`Self::put_object`] can nest under a
\* backup that already holds the lock": a capture does not wait for itself.
BakCaptureEnds == \A p \in BakProcs : BakAt(p, "put") ~> ~BakAt(p, "put")
=============================================================================
