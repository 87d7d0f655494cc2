-------------------------- MODULE ConfigDocuments ---------------------------
(***************************************************************************)
(* The clustered `core.events` document and its copy in a running daemon:  *)
(* import_if_absent and replace_document of control_plane/documents.rs,    *)
(* and the reconciler, the PUT handler and the reload of bookclerkd        *)
(* (config_authority.rs, api.rs).                                          *)
(*                                                                         *)
(* A batch is one transaction and one step; every read is a step of its    *)
(* own.  One daemon is followed; calls of other replicas (CfgPeers) change *)
(* the database only.  The body of a document is its revision, and what a  *)
(* request hash tells apart is its expected revision.  Receipts last 24    *)
(* hours: a purge meets no call of the same operation in flight.           *)
(***************************************************************************)
EXTENDS Integers, FiniteSets

CONSTANTS
    CfgDbs,        \* databases (clusters) the daemon may be pointed at
    CfgHome,       \* the one it starts with
    CfgCalls,      \* replace requests, each sent once
    CfgPeers,      \* requests served by another replica
    CfgOps,        \* operation ids; two calls with one id are a retry
    CfgImports,    \* bootstraps of replicas
    CfgNobody,     \* write_operation_id of no replace
    CfgMaxRev,     \* bound: revisions
    CfgMaxReloads, \* bound: reloads of config.toml
    CfgMaxDrops,   \* bound: reloads whose request is dropped
    CfgMaxPurges   \* bound: receipts that expire and are purged

ASSUME CfgAssumption ==
    /\ CfgHome \in CfgDbs /\ CfgPeers \subseteq CfgCalls /\ CfgNobody \notin CfgOps
    /\ {CfgMaxRev, CfgMaxReloads, CfgMaxDrops, CfgMaxPurges} \subseteq Nat /\ CfgMaxRev > 0

VARIABLES
    cfgDoc,      \* configuration_documents: revision (0 = absent) and its writer
    cfgAudit,    \* audit rows of each revision
    cfgNotice,   \* configuration_changes rows of each revision
    cfgReceipt,  \* bookclerk_receipts of replaceConfiguration
    cfgImport,   \* local state of a bootstrap
    cfgCall,     \* local state of a replace request
    cfgLib,      \* AppState.library
    cfgLive,     \* AppState.config: events_authority and events_revision (0: not booted)
    cfgTick,     \* the reconciler's local state
    cfgReload,   \* the reload's local state
    cfgPurged,   \* history: operations that lost their receipt
    cfgCount     \* reloads and drops so far (bounded)

cfgVars == <<cfgDoc, cfgAudit, cfgNotice, cfgReceipt, cfgImport, cfgCall, cfgLib, cfgLive,
             cfgTick, cfgReload, cfgPurged, cfgCount>>
cfgStore == <<cfgDoc, cfgAudit, cfgNotice, cfgReceipt, cfgPurged>>
cfgDaemon == <<cfgLib, cfgLive, cfgTick, cfgReload, cfgCount>>

CfgRevs == 1..CfgMaxRev
CfgNoReceipt == [status |-> "none", rev |-> 0, exp |-> 0]
CfgLoaded == [db : CfgDbs, rev : 0..CfgMaxRev]

CfgInit ==
    /\ cfgDoc = [d \in CfgDbs |-> [rev |-> 0, op |-> CfgNobody]]
    /\ cfgAudit = [d \in CfgDbs |-> [r \in CfgRevs |-> 0]]
    /\ cfgNotice = [d \in CfgDbs |-> [r \in CfgRevs |-> 0]]
    /\ cfgReceipt = [d \in CfgDbs |-> [o \in CfgOps |-> CfgNoReceipt]]
    /\ cfgImport = [i \in CfgImports |-> [pc |-> "idle", db |-> CfgHome]]
    /\ cfgCall = [c \in CfgCalls |->
           [pc |-> "idle", db |-> CfgHome, op |-> CfgNobody, exp |-> 0, rev |-> 0, answer |-> "none"]]
    /\ cfgLib = CfgHome
    /\ cfgLive = [db |-> CfgHome, rev |-> 0]
    /\ cfgTick = [pc |-> "idle", seen |-> [db |-> CfgHome, rev |-> 0]]
    /\ cfgReload = [pc |-> "idle", fresh |-> [db |-> CfgHome, rev |-> 0], swap |-> FALSE]
    /\ cfgPurged = {}
    /\ cfgCount = [reloads |-> 0, drops |-> 0]

CfgRevised(d, r) ==
    /\ cfgAudit' = [cfgAudit EXCEPT ![d][r] = @ + 1]
    /\ cfgNotice' = [cfgNotice EXCEPT ![d][r] = @ + 1]
-----------------------------------------------------------------------------
(* import_if_absent: bootstrap_control_plane of every replica *)

CfgImportRead(i, d) ==
    /\ cfgImport[i].pc = "idle"
    /\ cfgImport' = [cfgImport EXCEPT ![i] =
           [pc |-> IF cfgDoc[d].rev = 0 THEN "batch" ELSE "idle", db |-> d]]
    /\ cfgImport'[i] # cfgImport[i]
    /\ UNCHANGED <<cfgStore, cfgCall, cfgDaemon>>

\* Faulty: the audit row and the notice do not depend on the insert.
CfgImportTwice(i) ==
    /\ cfgImport[i].pc = "batch"
    /\ cfgDoc' = [cfgDoc EXCEPT ![cfgImport[i].db].rev = IF @ = 0 THEN 1 ELSE @]
    /\ CfgRevised(cfgImport[i].db, 1)
    /\ cfgImport' = [cfgImport EXCEPT ![i].pc = "idle"]
    /\ UNCHANGED <<cfgReceipt, cfgPurged, cfgCall, cfgDaemon>>

\* INSERT OR IGNORE; audit row and notice only for the insert that won.
CfgImportBatch(i) ==
    LET d == cfgImport[i].db IN
    /\ cfgImport[i].pc = "batch"
    /\ IF cfgDoc[d].rev = 0
       THEN cfgDoc' = [cfgDoc EXCEPT ![d].rev = 1] /\ CfgRevised(d, 1)
       ELSE UNCHANGED <<cfgDoc, cfgAudit, cfgNotice>>
    /\ cfgImport' = [cfgImport EXCEPT ![i].pc = "idle"]
    /\ UNCHANGED <<cfgReceipt, cfgPurged, cfgCall, cfgDaemon>>
-----------------------------------------------------------------------------
(* replace_document *)

\* The client read the document before, so it exists; its revision may be old.
CfgSend(c, d, o, exp) ==
    /\ cfgCall[c].pc = "idle" /\ exp <= cfgDoc[d].rev
    /\ c \notin CfgPeers => d = cfgLib
    /\ cfgCall' = [cfgCall EXCEPT ![c] = [@ EXCEPT !.pc = "lookup", !.db = d, !.op = o, !.exp = exp]]
    /\ UNCHANGED <<cfgStore, cfgImport, cfgDaemon>>

CfgReceiptOf(c) == cfgReceipt[cfgCall[c].db][cfgCall[c].op]
CfgAnswer(c, a) == cfgCall' = [cfgCall EXCEPT ![c] = [@ EXCEPT !.pc = "done", !.answer = a]]

\* existing_receipt_outcome: another request under this id is an error; the
\* same one gets the recorded outcome; no receipt lets the caller go on.
CfgByReceipt(c, otherwise) ==
    LET r == CfgReceiptOf(c) IN
    CASE r.status = "none"           -> cfgCall' = otherwise
      [] r.status # "none" /\ r.exp # cfgCall[c].exp -> CfgAnswer(c, "error")
      [] r.status = "ok" /\ r.exp = cfgCall[c].exp   -> CfgAnswer(c, "replayed")
      [] OTHER                       -> CfgAnswer(c, "conflict")

CfgLookup(c) ==
    /\ cfgCall[c].pc = "lookup"
    /\ CfgByReceipt(c, [cfgCall EXCEPT ![c].pc = "read"])
    /\ UNCHANGED <<cfgStore, cfgImport, cfgDaemon>>

CfgRead(c) ==
    /\ cfgCall[c].pc = "read"
    /\ cfgCall' = [cfgCall EXCEPT ![c].pc =
           IF cfgDoc[cfgCall[c].db].rev = cfgCall[c].exp THEN "batch" ELSE "recheck"]
    /\ UNCHANGED <<cfgStore, cfgImport, cfgDaemon>>

\* Faulty: a newer revision is a conflict without a second look at the receipt.
CfgRecheckNothing(c) ==
    /\ cfgCall[c].pc = "recheck"
    /\ CfgAnswer(c, "conflict")
    /\ UNCHANGED <<cfgStore, cfgImport, cfgDaemon>>

\* The revision moved: perhaps this very operation moved it since the lookup.
CfgRecheck(c) ==
    /\ cfgCall[c].pc = "recheck"
    /\ CfgByReceipt(c, [cfgCall EXCEPT ![c] = [@ EXCEPT !.pc = "done", !.answer = "conflict"]])
    /\ UNCHANGED <<cfgStore, cfgImport, cfgDaemon>>

\* The UPDATE matches: revision as expected and no receipt of the operation.
CfgCommits(c) ==
    /\ CfgReceiptOf(c).status = "none"
    /\ cfgDoc[cfgCall[c].db].rev = cfgCall[c].exp

\* The batch: compare-and-set, audit row, notice and receipt in one transaction.
\* A reply that is lost leaves the caller with an error.
CfgBatch(c) ==
    LET k == cfgCall[c] d == k.db r == CfgReceiptOf(c) rev == cfgDoc[d].rev + 1 IN
    /\ k.pc = "batch"
    /\ CfgCommits(c) => rev <= CfgMaxRev
    /\ IF CfgCommits(c)
       THEN /\ cfgDoc' = [cfgDoc EXCEPT ![d] = [rev |-> rev, op |-> k.op]]
            /\ CfgRevised(d, rev)
            /\ cfgReceipt' = [cfgReceipt EXCEPT ![d][k.op] = [status |-> "ok", rev |-> rev, exp |-> k.exp]]
       ELSE /\ cfgReceipt' = [cfgReceipt EXCEPT ![d][k.op] =
                   IF r.status = "none" THEN [status |-> "conflict", rev |-> rev - 1, exp |-> k.exp] ELSE r]
            /\ UNCHANGED <<cfgDoc, cfgAudit, cfgNotice>>
    /\ \/ /\ cfgReceipt'[d][k.op].exp = k.exp /\ cfgReceipt'[d][k.op].status = "ok"
          /\ cfgCall' = [cfgCall EXCEPT ![c].pc = "load"]
       \/ /\ cfgReceipt'[d][k.op].exp = k.exp /\ cfgReceipt'[d][k.op].status = "conflict"
          /\ CfgAnswer(c, "conflict")
       \/ CfgAnswer(c, "error")
    /\ UNCHANGED <<cfgPurged, cfgImport, cfgDaemon>>

\* The committed document is read back; somebody may have replaced it already.
CfgLoad(c) ==
    LET k == cfgCall[c] doc == cfgDoc[k.db] IN
    /\ k.pc = "load"
    /\ IF doc.op = k.op \/ doc.rev = CfgReceiptOf(c).rev
       THEN cfgCall' = [cfgCall EXCEPT ![c] = [@ EXCEPT !.pc = IF c \in CfgPeers THEN "done" ELSE "publish",
                                                        !.rev = doc.rev, !.answer = "applied"]]
       ELSE CfgAnswer(c, "replayed")
    /\ UNCHANGED <<cfgStore, cfgImport, cfgDaemon>>

\* An expired receipt goes with the batch of some other operation.
CfgPurge(d, o) ==
    /\ cfgReceipt[d][o].status # "none" /\ Cardinality(cfgPurged) < CfgMaxPurges
    /\ \A c \in CfgCalls : cfgCall[c].op = o => cfgCall[c].pc \in {"idle", "done", "publish"}
    /\ cfgReceipt' = [cfgReceipt EXCEPT ![d][o] = CfgNoReceipt]
    /\ cfgPurged' = cfgPurged \cup {o}
    /\ UNCHANGED <<cfgDoc, cfgAudit, cfgNotice, cfgImport, cfgCall, cfgDaemon>>
-----------------------------------------------------------------------------
(* The live copy *)

\* Faulty: a publication of the same cluster is applied whatever its revision.
CfgInstallAny(live, loaded) == IF live.db # loaded.db THEN live ELSE loaded

\* install_events, EventsPublish::Monotonic: a newer revision of one cluster.
CfgInstall(live, loaded) ==
    IF live.db # loaded.db \/ loaded.rev <= live.rev THEN live ELSE loaded

\* publish_events of the PUT handler and of commit_events_settings.
CfgPublish(c) ==
    /\ cfgCall[c].pc = "publish"
    /\ cfgLive' = CfgInstall(cfgLive, [db |-> cfgCall[c].db, rev |-> cfgCall[c].rev])
    /\ cfgCall' = [cfgCall EXCEPT ![c].pc = "done"]
    /\ UNCHANGED <<cfgStore, cfgImport, cfgLib, cfgTick, cfgReload, cfgCount>>

\* reconcile_events: a snapshot of the library handle, its document, then the
\* write lock of the config.
CfgTickSnapshot ==
    /\ cfgTick.pc = "idle"
    /\ cfgTick' = [pc |-> "read", seen |-> [db |-> cfgLib, rev |-> 0]]
    /\ UNCHANGED <<cfgStore, cfgImport, cfgCall, cfgLib, cfgLive, cfgReload, cfgCount>>

CfgTickRead ==
    /\ cfgTick.pc = "read"
    /\ cfgTick' = IF cfgDoc[cfgTick.seen.db].rev = 0
                  THEN [cfgTick EXCEPT !.pc = "idle"]
                  ELSE [pc |-> "publish",
                        seen |-> [cfgTick.seen EXCEPT !.rev = cfgDoc[cfgTick.seen.db].rev]]
    /\ UNCHANGED <<cfgStore, cfgImport, cfgCall, cfgLib, cfgLive, cfgReload, cfgCount>>

CfgTickPublish ==
    /\ cfgTick.pc = "publish"
    /\ cfgLive' = CfgInstall(cfgLive, cfgTick.seen)
    /\ cfgTick' = [cfgTick EXCEPT !.pc = "idle"]
    /\ UNCHANGED <<cfgStore, cfgImport, cfgCall, cfgLib, cfgReload, cfgCount>>

\* reload_daemon_config: the target is opened and bootstrapped, its document is
\* read, the library handle is swapped, and the config is assigned last.  `swap`
\* says that the connect settings changed; they may still name the same cluster.
CfgReloadRead(d, swap) ==
    /\ cfgReload.pc = "idle" /\ cfgCount.reloads < CfgMaxReloads
    /\ d # cfgLib => swap
    /\ cfgDoc[d].rev > 0
    /\ cfgReload' = [pc |-> "swap", fresh |-> [db |-> d, rev |-> cfgDoc[d].rev], swap |-> swap]
    /\ cfgCount' = [cfgCount EXCEPT !.reloads = @ + 1]
    /\ UNCHANGED <<cfgStore, cfgImport, cfgCall, cfgLib, cfgLive, cfgTick>>

CfgReloadSwap ==
    /\ cfgReload.pc = "swap"
    /\ cfgLib' = cfgReload.fresh.db
    /\ cfgReload' = [cfgReload EXCEPT !.pc = "assign"]
    /\ UNCHANGED <<cfgStore, cfgImport, cfgCall, cfgLive, cfgTick, cfgCount>>

\* Faulty: only the reconnect signal makes a reload a swap.
CfgReloadMonotonic ==
    /\ cfgReload.pc = "assign"
    /\ cfgLive' = CfgInstall(cfgLive, cfgReload.fresh)
    /\ cfgReload' = [cfgReload EXCEPT !.pc = "idle"]
    /\ UNCHANGED <<cfgStore, cfgImport, cfgCall, cfgLib, cfgTick, cfgCount>>

\* finish_reload_events under the config write lock.
CfgReloadAssign ==
    LET f == cfgReload.fresh IN
    /\ cfgReload.pc = "assign"
    /\ cfgLive' = IF cfgReload.swap \/ cfgLive.db # f.db THEN f ELSE CfgInstall(cfgLive, f)
    /\ cfgReload' = [cfgReload EXCEPT !.pc = "idle"]
    /\ UNCHANGED <<cfgStore, cfgImport, cfgCall, cfgLib, cfgTick, cfgCount>>

\* The client of the reload request goes away and the handler is dropped.
CfgReloadDropped ==
    /\ cfgReload.pc # "idle" /\ cfgCount.drops < CfgMaxDrops
    /\ cfgReload' = [cfgReload EXCEPT !.pc = "idle"]
    /\ cfgCount' = [cfgCount EXCEPT !.drops = @ + 1]
    /\ UNCHANGED <<cfgStore, cfgImport, cfgCall, cfgLib, cfgLive, cfgTick>>

CfgCallStep(c) ==
    \/ CfgLookup(c) \/ CfgRead(c) \/ CfgRecheck(c) \/ CfgBatch(c) \/ CfgLoad(c) \/ CfgPublish(c)
CfgTickStep == CfgTickSnapshot \/ CfgTickRead \/ CfgTickPublish
CfgReloadStep == CfgReloadSwap \/ CfgReloadAssign

CfgNext ==
    \/ \E i \in CfgImports : CfgImportBatch(i) \/ \E d \in CfgDbs : CfgImportRead(i, d)
    \/ \E c \in CfgCalls : CfgCallStep(c)
    \/ \E c \in CfgCalls, d \in CfgDbs, o \in CfgOps, exp \in CfgRevs : CfgSend(c, d, o, exp)
    \/ \E d \in CfgDbs, o \in CfgOps : CfgPurge(d, o)
    \/ CfgTickStep \/ CfgReloadStep \/ CfgReloadDropped
    \/ \E d \in CfgDbs, swap \in BOOLEAN : CfgReloadRead(d, swap)

CfgSpec == CfgInit /\ [][CfgNext]_cfgVars

\* The reconciler ticks for ever and a reload that was started goes on.
CfgFairness == WF_cfgVars(CfgTickStep) /\ WF_cfgVars(CfgReloadStep)
-----------------------------------------------------------------------------
(* Properties *)

CfgTypeOK ==
    /\ cfgDoc \in [CfgDbs -> [rev : 0..CfgMaxRev, op : CfgOps \cup {CfgNobody}]]
    /\ cfgAudit \in [CfgDbs -> [CfgRevs -> Nat]] /\ cfgNotice \in [CfgDbs -> [CfgRevs -> Nat]]
    /\ cfgReceipt \in [CfgDbs -> [CfgOps ->
           [status : {"none", "ok", "conflict"}, rev : 0..CfgMaxRev, exp : 0..CfgMaxRev]]]
    /\ cfgImport \in [CfgImports -> [pc : {"idle", "batch"}, db : CfgDbs]]
    /\ cfgCall \in [CfgCalls ->
           [pc : {"idle", "lookup", "read", "recheck", "batch", "load", "publish", "done"},
            db : CfgDbs, op : CfgOps \cup {CfgNobody}, exp : 0..CfgMaxRev, rev : 0..CfgMaxRev,
            answer : {"none", "applied", "replayed", "conflict", "error"}]]
    /\ cfgLib \in CfgDbs /\ cfgLive \in CfgLoaded
    /\ cfgTick \in [pc : {"idle", "read", "publish"}, seen : CfgLoaded]
    /\ cfgReload \in [pc : {"idle", "swap", "assign"}, fresh : CfgLoaded, swap : BOOLEAN]
    /\ cfgPurged \subseteq CfgOps
    /\ cfgCount \in [reloads : 0..CfgMaxReloads, drops : 0..CfgMaxDrops]

\* Every revision is recorded once: one audit row and one change notice for each
\* revision up to the current one, whatever raced, was retried or was purged.
\* And no update is lost: a write that was acknowledged followed the revision
\* its author had read.
CfgOneNoticePerRevision ==
    /\ \A d \in CfgDbs, r \in CfgRevs :
          /\ cfgAudit[d][r] = IF r <= cfgDoc[d].rev THEN 1 ELSE 0
          /\ cfgNotice[d][r] = cfgAudit[d][r]
    /\ \A d \in CfgDbs, o \in CfgOps :
          cfgReceipt[d][o].status = "ok" => cfgReceipt[d][o].rev = cfgReceipt[d][o].exp + 1

\* A retry gets the outcome of the first: of two calls with one operation id and
\* one request, none is told "conflict" when the other's write was committed
\* ("a later edit does not turn a retry of an earlier success into a conflict").
CfgRetryAgrees ==
    \A b, c \in CfgCalls :
        /\ cfgCall[b].op = cfgCall[c].op /\ cfgCall[b].db = cfgCall[c].db
        /\ cfgCall[b].exp = cfgCall[c].exp /\ cfgCall[c].op \notin cfgPurged
        /\ cfgCall[b].answer \in {"applied", "replayed"}
        => cfgCall[c].answer # "conflict"

\* The daemon's revision of one cluster's document never moves backwards, except
\* where a reload that reconnects installs what it read (a stale read that is
\* released late leaves body and revision unchanged).
CfgLiveForward ==
    [][cfgLive'.db = cfgLive.db /\ cfgLive'.rev < cfgLive.rev
       => cfgReload.pc = "assign" /\ cfgReload'.pc = "idle" /\ cfgReload.swap]_cfgVars

(* The inductive invariant. *)

\* A request that was sent names an operation and a revision that existed; it
\* has an answer only at its end.
CfgCallsKnown ==
    \A c \in CfgCalls :
        /\ cfgCall[c].pc # "idle" =>
              cfgCall[c].op \in CfgOps /\ cfgCall[c].exp <= cfgDoc[cfgCall[c].db].rev
        /\ cfgCall[c].answer # "none" => cfgCall[c].pc \in {"publish", "done"}

\* The receipt records that the write of this very request was committed.
CfgCommitted(c) ==
    CfgReceiptOf(c).status = "ok" /\ CfgReceiptOf(c).exp = cfgCall[c].exp

\* What a request was told, or is about to be told, is what its receipt says as
\* long as there is one.  Where "conflict" left no receipt the revision has
\* passed the expected one, so no retry of the request can commit any more.
CfgReceiptsTell ==
    \A c \in CfgCalls :
        /\ cfgCall[c].pc = "recheck" => cfgDoc[cfgCall[c].db].rev > cfgCall[c].exp
        /\ cfgCall[c].pc = "load" => CfgCommitted(c)
        /\ cfgCall[c].answer \in {"applied", "replayed"} /\ cfgCall[c].op \notin cfgPurged
              => CfgCommitted(c)
        /\ cfgCall[c].answer = "conflict" /\ cfgCall[c].op \notin cfgPurged
              => /\ ~CfgCommitted(c)
                 /\ CfgReceiptOf(c).status = "none" => cfgDoc[cfgCall[c].db].rev > cfgCall[c].exp

\* These are inductive and imply CfgRetryAgrees.
CfgInv == CfgTypeOK /\ CfgOneNoticePerRevision /\ CfgCallsKnown /\ CfgReceiptsTell

\* Once writes and reloads end, the daemon runs the current document of the
\* database it is connected to, also when a reload raced a write; a reload that
\* is dropped after it swapped the library is the one exception.
CfgCatchesUp ==
    <>[](cfgCount.drops = 0 => cfgLive.db = cfgLib /\ cfgLive.rev = cfgDoc[cfgLib].rev)
=============================================================================
