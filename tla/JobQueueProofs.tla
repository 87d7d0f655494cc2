--------------------------- MODULE JobQueueProofs ---------------------------
(***************************************************************************)
(* Proofs about JobQueue, for every set of jobs and workers and every      *)
(* bound.  First the types, then what one step can do to one row, then     *)
(* the invariants.                                                         *)
(***************************************************************************)
EXTENDS JobQueue, FiniteSetTheorems, TLAPS

(* Types of the operators that compute a new row. *)

\* Releasing a row keeps it a row.
LEMMA ReleasedType ==
    ASSUME NEW r \in Row, NEW s \in States
    PROVE  Released(r, s) \in Row
BY DEF Released, Row, States, Active, Terminal

\* A fenced update writes a row.
LEMMA WrittenType ==
    ASSUME NEW r \in Row, NEW to \in Outcome
    PROVE  Written(r, to) \in Row
BY ZenonT(60) DEF Written, Released, Row, States, Active, Terminal, Outcome

\* Reclaim writes a row.
LEMMA ReclaimedType ==
    ASSUME NEW r \in Row, NEW to \in States
    PROVE  Reclaimed(r, to) \in Row
BY ZenonT(60) DEF Reclaimed, Released, Row, States, Active, Terminal

\* The plan's claim writes a row.
LEMMA ClaimedPlanType ==
    ASSUME NEW r \in Row, NEW w \in Workers, NEW left \in BOOLEAN
    PROVE  ClaimedPlan(r, w, left) \in Row
<1> DEFINE q == ClaimedPlan(r, w, left)
<1>1. q.gen \in Nat /\ q.attempt \in Nat
    BY SMT DEF ClaimedPlan, Row
<1>2. q.left \in BOOLEAN
    BY Zenon DEF ClaimedPlan, Row
<1>q. QED
    BY <1>1, <1>2, ZenonT(60) DEF ClaimedPlan, Row, States, Active

\* The local claim writes a row.
LEMMA ClaimedLocalType ==
    ASSUME NEW r \in Row, NEW w \in Workers, NEW left \in BOOLEAN
    PROVE  ClaimedLocal(r, w, left) \in Row
<1> DEFINE q == ClaimedLocal(r, w, left)
<1>1. q.gen \in Nat /\ q.attempt \in Nat
    BY SMT DEF ClaimedLocal, Row
<1>2. q.left \in BOOLEAN
    BY Zenon DEF ClaimedLocal, Row
<1>q. QED
    BY <1>1, <1>2, ZenonT(60) DEF ClaimedLocal, Row, States, Active

\* A row that has not been admitted, and a pruned one, are rows.
LEMMA NoRowType == NoRow \in Row /\ [NoRow EXCEPT !.state = "pruned"] \in Row
BY DEF NoRow, Row, States, Active, Terminal

\* The flags and history fields that a step may set.
LEMMA FlagTypes ==
    ASSUME NEW r \in Row
    PROVE  /\ [r EXCEPT !.cancel = TRUE] \in Row
           /\ [r EXCEPT !.ready = TRUE] \in Row
           /\ [r EXCEPT !.left = TRUE] \in Row
           /\ [r EXCEPT !.lease = "past"] \in Row
           /\ [r EXCEPT !.state = "cancelled"] \in Row
           /\ [r EXCEPT !.state = "pending", !.ready = TRUE] \in Row
           /\ \A x \in {"ok", "unfenced", "err"} : [r EXCEPT !.said = x] \in Row
           /\ CancelFlag(r) \in Row /\ CancelPending(r) \in Row
BY DEF CancelFlag, CancelPending, Released, Row, States, Active, Terminal

\* A worker with a fence builds a well-typed update.
LEMMA UpdateOfType ==
    ASSUME TypeOK, NEW w \in Workers, fence[w] # NoFence, NEW to \in Outcome
    PROVE  UpdateOf(w, to) \in Update /\ fence[w].job \in Jobs /\ fence[w].gen \in Nat
BY DEF TypeOK, UpdateOf, Update, Fence

\* A snapshot of a row is well typed.
LEMMA SnapshotType ==
    ASSUME TypeOK, NEW j \in Jobs
    PROVE  SnapshotOf(j) \in Snapshot
<1>1. row[j] \in Row
    BY DEF TypeOK
<1>2. (row[j].attempt >= MaxAttempts) \in BOOLEAN
    OBVIOUS
<1>q. QED
    BY <1>1, <1>2, Zenon DEF SnapshotOf, Snapshot, Row
-----------------------------------------------------------------------------
(* Types of the parts that actions share. *)

PCs == {"top", "reclaim", "claim", "claimed", "run", "complete", "failing", "failcas"}

WorkerTypes ==
    /\ pc \in [Workers -> PCs]
    /\ fence \in [Workers -> Fence \cup {NoFence}]
    /\ stop \in [Workers -> BOOLEAN]
    /\ hb \in [Workers -> {"off", "sure", "unsure", "lost"}]
    /\ seen \in [Workers -> SUBSET Snapshot]

QueueTypes ==
    /\ row \in [Jobs -> Row]
    /\ due \in [Workers -> SUBSET Jobs]
    /\ late \subseteq Update
    /\ lateClaims \subseteq Workers

OperatorTypes ==
    /\ op \in [pc : {"read", "cas"}, job : Jobs, running : BOOLEAN, tries : 1 .. CancelTries]
             \cup [pc : {"answered"}, job : Jobs, running : {FALSE}, tries : {0}]
             \cup {NoRequest}
    /\ crashes \in 0 .. MaxCrashes

\* The type invariant, in the three parts that the steps disturb.
LEMMA TypeParts == TypeOK <=> WorkerTypes /\ QueueTypes /\ OperatorTypes
BY DEF TypeOK, WorkerTypes, QueueTypes, OperatorTypes, PCs

\* Writing one row keeps the table well typed.
LEMMA TableType ==
    ASSUME row \in [Jobs -> Row], NEW j \in Jobs, NEW r \in Row, row' = [row EXCEPT ![j] = r]
    PROVE  row' \in [Jobs -> Row]
OBVIOUS

\* A fenced update, whether or not its fence holds.
LEMMA ApplyType ==
    ASSUME QueueTypes, NEW u \in Update, ApplyUpdate(u)
    PROVE  row' \in [Jobs -> Row] /\ due' \in [Workers -> SUBSET Jobs]
<1>1. u.job \in Jobs /\ u.to \in Outcome
    BY DEF Update
<1>2. Written(row[u.job], u.to) \in Row
    BY <1>1, WrittenType DEF QueueTypes
<1>3. row' \in [Jobs -> Row]
    BY <1>1, <1>2 DEF ApplyUpdate, QueueTypes
<1>4. due' \in [Workers -> SUBSET Jobs]
    BY DEF ApplyUpdate, QueueTypes
<1>q. QED BY <1>3, <1>4

\* Going back to the top of the loop.
LEMMA LeaveType ==
    ASSUME WorkerTypes, FenceKnown, NEW w \in Workers, Leave(w)
    PROVE  WorkerTypes' /\ FenceKnown'
BY DEF WorkerTypes, FenceKnown, Leave, PCs

\* Letting go of a row, or recording what its handler said.
LEMMA HistoryType ==
    ASSUME WorkerTypes, QueueTypes, NEW w \in Workers,
           \/ LetGo(w)
           \/ fence[w] # NoFence /\ \E x \in {"ok", "unfenced", "err"} : Return(w, x)
    PROVE  row' \in [Jobs -> Row]
<1>1. CASE UNCHANGED row
    BY <1>1 DEF QueueTypes
<1>2. CASE fence[w] # NoFence /\ row' = [row EXCEPT ![fence[w].job].left = TRUE]
  <2>1. fence[w].job \in Jobs
      BY <1>2 DEF WorkerTypes, Fence
  <2>2. row' = [row EXCEPT ![fence[w].job] = [row[fence[w].job] EXCEPT !.left = TRUE]]
      BY <1>2, <2>1
  <2>q. QED BY <2>1, <2>2, FlagTypes, TableType DEF QueueTypes
<1>3. ASSUME NEW x \in {"ok", "unfenced", "err"}, fence[w] # NoFence,
             row' = [row EXCEPT ![fence[w].job].said = x]
      PROVE  row' \in [Jobs -> Row]
  <2>1. fence[w].job \in Jobs
      BY <1>3 DEF WorkerTypes, Fence
  <2>2. row' = [row EXCEPT ![fence[w].job] = [row[fence[w].job] EXCEPT !.said = x]]
      BY <1>3, <2>1
  <2>q. QED BY <2>1, <2>2, FlagTypes, TableType DEF QueueTypes
<1>q. QED BY <1>1, <1>2, <1>3 DEF LetGo, Return

\* A claim, by the plan or by the local transaction.
LEMMA ClaimType ==
    ASSUME QueueTypes, NEW w \in Workers, NEW j \in Jobs \cup {NoJob},
           NEW left \in BOOLEAN, ClaimNextJob(w, j, left)
    PROVE  row' \in [Jobs -> Row] /\ due' \in [Workers -> SUBSET Jobs]
<1>1. due' \in [Workers -> SUBSET Jobs]
    BY DEF ClaimNextJob, QueueTypes
<1>2. \A i \in Jobs : /\ row[i] \in Row
                      /\ ClaimedLocal(row[i], w, left) \in Row
                      /\ ClaimedPlan(row[i], w, left) \in Row
                      /\ Released(row[i], "failed") \in Row
                      /\ [row[i] EXCEPT !.state = "cancelled"] \in Row
    BY ClaimedLocalType, ClaimedPlanType, ReleasedType, FlagTypes DEF QueueTypes, States, Terminal
<1>3. ClaimLocal(w, j, left) => row' \in [Jobs -> Row]
    BY <1>2, Zenon DEF ClaimLocal
<1>4. ClaimPlan(w, j, left) => row' \in [Jobs -> Row]
    BY <1>2, Zenon DEF ClaimPlan
<1>q. QED BY <1>1, <1>3, <1>4 DEF ClaimNextJob
-----------------------------------------------------------------------------
(* Every action keeps the types. *)

TypeInv == TypeOK /\ FenceKnown

\* Steps that belong to no worker.
LEMMA QueueSteps ==
    ASSUME TypeInv, NEW j \in Jobs, EnqueueJob(j) \/ RunAfterPasses(j) \/ LeaseLapses(j)
    PROVE  TypeInv'
<1>1. row' \in [Jobs -> Row]
  <2>1. row[j] \in Row BY DEF TypeInv, TypeOK
  <2>2. CASE EnqueueJob(j)
      BY <2>1, <2>2, FlagTypes DEF EnqueueJob, TypeInv, TypeOK
  <2>3. CASE RunAfterPasses(j)
      BY <2>1, <2>3, FlagTypes DEF RunAfterPasses, TypeInv, TypeOK
  <2>4. CASE LeaseLapses(j)
      BY <2>1, <2>4, FlagTypes DEF LeaseLapses, TypeInv, TypeOK
  <2>q. QED BY <2>2, <2>3, <2>4
<1>2. UNCHANGED <<due, late, lateClaims, pc, fence, stop, hb, seen, op, crashes>>
    BY DEF EnqueueJob, RunAfterPasses, LeaseLapses, workerVars
<1>q. QED
    BY <1>1, <1>2 DEF TypeInv, TypeOK, FenceKnown

\* The reclaim pass and the pruning after it.
LEMMA ReclaimSteps ==
    ASSUME TypeInv, NEW w \in Workers,
           ReclaimRead(w) \/ ReclaimRow(w) \/ ReclaimFails(w) \/ PruneTerminalJobs(w)
    PROVE  TypeInv'
<1> USE DEF TypeInv
<1>1. CASE ReclaimRead(w)
  <2> DEFINE expired == {j \in Jobs : row[j].state = "running" /\ row[j].lease # "live"}
  <2>1. {SnapshotOf(j) : j \in expired} \in SUBSET Snapshot
      BY SnapshotType
  <2> HIDE DEF expired
  <2>2. expired \in SUBSET Jobs BY DEF expired
  <2>3. /\ seen' = [seen EXCEPT ![w] = {SnapshotOf(j) : j \in expired}]
        /\ due' = [due EXCEPT ![w] = expired]
        /\ pc' = [pc EXCEPT ![w] = "reclaim"]
        /\ UNCHANGED <<row, fence, stop, hb, late, lateClaims, op, crashes>>
      BY <1>1 DEF ReclaimRead, expired
  <2>4. seen' \in [Workers -> SUBSET Snapshot]
      BY <2>1, <2>3 DEF TypeOK
  <2>q. QED BY <2>2, <2>3, <2>4 DEF TypeOK, FenceKnown
<1>2. CASE ReclaimRow(w)
  <2>1. PICK s \in seen[w] :
          /\ seen' = [seen EXCEPT ![w] = @ \ {s}]
          /\ row' = IF ReclaimHolds(w, s)
                    THEN [row EXCEPT ![s.job] = Reclaimed(@, ReclaimTo(s))] ELSE row
      BY <1>2 DEF ReclaimRow
  <2>2. s \in Snapshot BY DEF TypeOK
  <2>3. s.job \in Jobs /\ ReclaimTo(s) \in States
      BY <2>2 DEF Snapshot, ReclaimTo, States, Active, Terminal
  <2>4. Reclaimed(row[s.job], ReclaimTo(s)) \in Row
      BY <2>3, ReclaimedType DEF TypeOK
  <2>5. row' \in [Jobs -> Row] BY <2>1, <2>3, <2>4 DEF TypeOK
  <2>6. seen' \in [Workers -> SUBSET Snapshot] BY <2>1 DEF TypeOK
  <2>7. UNCHANGED <<pc, fence, stop, hb, due, late, lateClaims, op, crashes>>
      BY <1>2 DEF ReclaimRow
  <2>q. QED BY <2>5, <2>6, <2>7 DEF TypeOK, FenceKnown
<1>3. CASE ReclaimFails(w)
    BY <1>3 DEF ReclaimFails, queueVars, TypeOK, FenceKnown
<1>4. CASE PruneTerminalJobs(w)
  <2>1. row' \in [Jobs -> Row]
      BY <1>4, NoRowType, Zenon DEF PruneTerminalJobs, TypeOK
  <2>2. /\ pc' = [pc EXCEPT ![w] = "claim"] /\ due' = [due EXCEPT ![w] = {}]
        /\ UNCHANGED <<fence, stop, hb, seen, late, lateClaims, op, crashes>>
      BY <1>4 DEF PruneTerminalJobs
  <2>q. QED BY <2>1, <2>2 DEF TypeOK, FenceKnown
<1>q. QED BY <1>1, <1>2, <1>3, <1>4

\* The claim, its reply and its loss.
LEMMA ClaimSteps ==
    ASSUME TypeInv, NEW w \in Workers,
           ClaimRuns(w) \/ ClaimReplies(w) \/ ClaimGivesUp(w) \/ ClaimArrivesLate(w)
    PROVE  TypeInv'
<1> USE DEF TypeInv
<1>0. WorkerTypes /\ QueueTypes /\ OperatorTypes BY TypeParts
<1>1. CASE ClaimRuns(w)
  <2>1. PICK j \in Jobs \cup {NoJob} : /\ ClaimNextJob(w, j, FALSE)
                                      /\ fence' = [fence EXCEPT ![w] = FenceOf(j)]
      BY <1>1 DEF ClaimRuns
  <2>2. row' \in [Jobs -> Row] /\ due' \in [Workers -> SUBSET Jobs]
      BY <1>0, <2>1, ClaimType
  <2>3. FenceOf(j) \in Fence \cup {NoFence}
    <3>1. CASE j = NoJob BY <3>1 DEF FenceOf
    <3>2. CASE j # NoJob
      <4>1. j \in Jobs /\ row[j].gen + 1 \in Nat BY <3>2 DEF TypeOK, Row
      <4>q. QED BY <3>2, <4>1 DEF FenceOf, Fence
    <3>q. QED BY <3>1, <3>2
  <2>4. /\ pc[w] = "claim" /\ pc' = [pc EXCEPT ![w] = "claimed"]
        /\ UNCHANGED <<stop, hb, seen, late, lateClaims, op, crashes>>
      BY <1>1 DEF ClaimRuns
  <2>5. FenceKnown'
      BY <2>1, <2>4 DEF TypeOK, FenceKnown
  <2>q. QED BY <2>1, <2>2, <2>3, <2>4, <2>5 DEF TypeOK
<1>2. CASE ClaimReplies(w)
    BY <1>2 DEF ClaimReplies, queueVars, TypeOK, FenceKnown
<1>3. CASE ClaimGivesUp(w)
  <2>1. row' \in [Jobs -> Row]
      BY <1>0, <1>3, HistoryType DEF ClaimGivesUp
  <2>2. WorkerTypes' /\ FenceKnown'
      BY <1>0, <1>3, LeaveType DEF ClaimGivesUp
  <2>3. lateClaims' \subseteq Workers /\ UNCHANGED <<due, late, op, crashes>>
      BY <1>3 DEF ClaimGivesUp, TypeOK
  <2>q. QED BY <1>0, <2>1, <2>2, <2>3, TypeParts DEF QueueTypes, OperatorTypes, TypeOK, WorkerTypes, PCs
<1>4. CASE ClaimArrivesLate(w)
  <2>1. row' \in [Jobs -> Row] /\ due' \in [Workers -> SUBSET Jobs]
      BY <1>0, <1>4, ClaimType DEF ClaimArrivesLate
  <2>2. lateClaims' \subseteq Workers /\ UNCHANGED <<late, pc, fence, stop, hb, seen, op, crashes>>
      BY <1>4 DEF ClaimArrivesLate, TypeOK, workerVars
  <2>q. QED BY <2>1, <2>2 DEF TypeOK, FenceKnown
<1>q. QED BY <1>1, <1>2, <1>3, <1>4

\* The heartbeat task.
LEMMA HeartbeatSteps ==
    ASSUME TypeInv, NEW w \in Workers,
           HeartbeatAnswered(w) \/ HeartbeatErrs(w) \/ HeartbeatDeadline(w)
    PROVE  TypeInv'
<1> USE DEF TypeInv
<1>0. WorkerTypes /\ QueueTypes /\ OperatorTypes BY TypeParts
<1>1. pc[w] = "run" /\ fence[w] # NoFence /\ "renew" \in Outcome
    BY DEF HeartbeatAnswered, HeartbeatErrs, HeartbeatDeadline, FenceKnown, Outcome
<1>2. UpdateOf(w, "renew") \in Update /\ row[fence[w].job] \in Row
    BY <1>1, UpdateOfType DEF TypeOK
<1>3. stop' \in [Workers -> BOOLEAN]
    BY <1>1, Zenon DEF HeartbeatAnswered, HeartbeatErrs, HeartbeatDeadline, TypeOK
<1>4. CASE HeartbeatAnswered(w)
  <2>1. row' \in [Jobs -> Row] /\ due' \in [Workers -> SUBSET Jobs]
      BY <1>0, <1>2, <1>4, ApplyType DEF HeartbeatAnswered
  <2>2. /\ hb' = [hb EXCEPT ![w] = IF Holds(w) THEN "sure" ELSE "lost"]
        /\ UNCHANGED <<pc, fence, seen, late, lateClaims, op, crashes>>
      BY <1>4 DEF HeartbeatAnswered
  <2>q. QED BY <1>3, <2>1, <2>2 DEF TypeOK, FenceKnown
<1>5. CASE HeartbeatErrs(w)
  <2>1. late' \subseteq Update
      BY <1>2, <1>5 DEF HeartbeatErrs, Abandon, TypeOK
  <2>2. /\ hb' = [hb EXCEPT ![w] = "unsure"]
        /\ UNCHANGED <<row, due, pc, fence, seen, lateClaims, op, crashes>>
      BY <1>5 DEF HeartbeatErrs
  <2>q. QED BY <1>3, <2>1, <2>2 DEF TypeOK, FenceKnown
<1>6. CASE HeartbeatDeadline(w)
    BY <1>3, <1>6 DEF HeartbeatDeadline, queueVars, TypeOK, FenceKnown
<1>q. QED BY <1>4, <1>5, <1>6

\* The handler returns or suspends.
LEMMA HandlerSteps ==
    ASSUME TypeInv, NEW w \in Workers,
           HandlerOk(w) \/ HandlerErr(w) \/ SuspendJob(w) \/ SuspendFails(w)
    PROVE  TypeInv'
<1> USE DEF TypeInv
<1>0. WorkerTypes /\ QueueTypes /\ OperatorTypes BY TypeParts
<1>1. fence[w] # NoFence /\ "suspended" \in Outcome
    BY DEF HandlerOk, HandlerErr, SuspendJob, SuspendFails, FenceKnown, Outcome
<1>2. UpdateOf(w, "suspended") \in Update
    BY <1>1, UpdateOfType
<1>3. CASE HandlerOk(w) \/ HandlerErr(w) \/ SuspendFails(w)
  <2>1. \E x \in {"ok", "unfenced", "err"} : Return(w, x)
      BY <1>3 DEF HandlerOk, HandlerErr, SuspendFails
  <2>2. row' \in [Jobs -> Row]
      BY <1>0, <1>1, <2>1, HistoryType
  <2>3. late' \subseteq Update
      BY <1>2, <1>3 DEF HandlerOk, HandlerErr, SuspendFails, Abandon, TypeOK
  <2>4. /\ \E to \in {"complete", "failing"} : pc' = [pc EXCEPT ![w] = to]
        /\ hb' = [hb EXCEPT ![w] = "off"]
        /\ UNCHANGED <<due, lateClaims, fence, stop, seen, op, crashes>>
      BY <1>3 DEF HandlerOk, HandlerErr, SuspendFails
  <2>5. FenceKnown'
      BY <1>1, <2>4 DEF FenceKnown, TypeOK
  <2>q. QED BY <2>2, <2>3, <2>4, <2>5 DEF TypeOK
<1>4. CASE SuspendJob(w)
  <2>1. row' \in [Jobs -> Row] /\ due' \in [Workers -> SUBSET Jobs]
      BY <1>0, <1>2, <1>4, ApplyType DEF SuspendJob
  <2>2. WorkerTypes' /\ FenceKnown'
      BY <1>0, <1>4, LeaveType DEF SuspendJob
  <2>3. UNCHANGED <<late, lateClaims, op, crashes>>
      BY <1>4 DEF SuspendJob
  <2>q. QED BY <1>0, <2>1, <2>2, <2>3 DEF TypeOK, WorkerTypes, PCs
<1>q. QED BY <1>3, <1>4

\* The worker writes, or fails to write, what became of the job.
LEMMA FinalSteps ==
    ASSUME TypeInv, NEW w \in Workers,
           \/ CompleteJob(w) \/ CompleteErrs(w) \/ FailRead(w) \/ FailIgnored(w)
           \/ FailJob(w) \/ FailErrs(w) \/ Crash(w)
    PROVE  TypeInv'
<1> USE DEF TypeInv
<1>0. WorkerTypes /\ QueueTypes /\ OperatorTypes BY TypeParts
<1>1. \A s \in Snapshot : FailTo(s) \in Outcome
    BY DEF FailTo, Outcome
<1>2. seen[w] \subseteq Snapshot /\ "succeeded" \in Outcome
    BY DEF TypeOK, Outcome
<1>3. CASE FailRead(w)
  <2>1. pc[w] = "failing" /\ fence[w] # NoFence
      BY <1>3 DEF FailRead, FenceKnown
  <2>2. SnapshotOf(fence[w].job) \in Snapshot
      BY <2>1, SnapshotType, UpdateOfType, <1>2
  <2>3. seen' \in [Workers -> SUBSET Snapshot]
      BY <1>3, <2>2 DEF FailRead, TypeOK
  <2>4. pc' = [pc EXCEPT ![w] = "failcas"] /\ UNCHANGED <<row, due, late, lateClaims, fence, stop, hb, op, crashes>>
      BY <1>3 DEF FailRead, queueVars
  <2>q. QED BY <2>1, <2>3, <2>4 DEF TypeOK, FenceKnown
<1>4. CASE CompleteJob(w) \/ FailJob(w)
  <2>1. fence[w] # NoFence /\ Leave(w) /\ UNCHANGED <<late, lateClaims, op, crashes>>
      BY <1>4 DEF CompleteJob, FailJob, FenceKnown
  <2>2. PICK to \in Outcome : ApplyUpdate(UpdateOf(w, to))
      BY <1>1, <1>2, <1>4 DEF CompleteJob, FailJob
  <2>3. row' \in [Jobs -> Row] /\ due' \in [Workers -> SUBSET Jobs]
      BY <1>0, <2>1, <2>2, UpdateOfType, ApplyType
  <2>4. WorkerTypes' /\ FenceKnown'
      BY <1>0, <2>1, LeaveType
  <2>q. QED BY <1>0, <2>1, <2>3, <2>4 DEF TypeOK, WorkerTypes, PCs
<1>5. CASE CompleteErrs(w) \/ FailIgnored(w) \/ FailErrs(w) \/ Crash(w)
  <2>1. /\ Leave(w) /\ LetGo(w) /\ UNCHANGED <<lateClaims, op>>
      BY <1>5 DEF CompleteErrs, FailIgnored, FailErrs, Crash
  <2>2. row' \in [Jobs -> Row] /\ WorkerTypes' /\ FenceKnown'
      BY <1>0, <2>1, LeaveType, HistoryType
  <2>3. due' \in [Workers -> SUBSET Jobs]
      BY <1>5 DEF CompleteErrs, FailIgnored, FailErrs, Crash, TypeOK
  <2>4. crashes' \in 0 .. MaxCrashes
    <3>1. CASE Crash(w) BY <3>1, LimitAssumption DEF Crash, TypeOK
    <3>2. CASE ~Crash(w) BY <3>2, <1>5 DEF CompleteErrs, FailIgnored, FailErrs, TypeOK
    <3>q. QED BY <3>1, <3>2
  <2>5. late' \subseteq Update
    <3>1. CASE UNCHANGED late BY <3>1 DEF TypeOK
    <3>2. ASSUME NEW to \in Outcome, fence[w] # NoFence, Abandon(UpdateOf(w, to))
          PROVE  late' \subseteq Update
        BY <3>2, UpdateOfType DEF Abandon, TypeOK
    <3>3. CASE CompleteErrs(w)
        BY <3>2, <3>3, <1>2 DEF CompleteErrs, FenceKnown
    <3>4. CASE FailErrs(w)
        BY <3>1, <3>2, <3>4, <1>1, <1>2 DEF FailErrs, FenceKnown
    <3>q. QED BY <1>5, <3>1, <3>3, <3>4 DEF FailIgnored, Crash
  <2>q. QED BY <2>1, <2>2, <2>3, <2>4, <2>5 DEF TypeOK, WorkerTypes, PCs
<1>q. QED BY <1>3, <1>4, <1>5

\* Updates in flight.
LEMMA LateSteps ==
    ASSUME TypeInv, NEW u \in late, UpdateArrives(u) \/ UpdateLost(u)
    PROVE  TypeInv'
<1> USE DEF TypeInv
<1>0. WorkerTypes /\ QueueTypes /\ OperatorTypes BY TypeParts
<1>1. u \in Update BY DEF TypeOK
<1>2. row' \in [Jobs -> Row] /\ due' \in [Workers -> SUBSET Jobs]
    BY <1>0, <1>1, ApplyType DEF UpdateArrives, UpdateLost, QueueTypes
<1>3. late' \subseteq Update /\ UNCHANGED <<lateClaims, pc, fence, stop, hb, seen, op, crashes>>
    BY DEF UpdateArrives, UpdateLost, TypeOK, workerVars
<1>q. QED BY <1>2, <1>3 DEF TypeOK, FenceKnown

\* The operator's cancel request.
LEMMA CancelSteps ==
    ASSUME TypeInv, Operator
    PROVE  TypeInv'
<1> USE DEF TypeInv
<1>0. OperatorTypes BY TypeParts
<1>1. UNCHANGED <<due, late, lateClaims, pc, fence, stop, hb, seen, crashes>>
    BY DEF Operator, CancelBegins, CancelReads, CancelCas, CancelErrs, queueVars, workerVars
<1>2. NoRequest.pc = "idle"
    BY DEF NoRequest
<1>3. row' \in [Jobs -> Row]
  <2>1. CASE CancelCas
    <3>1. op.pc = "cas" BY <2>1 DEF CancelCas
    <3>2. op.job \in Jobs BY <1>0, <1>2, <3>1 DEF OperatorTypes
    <3>3. CancelFlag(row[op.job]) \in Row /\ CancelPending(row[op.job]) \in Row
        BY <3>2, FlagTypes DEF TypeOK
    <3>q. QED BY <2>1, <3>2, <3>3 DEF CancelCas, TypeOK
  <2>2. CASE ~CancelCas
      BY <2>2 DEF Operator, CancelBegins, CancelReads, CancelErrs, queueVars, TypeOK
  <2>q. QED BY <2>1, <2>2
<1>4. OperatorTypes'
  <2>1. CASE \E j \in Jobs : CancelBegins(j)
      BY <1>0, <1>1, <2>1, LimitAssumption DEF CancelBegins, OperatorTypes
  <2>2. CASE CancelReads
    <3>1. op.pc = "read" BY <2>2 DEF CancelReads
    <3>2. op \in [pc : {"read", "cas"}, job : Jobs, running : BOOLEAN, tries : 1 .. CancelTries]
        BY <1>0, <1>2, <3>1 DEF OperatorTypes
    <3>3. (row[op.job].state = "running") \in BOOLEAN
        OBVIOUS
    <3>4. CASE row[op.job].state \in Active
      <4>1. op' = [op EXCEPT !.pc = "cas", !.running = (row[op.job].state = "running"), !.tries = @]
          BY <2>2, <3>4 DEF CancelReads
      <4>q. QED BY <1>0, <1>1, <3>2, <3>3, <4>1, Zenon DEF OperatorTypes
    <3>5. CASE row[op.job].state \notin Active
      <4>1. row[op.job].state # "running" BY <3>5 DEF Active
      <4>2. op' = [op EXCEPT !.pc = "answered", !.running = FALSE, !.tries = 0]
          BY <2>2, <3>5, <4>1, Zenon DEF CancelReads
      <4>q. QED BY <1>0, <1>1, <3>2, <4>2, Zenon DEF OperatorTypes
    <3>q. QED BY <3>4, <3>5
  <2>3. CASE CancelCas
    <3>1. op.pc = "cas" BY <2>3 DEF CancelCas
    <3>2. op \in [pc : {"read", "cas"}, job : Jobs, running : BOOLEAN, tries : 1 .. CancelTries]
        BY <1>0, <1>2, <3>1 DEF OperatorTypes
    <3>3. \/ op' = [op EXCEPT !.pc = "answered", !.running = FALSE, !.tries = 0]
          \/ op.tries # 1 /\ op' = [op EXCEPT !.pc = "read", !.running = FALSE, !.tries = @ - 1]
        BY <2>3, Zenon DEF CancelCas
    <3>4. op.tries # 1 => op.tries - 1 \in 1 .. CancelTries
        BY <3>2, LimitAssumption, SMT
    <3>q. QED BY <1>0, <1>1, <3>2, <3>3, <3>4, Zenon DEF OperatorTypes
  <2>4. CASE CancelErrs
      BY <1>0, <1>1, <2>4 DEF CancelErrs, OperatorTypes
  <2>q. QED BY <2>1, <2>2, <2>3, <2>4 DEF Operator
<1>q. QED BY <1>1, <1>3, <1>4 DEF TypeOK, FenceKnown, OperatorTypes

\* Every step keeps the types.
LEMMA TypeStep ==
    ASSUME TypeInv, [Next]_vars
    PROVE  TypeInv'
<1>1. CASE UNCHANGED vars
    BY <1>1 DEF vars, TypeInv, TypeOK, FenceKnown
<1>2. CASE Next
    BY <1>2, QueueSteps, ReclaimSteps, ClaimSteps, HeartbeatSteps, HandlerSteps,
       FinalSteps, LateSteps, CancelSteps DEF Next, WorkerStep, WorkerFault
<1>q. QED BY <1>1, <1>2

\* The empty queue is well typed.
LEMMA TypeInit == Init => TypeInv
BY NoRowType, LimitAssumption DEF Init, TypeInv, TypeOK, FenceKnown

\* Every variable of the queue, its workers and the operator keeps its type,
\* whatever is retried, lost or replayed.
THEOREM TypeCorrect == Spec => []TypeOK
<1>1. TypeInv => TypeOK BY DEF TypeInv
<1>q. QED BY <1>1, TypeInit, TypeStep, PTL DEF Spec
-----------------------------------------------------------------------------
(* What one step can do to one row, from the actions and the types alone. *)

\* The row stays where it is in its life.
Quiet(a, b) ==
    /\ b.state = a.state /\ b.attempt = a.attempt /\ b.gen = a.gen /\ b.owner = a.owner
    /\ b.resume <=> a.resume
    /\ a.cancel => b.cancel
    /\ a.state # "running" => b.said = a.said /\ (b.cancel <=> a.cancel)
    /\ a.state \notin Active => b = a

\* Nor does its handler return or its lease begin.
Calm(a, b) == Quiet(a, b) /\ b.said = a.said /\ (b.lease = "live" => a.lease = "live")

\* It leaves its worker, or is withdrawn before it had one.
Stopped(a, b) ==
    /\ \/ a.state = "running" /\ b.state \in {"pending"} \cup Terminal
       \/ a.state = "pending" /\ b.state \in {"failed", "cancelled"}
    /\ b.attempt = a.attempt /\ b.gen = a.gen
    /\ a.cancel => b.cancel
    /\ b.said = "no" \/ (a.state = "pending" /\ b.said = a.said)
    /\ a.state = "pending" /\ b.resume => a.resume
    /\ a.state = "pending" /\ b.state = "cancelled" => b.cancel
    /\ b.state # "cancelled" => (b.cancel <=> a.cancel)

\* It is claimed.
Taken(a, b) ==
    /\ a.state = "pending" /\ b.state = "running" /\ b.gen = a.gen + 1
    /\ ~a.cancel /\ ~b.cancel
    /\ b.resume => a.resume /\ Backend = "plan"
    /\ b.said = a.said
    /\ \/ Backend = "plan" /\ b.attempt = a.attempt + 1
       \/ ~a.resume /\ b.attempt = a.attempt + 1
       \/ a.resume /\ (b.attempt = a.attempt \/ (a.attempt = 0 /\ b.attempt = 1))

\* Retention removes it.
Removed(a, b) == a.state \in Terminal /\ b = [NoRow EXCEPT !.state = "pruned"]

\* No reclaim pass may take the row on what it read before.
Renewed(j) == \A w \in Workers : j \notin due'[w]

\* The handler that w runs for the row returns.
Speaks(w, j) ==
    /\ pc[w] = "run" /\ Fenced(w) /\ fence[w].job = j /\ fence'[w] = fence[w]
    /\ row'[j].lease = row[j].lease
    /\ \/ pc'[w] = "complete" /\ row'[j].said \in {"ok", "unfenced"}
       \/ pc'[w] = "failing" /\ row'[j].said = "err"

RowMove(j) == \/ Calm(row[j], row'[j])
              \/ Quiet(row[j], row'[j]) /\ row'[j].said = row[j].said /\ Renewed(j)
              \/ Quiet(row[j], row'[j]) /\ \E w \in Workers : Speaks(w, j)
              \/ /\ Stopped(row[j], row'[j])
                 /\ row[j].state = "pending" /\ row'[j].state = "failed"
                      => Backend = "plan" /\ j \in CopyJobs
              \/ /\ Taken(row[j], row'[j]) /\ Renewed(j)
                 /\ Backend = "plan" => j \notin CopyJobs
              \/ Removed(row[j], row'[j])

\* A row that does not change is calm.
LEMMA SameIsCalm ==
    ASSUME NEW a \in Row
    PROVE  Calm(a, a)
BY DEF Calm, Quiet, Row

\* Time, history and the operator's flag leave a row where it is.
LEMMA FlagsAreCalm ==
    ASSUME NEW a \in Row
    PROVE  /\ a.state = "pending" => Calm(a, [a EXCEPT !.ready = TRUE])
           /\ a.state = "running" =>
                /\ Calm(a, [a EXCEPT !.left = TRUE])
                /\ Calm(a, [a EXCEPT !.lease = "past"])
                /\ Calm(a, [a EXCEPT !.cancel = TRUE])
                /\ \A x \in {"ok", "unfenced", "err"} : Quiet(a, [a EXCEPT !.said = x])
BY DEF Calm, Quiet, Row, Active

\* A fenced update renews a running row or stops it (Written).
LEMMA WrittenMoves ==
    ASSUME NEW a \in Row, NEW to \in Outcome, a.state = "running"
    PROVE  /\ to = "renew" => Quiet(a, Written(a, to)) /\ Written(a, to).said = a.said
           /\ to # "renew" => Stopped(a, Written(a, to))
BY DEF Quiet, Stopped, Written, Released, Row, Outcome, Active, Terminal

\* Reclaim stops a running row (Reclaimed).
LEMMA ReclaimedMoves ==
    ASSUME NEW a \in Row, NEW to \in {"pending", "failed", "cancelled"}, a.state = "running"
    PROVE  Stopped(a, Reclaimed(a, to))
BY DEF Stopped, Reclaimed, Released, Row, Terminal

\* A claim by either backend takes an unflagged pending row.
LEMMA ClaimedMoves ==
    ASSUME NEW a \in Row, NEW w \in Workers, NEW left \in BOOLEAN, a.state = "pending", ~a.cancel
    PROVE  /\ Taken(a, ClaimedLocal(a, w, left))
           /\ Backend = "plan" => Taken(a, ClaimedPlan(a, w, left))
<1>1. Taken(a, ClaimedLocal(a, w, left))
  <2> DEFINE b == ClaimedLocal(a, w, left)
  <2>1. b.state = "running" /\ b.gen = a.gen + 1 /\ ~b.cancel /\ ~b.resume /\ b.said = a.said
      BY DEF ClaimedLocal, Row
  <2>2. CASE a.resume
    <3>1. b.attempt = IF a.attempt = 0 THEN 1 ELSE a.attempt
        BY <2>2, Zenon DEF ClaimedLocal, Row
    <3>2. b.attempt = a.attempt \/ (a.attempt = 0 /\ b.attempt = 1)
        BY <3>1
    <3>q. QED BY <2>1, <2>2, <3>2, Zenon DEF Taken
  <2>3. CASE ~a.resume
      BY <2>1, <2>3 DEF Taken, ClaimedLocal, Row
  <2>q. QED BY <2>2, <2>3
<1>2. Backend = "plan" => Taken(a, ClaimedPlan(a, w, left))
    BY DEF Taken, ClaimedPlan, Row
<1>q. QED BY <1>1, <1>2

\* Cancelling or failing a pending row withdraws it; so does the operator's cancel.
LEMMA WithdrawnMoves ==
    ASSUME NEW a \in Row, a.state = "pending"
    PROVE  /\ a.cancel => Stopped(a, [a EXCEPT !.state = "cancelled"])
           /\ Stopped(a, Released(a, "failed"))
           /\ Stopped(a, CancelPending(a))
BY DEF Stopped, Released, CancelPending, Row, Terminal

\* A fenced update moves its own row or none.
LEMMA ApplyMoves ==
    ASSUME TypeInv, NEW u \in Update, ApplyUpdate(u)
    PROVE  \A j \in Jobs : RowMove(j)
<1>0. /\ row \in [Jobs -> Row] /\ u.job \in Jobs /\ u.to \in Outcome
      /\ \A j \in Jobs : Calm(row[j], row[j])
    BY SameIsCalm DEF TypeInv, TypeOK, Update
<1>1. CASE FenceHolds(u)
  <2>1. row' = [row EXCEPT ![u.job] = Written(row[u.job], u.to)] /\ row[u.job].state = "running"
      BY <1>1 DEF ApplyUpdate, FenceHolds
  <2>2. CASE u.to = "renew"
    <3>1. Renewed(u.job)
        BY <1>1, <2>2 DEF ApplyUpdate, Renewed
    <3>2. Quiet(row[u.job], row'[u.job]) /\ row'[u.job].said = row[u.job].said
        BY <1>0, <2>1, <2>2, WrittenMoves
    <3>q. QED BY <1>0, <2>1, <3>1, <3>2 DEF RowMove
  <2>3. CASE u.to # "renew"
    <3>1. Stopped(row[u.job], row'[u.job])
        BY <1>0, <2>1, <2>3, WrittenMoves
    <3>q. QED BY <1>0, <2>1, <3>1 DEF RowMove
  <2>q. QED BY <2>2, <2>3
<1>2. CASE ~FenceHolds(u)
    BY <1>0, <1>2 DEF ApplyUpdate, RowMove
<1>q. QED BY <1>1, <1>2

\* Letting go moves nothing.
LEMMA LetGoMoves ==
    ASSUME TypeInv, NEW w \in Workers, LetGo(w)
    PROVE  \A j \in Jobs : RowMove(j)
<1>0. /\ row \in [Jobs -> Row] /\ fence \in [Workers -> Fence \cup {NoFence}]
      /\ \A j \in Jobs : Calm(row[j], row[j])
    BY SameIsCalm DEF TypeInv, TypeOK
<1>1. CASE UNCHANGED row
    BY <1>0, <1>1 DEF RowMove
<1>2. CASE Holds(w) /\ fence[w] # NoFence /\ row' = [row EXCEPT ![fence[w].job].left = TRUE]
  <2>1. fence[w].job \in Jobs /\ row[fence[w].job].state = "running"
      BY <1>0, <1>2 DEF Fence, Holds, FenceHolds, UpdateOf
  <2>2. row' = [row EXCEPT ![fence[w].job] = [row[fence[w].job] EXCEPT !.left = TRUE]]
      BY <1>2
  <2>q. QED BY <1>0, <2>1, <2>2, FlagsAreCalm DEF RowMove
<1>q. QED BY <1>1, <1>2 DEF LetGo

\* A handler that returns speaks for the row its worker holds.
LEMMA ReturnMoves ==
    ASSUME TypeInv, NEW w \in Workers, HandlerOk(w) \/ HandlerErr(w) \/ SuspendFails(w)
    PROVE  \A j \in Jobs : RowMove(j)
<1>0. /\ row \in [Jobs -> Row] /\ fence \in [Workers -> Fence \cup {NoFence}]
      /\ pc \in [Workers -> PCs]
      /\ \A j \in Jobs : Calm(row[j], row[j])
    BY SameIsCalm DEF TypeInv, TypeOK, PCs
<1>1. pc[w] = "run" /\ fence[w] # NoFence /\ fence' = fence
    BY DEF HandlerOk, HandlerErr, SuspendFails, TypeInv, FenceKnown
<1>2. PICK x \in {"ok", "unfenced", "err"} :
        /\ Return(w, x)
        /\ \/ pc' = [pc EXCEPT ![w] = "complete"] /\ x \in {"ok", "unfenced"}
           \/ pc' = [pc EXCEPT ![w] = "failing"] /\ x = "err"
    BY DEF HandlerOk, HandlerErr, SuspendFails
<1>3. CASE Holds(w)
  <2>1. fence[w].job \in Jobs /\ row[fence[w].job].state = "running" /\ Fenced(w)
      BY <1>0, <1>1, <1>3 DEF Fence, Holds, FenceHolds, UpdateOf, Fenced
  <2>2. row' = [row EXCEPT ![fence[w].job] = [row[fence[w].job] EXCEPT !.said = x]]
      BY <1>2, <1>3 DEF Return
  <2>3. Quiet(row[fence[w].job], row'[fence[w].job])
      BY <1>0, <1>2, <2>1, <2>2, FlagsAreCalm
  <2>4. row'[fence[w].job].said = x /\ row'[fence[w].job].lease = row[fence[w].job].lease
      BY <1>0, <2>1, <2>2 DEF Row
  <2>5. Speaks(w, fence[w].job)
      BY <1>0, <1>1, <1>2, <2>1, <2>4 DEF Speaks
  <2>q. QED BY <1>0, <2>1, <2>2, <2>3, <2>5 DEF RowMove
<1>4. CASE ~Holds(w)
    BY <1>0, <1>2, <1>4 DEF Return, RowMove
<1>q. QED BY <1>3, <1>4

\* A claim takes one unflagged row and may withdraw others.
LEMMA ClaimMoves ==
    ASSUME TypeInv, NEW w \in Workers, NEW j \in Jobs \cup {NoJob},
           NEW left \in BOOLEAN, ClaimNextJob(w, j, left)
    PROVE  \A i \in Jobs : RowMove(i)
<1>0. row \in [Jobs -> Row]
    BY DEF TypeInv, TypeOK
<1> SUFFICES ASSUME NEW i \in Jobs PROVE RowMove(i)
    OBVIOUS
<1>1. row[i] \in Row /\ Calm(row[i], row[i]) /\ (i = j => Renewed(i))
    BY <1>0, SameIsCalm DEF ClaimNextJob, Renewed
<1>2. CASE Backend = "local" /\ ClaimLocal(w, j, left)
  <2>1. PICK cand \in SUBSET Due :
          \E passed \in SUBSET {k \in cand : row[k].cancel} :
            /\ j \in cand \ {k \in cand : row[k].cancel} \/ j = NoJob
            /\ row' = [k \in Jobs |->
                         IF k \in passed THEN [row[k] EXCEPT !.state = "cancelled"]
                         ELSE IF k = j THEN ClaimedLocal(row[k], w, left) ELSE row[k]]
      BY <1>2, Zenon DEF ClaimLocal
  <2>. PICK passed \in SUBSET {k \in cand : row[k].cancel} :
          /\ j \in cand \ {k \in cand : row[k].cancel} \/ j = NoJob
          /\ row' = [k \in Jobs |->
                       IF k \in passed THEN [row[k] EXCEPT !.state = "cancelled"]
                       ELSE IF k = j THEN ClaimedLocal(row[k], w, left) ELSE row[k]]
      BY <2>1
  <2>2. CASE i \in passed
    <3>1. row[i].state = "pending" /\ row[i].cancel BY <2>1, <2>2 DEF Due
    <3>2. row'[i] = [row[i] EXCEPT !.state = "cancelled"] BY <2>1, <2>2
    <3>3. row'[i].state = "cancelled" BY <1>1, <3>2 DEF Row
    <3>q. QED BY <1>1, <3>1, <3>2, <3>3, WithdrawnMoves DEF RowMove
  <2>3. CASE i \notin passed /\ i = j
    <3>1. row[i].state = "pending" /\ ~row[i].cancel BY <2>1, <2>3, IdAssumption DEF Due
    <3>2. row'[i] = ClaimedLocal(row[i], w, left) BY <2>1, <2>3
    <3>q. QED BY <1>1, <1>2, <2>3, <3>1, <3>2, ClaimedMoves DEF RowMove
  <2>4. CASE i \notin passed /\ i # j
      BY <1>1, <2>1, <2>4 DEF RowMove
  <2>q. QED BY <2>2, <2>3, <2>4
<1>3. CASE Backend = "plan" /\ ClaimPlan(w, j, left)
  <2> DEFINE unknown == {k \in CopyJobs : row[k].state = "pending"}
  <2>1. /\ j \in {k \in Due \ unknown : ~row[k].cancel} \/ j = NoJob
        /\ row' = [k \in Jobs |->
                     IF k \in unknown THEN Released(row[k], "failed")
                     ELSE IF k = j THEN ClaimedPlan(row[k], w, left) ELSE row[k]]
      BY <1>3, Zenon DEF ClaimPlan
  <2>2. CASE i \in unknown
      BY <1>1, <1>3, <2>1, <2>2, WithdrawnMoves DEF RowMove
  <2>3. CASE i \notin unknown /\ i = j
    <3>1. row[i].state = "pending" /\ ~row[i].cancel /\ i \notin CopyJobs
        BY <2>1, <2>3, IdAssumption DEF Due
    <3>2. row'[i] = ClaimedPlan(row[i], w, left) BY <2>1, <2>3
    <3>q. QED BY <1>1, <1>3, <2>3, <3>1, <3>2, ClaimedMoves DEF RowMove
  <2>4. CASE i \notin unknown /\ i # j
      BY <1>1, <2>1, <2>4 DEF RowMove
  <2>q. QED BY <2>2, <2>3, <2>4
<1>q. QED BY <1>2, <1>3 DEF ClaimNextJob

\* The other steps, one per kind of actor.
LEMMA OtherMoves ==
    ASSUME TypeInv, \/ \E j \in Jobs : RunAfterPasses(j) \/ LeaseLapses(j)
                    \/ \E w \in Workers : ReclaimRow(w) \/ PruneTerminalJobs(w)
                    \/ CancelCas
    PROVE  \A j \in Jobs : RowMove(j)
<1>0. row \in [Jobs -> Row] /\ \A j \in Jobs : row[j] \in Row /\ Calm(row[j], row[j])
    BY SameIsCalm DEF TypeInv, TypeOK
<1>1. ASSUME NEW j \in Jobs, RunAfterPasses(j) \/ LeaseLapses(j)
      PROVE  \A i \in Jobs : RowMove(i)
  <2>1. \/ row[j].state = "pending" /\ row' = [row EXCEPT ![j] = [row[j] EXCEPT !.ready = TRUE]]
        \/ row[j].state = "running" /\ row' = [row EXCEPT ![j] = [row[j] EXCEPT !.lease = "past"]]
      BY <1>1 DEF RunAfterPasses, LeaseLapses
  <2>2. Calm(row[j], row'[j])
      BY <1>0, <2>1, FlagsAreCalm
  <2>q. QED BY <1>0, <2>1, <2>2 DEF RowMove
<1>2. ASSUME NEW w \in Workers, ReclaimRow(w)
      PROVE  \A i \in Jobs : RowMove(i)
  <2>1. PICK s \in seen[w] : row' = IF ReclaimHolds(w, s)
                THEN [row EXCEPT ![s.job] = Reclaimed(@, ReclaimTo(s))] ELSE row
      BY <1>2 DEF ReclaimRow
  <2>2. CASE ReclaimHolds(w, s)
    <3>1. s.job \in Jobs BY DEF TypeInv, TypeOK, Snapshot
    <3>2. /\ Stopped(row[s.job], Reclaimed(row[s.job], ReclaimTo(s)))
          /\ row[s.job].state = "running"
        BY <1>0, <2>2, <3>1, ReclaimedMoves DEF ReclaimHolds, ReclaimTo
    <3>3. row' = [row EXCEPT ![s.job] = Reclaimed(row[s.job], ReclaimTo(s))]
        BY <2>1, <2>2
    <3>q. QED BY <1>0, <3>1, <3>2, <3>3 DEF RowMove
  <2>3. CASE ~ReclaimHolds(w, s)
      BY <1>0, <2>1, <2>3 DEF RowMove
  <2>q. QED BY <2>2, <2>3
<1>3. ASSUME NEW w \in Workers, PruneTerminalJobs(w)
      PROVE  \A i \in Jobs : RowMove(i)
  <2>1. PICK old \in SUBSET {j \in Jobs : row[j].state \in Terminal} :
          row' = [j \in Jobs |-> IF j \in old THEN [NoRow EXCEPT !.state = "pruned"] ELSE row[j]]
      BY <1>3 DEF PruneTerminalJobs
  <2>q. QED BY <1>0, <2>1, Zenon DEF RowMove, Removed
<1>4. CASE CancelCas
  <2>1. op.pc = "cas" BY <1>4 DEF CancelCas
  <2>2. op.job \in Jobs
    <3>1. NoRequest.pc = "idle" BY DEF NoRequest
    <3>q. QED BY <2>1, <3>1 DEF TypeInv, TypeOK
  <2>3. \/ UNCHANGED row
        \/ row[op.job].state = "running" /\ row' = [row EXCEPT ![op.job] = CancelFlag(row[op.job])]
        \/ row[op.job].state = "pending" /\ row' = [row EXCEPT ![op.job] = CancelPending(row[op.job])]
      BY <1>4 DEF CancelCas
  <2>4. row[op.job].state = "running" => Calm(row[op.job], CancelFlag(row[op.job]))
      BY <1>0, <2>2, FlagsAreCalm DEF CancelFlag
  <2>5. row[op.job].state = "pending" => /\ Stopped(row[op.job], CancelPending(row[op.job]))
                                        /\ CancelPending(row[op.job]).state = "cancelled"
      BY <1>0, <2>2, WithdrawnMoves DEF CancelPending, Released, Row
  <2>q. QED BY <1>0, <2>2, <2>3, <2>4, <2>5 DEF RowMove
<1>q. QED BY <1>1, <1>2, <1>3, <1>4

\* Every step moves every row along its life; only enqueue admits one.
LEMMA RowMoves ==
    ASSUME TypeInv, [Next]_vars, NEW i \in Jobs
    PROVE  RowMove(i) \/ EnqueueJob(i)
<1>0. row[i] \in Row /\ (row'[i] = row[i] => RowMove(i))
    BY SameIsCalm DEF TypeInv, TypeOK, RowMove
<1>1. CASE UNCHANGED row
    BY <1>0, <1>1
<1>2. ASSUME NEW j \in Jobs, EnqueueJob(j)
      PROVE  RowMove(i) \/ EnqueueJob(i)
    BY <1>0, <1>2 DEF EnqueueJob, TypeInv, TypeOK
<1>3. CASE \/ \E j \in Jobs : RunAfterPasses(j) \/ LeaseLapses(j)
           \/ \E w \in Workers : ReclaimRow(w) \/ PruneTerminalJobs(w)
           \/ CancelCas
    BY <1>3, OtherMoves
<1>4. ASSUME NEW w \in Workers, ClaimRuns(w) \/ ClaimArrivesLate(w)
      PROVE  RowMove(i)
    BY <1>4, ClaimMoves DEF ClaimRuns, ClaimArrivesLate
<1>5. ASSUME NEW w \in Workers,
             \/ HandlerOk(w) \/ HandlerErr(w) \/ SuspendFails(w) \/ ClaimGivesUp(w)
             \/ CompleteErrs(w) \/ FailIgnored(w) \/ FailErrs(w) \/ Crash(w)
      PROVE  RowMove(i)
    BY <1>5, LetGoMoves, ReturnMoves
    DEF ClaimGivesUp, CompleteErrs, FailIgnored, FailErrs, Crash
<1>6. ASSUME NEW w \in Workers, HeartbeatAnswered(w) \/ SuspendJob(w) \/ CompleteJob(w) \/ FailJob(w)
      PROVE  RowMove(i)
  <2>1. fence[w] # NoFence
      BY <1>6 DEF HeartbeatAnswered, SuspendJob, CompleteJob, FailJob, TypeInv, FenceKnown
  <2>2. PICK to \in Outcome : ApplyUpdate(UpdateOf(w, to))
    <3>1. CASE FailJob(w)
        BY <3>1 DEF FailJob, FailTo, Outcome
    <3>2. CASE ~FailJob(w)
        BY <1>6, <3>2 DEF HeartbeatAnswered, SuspendJob, CompleteJob, Outcome
    <3>q. QED BY <3>1, <3>2
  <2>3. UpdateOf(w, to) \in Update
      BY <2>1, UpdateOfType DEF TypeInv
  <2>q. QED BY <2>2, <2>3, ApplyMoves
<1>7. ASSUME NEW u \in late, UpdateArrives(u)
      PROVE  RowMove(i)
  <2>1. u \in Update BY DEF TypeInv, TypeOK
  <2>q. QED BY <1>7, <2>1, ApplyMoves DEF UpdateArrives
<1>8. ASSUME NEW w \in Workers, ReclaimRead(w) \/ ReclaimFails(w) \/ ClaimReplies(w)
                               \/ HeartbeatErrs(w) \/ HeartbeatDeadline(w) \/ FailRead(w)
      PROVE  UNCHANGED row
    BY <1>8 DEF ReclaimRead, ReclaimFails, ClaimReplies, HeartbeatErrs, HeartbeatDeadline,
                FailRead, queueVars
<1>9. ASSUME \/ \E u \in late : UpdateLost(u)
             \/ \E j \in Jobs : CancelBegins(j)
             \/ CancelReads \/ CancelErrs
      PROVE  UNCHANGED row
    BY <1>9 DEF UpdateLost, CancelBegins, CancelReads, CancelErrs, queueVars
<1>q. QED
    BY <1>1, <1>2, <1>3, <1>4, <1>5, <1>6, <1>7, <1>8, <1>9
    DEF Next, vars, WorkerStep, WorkerFault, Operator
-----------------------------------------------------------------------------
(* Admission and cancellation. *)

\* The strengthened type invariant holds throughout.
LEMMA TypeAlways == Spec => []TypeInv
BY TypeInit, TypeStep, PTL DEF Spec

\* Only enqueue makes a row active.
LEMMA ActiveGrows ==
    ASSUME TypeInv, [Next]_vars
    PROVE  \/ ActiveJobs' \subseteq ActiveJobs
           \/ \E j \in Jobs : EnqueueJob(j) /\ ActiveJobs' \subseteq ActiveJobs \cup {j}
<1>1. \A i \in Jobs : row'[i].state \in Active => row[i].state \in Active \/ EnqueueJob(i)
  <2> SUFFICES ASSUME NEW i \in Jobs, row'[i].state \in Active, row[i].state \notin Active
               PROVE  EnqueueJob(i)
      OBVIOUS
  <2>1. ~RowMove(i)
      BY DEF RowMove, Calm, Quiet, Stopped, Taken, Removed, Active, Terminal, NoRow
  <2>q. QED BY <2>1, RowMoves
<1>2. ASSUME NEW i \in Jobs, EnqueueJob(i)
      PROVE  \A k \in Jobs \ {i} : row'[k] = row[k]
    BY <1>2 DEF EnqueueJob, TypeInv, TypeOK
<1>q. QED BY <1>1, <1>2 DEF ActiveJobs

\* One active row per dedup key: retries, reclaims, resumed claims and late
\* updates never bring back a row whose key was taken meanwhile.
THEOREM DedupTheorem == Spec => []DedupUnique
<1>1. Init => DedupUnique
    BY DEF Init, DedupUnique, ActiveJobs, NoRow, Active
<1>2. TypeInv /\ DedupUnique /\ [Next]_vars => DedupUnique'
  <2> SUFFICES ASSUME TypeInv, DedupUnique, [Next]_vars
               PROVE  DedupUnique'
      OBVIOUS
  <2>1. \A i, j \in Jobs : SameKey(i, j) <=> SameKey(j, i)
      BY DEF SameKey
  <2>2. ActiveJobs \subseteq Jobs /\ ActiveJobs' \subseteq Jobs
      BY DEF ActiveJobs
  <2>3. CASE ActiveJobs' \subseteq ActiveJobs
      BY <2>3 DEF DedupUnique, SameKey
  <2>4. ASSUME NEW j \in Jobs, EnqueueJob(j), ActiveJobs' \subseteq ActiveJobs \cup {j}
        PROVE  DedupUnique'
    <3>1. \A i \in ActiveJobs : ~SameKey(i, j)
        BY <2>4 DEF EnqueueJob
    <3>q. QED BY <2>1, <2>2, <2>4, <3>1 DEF DedupUnique, SameKey
  <2>q. QED BY <2>3, <2>4, ActiveGrows
<1>q. QED BY <1>1, <1>2, TypeAlways, PTL DEF Spec

\* The admission cap holds for the active rows at all times, not only when a
\* job is enqueued.
THEOREM CapTheorem == Spec => []AdmissionCap
<1>0. ActiveJobs \subseteq Jobs /\ IsFiniteSet(ActiveJobs) /\ Cardinality(ActiveJobs) \in Nat
    BY FiniteJobs, FS_Subset, FS_CardinalityType DEF ActiveJobs
<1>1. Init => AdmissionCap
  <2> SUFFICES ASSUME Init PROVE AdmissionCap
      OBVIOUS
  <2>1. ActiveJobs = {} BY DEF Init, ActiveJobs, NoRow, Active
  <2>q. QED BY <2>1, FS_EmptySet, LimitAssumption DEF AdmissionCap
<1>2. TypeInv /\ AdmissionCap /\ [Next]_vars => AdmissionCap'
  <2> SUFFICES ASSUME TypeInv, AdmissionCap, [Next]_vars
               PROVE  AdmissionCap'
      OBVIOUS
  <2>1. IsFiniteSet(ActiveJobs') /\ Cardinality(ActiveJobs') \in Nat
      BY FiniteJobs, FS_Subset, FS_CardinalityType DEF ActiveJobs
  <2>2. CASE ActiveJobs' \subseteq ActiveJobs
    <3>1. Cardinality(ActiveJobs') <= Cardinality(ActiveJobs)
        BY <1>0, <2>2, FS_Subset
    <3>q. QED BY <1>0, <2>1, <3>1, LimitAssumption DEF AdmissionCap
  <2>3. ASSUME NEW j \in Jobs, EnqueueJob(j), ActiveJobs' \subseteq ActiveJobs \cup {j}
        PROVE  AdmissionCap'
    <3>1. Cardinality(ActiveJobs) + 1 <= MaxPending
        BY <1>0, <2>3, LimitAssumption DEF EnqueueJob
    <3> DEFINE more == ActiveJobs \cup {j}
    <3>a. IsFiniteSet(more) /\ Cardinality(more) =
              IF j \in ActiveJobs THEN Cardinality(ActiveJobs) ELSE Cardinality(ActiveJobs) + 1
        BY <1>0, FS_AddElement
    <3>2. Cardinality(more) \in Nat /\ Cardinality(more) <= Cardinality(ActiveJobs) + 1
        BY <1>0, <3>a
    <3>3. Cardinality(ActiveJobs') <= Cardinality(more)
        BY <2>3, <3>a, FS_Subset
    <3>q. QED BY <1>0, <2>1, <3>1, <3>2, <3>3, LimitAssumption DEF AdmissionCap
  <2>q. QED BY <2>2, <2>3, ActiveGrows
<1>q. QED BY <1>1, <1>2, TypeAlways, PTL DEF Spec

\* A job that was asked to stop keeps its flag and is never claimed again.
THEOREM CancelTheorem == Spec => CancelSticks
<1>1. TypeInv /\ [Next]_vars =>
        [\A j \in Jobs : row[j].cancel /\ row'[j].state # "pruned" =>
            /\ row'[j].cancel
            /\ row'[j].gen = row[j].gen]_vars
  <2> SUFFICES ASSUME TypeInv, [Next]_vars, NEW j \in Jobs, row[j].cancel, row'[j].state # "pruned"
               PROVE  row'[j].cancel /\ row'[j].gen = row[j].gen
      OBVIOUS
  <2>1. row[j] \in Row BY DEF TypeInv, TypeOK
  <2>2. CASE EnqueueJob(j)
    <3>1. row'[j] = [row[j] EXCEPT !.state = "pending", !.ready = TRUE]
        BY <2>2 DEF EnqueueJob, TypeInv, TypeOK
    <3>q. QED BY <2>1, <3>1 DEF Row
  <2>3. CASE RowMove(j)
      BY <2>3 DEF RowMove, Calm, Quiet, Stopped, Taken, Removed, NoRow
  <2>q. QED BY <2>2, <2>3, RowMoves
<1>q. QED BY <1>1, TypeAlways, PTL DEF Spec, CancelSticks
=============================================================================
