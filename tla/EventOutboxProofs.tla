------------------------- MODULE EventOutboxProofs --------------------------
(***************************************************************************)
(* Proofs about EventOutbox, for any number of events, plugins, nodes and  *)
(* workers, any page size, cap and limit and any bounds: OutInv is         *)
(* inductive and implies the invariants, and with it every step keeps the  *)
(* action properties.                                                      *)
(*                                                                         *)
(* First what each statement makes of one row (RowGood, Evolves); then     *)
(* frames, which say what a step has to show when rows evolve and when a   *)
(* dispatcher moves; then one lemma for each action or group of actions.   *)
(* That a wake page leaves nothing behind is PageCovers.                   *)
(***************************************************************************)
EXTENDS EventOutbox, FiniteSetTheorems, WellFoundedInduction, TLAPS

(* What one statement does to one row *)

\* created_at and the operator's mark stay, and a finished row comes back only
\* with that mark.
Ages(r, s) ==
    /\ r.state = "absent" => s = r
    /\ r.state # "absent" => s.state # "absent" /\ s.created = r.created
    /\ r.revived => s.revived
    /\ r.state \in Finished => s.state \in Finished \/ s.revived

\* Nothing new is owed to it either.
Evolves(r, s) == Ages(r, s) /\ s.owed \subseteq r.owed

USE DEF Ages

RowGood(r) == r \in Delivery /\ RowKept(r)

LEMMA NoDeliveryGood == RowGood(NoDelivery)
BY OutboxLimits DEF RowGood, RowKept, NoDelivery, Delivery

\* The row is left alone.
LEMMA SameRow == \A r : Evolves(r, r)
BY DEF Evolves

\* A delivery leaves running for good.
LEMMA LeftGood ==
    ASSUME NEW r, RowGood(r), r.state = "running", NEW s \in Finished
    PROVE  RowGood(Left(r, s)) /\ Evolves(r, Left(r, s)) /\ Left(r, s).state = s
BY DEF RowGood, RowKept, Left, Delivery, Finished, Evolves, NoDelivery

\* An expired delivery waits again.
LEMMA ReclaimedGood ==
    ASSUME NEW r, RowGood(r), r.state = "running"
    PROVE  RowGood(Reclaimed(r)) /\ Evolves(r, Reclaimed(r)) /\ Reclaimed(r).state = "pending"
<1> DEFINE n == r.expired + 1
           b == r.resume \/ r.checkpoint
           s == [[r EXCEPT !.state = "pending", !.owner = Nobody, !.lease = "none"]
                 EXCEPT !.from = "expiry", !.expired = n, !.resume = b]
<1>1. n \in Nat /\ b \in BOOLEAN /\ r \in Delivery
    BY DEF RowGood, Delivery
<1>2. Reclaimed(r) = s
    BY <1>1 DEF Reclaimed, Left, Delivery
<1> HIDE DEF n, b
<1>3. s \in Delivery
    BY <1>1 DEF Delivery
<1>4. /\ s.state = "pending" /\ s.attempt = r.attempt /\ s.expired = n /\ s.resume = b
      /\ s.from = "expiry" /\ s.checkpoint = r.checkpoint /\ s.wake = r.wake /\ s.created = r.created
      /\ s.revived = r.revived /\ s.owed = r.owed
    BY <1>1 DEF Delivery
<1> HIDE DEF s
<1>5. r.attempt \in Nat /\ r.expired \in Nat /\ r.attempt <= MaxAttempts + r.expired /\ r.attempt >= 1 /\ r.owed = {}
    BY DEF RowGood, RowKept, Delivery
<1>6. r.attempt < MaxAttempts + n /\ r.attempt <= MaxAttempts + n
    BY <1>5, OutboxLimits DEF n
<1>7. RowKept(s)
    <2>1. s.checkpoint => s.resume
        BY <1>4 DEF b
    <2>q. QED BY <1>4, <1>5, <1>6, <2>1 DEF RowKept
<1>8. Evolves(r, s)
    BY <1>4 DEF Evolves, Finished
<1>q. QED BY <1>2, <1>3, <1>4, <1>7, <1>8 DEF RowGood

\* A claim is given back.
LEMMA ReleasedGood ==
    ASSUME NEW r, RowGood(r), r.state = "running"
    PROVE  RowGood(Released(r)) /\ Evolves(r, Released(r)) /\ Released(r).state = "pending"
<1> DEFINE a == IF r.checkpoint \/ r.attempt = 0 THEN r.attempt ELSE r.attempt - 1
           b == IF r.checkpoint THEN TRUE ELSE r.resume
           s == [[r EXCEPT !.state = "pending", !.owner = Nobody, !.lease = "none"]
                 EXCEPT !.from = "release", !.resume = b, !.attempt = a]
<1>1. a \in Nat /\ b \in BOOLEAN /\ r \in Delivery
    <2>1. r.attempt \in Nat /\ r.checkpoint \in BOOLEAN /\ r.resume \in BOOLEAN /\ r \in Delivery
        BY DEF RowGood, Delivery
    <2>2. a \in Nat
        BY <2>1
    <2>3. b \in BOOLEAN
        BY <2>1
    <2>q. QED BY <2>1, <2>2, <2>3
<1>2. Released(r) = s
    BY <1>1 DEF Released, Left, Delivery
<1> HIDE DEF a, b
<1>3. s \in Delivery
    BY <1>1 DEF Delivery
<1>4. /\ s.state = "pending" /\ s.attempt = a /\ s.expired = r.expired /\ s.resume = b
      /\ s.from = "release" /\ s.checkpoint = r.checkpoint /\ s.wake = r.wake /\ s.created = r.created
      /\ s.revived = r.revived /\ s.owed = r.owed
    BY <1>1 DEF Delivery
<1> HIDE DEF s
<1>5. r.attempt \in Nat /\ r.expired \in Nat /\ r.attempt <= MaxAttempts + r.expired /\ r.attempt >= 1 /\ r.owed = {}
    BY DEF RowGood, RowKept, Delivery
<1>6. /\ a <= r.attempt /\ (r.checkpoint => b /\ a = r.attempt)
      /\ (~r.checkpoint => a = r.attempt - 1)
    BY <1>5 DEF a, b
<1>7. RowKept(s)
    BY <1>1, <1>4, <1>5, <1>6, OutboxLimits DEF RowKept
<1>8. Evolves(r, s)
    BY <1>4 DEF Evolves, Finished
<1>q. QED BY <1>2, <1>3, <1>4, <1>7, <1>8 DEF RowGood

\* The handler asks for another try.
LEMMA RetriedGood ==
    ASSUME NEW r, RowGood(r), r.state = "running"
    PROVE  RowGood(Retried(r)) /\ Evolves(r, Retried(r)) /\ Retried(r).state # "running"
<1>1. CASE r.attempt >= MaxAttempts
    <2>1. Retried(r) = Left(r, "dead_letter")
        BY <1>1 DEF Retried
    <2>q. QED BY <2>1, LeftGood DEF Finished
<1>2. CASE ~(r.attempt >= MaxAttempts)
    <2> DEFINE s == [[r EXCEPT !.state = "pending", !.owner = Nobody, !.lease = "none"]
                     EXCEPT !.from = "retry", !.ready = "later"]
    <2>1. Retried(r) = s
        BY <1>2 DEF Retried, Left
    <2>2. r \in Delivery
        BY DEF RowGood
    <2>3. s \in Delivery
        BY <2>2 DEF Delivery
    <2>4. /\ s.state = "pending" /\ s.attempt = r.attempt /\ s.expired = r.expired /\ s.from = "retry"
          /\ s.created = r.created /\ s.revived = r.revived /\ s.owed = r.owed
        BY <2>2 DEF Delivery
    <2> HIDE DEF s
    <2>5. r.attempt \in Nat /\ r.expired \in Nat /\ r.owed = {}
        BY DEF RowGood, RowKept, Delivery
    <2>6. RowKept(s) /\ Evolves(r, s)
        BY <1>2, <2>4, <2>5, OutboxLimits DEF RowKept, Evolves, Finished
    <2>q. QED BY <2>1, <2>3, <2>4, <2>6 DEF RowGood
<1>q. QED BY <1>1, <1>2

\* The handler suspends itself.
LEMMA SuspendedGood ==
    ASSUME NEW r, RowGood(r), r.state = "running",
           NEW ready \in {"now", "later", "never"}, NEW wake \in BOOLEAN
    PROVE  LET s == Suspended(r, ready, wake)
           IN  RowGood(s) /\ Evolves(r, s) /\ s.state = "pending"
<1> DEFINE s == Suspended(r, ready, wake)
<1>1. r \in Delivery
    BY DEF RowGood
<1>2. s \in Delivery
    BY <1>1 DEF Suspended, Left, Delivery
<1>3. /\ s.state = "pending" /\ s.attempt = r.attempt /\ s.expired = r.expired /\ s.resume = TRUE
      /\ s.created = r.created /\ s.revived = r.revived /\ s.owed = {}
    BY <1>1 DEF Suspended, Left, Delivery
<1> HIDE DEF s
<1>4. r.attempt >= 1 /\ r.attempt <= MaxAttempts + r.expired
    BY DEF RowGood, RowKept
<1>5. RowKept(s) /\ Evolves(r, s)
    BY <1>3, <1>4 DEF RowKept, Evolves, Finished
<1>q. QED BY <1>2, <1>3, <1>5 DEF RowGood, s

\* What the handler's answer makes of the row.
LEMMA SettledGood ==
    ASSUME NEW r, RowGood(r), r.state = "running",
           NEW result \in {"ack", "reject", "dead_letter", "retry",
                           "suspend_timer", "suspend_event", "suspend_both"}
    PROVE  LET s == Settled(r, result)
           IN  RowGood(s) /\ Evolves(r, s) /\ s.state # "running"
<1>1. CASE result \in {"ack", "reject", "dead_letter"}
    <2>1. \E f \in Finished : Settled(r, result) = Left(r, f)
        BY <1>1 DEF Settled, Finished
    <2>q. QED BY <2>1, LeftGood DEF Finished
<1>2. CASE result = "retry"
    BY <1>2, RetriedGood DEF Settled
<1>3. CASE result \in {"suspend_timer", "suspend_event", "suspend_both"}
    <2>1. \E ready \in {"now", "later", "never"}, wake \in BOOLEAN :
              Settled(r, result) = Suspended(r, ready, wake)
        BY <1>3 DEF Settled
    <2>q. QED BY <2>1, SuspendedGood
<1>q. QED BY <1>1, <1>2, <1>3

\* A claim: it costs an attempt unless the row resumes.
LEMMA ClaimedGood ==
    ASSUME NEW r, RowGood(r), r.state = "pending", NEW w \in Workers
    PROVE  LET s == Claimed(r, w)
           IN  /\ RowGood(s) /\ Evolves(r, s) /\ s.state = "running"
               /\ (r.from = "suspend" \/ (r.from \in {"expiry", "release"} /\ r.checkpoint))
                  => s.attempt = r.attempt
<1> DEFINE g == r.gen + 1
           a == IF r.resume THEN (IF r.attempt = 0 THEN 1 ELSE r.attempt) ELSE r.attempt + 1
           s == [r EXCEPT !.state = "running", !.owner = w, !.lease = "live", !.gen = g,
                          !.attempt = a, !.resume = FALSE, !.owed = {}]
<1>1. g \in Nat /\ a \in Nat /\ r \in Delivery
    BY DEF RowGood, Delivery
<1>2. Claimed(r, w) = s
    BY DEF Claimed
<1> HIDE DEF g, a
<1>3. s \in Delivery
    BY <1>1 DEF Delivery
<1>4. /\ s.state = "running" /\ s.attempt = a /\ s.expired = r.expired
      /\ s.created = r.created /\ s.revived = r.revived /\ s.owed = {}
    BY <1>1 DEF Delivery
<1> HIDE DEF s
<1>5. /\ r.attempt \in Nat /\ r.expired \in Nat /\ r.attempt <= MaxAttempts + r.expired
      /\ ~r.resume => r.attempt < MaxAttempts + r.expired
      /\ (r.from = "suspend" \/ (r.from \in {"expiry", "release"} /\ r.checkpoint))
         => r.resume /\ r.attempt >= 1
    BY DEF RowGood, RowKept, Delivery
<1>6. a >= 1 /\ a <= MaxAttempts + r.expired /\ (r.resume /\ r.attempt >= 1 => a = r.attempt)
    BY <1>5, OutboxLimits DEF a
<1>7. RowKept(s) /\ Evolves(r, s)
    BY <1>4, <1>6 DEF RowKept, Evolves, Finished
<1>q. QED BY <1>2, <1>3, <1>4, <1>5, <1>6, <1>7 DEF RowGood
-----------------------------------------------------------------------------
(* Steps that change rows and workers *)

TickType ==
    [pc : {"top", "dispatch", "page", "wake", "scan", "update", "end", "latepage"},
     catalog : SUBSET Plugins, event : Events \cup {None}, todo : SUBSET Plugins, token : Nat,
     ids : SUBSET Deliveries, last : BOOLEAN, upto : Nat]

WorkType ==
    [pc : {"top", "find", "try", "cas", "start", "run"}, job : Deliveries \cup {None}, gen : Nat,
     page : SUBSET Deliveries, stop : {"no", "operator", "fence"}]

LEMMA OutTypes ==
    ASSUME OutInv
    PROVE  /\ event \in [Events -> Event] /\ row \in [Deliveries -> Delivery] /\ catalog \subseteq Plugins
           /\ disp \in [Dispatchers -> TickType] /\ work \in [Workers -> WorkType]
           /\ inserts \in Nat /\ faults \in Nat /\ lost \in Nat /\ ops \in Nat
           /\ \A d \in Deliveries : RowGood(row[d])
BY DEF OutInv, TypeOK, RowsKept, RowGood, TickType, WorkType

\* When no row starts to run, the cap of every plugin is kept.
LEMMA NoneStarts ==
    ASSUME OutInv, \A d \in Deliveries : row'[d].state = "running" => row[d].state = "running"
    PROVE  InFlightCap'
<1> SUFFICES ASSUME NEW p \in Plugins
             PROVE  Cardinality(Running(p)') <= MaxInFlight
    BY DEF InFlightCap
<1>1. Running(p)' \subseteq Running(p)
    BY DEF Running
<1>2. Running(p) \subseteq Inserted /\ IsFiniteSet(Inserted)
    BY DEF Running, Inserted, OutInv, TablesFinite
<1>3. IsFiniteSet(Running(p))
    BY <1>2, FS_Subset
<1>4. /\ Cardinality(Running(p)') <= Cardinality(Running(p)) /\ Cardinality(Running(p)) \in Nat
      /\ Cardinality(Running(p)') \in Nat
    BY <1>1, <1>3, FS_Subset, FS_CardinalityType
<1>5. Cardinality(Running(p)) <= MaxInFlight
    BY DEF OutInv, InFlightCap
<1>q. QED BY <1>4, <1>5, OutboxLimits

\* Rows that evolve keep what a worker knows of them.
LEMMA WorkerStays ==
    ASSUME OutInv, \A d \in Deliveries : Ages(row[d], row'[d]),
           NEW w \in Workers, work'[w] = work[w]
    PROVE  WorkerKept(w)'
<1>1. Inserted \subseteq Inserted'
    BY DEF Inserted
<1>2. WorkerKept(w)
    BY DEF OutInv
<1>3. ASSUME NEW j \in Inserted, NotHeldBack(j)
      PROVE  NotHeldBack(j)'
    BY <1>3 DEF NotHeldBack, Inserted, Finished
<1>q. QED BY <1>1, <1>2, <1>3 DEF WorkerKept

\* Rows evolve and some workers step; no event is published.
LEMMA TablesFrame ==
    ASSUME OutInv, \A d \in Deliveries : RowGood(row'[d]) /\ Evolves(row[d], row'[d]),
           UNCHANGED inserts, Published' = Published,
           \A w \in Workers : work'[w] = work[w] \/ WorkerKept(w)'
    PROVE  RowsKept' /\ TablesFinite' /\ \A w \in Workers : WorkerKept(w)'
<1>1. Inserted' = Inserted
    BY DEF Inserted, Evolves
<1>2. TablesFinite'
    BY <1>1 DEF OutInv, TablesFinite
<1>3. RowsKept'
    BY DEF OutInv, RowsKept, RowGood, Evolves
<1>4. \A w \in Workers : WorkerKept(w)'
    BY WorkerStays DEF Evolves
<1>q. QED BY <1>2, <1>3, <1>4

\* Nothing new is owed to any row, and a row that is owed something keeps its place.
OwesNoMore ==
    \A d \in Deliveries :
        /\ row'[d].owed \subseteq row[d].owed
        /\ row'[d].owed # {} => row'[d].created = row[d].created

LEMMA OwesNoMoreFrame ==
    ASSUME OutInv, \A d \in Deliveries : RowGood(row'[d]) /\ Evolves(row[d], row'[d])
    PROVE  OwesNoMore
<1> SUFFICES ASSUME NEW d \in Deliveries
             PROVE  /\ row'[d].owed \subseteq row[d].owed
                    /\ row'[d].owed # {} => row'[d].created = row[d].created
    BY DEF OwesNoMore
<1>1. Evolves(row[d], row'[d])
    OBVIOUS
<1>q. QED BY <1>1 DEF Evolves

\* The columns of an event that wakes are about.
SameWake(e) ==
    /\ event'[e].wake = event[e].wake /\ event'[e].token = event[e].token
    /\ event'[e].claims = event[e].claims /\ event'[e].cursor = event[e].cursor
    /\ event'[e].state = "absent" <=> event[e].state = "absent"

\* They stay, and nothing new is owed: so does what is known of wakes.
LEMMA WakesFrame ==
    ASSUME OutInv, OwesNoMore, \A e \in Events : SameWake(e)
    PROVE  /\ \A e \in Events : EventKept(e)'
           /\ \A x \in Dispatchers : disp'[x] = disp[x] => TickKept(x)'
           /\ Published' = Published
<1>1. Published' = Published
    BY DEF Published, SameWake
<1>2. ASSUME NEW e \in Events
      PROVE  EventKept(e)'
    BY DEF OutInv, EventKept, OwesNoMore, SameWake
<1>3. ASSUME NEW x \in Dispatchers, disp'[x] = disp[x]
      PROVE  TickKept(x)'
    <2>1. TickKept(x)
        BY DEF OutInv
    <2>2. Slicing(x)' <=> Slicing(x)
        BY <1>3 DEF Slicing
    <2>3. CASE Slicing(x)
        <3>1. disp[x].event \in Events
            BY <2>1, <2>3 DEF TickKept
        <3>2. HoldsToken(x)' <=> HoldsToken(x)
            BY <1>3, <3>1 DEF HoldsToken, SameWake
        <3>q. QED BY <1>1, <1>3, <2>1, <2>2, <3>1, <3>2 DEF TickKept, OwesNoMore, SameWake
    <2>4. CASE ~Slicing(x)
        BY <1>1, <1>3, <2>1, <2>2, <2>4 DEF TickKept, Slicing
    <2>q. QED BY <2>3, <2>4
<1>q. QED BY <1>1, <1>2, <1>3

\* Rows evolve, some workers step; events and dispatchers stay.
LEMMA RowsFrame ==
    ASSUME OutInv, row' \in [Deliveries -> Delivery], work' \in [Workers -> WorkType],
           \A d \in Deliveries : RowGood(row'[d]) /\ Evolves(row[d], row'[d]),
           UNCHANGED <<event, disp, inserts, catalog>>, faults' \in Nat, lost' \in Nat, ops' \in Nat,
           InFlightCap',
           \A w \in Workers : work'[w] = work[w] \/ WorkerKept(w)'
    PROVE  OutInv'
<1>1. TypeOK'
    BY DEF OutInv, TypeOK, WorkType
<1>2. Published' = Published /\ \A e \in Events : SameWake(e)
    BY DEF Published, SameWake
<1>3. RowsKept' /\ TablesFinite' /\ \A w \in Workers : WorkerKept(w)'
    BY <1>2, TablesFrame
<1>4. (\A e \in Events : EventKept(e)') /\ (\A x \in Dispatchers : TickKept(x)')
    BY <1>2, OwesNoMoreFrame, WakesFrame
<1>5. TokensDiffer'
    BY DEF OutInv, TokensDiffer, Slicing
<1>q. QED BY <1>1, <1>3, <1>4, <1>5 DEF OutInv

\* One row evolves; a step of a clock or of the operator.
LEMMA RowFrame ==
    ASSUME OutInv, NEW d \in Deliveries, NEW s, row' = [row EXCEPT ![d] = s],
           RowGood(s), Evolves(row[d], s), s.state = "running" => row[d].state = "running",
           UNCHANGED <<event, disp, inserts, catalog, work, faults, lost>>, ops' \in Nat
    PROVE  OutInv'
<1>1. s \in Delivery /\ row \in [Deliveries -> Delivery]
    BY OutTypes DEF RowGood
<1>2. row' \in [Deliveries -> Delivery] /\ row'[d] = s /\ \A c \in Deliveries \ {d} : row'[c] = row[c]
    BY <1>1
<1>3. \A c \in Deliveries : RowGood(row'[c]) /\ Evolves(row[c], row'[c])
    BY <1>2, OutTypes, SameRow
<1>4. InFlightCap'
    BY <1>2, NoneStarts
<1>q. QED BY <1>2, <1>3, <1>4, OutTypes, RowsFrame

\* A worker steps.
LEMMA WorkFrame ==
    ASSUME OutInv, NEW w \in Workers, NEW k \in WorkType, work' = [work EXCEPT ![w] = k],
           row' \in [Deliveries -> Delivery],
           \A d \in Deliveries : RowGood(row'[d]) /\ Evolves(row[d], row'[d]),
           InFlightCap',
           k.page \subseteq Inserted, k.pc \in {"cas", "start", "run"} => k.job \in Inserted,
           k.pc = "cas" => NotHeldBack(k.job)', k.pc = "start" => k.stop = "no",
           UNCHANGED <<event, disp, inserts, catalog, ops>>, faults' \in Nat, lost' \in Nat
    PROVE  OutInv'
<1>1. work' \in [Workers -> WorkType] /\ work'[w] = k /\ \A v \in Workers \ {w} : work'[v] = work[v]
    BY OutTypes
<1>2. Inserted \subseteq Inserted'
    BY DEF Inserted, Evolves
<1>3. WorkerKept(w)'
    BY <1>1, <1>2 DEF WorkerKept
<1>q. QED BY <1>1, <1>3, OutTypes, RowsFrame

\* A worker steps, the rows stay.
LEMMA WorkAlone ==
    ASSUME OutInv, NEW w \in Workers, NEW k \in WorkType, work' = [work EXCEPT ![w] = k],
           k.page \subseteq Inserted, k.pc \in {"cas", "start", "run"} => k.job \in Inserted,
           k.pc = "cas" => NotHeldBack(k.job), k.pc = "start" => k.stop = "no",
           UNCHANGED <<event, row, disp, inserts, catalog, ops>>, faults' \in Nat, lost' \in Nat
    PROVE  OutInv'
<1>1. \A d \in Deliveries : RowGood(row'[d]) /\ Evolves(row[d], row'[d])
    BY OutTypes, SameRow
<1>2. InFlightCap' /\ row' \in [Deliveries -> Delivery]
    BY OutTypes, NoneStarts
<1>3. k.pc = "cas" => NotHeldBack(k.job)'
    BY DEF NotHeldBack
<1>q. QED BY <1>1, <1>2, <1>3, WorkFrame

\* A worker changes the row of its job.
LEMMA WorkRow ==
    ASSUME OutInv, NEW w \in Workers, NEW k \in WorkType, work' = [work EXCEPT ![w] = k],
           NEW d \in Deliveries, NEW s, row' = [row EXCEPT ![d] = s],
           RowGood(s), Evolves(row[d], s), s.state = "running" => row[d].state = "running",
           k.page \subseteq Inserted, k.pc \in {"start", "run"} => k.job \in Inserted,
           k.pc # "cas", k.pc = "start" => k.stop = "no",
           UNCHANGED <<event, disp, inserts, catalog, ops>>, faults' \in Nat, lost' \in Nat
    PROVE  OutInv'
<1>1. s \in Delivery /\ row \in [Deliveries -> Delivery]
    BY OutTypes DEF RowGood
<1>2. row' \in [Deliveries -> Delivery] /\ row'[d] = s /\ \A c \in Deliveries \ {d} : row'[c] = row[c]
    BY <1>1
<1>3. \A c \in Deliveries : RowGood(row'[c]) /\ Evolves(row[c], row'[c])
    BY <1>2, OutTypes, SameRow
<1>4. InFlightCap'
    BY <1>2, NoneStarts
<1>q. QED BY <1>2, <1>3, <1>4, WorkFrame

\* A lease runs out, or a run_after comes.
LEMMA ClockInv ==
    ASSUME OutInv, NEW d \in Deliveries, LeaseExpires(d) \/ RunAfterComes(d)
    PROVE  OutInv'
<1>1. RowGood(row[d]) /\ row[d] \in Delivery /\ ops \in Nat
    BY OutTypes DEF RowGood
<1>2. UNCHANGED <<event, disp, inserts, catalog, work, faults, lost, ops>>
    BY DEF LeaseExpires, RunAfterComes
<1>3. CASE LeaseExpires(d)
    <2> DEFINE s == [row[d] EXCEPT !.lease = "past"]
    <2>1. row' = [row EXCEPT ![d] = s]
        BY <1>3 DEF LeaseExpires
    <2>2. RowGood(s) /\ Evolves(row[d], s) /\ s.state = row[d].state
        BY <1>1, <1>3 DEF LeaseExpires, RowGood, RowKept, Evolves, Delivery, Finished
    <2> HIDE DEF s
    <2>q. QED BY <1>1, <1>2, <2>1, <2>2, RowFrame
<1>4. CASE RunAfterComes(d)
    <2> DEFINE s == [row[d] EXCEPT !.ready = "now"]
    <2>1. row' = [row EXCEPT ![d] = s]
        BY <1>4 DEF RunAfterComes
    <2>2. RowGood(s) /\ Evolves(row[d], s) /\ s.state = row[d].state
        BY <1>1, <1>4 DEF RunAfterComes, RowGood, RowKept, Evolves, Delivery, Finished
    <2> HIDE DEF s
    <2>q. QED BY <1>1, <1>2, <2>1, <2>2, RowFrame
<1>q. QED BY <1>3, <1>4

\* The operator cancels, revives, acknowledges or resumes.
LEMMA OperatorInv ==
    ASSUME OutInv, NEW d \in Deliveries, Operator(d)
    PROVE  OutInv'
<1>1. RowGood(row[d]) /\ row[d] \in Delivery
    BY OutTypes DEF RowGood
<1>2. UNCHANGED <<event, disp, inserts, catalog, work, faults, lost>> /\ ops' \in Nat
    BY OutTypes DEF Operator, CancelDelivery, RetryDeadLetter, AcknowledgeDeadLetter, ResumeDelivery, Request
<1>3. CASE CancelDelivery(d)
    <2> DEFINE s == IF row[d].state = "pending"
                    THEN [row[d] EXCEPT !.state = "rejected", !.cancel = FALSE, !.owed = {}]
                    ELSE [row[d] EXCEPT !.cancel = TRUE]
    <2>1. row' = [row EXCEPT ![d] = s] /\ row[d].state \in {"pending", "running"}
        BY <1>3 DEF CancelDelivery
    <2>2. RowGood(s) /\ Evolves(row[d], s) /\ (s.state = "running" => row[d].state = "running")
        BY <1>1, <2>1, ZenonT(60) DEF RowGood, RowKept, Evolves, Delivery, Finished
    <2> HIDE DEF s
    <2>q. QED BY <1>2, <2>1, <2>2, RowFrame
<1>4. CASE RetryDeadLetter(d)
    <2> DEFINE s == [row[d] EXCEPT !.state = "pending", !.ready = "now", !.attempt = 0,
                                   !.resume = FALSE, !.checkpoint = FALSE,
                                   !.from = "operator", !.expired = 0, !.revived = TRUE]
    <2>1. row' = [row EXCEPT ![d] = s] /\ row[d].state = "dead_letter"
        BY <1>4 DEF RetryDeadLetter
    <2>2. s \in Delivery /\ Evolves(row[d], s) /\ s.state = "pending"
        BY <1>1, <2>1 DEF Evolves, Delivery, Finished
    <2>3. RowKept(s)
        BY <1>1, <2>1, OutboxLimits DEF RowGood, RowKept, Delivery
    <2> HIDE DEF s
    <2>q. QED BY <1>2, <2>1, <2>2, <2>3, RowFrame DEF RowGood
<1>5. CASE AcknowledgeDeadLetter(d)
    <2> DEFINE s == [row[d] EXCEPT !.state = "rejected"]
    <2>1. row' = [row EXCEPT ![d] = s] /\ row[d].state = "dead_letter"
        BY <1>5 DEF AcknowledgeDeadLetter
    <2>2. RowGood(s) /\ Evolves(row[d], s) /\ s.state = "rejected"
        BY <1>1, <2>1, ZenonT(60) DEF RowGood, RowKept, Evolves, Delivery, Finished
    <2> HIDE DEF s
    <2>q. QED BY <1>2, <2>1, <2>2, RowFrame
<1>6. CASE ResumeDelivery(d)
    <2> DEFINE s == [row[d] EXCEPT !.ready = "now", !.resume = TRUE]
    <2>1. row' = [row EXCEPT ![d] = s] /\ row[d].state = "pending"
        BY <1>6 DEF ResumeDelivery
    <2>2. RowGood(s) /\ Evolves(row[d], s) /\ s.state = row[d].state
        BY <1>1, <2>1, ZenonT(60) DEF RowGood, RowKept, Evolves, Delivery, Finished
    <2> HIDE DEF s
    <2>q. QED BY <1>2, <2>1, <2>2, RowFrame
<1>q. QED BY <1>3, <1>4, <1>5, <1>6 DEF Operator

\* reclaim_expired_event_deliveries changes expired rows only.
LEMMA ReclaimInv ==
    ASSUME OutInv, NEW w \in Workers, ReclaimExpired(w)
    PROVE  OutInv'
<1>1. PICK flaggedLate \in SUBSET {d \in Deliveries : Expired(d) /\ row[d].cancel} :
        row' = [d \in Deliveries |->
                  CASE ~Expired(d) -> row[d]
                    [] Expired(d) /\ row[d].cancel /\ d \notin flaggedLate ->
                         [Left(row[d], "rejected") EXCEPT !.cancel = FALSE]
                    [] OTHER -> Reclaimed(row[d])]
    BY DEF ReclaimExpired
<1>2. ASSUME NEW d \in Deliveries
      PROVE  /\ RowGood(row'[d]) /\ Evolves(row[d], row'[d])
             /\ row'[d].state = "running" => row[d].state = "running"
    <2>1. RowGood(row[d])
        BY OutTypes
    <2>2. CASE ~Expired(d)
        <3>1. row'[d] = row[d]
            BY <1>1, <2>2
        <3>q. QED BY <2>1, <3>1, SameRow
    <2>3. CASE Expired(d) /\ row[d].cancel /\ d \notin flaggedLate
        <3> DEFINE l == Left(row[d], "rejected")
        <3>1. row'[d] = [l EXCEPT !.cancel = FALSE]
            BY <1>1, <2>3
        <3>2. RowGood(l) /\ Evolves(row[d], l) /\ l.state = "rejected" /\ row[d].state = "running"
            BY <2>1, <2>3, LeftGood DEF Expired, Finished
        <3> HIDE DEF l
        <3>q. QED BY <3>1, <3>2 DEF RowGood, RowKept, Evolves, Delivery, Finished
    <2>4. CASE Expired(d) /\ ~(row[d].cancel /\ d \notin flaggedLate)
        <3>1. row'[d] = Reclaimed(row[d]) /\ row[d].state = "running"
            BY <1>1, <2>4 DEF Expired
        <3>q. QED BY <2>1, <3>1, ReclaimedGood
    <2>q. QED BY <2>2, <2>3, <2>4
<1> DEFINE k == [work[w] EXCEPT !.pc = "find"]
<1>3. /\ k \in WorkType /\ k.pc = "find" /\ k.page = work[w].page
      /\ work' = [work EXCEPT ![w] = k]
      /\ UNCHANGED <<event, disp, inserts, catalog, ops, lost, faults>>
    BY OutTypes DEF WorkType, ReclaimExpired
<1>4. work[w].page \subseteq Inserted
    BY DEF OutInv, WorkerKept
<1>5. row' \in [Deliveries -> Delivery]
    BY <1>1, <1>2 DEF RowGood
<1>6. InFlightCap'
    BY <1>2, NoneStarts
<1> HIDE DEF k
<1>q. QED BY <1>2, <1>3, <1>4, <1>5, <1>6, OutTypes, WorkFrame

LEMMA IdleFacts ==
    Idle \in WorkType /\ Idle.pc = "top" /\ Idle.page = {} /\ Idle.stop = "no"
BY DEF Idle, WorkType

\* Listing, choosing and missing a candidate, starting the handler, giving up.
LEMMA LookInv ==
    ASSUME OutInv, NEW w \in Workers,
           \/ ListCandidates(w) \/ FindCandidate(w) \/ NoCandidate(w) \/ MissClaim(w)
           \/ StartHandler(w) \/ SeeCancel(w) \/ HeartbeatGivesUp(w) \/ WorkerFails(w)
    PROVE  OutInv'
<1>1. /\ UNCHANGED <<event, row, disp, inserts, catalog, ops>> /\ faults' \in Nat /\ lost' \in Nat
      /\ work[w] \in WorkType
    <2>1. faults \in Nat /\ lost \in Nat /\ work[w] \in WorkType
        BY OutTypes
    <2>2. /\ UNCHANGED <<event, row, disp, inserts, catalog, ops, lost>>
          /\ faults' = faults \/ faults' = faults + 1
        BY DEF ListCandidates, FindCandidate, NoCandidate, MissClaim, StartHandler, SeeCancel,
               HeartbeatGivesUp, WorkerFails
    <2>q. QED BY <2>1, <2>2
<1>2. WorkerKept(w)
    BY DEF OutInv
<1>3. CASE ListCandidates(w)
    <2> DEFINE k == [Idle EXCEPT !.pc = "try", !.page = Eligible]
    <2>1. Eligible \subseteq Inserted /\ Inserted \subseteq Deliveries
        BY DEF Eligible, Inserted
    <2>2. k \in WorkType /\ k.pc = "try" /\ k.page = Eligible
        BY <2>1 DEF Idle, WorkType
    <2>3. work' = [work EXCEPT ![w] = Idle] \/ work' = [work EXCEPT ![w] = k]
        BY <1>3 DEF ListCandidates
    <2> HIDE DEF k
    <2>q. QED BY <1>1, <2>1, <2>2, <2>3, IdleFacts, WorkAlone
<1>4. CASE FindCandidate(w)
    <2>1. PICK d \in work[w].page :
              /\ ~FifoBlocked(d)
              /\ work' = [work EXCEPT ![w] = [@ EXCEPT !.pc = "cas", !.job = d,
                                !.page = {c \in work[w].page : row[c].created > row[d].created}]]
        BY <1>4 DEF FindCandidate
    <2> DEFINE page == {c \in work[w].page : row[c].created > row[d].created}
               k == [work[w] EXCEPT !.pc = "cas", !.job = d, !.page = page]
    <2>2. page \in SUBSET Deliveries /\ page \subseteq Inserted /\ d \in Inserted /\ d \in Deliveries
        BY <1>2 DEF WorkerKept, Inserted
    <2>3. work' = [work EXCEPT ![w] = k]
        BY <2>1
    <2> HIDE DEF page
    <2>4. k \in WorkType /\ k.pc = "cas" /\ k.job = d /\ k.page = page
        BY <1>1, <2>2 DEF WorkType
    <2>5. NotHeldBack(d)
        BY <2>1, OutTypes DEF NotHeldBack, FifoBlocked, Delivery, Finished
    <2> HIDE DEF k
    <2>q. QED BY <1>1, <2>2, <2>3, <2>4, <2>5, WorkAlone
<1>5. CASE NoCandidate(w) \/ WorkerFails(w)
    <2>1. work' = [work EXCEPT ![w] = Idle]
        BY <1>5 DEF NoCandidate, WorkerFails
    <2>q. QED BY <1>1, <2>1, IdleFacts, WorkAlone
<1>6. CASE MissClaim(w)
    <2> DEFINE k == [work[w] EXCEPT !.pc = "try", !.job = None]
    <2>1. work' = [work EXCEPT ![w] = k] /\ k \in WorkType /\ k.pc = "try" /\ k.page = work[w].page
        BY <1>1, <1>6 DEF MissClaim, WorkType
    <2> HIDE DEF k
    <2>q. QED BY <1>1, <1>2, <2>1, WorkAlone DEF WorkerKept
<1>7. CASE StartHandler(w)
    <2> DEFINE k == [work[w] EXCEPT !.pc = "run"]
    <2>1. /\ work' = [work EXCEPT ![w] = k] /\ k \in WorkType /\ k.pc = "run" /\ k.page = work[w].page
          /\ k.job = work[w].job /\ work[w].pc = "start"
        BY <1>1, <1>7 DEF StartHandler, WorkType
    <2> HIDE DEF k
    <2>q. QED BY <1>1, <1>2, <2>1, WorkAlone DEF WorkerKept
<1>8. ASSUME NEW stop \in {"operator", "fence"}, work' = [work EXCEPT ![w].stop = stop], work[w].pc = "run"
      PROVE  OutInv'
    <2> DEFINE k == [work[w] EXCEPT !.stop = stop]
    <2>1. /\ work' = [work EXCEPT ![w] = k] /\ k \in WorkType /\ k.pc = "run" /\ k.page = work[w].page
          /\ k.job = work[w].job
        BY <1>1, <1>8 DEF WorkType
    <2> HIDE DEF k
    <2>q. QED BY <1>1, <1>2, <1>8, <2>1, WorkAlone DEF WorkerKept
<1>9. CASE SeeCancel(w) \/ HeartbeatGivesUp(w)
    BY <1>8, <1>9 DEF SeeCancel, HeartbeatGivesUp
<1>q. QED BY <1>3, <1>4, <1>5, <1>6, <1>7, <1>9

\* The claim: the plan counts the plugin's running rows in the same statement.
LEMMA ClaimedRow ==
    ASSUME OutInv, NEW w \in Workers, NEW d \in Inserted, Claimable(d),
           row' = [row EXCEPT ![d] = Claimed(row[d], w)]
    PROVE  /\ row' \in [Deliveries -> Delivery] /\ InFlightCap'
           /\ \A c \in Deliveries : RowGood(row'[c]) /\ Evolves(row[c], row'[c])
           /\ row'[d] = Claimed(row[d], w) /\ \A c \in Deliveries \ {d} : row'[c] = row[c]
<1> DEFINE s == Claimed(row[d], w)
<1>1. d \in Deliveries /\ row[d].state = "pending" /\ row \in [Deliveries -> Delivery]
    BY OutTypes DEF Inserted, Claimable
<1>2. RowGood(s) /\ Evolves(row[d], s) /\ s.state = "running"
    BY <1>1, OutTypes, ClaimedGood
<1> HIDE DEF s
<1>3. row' \in [Deliveries -> Delivery] /\ row'[d] = s /\ \A c \in Deliveries \ {d} : row'[c] = row[c]
    BY <1>1, <1>2 DEF RowGood, s
<1>4. \A c \in Deliveries : RowGood(row'[c]) /\ Evolves(row[c], row'[c])
    BY <1>2, <1>3, OutTypes, SameRow
<1>5. ASSUME NEW p \in Plugins
      PROVE  Cardinality(Running(p)') <= MaxInFlight
    <2>1. Running(p) \subseteq Inserted /\ IsFiniteSet(Inserted)
        BY DEF Running, Inserted, OutInv, TablesFinite
    <2>2. IsFiniteSet(Running(p)) /\ Cardinality(Running(p)) \in Nat
        BY <2>1, FS_Subset, FS_CardinalityType
    <2>3. CASE p = d[2]
        <3>1. Running(p)' = Running(p) \cup {d} /\ d \notin Running(p)
            BY <1>1, <1>2, <1>3, <2>3 DEF Running
        <3>2. Cardinality(Running(p)') = Cardinality(Running(p)) + 1
            BY <2>2, <3>1, FS_AddElement
        <3>3. Cardinality(Running(p)) < MaxInFlight
            BY <2>3 DEF Claimable
        <3>q. QED BY <2>2, <3>2, <3>3, OutboxLimits
    <2>4. CASE p # d[2]
        <3>1. Running(p)' = Running(p)
            BY <1>1, <1>3, <2>4 DEF Running
        <3>q. QED BY <3>1 DEF OutInv, InFlightCap
    <2>q. QED BY <2>3, <2>4
<1>q. QED BY <1>3, <1>4, <1>5 DEF InFlightCap, s

LEMMA ClaimInv ==
    ASSUME OutInv, NEW w \in Workers, Claim(w) \/ ClaimReplyLost(w)
    PROVE  OutInv'
<1> DEFINE d == work[w].job
<1>1. WorkerKept(w) /\ work[w].pc = "cas" /\ Claimable(d)
    BY DEF OutInv, Claim, ClaimReplyLost
<1>2. d \in Inserted /\ d \in Deliveries
    BY <1>1 DEF WorkerKept, Inserted
<1>3. row' = [row EXCEPT ![d] = Claimed(row[d], w)] /\ UNCHANGED <<event, disp, inserts, catalog, ops, faults>>
    BY DEF Claim, ClaimReplyLost
<1>4. /\ row' \in [Deliveries -> Delivery] /\ InFlightCap'
      /\ \A c \in Deliveries : RowGood(row'[c]) /\ Evolves(row[c], row'[c])
    BY <1>1, <1>2, <1>3, ClaimedRow
<1>5. faults' \in Nat /\ lost' \in Nat
    <2>1. faults \in Nat /\ lost \in Nat
        BY OutTypes
    <2>2. lost' = lost \/ lost' = lost + 1
        BY DEF Claim, ClaimReplyLost
    <2>q. QED BY <1>3, <2>1, <2>2
<1>6. CASE Claim(w)
    <2> DEFINE k == [Idle EXCEPT !.pc = "start", !.job = d, !.gen = row[d].gen + 1]
    <2>1. row[d].gen + 1 \in Nat
        BY <1>2, OutTypes DEF Delivery
    <2>2. work' = [work EXCEPT ![w] = k]
        BY <1>6 DEF Claim
    <2>3. k \in WorkType /\ k.pc = "start" /\ k.job = d /\ k.page = {} /\ k.stop = "no"
        BY <1>2, <2>1 DEF Idle, WorkType
    <2> HIDE DEF k
    <2>q. QED BY <1>2, <1>3, <1>4, <1>5, <2>2, <2>3, WorkFrame
<1>7. CASE ClaimReplyLost(w)
    <2> DEFINE k == [Idle EXCEPT !.pc = "find"]
    <2>1. work' = [work EXCEPT ![w] = k] /\ k \in WorkType /\ k.pc = "find" /\ k.page = {}
        BY <1>7 DEF ClaimReplyLost, Idle, WorkType
    <2> HIDE DEF k
    <2>q. QED BY <1>3, <1>4, <1>5, <2>1, WorkFrame
<1>q. QED BY <1>6, <1>7

\* A release, a heartbeat or a result that passes the fence changes the row of
\* the job; one that does not changes none.
LEMMA RunInv ==
    ASSUME OutInv, NEW w \in Workers,
           Release(w) \/ Heartbeat(w) \/ \E r \in Outcomes : Return(w, r)
    PROVE  OutInv'
<1> DEFINE d == work[w].job
<1>1. /\ UNCHANGED <<event, disp, inserts, catalog, ops, lost, faults>>
      /\ faults' \in Nat /\ lost' \in Nat /\ work[w] \in WorkType
    BY OutTypes DEF Release, Heartbeat, Return
<1>2. WorkerKept(w) /\ work[w].pc \in {"start", "run"}
    BY DEF OutInv, Release, Heartbeat, Return
<1>3. d \in Deliveries /\ d \in Inserted /\ RowGood(row[d]) /\ row[d] \in Delivery
    BY <1>2, OutTypes DEF WorkerKept, Inserted, RowGood
<1>4. ASSUME NEW s, RowGood(s), Evolves(row[d], s), s.state # "running",
             row' = [row EXCEPT ![d] = s], work' = [work EXCEPT ![w] = Idle]
      PROVE  OutInv'
    BY <1>1, <1>3, <1>4, IdleFacts, WorkRow
<1>5. ASSUME row' = row, work' = [work EXCEPT ![w] = Idle]
      PROVE  OutInv'
    BY <1>1, <1>5, IdleFacts, WorkAlone
<1>6. Holds(w) => row[d].state = "running"
    BY DEF Holds
<1>7. CASE Release(w)
    <2>1. /\ work' = [work EXCEPT ![w] = Idle]
          /\ row' = IF Holds(w) THEN [row EXCEPT ![d] = Released(row[d])] ELSE row
        BY <1>7 DEF Release
    <2>q. QED BY <1>3, <1>4, <1>5, <1>6, <2>1, ReleasedGood
<1>8. ASSUME NEW r \in Outcomes, Return(w, r)
      PROVE  OutInv'
    <2> DEFINE said == IF work[w].stop = "operator" THEN "reject" ELSE r
    <2>1. /\ work' = [work EXCEPT ![w] = Idle]
          /\ row' = IF work[w].stop # "fence" /\ Holds(w)
                    THEN [row EXCEPT ![d] = Settled(row[d], said)] ELSE row
        BY <1>8 DEF Return
    <2>2. said \in {"ack", "reject", "dead_letter", "retry",
                    "suspend_timer", "suspend_event", "suspend_both"}
        BY OutboxOutcomes
    <2> HIDE DEF said
    <2>q. QED BY <1>3, <1>4, <1>5, <1>6, <2>1, <2>2, SettledGood
<1>9. CASE Heartbeat(w)
    <2>1. CASE Holds(w)
        <3> DEFINE s == [row[d] EXCEPT !.lease = "live"]
        <3>1. row' = [row EXCEPT ![d] = s] /\ work' = [work EXCEPT ![w] = work[w]]
            BY <1>9, <2>1, OutTypes DEF Heartbeat
        <3>2. RowGood(s) /\ Evolves(row[d], s) /\ s.state = row[d].state
            BY <1>3, <1>6, <2>1 DEF RowGood, RowKept, Evolves, Delivery, Finished
        <3> HIDE DEF s
        <3>q. QED BY <1>1, <1>2, <1>3, <3>1, <3>2, WorkRow DEF WorkerKept
    <2>2. CASE ~Holds(w)
        <3> DEFINE k == [work[w] EXCEPT !.stop = "fence"]
        <3>1. /\ work' = [work EXCEPT ![w] = k] /\ UNCHANGED row /\ k \in WorkType /\ k.pc = "run"
              /\ k.page = work[w].page /\ k.job = d
            BY <1>1, <1>9, <2>2 DEF Heartbeat, WorkType
        <3> HIDE DEF k
        <3>q. QED BY <1>1, <1>2, <1>3, <3>1, WorkAlone DEF WorkerKept
    <2>q. QED BY <2>1, <2>2
<1>q. QED BY <1>7, <1>8, <1>9
-----------------------------------------------------------------------------
(* Least and greatest numbers *)

LEMMA LeastNat ==
    ASSUME NEW T \in SUBSET Nat, T # {}
    PROVE  \E m \in T : \A n \in T : m <= n
<1> DEFINE less == {ss \in Nat \X Nat : ss[1] < ss[2]}
<1>1. IsWellFoundedOn(less, Nat)
    BY NatLessThanWellFounded DEF OpToRel
<1> HIDE DEF less
<1>2. PICK m \in T : \A n \in T : ~(<<n, m>> \in less)
    BY <1>1, WFMin
<1>3. \A n \in T : ~(n < m) /\ n \in Nat /\ m \in Nat
    BY <1>2 DEF less
<1>4. \A n \in T : m <= n
    BY <1>3
<1>q. QED BY <1>4

LEMMA GreatestNat ==
    ASSUME NEW T \in SUBSET Nat, T # {}, NEW b \in Nat, \A n \in T : n <= b
    PROVE  \E m \in T : \A n \in T : n <= m
<1> DEFINE D == {b - n : n \in T}
<1>1. \A n \in T : n \in Nat /\ b - n \in Nat
    OBVIOUS
<1>2. D \in SUBSET Nat /\ D # {}
    BY <1>1
<1> HIDE DEF D
<1>3. PICK m \in D : \A n \in D : m <= n
    BY <1>2, LeastNat
<1>4. PICK k \in T : m = b - k
    BY DEF D
<1>5. ASSUME NEW n \in T
      PROVE  n <= k
    <2>1. b - k <= b - n
        BY <1>3, <1>4 DEF D
    <2>q. QED BY <1>1, <2>1
<1>q. QED BY <1>5

\* The oldest row of a set of rows.
LEMMA OldestRow ==
    ASSUME OutInv, NEW S \in SUBSET Deliveries, S # {}
    PROVE  \E d \in S : \A c \in S : row[d].created <= row[c].created
<1> DEFINE T == {row[d].created : d \in S}
<1>1. T \in SUBSET Nat /\ T # {}
    BY OutTypes DEF Delivery
<1>2. PICK m \in T : \A n \in T : m <= n
    BY <1>1, LeastNat
<1>q. QED BY <1>2

\* The page of a wake slice: when it is not all there is it is full, and what
\* it leaves out comes after it.
LEMMA PageCovers ==
    ASSUME OutInv, NEW S \in SUBSET Inserted
    PROVE  /\ FirstOf(S) = {} => S = {}
           /\ \A d \in S \ FirstOf(S) :
                 /\ ~(Cardinality(FirstOf(S)) < WakePage)
                 /\ \A c \in FirstOf(S) : row[c].created < row[d].created
<1> DEFINE page == FirstOf(S)
           older(d) == {c \in S : row[c].created < row[d].created}
<1>1. IsFiniteSet(S) /\ S \in SUBSET Deliveries /\ page \subseteq S
    BY FS_Subset DEF OutInv, TablesFinite, Inserted, FirstOf
<1>2. \A d \in S : row[d].created \in Nat
    BY <1>1, OutTypes DEF Delivery
<1>3. ASSUME NEW d \in S
      PROVE  /\ IsFiniteSet(older(d)) /\ Cardinality(older(d)) \in Nat
             /\ d \in page <=> Cardinality(older(d)) < WakePage
    BY <1>1, FS_Subset, FS_CardinalityType DEF FirstOf
<1>4. IsFiniteSet(page) /\ Cardinality(page) \in Nat
    BY <1>1, FS_Subset, FS_CardinalityType
<1>5. page = {} => S = {}
    <2> SUFFICES ASSUME S # {} PROVE page # {}
        OBVIOUS
    <2>1. PICK d \in S : \A c \in S : row[d].created <= row[c].created
        BY <1>1, OldestRow
    <2>2. older(d) = {}
        BY <1>2, <2>1
    <2>3. Cardinality(older(d)) = 0
        BY <2>2, FS_EmptySet
    <2>q. QED BY <1>3, <2>3, OutboxLimits
<1> HIDE DEF page
<1>6. ASSUME NEW d \in S \ page, NEW c \in page
      PROVE  row[c].created < row[d].created
    <2> SUFFICES ASSUME ~(row[c].created < row[d].created) PROVE FALSE
        OBVIOUS
    <2>1. c \in S
        BY <1>1
    <2>2. older(d) \in SUBSET older(c)
        BY <1>2, <2>1
    <2>3. Cardinality(older(d)) <= Cardinality(older(c))
        BY <1>3, <2>1, <2>2, FS_Subset
    <2>4. /\ ~(Cardinality(older(d)) < WakePage) /\ Cardinality(older(c)) < WakePage
          /\ Cardinality(older(d)) \in Nat /\ Cardinality(older(c)) \in Nat
        BY <1>3, <2>1
    <2>q. QED BY <2>3, <2>4, OutboxLimits
<1>7. ASSUME NEW d \in S \ page
      PROVE  ~(Cardinality(page) < WakePage)
    <2>1. PICK f \in S \ page : \A c \in S \ page : row[f].created <= row[c].created
        BY <1>1, <1>7, OldestRow
    <2>2. older(f) \in SUBSET page
        BY <1>2, <2>1
    <2>3. Cardinality(older(f)) <= Cardinality(page)
        BY <1>4, <2>2, FS_Subset
    <2>4. ~(Cardinality(older(f)) < WakePage) /\ Cardinality(older(f)) \in Nat
        BY <1>3, <2>1
    <2>q. QED BY <1>4, <2>3, <2>4, OutboxLimits
<1>q. QED BY <1>5, <1>6, <1>7 DEF page
-----------------------------------------------------------------------------
(* Steps of the dispatchers *)

\* What a dispatcher's step leaves to show: the rows, workers and counters stay.
LEMMA TickFrame ==
    ASSUME OutInv, NEW x \in Dispatchers, NEW k \in TickType, disp' = [disp EXCEPT ![x] = k],
           event' \in [Events -> Event], Published' = Published,
           UNCHANGED <<row, work, inserts, catalog, lost, ops>>, faults' \in Nat,
           \A e \in Events : EventKept(e)', \A y \in Dispatchers : TickKept(y)', TokensDiffer'
    PROVE  OutInv'
<1>1. disp' \in [Dispatchers -> TickType]
    BY OutTypes
<1>2. TypeOK'
    BY <1>1 DEF OutInv, TypeOK, TickType
<1>3. \A d \in Deliveries : RowGood(row'[d]) /\ Evolves(row[d], row'[d])
    BY OutTypes, SameRow
<1>4. RowsKept' /\ TablesFinite' /\ \A w \in Workers : WorkerKept(w)'
    BY <1>3, TablesFrame
<1>5. InFlightCap'
    BY NoneStarts
<1>q. QED BY <1>2, <1>4, <1>5 DEF OutInv

\* A step that leaves the wake columns alone, outside of a slice or within one.
LEMMA TickAlone ==
    ASSUME OutInv, NEW x \in Dispatchers, NEW k \in TickType, disp' = [disp EXCEPT ![x] = k],
           event' \in [Events -> Event], \A e \in Events : SameWake(e),
           UNCHANGED <<row, work, inserts, catalog, lost, ops>>, faults' \in Nat,
           \/ k.pc \notin {"scan", "update", "end"}
           \/ Slicing(x) /\ k.event = disp[x].event /\ k.token = disp[x].token,
           TickKept(x)'
    PROVE  OutInv'
<1>1. disp'[x] = k /\ \A y \in Dispatchers \ {x} : disp'[y] = disp[y]
    BY OutTypes
<1>2. OwesNoMore
    BY DEF OwesNoMore
<1>3. /\ \A e \in Events : EventKept(e)'
      /\ \A y \in Dispatchers : TickKept(y)'
      /\ Published' = Published
    BY <1>1, <1>2, WakesFrame
<1>4. TokensDiffer'
    BY <1>1 DEF OutInv, TokensDiffer, Slicing
<1>q. QED BY <1>3, <1>4, TickFrame

LEMMA NewTickFacts == NewTick \in TickType /\ NewTick.pc = "top"
BY DEF NewTick, TickType

\* A tick that is neither at a page nor in a slice has nothing to keep.
LEMMA OutsideKept ==
    ASSUME NEW x \in Dispatchers, disp'[x].pc \notin {"page", "latepage", "scan", "update", "end"}
    PROVE  TickKept(x)'
BY DEF TickKept, Slicing

\* A tick starts, ends or is aborted.
LEMMA TickEndsInv ==
    ASSUME OutInv, NEW x \in Dispatchers, StartTick(x) \/ EndTick(x) \/ AbortTick(x)
    PROVE  OutInv'
<1> DEFINE k == IF StartTick(x) THEN [disp[x] EXCEPT !.pc = "dispatch", !.catalog = catalog] ELSE NewTick
<1>1. disp' = [disp EXCEPT ![x] = k] /\ UNCHANGED <<event, row, work, inserts, catalog, lost, ops>>
    BY DEF StartTick, EndTick, AbortTick
<1>2. k \in TickType /\ k.pc \in {"top", "dispatch"}
    <2>1. disp[x] \in TickType /\ catalog \in SUBSET Plugins
        BY OutTypes
    <2>2. /\ [disp[x] EXCEPT !.pc = "dispatch", !.catalog = catalog] \in TickType
          /\ [disp[x] EXCEPT !.pc = "dispatch", !.catalog = catalog].pc = "dispatch"
        BY <2>1 DEF TickType
    <2>q. QED BY <2>2, NewTickFacts
<1>3. faults' \in Nat
    <2>1. faults \in Nat
        BY OutTypes
    <2>2. faults' = faults \/ faults' = faults + 1
        BY DEF StartTick, EndTick, AbortTick
    <2>q. QED BY <2>1, <2>2
<1> HIDE DEF k
<1>4. disp'[x] = k
    BY <1>1, OutTypes
<1>5. TickKept(x)'
    BY <1>2, <1>4, OutsideKept
<1>6. event' \in [Events -> Event] /\ \A e \in Events : SameWake(e)
    BY <1>1, OutTypes DEF SameWake
<1>q. QED BY <1>1, <1>2, <1>3, <1>5, <1>6, TickAlone

\* dispatch_event_deliveries of a published event to some subscribers.
LEMMA BeginDispatchInv ==
    ASSUME OutInv, NEW x \in Dispatchers, NEW e \in Published, NEW S \in SUBSET Plugins,
           NEW pc \in {"page", "latepage"}, BeginDispatch(x, e, S, pc),
           UNCHANGED <<row, catalog, work, inserts, lost, faults, ops>>
    PROVE  OutInv'
<1> DEFINE todo == SnapshotOf(e, S)
           k == [disp[x] EXCEPT !.pc = pc, !.event = e, !.todo = todo]
<1>1. e \in Events /\ event[e] \in Event /\ disp[x] \in TickType /\ faults \in Nat
    BY OutTypes DEF Published
<1>2. todo \in SUBSET Plugins
    BY <1>1 DEF SnapshotOf, Event
<1>3. disp' = [disp EXCEPT ![x] = k] /\ event' = [event EXCEPT ![e].snapshot = todo]
    BY DEF BeginDispatch
<1> HIDE DEF todo
<1>4. k \in TickType /\ k.pc = pc /\ k.event = e
    BY <1>1, <1>2 DEF TickType
<1>5. event' \in [Events -> Event]
    BY <1>1, <1>2, <1>3, OutTypes DEF Event
<1>6. \A f \in Events : SameWake(f)
    BY <1>1, <1>3, OutTypes DEF SameWake, Event
<1> HIDE DEF k
<1>7. disp'[x] = k /\ Published' = Published
    BY <1>3, <1>6, OutTypes DEF Published, SameWake
<1>8. TickKept(x)'
    BY <1>4, <1>7 DEF TickKept, Slicing
<1>q. QED BY <1>1, <1>3, <1>4, <1>5, <1>6, <1>8, TickAlone

\* The oldest undispatched event.
LEMMA DispatchNextInv ==
    ASSUME OutInv, NEW x \in Dispatchers, DispatchNext(x)
    PROVE  OutInv'
<1> DEFINE T == {event[e].at : e \in Undispatched}
<1>1. (\A e \in Undispatched : event[e].at \in Nat) /\ Undispatched # {}
    BY OutTypes DEF DispatchNext, Undispatched, Event
<1>2. \E e \in Undispatched : \A f \in Undispatched : event[e].at <= event[f].at
    <2>1. T \in SUBSET Nat /\ T # {}
        BY <1>1
    <2>2. PICK m \in T : \A n \in T : m <= n
        BY <2>1, LeastNat
    <2>q. QED BY <2>2
<1>3. Oldest(Undispatched) \in Undispatched
    BY <1>2 DEF Oldest
<1>4. Oldest(Undispatched) \in Published
    BY <1>3 DEF Undispatched, Published
<1>5. disp[x].catalog \in SUBSET Plugins
    BY OutTypes DEF TickType
<1>6. /\ BeginDispatch(x, Oldest(Undispatched), disp[x].catalog, "page")
      /\ UNCHANGED <<row, catalog, work, inserts, lost, faults, ops>>
    BY DEF DispatchNext
<1>q. QED BY <1>4, <1>5, <1>6, BeginDispatchInv

\* A late subscriber.
LEMMA ReconcileInv ==
    ASSUME OutInv, NEW x \in Dispatchers, Reconcile(x)
    PROVE  OutInv'
<1>1. PICK d \in MissingPairs : BeginDispatch(x, d[1], {d[2]}, "latepage")
    BY DEF Reconcile
<1>2. d[1] \in Published /\ {d[2]} \in SUBSET Plugins
    BY DEF MissingPairs, Published, Deliveries
<1>3. UNCHANGED <<row, catalog, work, inserts, lost, faults, ops>>
    BY DEF Reconcile
<1>q. QED BY <1>1, <1>2, <1>3, BeginDispatchInv

\* A slice is claimed with a token that no other slice has.
LEMMA ClaimWakeInv ==
    ASSUME OutInv, NEW x \in Dispatchers, NEW e \in Events, ClaimWake(x, e)
    PROVE  OutInv'
<1> DEFINE n == event[e].claims + 1
           k == [disp[x] EXCEPT !.pc = "scan", !.event = e, !.catalog = {}, !.token = n]
<1>1. event[e] \in Event /\ event[e].claims \in Nat /\ n \in Nat /\ disp[x] \in TickType /\ faults \in Nat
    BY OutTypes DEF Event
<1>2. /\ event' = [event EXCEPT ![e] = [@ EXCEPT !.lease = "live", !.token = n, !.claims = n]]
      /\ disp' = [disp EXCEPT ![x] = k] /\ event[e].wake
      /\ UNCHANGED <<row, catalog, work, inserts, lost, faults, ops>>
    BY DEF ClaimWake, Wakeable
<1>3. n > event[e].claims
    BY <1>1
<1> HIDE DEF n
<1>4. k \in TickType /\ k.pc = "scan" /\ k.event = e /\ k.token = n
    BY <1>1 DEF TickType
<1>5. event' \in [Events -> Event] /\ \A f \in Events \ {e} : event'[f] = event[f]
    BY <1>1, <1>2, OutTypes DEF Event
<1>6. /\ event'[e].token = n /\ event'[e].claims = n /\ event'[e].wake = event[e].wake
      /\ event'[e].cursor = event[e].cursor /\ event'[e].state = event[e].state
    BY <1>1, <1>2, OutTypes DEF Event
<1> HIDE DEF k
<1>7. disp'[x] = k /\ \A y \in Dispatchers \ {x} : disp'[y] = disp[y]
    BY <1>2, OutTypes
<1>8. Published' = Published
    BY <1>5, <1>6 DEF Published
<1>9. ASSUME NEW f \in Events
      PROVE  EventKept(f)'
    BY <1>2, <1>5, <1>6 DEF OutInv, EventKept
<1>10. ASSUME NEW y \in Dispatchers, Slicing(y), disp[y].event = e
       PROVE  disp[y].token \in 1..event[e].claims /\ disp[y].token # n
    BY <1>1, <1>3, <1>10 DEF OutInv, TickKept
<1>11. ASSUME NEW y \in Dispatchers
       PROVE  TickKept(y)'
    <2>1. CASE y = x
        <3>1. n \in 1..n
            BY <1>1, <1>3
        <3>q. QED BY <1>4, <1>6, <1>7, <2>1, <3>1 DEF TickKept, Slicing
    <2>2. CASE y # x /\ ~(Slicing(y) /\ disp[y].event = e)
        BY <1>2, <1>5, <1>7, <1>8, <2>2 DEF OutInv, TickKept, Slicing, HoldsToken
    <2>3. CASE y # x /\ Slicing(y) /\ disp[y].event = e
        <3>1. ~HoldsToken(y)' /\ disp[y].token \in 1..n
            BY <1>1, <1>3, <1>6, <1>7, <1>10, <2>3 DEF HoldsToken
        <3>q. QED BY <1>6, <1>7, <1>8, <2>3, <3>1 DEF TickKept, Slicing
    <2>q. QED BY <2>1, <2>2, <2>3
<1>12. TokensDiffer'
    BY <1>4, <1>7, <1>10 DEF OutInv, TokensDiffer, Slicing
<1>q. QED BY <1>1, <1>2, <1>4, <1>5, <1>8, <1>9, <1>11, <1>12, TickFrame

\* A page is read: it holds every delivery that is owed the wake, or is full and
\* what it leaves out comes after it.
LEMMA ScanWakePageInv ==
    ASSUME OutInv, NEW x \in Dispatchers, ScanWakePage(x)
    PROVE  OutInv'
<1> DEFINE e == disp[x].event
           page == FirstOf(Sleepers(e))
           pc == IF page = {} THEN "end" ELSE "update"
           last == Cardinality(page) < WakePage
           upto == IF page = {} THEN 0
                   ELSE CHOOSE n \in {row[d].created : d \in page} : \A d \in page : row[d].created <= n
           k == [disp[x] EXCEPT !.pc = pc, !.ids = page, !.last = last, !.upto = upto]
<1>1. /\ disp[x] \in TickType /\ faults \in Nat /\ disp' = [disp EXCEPT ![x] = k] /\ disp[x].pc = "scan"
      /\ UNCHANGED <<event, row, work, inserts, catalog, lost, ops, faults>>
    BY OutTypes DEF ScanWakePage
<1>2. e \in Events /\ TickKept(x) /\ EventKept(e) /\ Slicing(x)
    BY <1>1 DEF OutInv, TickKept, Slicing
<1>3. Sleepers(e) \in SUBSET Inserted /\ Inserted \subseteq Deliveries
    BY DEF Sleepers, Parked, Inserted
<1>4. page \subseteq Inserted /\ page \in SUBSET Deliveries
    BY <1>3 DEF FirstOf
<1>5. \A d \in page : row[d].created \in Nat /\ row[d].created <= inserts
    BY <1>4, OutTypes DEF OutInv, RowsKept, Inserted
<1>6. upto \in Nat /\ \A d \in page : row[d].created <= upto
    <2>1. CASE page = {}
        BY <2>1
    <2>2. CASE page # {}
        <3> DEFINE T == {row[d].created : d \in page}
        <3>1. T \in SUBSET Nat /\ T # {} /\ \A n \in T : n <= inserts
            BY <1>5, <2>2
        <3>2. \E m \in T : \A n \in T : n <= m
            BY <3>1, OutTypes, GreatestNat
        <3>3. \E n \in T : \A d \in page : row[d].created <= n
            BY <3>2
        <3>4. upto \in T /\ \A d \in page : row[d].created <= upto
            BY <2>2, <3>3
        <3>q. QED BY <3>1, <3>4
    <2>q. QED BY <2>1, <2>2
<1>7. ASSUME NEW d \in Deliveries, e \in row[d].owed
      PROVE  d \in Sleepers(e)
    <2>1. row[d].owed # {} /\ RowGood(row[d])
        BY <1>7, OutTypes
    <2>2. Parked(d)
        BY <2>1 DEF RowGood, RowKept, Parked
    <2>q. QED BY <1>2, <1>7, <2>2 DEF EventKept, Sleepers
<1>8. ASSUME NEW d \in Deliveries, e \in row[d].owed
      PROVE  \/ page # {} /\ d \in page
             \/ ~last /\ row[d].created > upto
    <2>1. CASE d \in page
        BY <2>1
    <2>2. CASE d \notin page
        <3>1. ~last /\ page # {} /\ \A c \in page : row[c].created < row[d].created
            BY <1>3, <1>7, <1>8, <2>2, PageCovers
        <3>2. upto \in {row[c].created : c \in page}
            <4> DEFINE T == {row[c].created : c \in page}
            <4>1. T \in SUBSET Nat /\ T # {} /\ \A n \in T : n <= inserts
                BY <1>5, <3>1
            <4>2. \E m \in T : \A n \in T : n <= m
                BY <4>1, OutTypes, GreatestNat
            <4>3. \E n \in T : \A c \in page : row[c].created <= n
                BY <4>2
            <4>q. QED BY <3>1, <4>3
        <3>q. QED BY <1>5, <3>1, <3>2, OutTypes DEF Delivery
    <2>q. QED BY <2>1, <2>2
<1> HIDE DEF upto, page, last
<1>9. last \in BOOLEAN
    BY DEF last
<1>10. /\ k \in TickType /\ k.pc = pc /\ k.event = e /\ k.token = disp[x].token
       /\ k.ids = page /\ k.last = last /\ k.upto = upto
    BY <1>1, <1>4, <1>6, <1>9 DEF TickType
<1> HIDE DEF k
<1>11. disp'[x] = k
    BY <1>1, OutTypes
<1>12. TickKept(x)'
    <2>1. disp[x].token \in 1..event[e].claims
        BY <1>2 DEF TickKept
    <2>2. k.pc \in {"update", "end"} /\ (page # {} => k.pc = "update")
        BY <1>10
    <2>3. \A d \in Deliveries : e \in row[d].owed =>
              (k.pc = "update" /\ d \in k.ids) \/ (~k.last /\ row[d].created > k.upto)
        BY <1>8, <1>10, <2>2
    <2>q. QED BY <1>1, <1>2, <1>10, <1>11, <2>1, <2>2, <2>3 DEF TickKept, Slicing
<1>13. event' \in [Events -> Event] /\ \A f \in Events : SameWake(f)
    BY <1>1, OutTypes DEF SameWake
<1>q. QED BY <1>1, <1>2, <1>10, <1>12, <1>13, TickAlone

\* The rows of the page are woken, if the slice still holds its token.
LEMMA WakeSleepersInv ==
    ASSUME OutInv, NEW x \in Dispatchers, WakeSleepers(x)
    PROVE  OutInv'
<1> DEFINE woken(d) == HoldsToken(x) /\ d \in disp[x].ids /\ row[d].state = "pending"
           k == [disp[x] EXCEPT !.pc = "end", !.ids = {}]
<1>1. /\ row' = [d \in Deliveries |->
                    IF woken(d) THEN [row[d] EXCEPT !.ready = "now", !.resume = TRUE, !.wake = FALSE,
                                                    !.owed = {}]
                    ELSE row[d]]
      /\ disp' = [disp EXCEPT ![x] = k] /\ disp[x].pc = "update" /\ disp[x] \in TickType
      /\ UNCHANGED <<event, catalog, work, inserts, lost, faults, ops>>
    BY OutTypes DEF WakeSleepers
<1>2. ASSUME NEW d \in Deliveries
      PROVE  /\ RowGood(row'[d]) /\ Evolves(row[d], row'[d])
             /\ row'[d].state = "running" => row[d].state = "running"
             /\ woken(d) => row'[d].owed = {}
    <2>1. RowGood(row[d])
        BY OutTypes
    <2>2. CASE woken(d)
        <3>1. row'[d] = [row[d] EXCEPT !.ready = "now", !.resume = TRUE, !.wake = FALSE, !.owed = {}]
            BY <1>1, <2>2
        <3>2. row[d].from \in {"suspend", "expiry", "release"} => row[d].attempt \in Nat
            BY <2>1 DEF RowGood, Delivery
        <3>q. QED BY <2>1, <2>2, <3>1, ZenonT(60) DEF RowGood, RowKept, Evolves, Delivery, Finished
    <2>3. CASE ~woken(d)
        <3>1. row'[d] = row[d]
            BY <1>1, <2>3
        <3>q. QED BY <2>1, <2>3, <3>1, SameRow
    <2>q. QED BY <2>2, <2>3
<1>3. row' \in [Deliveries -> Delivery]
    BY <1>1, <1>2 DEF RowGood
<1>4. InFlightCap'
    BY <1>2, NoneStarts
<1>5. k \in TickType /\ k.pc = "end" /\ k.event = disp[x].event /\ k.token = disp[x].token
      /\ k.last = disp[x].last /\ k.upto = disp[x].upto
    BY <1>1 DEF TickType
<1> HIDE DEF k
<1>6. /\ disp' \in [Dispatchers -> TickType] /\ disp'[x] = k
      /\ \A y \in Dispatchers \ {x} : disp'[y] = disp[y]
    BY <1>1, <1>5, OutTypes
<1>7. TypeOK'
    BY <1>1, <1>3, <1>6 DEF OutInv, TypeOK, TickType
<1>8. Published' = Published /\ \A e \in Events : SameWake(e)
    BY <1>1 DEF Published, SameWake
<1>9. RowsKept' /\ TablesFinite' /\ \A w \in Workers : WorkerKept(w)'
    BY <1>1, <1>2, <1>8, TablesFrame
<1>10. OwesNoMore
    BY <1>2, OwesNoMoreFrame
<1>11. /\ \A e \in Events : EventKept(e)'
       /\ \A y \in Dispatchers : disp'[y] = disp[y] => TickKept(y)'
    BY <1>8, <1>10, WakesFrame
<1>12. TickKept(x)'
    <2> DEFINE e == disp[x].event
    <2>1. TickKept(x)
        BY DEF OutInv
    <2>2. e \in Events /\ disp[x].token \in 1..event[e].claims
        BY <1>1, <2>1 DEF TickKept, Slicing
    <2>3. HoldsToken(x)' <=> HoldsToken(x)
        BY <1>1, <1>5, <1>6 DEF HoldsToken
    <2>4. ASSUME HoldsToken(x), NEW d \in Deliveries, e \in row'[d].owed
          PROVE  ~disp[x].last /\ row'[d].created > disp[x].upto
        <3>1. e \in row[d].owed /\ row'[d].created = row[d].created /\ ~woken(d)
            BY <1>2, <1>10, <2>4 DEF OwesNoMore
        <3>2. row[d].state = "pending"
            BY <3>1, OutTypes DEF RowGood, RowKept
        <3>q. QED BY <1>1, <2>1, <2>4, <3>1, <3>2 DEF TickKept
    <2>q. QED BY <1>1, <1>5, <1>6, <2>2, <2>3, <2>4 DEF TickKept, Slicing
<1>13. TokensDiffer'
    <2>1. \A y \in Dispatchers : /\ Slicing(y)' <=> Slicing(y)
                                 /\ disp'[y].event = disp[y].event /\ disp'[y].token = disp[y].token
        BY <1>1, <1>5, <1>6 DEF Slicing
    <2>q. QED BY <2>1 DEF OutInv, TokensDiffer
<1>q. QED BY <1>4, <1>6, <1>7, <1>9, <1>11, <1>12, <1>13 DEF OutInv

\* finish_wake_on and release_wake_cursor_on.
LEMMA EndWakeInv ==
    ASSUME OutInv, NEW x \in Dispatchers, EndWake(x)
    PROVE  OutInv'
<1> DEFINE e == disp[x].event
           k == [NewTick EXCEPT !.pc = "wake"]
           c == IF disp[x].last THEN 0 ELSE disp[x].upto
           b == ~disp[x].last
<1>1. /\ event' = IF HoldsToken(x)
                  THEN [event EXCEPT ![e] = [@ EXCEPT !.wake = b, !.token = 0, !.lease = "none", !.cursor = c]]
                  ELSE event
      /\ disp' = [disp EXCEPT ![x] = k] /\ disp[x].pc = "end" /\ disp[x] \in TickType /\ faults \in Nat
      /\ UNCHANGED <<row, catalog, work, inserts, lost, faults, ops>>
    BY OutTypes DEF EndWake
<1>2. k \in TickType /\ k.pc = "wake"
    BY DEF NewTick, TickType
<1>3. TickKept(x) /\ e \in Events /\ event[e] \in Event
    BY <1>1, OutTypes DEF OutInv, TickKept, Slicing
<1>4. c \in Nat /\ b \in BOOLEAN
    BY <1>1 DEF TickType
<1> HIDE DEF k
<1>5. disp'[x] = k /\ \A y \in Dispatchers \ {x} : disp'[y] = disp[y]
    BY <1>1, OutTypes
<1>6. TickKept(x)'
    BY <1>2, <1>5, OutsideKept
<1>7. CASE ~HoldsToken(x)
    <2>1. event' \in [Events -> Event] /\ \A f \in Events : SameWake(f)
        BY <1>1, <1>7, OutTypes DEF SameWake
    <2>q. QED BY <1>1, <1>2, <1>6, <2>1, TickAlone
<1>8. CASE HoldsToken(x)
    <2>1. event' = [event EXCEPT ![e] = [@ EXCEPT !.wake = b, !.token = 0, !.lease = "none", !.cursor = c]]
        BY <1>1, <1>8
    <2>2. \A d \in Deliveries : e \in row[d].owed => b /\ row[d].created > c
        BY <1>1, <1>3, <1>8 DEF TickKept
    <2>3. event[e].wake /\ EventKept(e)
        BY <1>3, <1>8 DEF HoldsToken, OutInv
    <2> HIDE DEF b, c
    <2>4. event' \in [Events -> Event] /\ \A f \in Events \ {e} : event'[f] = event[f]
        BY <1>3, <1>4, <2>1, OutTypes DEF Event
    <2>5. /\ event'[e].wake = b /\ event'[e].token = 0 /\ event'[e].cursor = c
          /\ event'[e].claims = event[e].claims /\ event'[e].state = event[e].state
        BY <1>3, <2>1, OutTypes DEF Event
    <2>6. Published' = Published
        BY <2>4, <2>5 DEF Published
    <2>7. ASSUME NEW f \in Events
          PROVE  EventKept(f)'
        BY <1>1, <2>2, <2>3, <2>4, <2>5 DEF OutInv, EventKept
    <2>8. ASSUME NEW y \in Dispatchers
          PROVE  TickKept(y)'
        <3>1. CASE y = x
            BY <1>6, <3>1
        <3>2. CASE y # x /\ ~(Slicing(y) /\ disp[y].event = e)
            BY <1>1, <1>5, <2>4, <2>6, <3>2 DEF OutInv, TickKept, Slicing, HoldsToken
        <3>3. CASE y # x /\ Slicing(y) /\ disp[y].event = e
            <4>1. TickKept(y) /\ disp[y].token \in 1..event[e].claims /\ event[e].claims \in Nat
                BY <1>3, <3>3 DEF OutInv, TickKept, Event
            <4>2. ~HoldsToken(y)'
                BY <1>5, <2>5, <3>3, <4>1 DEF HoldsToken
            <4>q. QED BY <1>3, <1>5, <2>5, <2>6, <3>3, <4>1, <4>2 DEF TickKept, Slicing
        <3>q. QED BY <3>1, <3>2, <3>3
    <2>9. TokensDiffer'
        BY <1>2, <1>5 DEF OutInv, TokensDiffer, Slicing
    <2>q. QED BY <1>1, <1>2, <2>4, <2>6, <2>7, <2>8, <2>9, TickFrame
<1>q. QED BY <1>7, <1>8

\* INSERT OR IGNORE of a delivery of a published event: a new row is the newest.
LEMMA InsertTables ==
    ASSUME OutInv, NEW e \in Published, NEW p \in Plugins, Insert(<<e, p>>),
           UNCHANGED work, Published' = Published
    PROVE  /\ row' \in [Deliveries -> Delivery] /\ inserts' \in Nat
           /\ RowsKept' /\ TablesFinite' /\ InFlightCap'
           /\ \A w \in Workers : WorkerKept(w)'
           /\ OwesNoMore
<1> DEFINE d == <<e, p>>
<1>1. d \in Deliveries /\ d[1] = e /\ RowGood(row[d]) /\ inserts \in Nat /\ row \in [Deliveries -> Delivery]
    BY OutTypes DEF Published, Deliveries
<1>2. CASE row[d].state # "absent"
    <2>1. UNCHANGED <<row, inserts>>
        BY <1>2 DEF Insert
    <2>2. \A c \in Deliveries : RowGood(row'[c]) /\ Evolves(row[c], row'[c])
        BY <2>1, OutTypes, SameRow
    <2>3. InFlightCap'
        BY <2>1, NoneStarts
    <2>q. QED BY <1>1, <2>1, <2>2, <2>3, TablesFrame, OwesNoMoreFrame
<1>3. CASE row[d].state = "absent"
    <2> DEFINE n == inserts + 1
               s == [NoDelivery EXCEPT !.state = "pending", !.created = n]
    <2>1. row[d] = NoDelivery
        BY <1>1, <1>3 DEF RowGood, RowKept
    <2>2. row' = [row EXCEPT ![d] = s] /\ inserts' = n
        BY <1>3, <2>1 DEF Insert
    <2>3. n \in Nat /\ n >= 1 /\ n > inserts
        BY <1>1
    <2> HIDE DEF n
    <2>4. s \in Delivery /\ RowKept(s) /\ s.state = "pending" /\ s.created = n /\ s.owed = {}
        <3>1. s \in Delivery
            BY <2>3 DEF NoDelivery, Delivery
        <3>2. /\ s.state = "pending" /\ s.created = n /\ s.owed = {} /\ s.attempt = 0 /\ s.expired = 0
              /\ s.from = "new"
            BY DEF NoDelivery
        <3>q. QED BY <3>1, <3>2, OutboxLimits DEF RowKept
    <2> HIDE DEF s, d
    <2>5. row' \in [Deliveries -> Delivery] /\ row'[d] = s /\ \A c \in Deliveries \ {d} : row'[c] = row[c]
        BY <1>1, <2>2, <2>4
    <2>6. Inserted' = Inserted \cup {d} /\ d \notin Inserted
        BY <1>1, <1>3, <2>4, <2>5 DEF Inserted
    <2>7. TablesFinite'
        BY <2>6, FS_AddElement DEF OutInv, TablesFinite
    <2>8. \A c \in Inserted : row[c].created \in Nat /\ row[c].created <= inserts /\ row[c].created >= 1
        BY OutTypes DEF OutInv, RowsKept, Inserted
    <2>9. RowsKept'
        <3> SUFFICES ASSUME NEW c \in Deliveries
                     PROVE  /\ RowKept(row'[c])
                            /\ row'[c].state # "absent" => row'[c].created \in 1..inserts' /\ c[1] \in Published'
            BY DEF RowsKept
        <3>1. CASE c = d
            BY <1>1, <2>2, <2>3, <2>4, <2>5, <3>1
        <3>2. CASE c # d
            <4>1. RowKept(row[c]) /\ (row[c].state # "absent" => c[1] \in Published)
                BY DEF OutInv, RowsKept
            <4>2. row[c].state # "absent" => row[c].created \in 1..n
                BY <1>1, <2>3, <2>8 DEF Inserted
            <4>q. QED BY <2>2, <2>5, <3>2, <4>1, <4>2
        <3>q. QED BY <3>1, <3>2
    <2>10. InFlightCap'
        BY <2>4, <2>5, NoneStarts
    <2>11. ASSUME NEW j \in Inserted, NotHeldBack(j)
           PROVE  NotHeldBack(j)'
        <3>1. ~(n < row[j].created) /\ row'[j] = row[j]
            BY <1>1, <2>3, <2>5, <2>6, <2>8 DEF Inserted
        <3>q. QED BY <2>4, <2>5, <2>11, <3>1 DEF NotHeldBack
    <2>12. ASSUME NEW w \in Workers
           PROVE  WorkerKept(w)'
        BY <2>6, <2>11 DEF OutInv, WorkerKept
    <2>13. OwesNoMore
        BY <2>4, <2>5 DEF OwesNoMore
    <2>q. QED BY <2>2, <2>3, <2>5, <2>7, <2>9, <2>10, <2>12, <2>13
<1>q. QED BY <1>2, <1>3

\* One page of a dispatch; the last one marks the event.
LEMMA DispatchPageInv ==
    ASSUME OutInv, NEW x \in Dispatchers, DispatchPage(x)
    PROVE  OutInv'
<1> DEFINE e == disp[x].event
           k0 == [disp[x] EXCEPT !.pc = "dispatch", !.todo = {}, !.event = None]
<1>1. PICK page \in IF disp[x].todo = {} THEN {{}} ELSE {{p} : p \in disp[x].todo} :
        /\ IF page = {} THEN UNCHANGED <<row, inserts>> ELSE \A p \in page : Insert(<<e, p>>)
        /\ IF page = disp[x].todo
           THEN /\ event' = [event EXCEPT ![e].state = "dispatched"]
                /\ disp' = [disp EXCEPT ![x] = IF disp[x].pc = "page" THEN k0 ELSE NewTick]
           ELSE /\ disp' = [disp EXCEPT ![x].todo = disp[x].todo \ page]
                /\ UNCHANGED event
    BY DEF DispatchPage
<1>2. /\ disp[x].pc \in {"page", "latepage"} /\ disp[x] \in TickType /\ disp[x].todo \in SUBSET Plugins
      /\ UNCHANGED <<catalog, work, faults, lost, ops>>
    BY OutTypes DEF DispatchPage, TickType
<1>3. e \in Published /\ e \in Events /\ event[e] \in Event
    BY <1>2, OutTypes DEF OutInv, TickKept, Published
<1>4. /\ event' \in [Events -> Event] /\ Published' = Published
      /\ \A f \in Events : SameWake(f)
    <2>1. CASE event' = event
        BY <2>1, OutTypes DEF SameWake, Published
    <2>2. CASE event' = [event EXCEPT ![e].state = "dispatched"]
        BY <1>3, <2>2, OutTypes DEF SameWake, Published, Event
    <2>q. QED BY <1>1, <2>1, <2>2
<1>5. /\ row' \in [Deliveries -> Delivery] /\ inserts' \in Nat
      /\ RowsKept' /\ TablesFinite' /\ InFlightCap'
      /\ \A w \in Workers : WorkerKept(w)'
      /\ OwesNoMore
    <2>1. CASE page = {}
        <3>1. UNCHANGED <<row, inserts>>
            BY <1>1, <2>1
        <3>2. \A c \in Deliveries : RowGood(row'[c]) /\ Evolves(row[c], row'[c])
            BY <3>1, OutTypes, SameRow
        <3>3. InFlightCap'
            BY <3>1, NoneStarts
        <3>q. QED BY <1>2, <1>4, <3>1, <3>2, <3>3, OutTypes, TablesFrame, OwesNoMoreFrame
    <2>2. CASE page # {}
        <3>1. PICK p \in disp[x].todo : page = {p}
            BY <1>1, <2>2
        <3>2. Insert(<<e, p>>) /\ p \in Plugins
            BY <1>1, <1>2, <2>2, <3>1
        <3>q. QED BY <1>2, <1>3, <1>4, <3>2, InsertTables
    <2>q. QED BY <2>1, <2>2
<1>6. PICK k \in TickType :
          /\ disp' = [disp EXCEPT ![x] = k]
          /\ \/ k.pc \in {"top", "dispatch"}
             \/ k.pc \in {"page", "latepage"} /\ k.event = e
    <2> DEFINE k1 == [disp[x] EXCEPT !.todo = disp[x].todo \ page]
    <2>1. k0 \in TickType /\ k0.pc = "dispatch"
        BY <1>2 DEF TickType
    <2>2. k1 \in TickType /\ k1.pc = disp[x].pc /\ k1.event = e
        <3>1. disp[x].todo \ page \in SUBSET Plugins
            BY <1>2
        <3>q. QED BY <1>2, <3>1 DEF TickType
    <2>3. \/ disp' = [disp EXCEPT ![x] = k0] \/ disp' = [disp EXCEPT ![x] = NewTick]
          \/ disp' = [disp EXCEPT ![x] = k1]
        BY <1>1
    <2> HIDE DEF k0, k1
    <2>q. QED BY <1>2, <2>1, <2>2, <2>3, NewTickFacts
<1>7. /\ disp' \in [Dispatchers -> TickType] /\ disp'[x] = k
      /\ \A y \in Dispatchers \ {x} : disp'[y] = disp[y]
    BY <1>6, OutTypes
<1>8. TypeOK'
    BY <1>2, <1>4, <1>5, <1>7 DEF OutInv, TypeOK, TickType
<1>9. /\ \A f \in Events : EventKept(f)'
      /\ \A y \in Dispatchers : disp'[y] = disp[y] => TickKept(y)'
    BY <1>4, <1>5, WakesFrame
<1>10. TickKept(x)'
    BY <1>3, <1>4, <1>6, <1>7 DEF TickKept, Slicing
<1>11. TokensDiffer'
    BY <1>6, <1>7 DEF OutInv, TokensDiffer, Slicing
<1>q. QED BY <1>5, <1>7, <1>8, <1>9, <1>10, <1>11 DEF OutInv
-----------------------------------------------------------------------------
(* Publishing, joining and a slice's lease *)

LEMMA PublishInv ==
    ASSUME OutInv, NEW e \in Events, Publish(e)
    PROVE  OutInv'
<1> DEFINE n == Cardinality(Published) + 1
<1>1. /\ event[e].state = "absent" /\ e \notin Published
      /\ event' = [event EXCEPT ![e] = [@ EXCEPT !.state = "pending", !.wake = TRUE, !.at = n]]
      /\ row' = [d \in Deliveries |-> IF e \in WakeEvents /\ Parked(d)
                                      THEN [row[d] EXCEPT !.owed = @ \cup {e}] ELSE row[d]]
      /\ UNCHANGED <<catalog, disp, work, inserts, lost, faults, ops>>
    BY DEF Publish, Published
<1>2. n \in Nat /\ IsFiniteSet(Published)
    BY FS_CardinalityType DEF OutInv, TablesFinite
<1> HIDE DEF n
<1>3. event' \in [Events -> Event] /\ \A f \in Events \ {e} : event'[f] = event[f]
    BY <1>1, <1>2, OutTypes, ZenonT(60) DEF Event
<1>4. /\ event'[e].state = "pending" /\ event'[e].wake = TRUE /\ event'[e].claims = event[e].claims
      /\ event'[e].cursor = event[e].cursor /\ event'[e].token = event[e].token
    BY <1>1, OutTypes DEF Event
<1>5. /\ EventKept(e) /\ ~event[e].wake /\ event[e].claims = 0 /\ event[e].cursor = 0
      /\ \A d \in Deliveries : e \notin row[d].owed
    BY <1>1 DEF OutInv, EventKept
<1>6. Published' = Published \cup {e}
    BY <1>1, <1>3, <1>4 DEF Published
<1>7. ASSUME NEW d \in Deliveries
      PROVE  /\ RowGood(row'[d]) /\ Ages(row[d], row'[d]) /\ row'[d].state = row[d].state
             /\ row'[d].created = row[d].created
             /\ row'[d].owed \subseteq row[d].owed \cup {e}
             /\ e \in row'[d].owed => Parked(d) /\ e \in WakeEvents
    <2>1. RowGood(row[d]) /\ row[d].owed \in SUBSET Events
        BY OutTypes DEF RowGood, Delivery
    <2>2. CASE e \in WakeEvents /\ Parked(d)
        <3> DEFINE o == row[d].owed \cup {e}
        <3>1. row'[d] = [row[d] EXCEPT !.owed = o]
            BY <1>1, <2>2
        <3>2. o \in SUBSET Events
            BY <2>1
        <3> HIDE DEF o
        <3>3. /\ row'[d] \in Delivery /\ row'[d].owed = o /\ row'[d].state = row[d].state
              /\ row'[d].created = row[d].created
            BY <2>1, <3>1, <3>2 DEF RowGood, Delivery
        <3>4. RowKept(row'[d]) /\ Ages(row[d], row'[d])
            BY <2>1, <2>2, <3>1 DEF RowGood, RowKept, Delivery, Parked, Finished
        <3>q. QED BY <2>2, <3>3, <3>4 DEF RowGood, o
    <2>3. CASE ~(e \in WakeEvents /\ Parked(d))
        <3>1. row'[d] = row[d]
            BY <1>1, <2>3
        <3>q. QED BY <1>5, <2>1, <3>1
    <2>q. QED BY <2>2, <2>3
<1>8. TypeOK'
    <2>1. row' \in [Deliveries -> Delivery]
        BY <1>1, <1>7 DEF RowGood
    <2>q. QED BY <1>1, <1>3, <2>1 DEF OutInv, TypeOK
<1>9. Inserted' = Inserted
    BY <1>7 DEF Inserted
<1>10. TablesFinite'
    BY <1>2, <1>6, <1>9, FS_AddElement DEF OutInv, TablesFinite
<1>11. RowsKept'
    BY <1>1, <1>6, <1>7 DEF OutInv, RowsKept, RowGood
<1>12. InFlightCap'
    BY <1>7, NoneStarts
<1>13. \A w \in Workers : WorkerKept(w)'
    BY <1>1, <1>7, WorkerStays
<1>14. ASSUME NEW f \in Events
       PROVE  EventKept(f)'
    <2>1. CASE f # e
        BY <1>3, <1>7, <2>1 DEF OutInv, EventKept
    <2>2. CASE f = e
        <3>1. ASSUME NEW d \in Deliveries, e \in row'[d].owed
              PROVE  e \in WakeEvents /\ d[1] # e /\ row'[d].created > 0
            <4>1. Parked(d) /\ e \in WakeEvents /\ row'[d].created = row[d].created
                BY <1>7, <3>1
            <4>2. row[d].created \in 1..inserts /\ d[1] \in Published /\ inserts \in Nat
                BY <4>1, OutTypes DEF OutInv, RowsKept, Parked
            <4>q. QED BY <1>1, <4>1, <4>2
        <3>q. QED BY <1>4, <1>5, <2>2, <3>1 DEF EventKept
    <2>q. QED BY <2>1, <2>2
<1>15. ASSUME NEW x \in Dispatchers
       PROVE  TickKept(x)'
    <2>1. TickKept(x)
        BY DEF OutInv
    <2>2. CASE ~Slicing(x)
        BY <1>1, <1>6, <2>1, <2>2 DEF TickKept, Slicing
    <2>3. CASE Slicing(x)
        <3>1. disp[x].event # e
            BY <1>5, <2>1, <2>3 DEF TickKept
        <3>2. disp[x].event \in Events /\ event'[disp[x].event] = event[disp[x].event]
            BY <1>3, <2>1, <2>3, <3>1 DEF TickKept
        <3>3. HoldsToken(x)' <=> HoldsToken(x)
            BY <1>1, <3>2 DEF HoldsToken
        <3>4. \A d \in Deliveries : disp[x].event \in row'[d].owed => disp[x].event \in row[d].owed
            BY <1>7, <3>1
        <3>q. QED BY <1>1, <1>6, <1>7, <2>1, <3>2, <3>3, <3>4 DEF TickKept, Slicing
    <2>q. QED BY <2>2, <2>3
<1>16. TokensDiffer'
    BY <1>1 DEF OutInv, TokensDiffer, Slicing
<1>q. QED BY <1>8, <1>10, <1>11, <1>12, <1>13, <1>14, <1>15, <1>16 DEF OutInv

LEMMA JoinInv ==
    ASSUME OutInv, NEW p \in Plugins, Join(p)
    PROVE  OutInv'
<1>1. UNCHANGED <<event, row, disp, work, inserts, lost, faults, ops>> /\ catalog' = catalog \cup {p}
    BY DEF Join
<1>2. TypeOK'
    BY <1>1 DEF OutInv, TypeOK
<1>3. \A d \in Deliveries : RowGood(row'[d]) /\ Evolves(row[d], row'[d])
    BY <1>1, OutTypes, SameRow
<1>4. OwesNoMore /\ \A e \in Events : SameWake(e)
    BY <1>1 DEF OwesNoMore, SameWake
<1>5. /\ \A e \in Events : EventKept(e)'
      /\ \A x \in Dispatchers : TickKept(x)'
      /\ Published' = Published
    BY <1>1, <1>4, WakesFrame
<1>6. RowsKept' /\ TablesFinite' /\ \A w \in Workers : WorkerKept(w)'
    BY <1>1, <1>3, <1>5, TablesFrame
<1>7. InFlightCap' /\ TokensDiffer'
    BY <1>1, NoneStarts DEF OutInv, TokensDiffer, Slicing
<1>q. QED BY <1>2, <1>5, <1>6, <1>7 DEF OutInv

LEMMA WakeLeaseExpiresInv ==
    ASSUME OutInv, NEW e \in Events, WakeLeaseExpires(e)
    PROVE  OutInv'
<1>1. /\ UNCHANGED <<row, disp, work, inserts, catalog, lost, faults, ops>>
      /\ event' = [event EXCEPT ![e].lease = "past"]
    BY DEF WakeLeaseExpires
<1>2. event' \in [Events -> Event] /\ \A f \in Events : SameWake(f)
    BY <1>1, OutTypes DEF Event, SameWake
<1>3. TypeOK'
    BY <1>1, <1>2 DEF OutInv, TypeOK
<1>4. \A d \in Deliveries : RowGood(row'[d]) /\ Evolves(row[d], row'[d])
    BY <1>1, OutTypes, SameRow
<1>5. OwesNoMore
    BY <1>1 DEF OwesNoMore
<1>6. /\ \A f \in Events : EventKept(f)'
      /\ \A x \in Dispatchers : TickKept(x)'
      /\ Published' = Published
    BY <1>1, <1>2, <1>5, WakesFrame
<1>7. RowsKept' /\ TablesFinite' /\ \A w \in Workers : WorkerKept(w)'
    BY <1>1, <1>4, <1>6, TablesFrame
<1>8. InFlightCap' /\ TokensDiffer'
    BY <1>1, NoneStarts DEF OutInv, TokensDiffer, Slicing
<1>q. QED BY <1>3, <1>6, <1>7, <1>8 DEF OutInv
-----------------------------------------------------------------------------
(* The invariant *)

LEMMA OutInitInv == Init => OutInv
<1> SUFFICES ASSUME Init PROVE OutInv
    OBVIOUS
<1>1. \A d \in Deliveries : row[d] = NoDelivery
    BY DEF Init
<1>2. NoDelivery \in Delivery /\ RowKept(NoDelivery) /\ NoDelivery.state = "absent" /\ NoDelivery.owed = {}
    BY NoDeliveryGood DEF RowGood, NoDelivery
<1>3. NoEvent \in Event /\ NoEvent.state = "absent" /\ ~NoEvent.wake /\ NoEvent.claims = 0 /\ NoEvent.cursor = 0
    BY DEF NoEvent, Event
<1>4. TypeOK
    BY <1>2, <1>3, IdleFacts, NewTickFacts, OutboxIds DEF Init, TypeOK, WorkType, TickType
<1>5. Inserted = {} /\ Published = {}
    BY <1>2, <1>3 DEF Init, Inserted, Published
<1>6. TablesFinite
    BY <1>5, FS_EmptySet DEF TablesFinite
<1>7. RowsKept
    BY <1>1, <1>2 DEF RowsKept
<1>8. InFlightCap
    <2>1. \A p \in Plugins : Running(p) = {}
        BY <1>1, <1>2 DEF Running
    <2>q. QED BY <2>1, FS_EmptySet, OutboxLimits DEF InFlightCap
<1>9. \A w \in Workers : WorkerKept(w)
    BY IdleFacts DEF Init, WorkerKept
<1>10. \A e \in Events : EventKept(e)
    BY <1>1, <1>2, <1>3 DEF Init, EventKept
<1>11. (\A x \in Dispatchers : TickKept(x)) /\ TokensDiffer
    BY NewTickFacts DEF Init, TickKept, TokensDiffer, Slicing
<1>q. QED BY <1>4, <1>6, <1>7, <1>8, <1>9, <1>10, <1>11 DEF OutInv

LEMMA OutStutterInv ==
    ASSUME OutInv, UNCHANGED vars
    PROVE  OutInv'
<1>1. UNCHANGED <<event, row, catalog, disp, work, inserts, faults, lost, ops>>
    BY DEF vars
<1>2. \A d \in Deliveries : RowGood(row'[d]) /\ Evolves(row[d], row'[d])
    BY <1>1, OutTypes, SameRow
<1>3. InFlightCap'
    BY <1>1, NoneStarts
<1>q. QED BY <1>1, <1>2, <1>3, OutTypes, RowsFrame

LEMMA OutNextInv == OutInv /\ [Next]_vars => OutInv'
<1> SUFFICES ASSUME OutInv, [Next]_vars PROVE OutInv'
    OBVIOUS
<1>1. ASSUME NEW x \in Dispatchers, Tick(x) \/ AbortTick(x)
      PROVE  OutInv'
    BY <1>1, TickEndsInv, DispatchNextInv, DispatchPageInv, ClaimWakeInv, ScanWakePageInv,
       WakeSleepersInv, EndWakeInv, ReconcileInv DEF Tick
<1>2. ASSUME NEW w \in Workers,
             Deliver(w) \/ ClaimReplyLost(w) \/ HeartbeatGivesUp(w) \/ WorkerFails(w)
      PROVE  OutInv'
    BY <1>2, ReclaimInv, LookInv, ClaimInv, RunInv DEF Deliver
<1>3. ASSUME NEW d \in Deliveries, LeaseExpires(d) \/ RunAfterComes(d) \/ Operator(d)
      PROVE  OutInv'
    BY <1>3, ClockInv, OperatorInv
<1>q. QED BY <1>1, <1>2, <1>3, PublishInv, WakeLeaseExpiresInv, JoinInv, OutStutterInv DEF Next

LEMMA OutAlwaysInv == Spec => []OutInv
BY OutInitInv, OutNextInv, PTL DEF Spec

\* Every row, tick and worker has the shape the tables and the loops of
\* event_worker.rs give it, for any number of events, plugins, nodes and faults.
THEOREM OutTypeCorrect == Spec => []TypeOK
<1>1. OutInv => TypeOK
    BY DEF OutInv
<1>q. QED BY <1>1, OutAlwaysInv, PTL

\* A plugin never has more running deliveries than events.concurrency allows:
\* the claim counts and takes the row in one plan.
THEOREM OutCapped == Spec => []InFlightCap
<1>1. OutInv => InFlightCap
    BY DEF OutInv
<1>q. QED BY <1>1, OutAlwaysInv, PTL

\* Only expired leases take a delivery past max_attempts.
THEOREM OutAccounted == Spec => []AttemptsAccounted
<1>1. OutInv => AttemptsAccounted
    BY DEF OutInv, RowsKept, RowKept, AttemptsAccounted
<1>q. QED BY <1>1, OutAlwaysInv, PTL

\* No wake is lost: an event that a parked delivery is owed keeps wake_pending,
\* whatever the size of the pages and however many dispatchers share its slices.
THEOREM OutWakesKept == Spec => []NoLostWake
<1>1. OutInv => NoLostWake
    <2> SUFFICES ASSUME OutInv, NEW d \in Deliveries, NEW e \in row[d].owed
                 PROVE  event[e].wake
        BY DEF NoLostWake
    <2>1. e \in Events
        BY OutTypes DEF Delivery
    <2>q. QED BY <2>1 DEF OutInv, EventKept
<1>q. QED BY <1>1, OutAlwaysInv, PTL
-----------------------------------------------------------------------------
(* Which step changes the state of a row *)

\* A claim of w's candidate.
ClaimedBy(w, d) ==
    work[w].pc = "cas" /\ work[w].job = d /\ row[d].state = "pending" /\ row'[d] = Claimed(row[d], w)

\* The word of the worker that runs the current generation.
SettledBy(w, d) ==
    /\ work[w].pc \in {"start", "run"} /\ work[w].stop # "fence"
    /\ work[w].job = d /\ work[w].gen = row[d].gen /\ row[d].state = "running"

LEMMA WhoMoves ==
    ASSUME OutInv, Next, NEW d \in Deliveries, row'[d].state # row[d].state
    PROVE  \/ row[d].state # "running" /\ row'[d].state # "running"
           \/ \E w \in Workers : ClaimedBy(w, d)
           \/ \E w \in Workers : SettledBy(w, d)
           \/ Expired(d)
<1> DEFINE Goal == \/ row[d].state # "running" /\ row'[d].state # "running"
                   \/ \E w \in Workers : ClaimedBy(w, d)
                   \/ \E w \in Workers : SettledBy(w, d)
                   \/ Expired(d)
<1>1. row \in [Deliveries -> Delivery] /\ row' # row
    BY OutTypes
<1>2. ASSUME NEW e \in Events, Publish(e) \/ WakeLeaseExpires(e)
      PROVE  FALSE
    BY <1>1, <1>2 DEF Publish, WakeLeaseExpires, Delivery
<1>3. ASSUME NEW p \in Plugins, Join(p)
      PROVE  FALSE
    BY <1>1, <1>3 DEF Join
<1>4. ASSUME NEW x \in Dispatchers, Tick(x) \/ AbortTick(x)
      PROVE  Goal
    <2>1. CASE DispatchPage(x)
        <3>1. row' = row \/ \E p \in disp[x].todo : Insert(<<disp[x].event, p>>)
            BY <2>1 DEF DispatchPage
        <3>2. PICK p \in disp[x].todo : Insert(<<disp[x].event, p>>)
            BY <1>1, <3>1
        <3>q. QED BY <1>1, <3>2 DEF Insert, Delivery
    <2>2. CASE WakeSleepers(x)
        <3> DEFINE s == [row[d] EXCEPT !.ready = "now", !.resume = TRUE, !.wake = FALSE, !.owed = {}]
        <3>1. row'[d] = s \/ row'[d] = row[d]
            BY <2>2 DEF WakeSleepers
        <3>2. s.state = row[d].state
            BY <1>1 DEF Delivery
        <3>q. QED BY <3>1, <3>2
    <2>3. CASE ~DispatchPage(x) /\ ~WakeSleepers(x)
        BY <1>1, <1>4, <2>3 DEF Tick, StartTick, DispatchNext, ClaimWake, ScanWakePage, EndWake,
                                Reconcile, EndTick, AbortTick
    <2>q. QED BY <2>1, <2>2, <2>3
<1>5. ASSUME NEW w \in Workers,
             Deliver(w) \/ ClaimReplyLost(w) \/ HeartbeatGivesUp(w) \/ WorkerFails(w)
      PROVE  Goal
    <2>1. CASE ReclaimExpired(w)
        <3>1. ~Expired(d) => row'[d] = row[d]
            BY <2>1 DEF ReclaimExpired
        <3>q. QED BY <3>1
    <2>2. CASE Claim(w) \/ ClaimReplyLost(w)
        <3>1. /\ work[w].pc = "cas" /\ row[work[w].job].state = "pending"
              /\ row' = [row EXCEPT ![work[w].job] = Claimed(row[work[w].job], w)]
            BY <2>2 DEF Claim, ClaimReplyLost, Claimable
        <3>2. work[w].job = d /\ row'[d] = Claimed(row[d], w)
            BY <1>1, <3>1
        <3>q. QED BY <3>1, <3>2 DEF ClaimedBy
    <2>3. CASE Release(w)
        <3>1. work[w].pc = "start" /\ Holds(w) /\ row' = [row EXCEPT ![work[w].job] = Released(row[work[w].job])]
            BY <1>1, <2>3 DEF Release
        <3>2. work[w].job = d /\ work[w].stop = "no"
            BY <1>1, <3>1 DEF OutInv, WorkerKept
        <3>q. QED BY <3>1, <3>2 DEF SettledBy, Holds
    <2>4. ASSUME NEW r \in Outcomes, Return(w, r)
          PROVE  Goal
        <3>1. /\ work[w].pc = "run" /\ work[w].stop # "fence" /\ Holds(w)
              /\ \E s : row' = [row EXCEPT ![work[w].job] = s]
            BY <1>1, <2>4 DEF Return
        <3>2. work[w].job = d
            BY <1>1, <3>1
        <3>q. QED BY <3>1, <3>2 DEF SettledBy, Holds
    <2>5. CASE Heartbeat(w)
        BY <1>1, <2>5 DEF Heartbeat, Delivery
    <2>6. CASE \/ ListCandidates(w) \/ FindCandidate(w) \/ NoCandidate(w) \/ MissClaim(w)
               \/ StartHandler(w) \/ SeeCancel(w) \/ HeartbeatGivesUp(w) \/ WorkerFails(w)
        BY <1>1, <2>6 DEF ListCandidates, FindCandidate, NoCandidate, MissClaim, StartHandler, SeeCancel,
                          HeartbeatGivesUp, WorkerFails
    <2>q. QED BY <1>5, <2>1, <2>2, <2>3, <2>4, <2>5, <2>6 DEF Deliver
<1>6. ASSUME NEW c \in Deliveries, LeaseExpires(c) \/ RunAfterComes(c) \/ Operator(c)
      PROVE  Goal
    <2>1. PICK s : row' = [row EXCEPT ![c] = s]
        BY <1>6 DEF LeaseExpires, RunAfterComes, Operator, CancelDelivery, RetryDeadLetter,
                    AcknowledgeDeadLetter, ResumeDelivery
    <2>2. c = d /\ row[d] \in Delivery
        BY <1>1, <2>1
    <2>3. CASE LeaseExpires(c)
        BY <1>1, <2>2, <2>3 DEF LeaseExpires, Delivery
    <2>4. CASE RunAfterComes(c)
        BY <1>1, <2>2, <2>4 DEF RunAfterComes, Delivery
    <2>5. CASE CancelDelivery(c)
        BY <1>1, <2>2, <2>5 DEF CancelDelivery, Delivery
    <2>6. CASE RetryDeadLetter(c)
        BY <1>1, <2>2, <2>6 DEF RetryDeadLetter, Delivery
    <2>7. CASE AcknowledgeDeadLetter(c)
        BY <1>1, <2>2, <2>7 DEF AcknowledgeDeadLetter, Delivery
    <2>8. CASE ResumeDelivery(c)
        BY <1>1, <2>2, <2>8 DEF ResumeDelivery, Delivery
    <2>q. QED BY <1>6, <2>3, <2>4, <2>5, <2>6, <2>7, <2>8 DEF Operator
<1>q. QED BY <1>2, <1>3, <1>4, <1>5, <1>6 DEF Next

\* A claim keeps the order of its key: fifo_blocked was looked at before the plan
\* that claims, and what it found still holds.
THEOREM OutFifo == Spec => FifoPerKey
<1> DEFINE Held == \A c, d \in Deliveries :
        (/\ row[d].state = "pending" /\ row'[d].state = "running"
         /\ c[2] = d[2] /\ KeyOf[c[1]] = KeyOf[d[1]] /\ row[c].created < row[d].created)
        => row[c].state \in Finished \cup {"absent"} \/ row[c].revived
<1>1. OutInv /\ [Next]_vars => [Held]_vars
    <2> SUFFICES ASSUME OutInv, Next, NEW c \in Deliveries, NEW d \in Deliveries,
                        row[d].state = "pending", row'[d].state = "running",
                        c[2] = d[2], KeyOf[c[1]] = KeyOf[d[1]], row[c].created < row[d].created
                 PROVE  row[c].state \in Finished \cup {"absent"} \/ row[c].revived
        OBVIOUS
    <2>1. PICK w \in Workers : ClaimedBy(w, d) \/ SettledBy(w, d)
        BY WhoMoves DEF Expired
    <2>q. QED BY <2>1 DEF OutInv, WorkerKept, NotHeldBack, ClaimedBy, SettledBy
<1>q. QED BY <1>1, OutAlwaysInv, PTL DEF Spec, FifoPerKey

\* A delivery whose lease is live stops running only on the word of the worker
\* that runs its current generation.
THEOREM OutSettled == Spec => SettledByCurrentRun
<1> DEFINE Told == \A d \in Deliveries :
        (row[d].state = "running" /\ row[d].lease = "live" /\ row'[d].state # "running") =>
            \E w \in Workers : /\ work[w].pc \in {"start", "run"} /\ work[w].stop # "fence"
                               /\ work[w].job = d /\ work[w].gen = row[d].gen
<1>1. OutInv /\ [Next]_vars => [Told]_vars
    <2> SUFFICES ASSUME OutInv, Next, NEW d \in Deliveries,
                        row[d].state = "running", row[d].lease = "live", row'[d].state # "running"
                 PROVE  \E w \in Workers : SettledBy(w, d)
        BY DEF SettledBy
    <2>q. QED BY WhoMoves DEF Expired, ClaimedBy
<1>q. QED BY <1>1, OutAlwaysInv, PTL DEF Spec, SettledByCurrentRun

\* A claim after a suspension, or of a checkpointed delivery whose worker died or
\* gave it back, costs no attempt.
THEOREM OutResumes == Spec => ResumeCostsNothing
<1> DEFINE Free == \A d \in Deliveries :
        (/\ row[d].state = "pending" /\ row'[d].state = "running"
         /\ \/ row[d].from = "suspend"
            \/ row[d].from \in {"expiry", "release"} /\ row[d].checkpoint)
        => row'[d].attempt = row[d].attempt
<1>1. OutInv /\ [Next]_vars => [Free]_vars
    <2> SUFFICES ASSUME OutInv, Next, NEW d \in Deliveries,
                        row[d].state = "pending", row'[d].state = "running",
                        row[d].from = "suspend" \/ (row[d].from \in {"expiry", "release"} /\ row[d].checkpoint)
                 PROVE  row'[d].attempt = row[d].attempt
        OBVIOUS
    <2>1. PICK w \in Workers : ClaimedBy(w, d)
        BY WhoMoves DEF Expired, SettledBy
    <2>2. RowGood(row[d])
        BY OutTypes
    <2>q. QED BY <2>1, <2>2, ClaimedGood DEF ClaimedBy
<1>q. QED BY <1>1, OutAlwaysInv, PTL DEF Spec, ResumeCostsNothing
=============================================================================
