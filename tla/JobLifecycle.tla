---------------------------- MODULE JobLifecycle ----------------------------
(***************************************************************************)
(* What the durable queue promises about each job, whatever workers,       *)
(* leases, retries and lost replies do underneath (the state machine of    *)
(* docs/jobs.md and JobState in models.rs):                                *)
(*                                                                         *)
(*   absent -> waiting -> active -> done | failed | cancelled -> forgotten *)
(*                                                                         *)
(* An active job goes back to waiting only while it has tries left, or to  *)
(* parked when its handler suspended.  A waiting job that was asked to     *)
(* stop is never started again.  At most Cap jobs, and at most one per     *)
(* key, are live at a time.                                                *)
(***************************************************************************)
EXTENDS Integers, FiniteSets

CONSTANTS Jobs, Conflict(_, _), Refusable, Tries, Cap

VARIABLE job

Live == {"waiting", "parked", "active"}
Settled == {"done", "failed", "cancelled"}

JobState == [phase : {"absent", "forgotten"} \cup Live \cup Settled,
             tries : Nat, asked : BOOLEAN]

New(phase) == [phase |-> phase, tries |-> 0, asked |-> FALSE]

LInit == job = [j \in Jobs |-> New("absent")]

\* A new job enters the queue.
Admit(j) ==
    LET live == {i \in Jobs : job[i].phase \in Live}
    IN  /\ job[j].phase = "absent"
        /\ \A i \in live : ~Conflict(i, j)
        /\ Cardinality(live) < Cap
        /\ job' = [job EXCEPT ![j] = New("waiting")]

\* A worker takes the job: a new try, or the continuation of a parked one.
Starts(a, b) ==
    /\ ~a.asked /\ ~b.asked /\ b.phase = "active"
    /\ \/ a.phase = "waiting" /\ a.tries < Tries /\ b.tries = a.tries + 1
       \/ a.phase = "parked" /\ b.tries = a.tries

\* The job leaves its worker.
Ends(a, b) ==
    /\ a.phase = "active" /\ b.tries = a.tries
    /\ \/ b.phase \in {"done", "parked"} /\ b.asked = a.asked
       \/ b.phase = "waiting" /\ a.tries < Tries /\ b.asked = a.asked
       \/ b.phase = "failed" /\ a.tries >= Tries /\ b.asked = a.asked
       \/ b.phase = "cancelled" /\ a.asked /\ b.asked

\* The operator asks an active job to stop.
Asks(a, b) == a.phase = "active" /\ b.phase = "active" /\ b.tries = a.tries /\ b.asked

\* A job nobody runs is cancelled.
Withdraws(a, b) ==
    /\ a.phase \in {"waiting", "parked"}
    /\ b.phase = "cancelled" /\ b.tries = a.tries /\ b.asked

\* A job of a kind the backend does not know is failed without a try.
Refuses(j, a, b) ==
    /\ j \in Refusable /\ a.phase \in {"waiting", "parked"}
    /\ b.phase = "failed" /\ b.tries = a.tries /\ b.asked = a.asked

\* Retention removes a settled job.
Forgets(a, b) == a.phase \in Settled /\ b = New("forgotten")

Moves(j, a, b) == \/ Starts(a, b) \/ Ends(a, b) \/ Asks(a, b)
                  \/ Withdraws(a, b) \/ Refuses(j, a, b) \/ Forgets(a, b)

\* One database transaction can move several jobs, each of them legally.
Progress ==
    /\ job' \in [Jobs -> JobState]
    /\ \A j \in Jobs : job'[j] = job[j] \/ Moves(j, job[j], job'[j])

LNext == (\E j \in Jobs : Admit(j)) \/ Progress

LSpec == LInit /\ [][LNext]_job
=============================================================================
