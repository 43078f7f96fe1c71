---------------------------- MODULE IdentityDrift ----------------------------
(***************************************************************************)
(* The AI identity assessments of media results: the queue kept in         *)
(* metadata_json["identity_drift"] (src/app/api/identity_assessments.py)   *)
(* and the workers that list, claim, evaluate and record it                *)
(* (services/identity_worker.py, identity_worker_runner.py).               *)
(*                                                                         *)
(* claim and requeue-stale take the write lock first and are one step.     *)
(* _store_identity_drift reads the row, checks the claim, and only its     *)
(* UPDATE opens a transaction: it is a read step and a write step.         *)
(***************************************************************************)
EXTENDS Naturals, FiniteSets

CONSTANTS
    Media,        \* media results
    Workers,      \* assessment workers, in the process or HTTP clients
    NoWorker,     \* no worker_id
    Projects,
    ProjectOf,    \* the project of the shot a media result belongs to
    Scope,        \* worker -> the project_id it gives list_pending_identity_drift
    MaxRequeues,  \* bound: expired claims the operator puts back
    MaxCrashes    \* bound: workers that die holding a claim

ASSUME WorkersAssumption == NoWorker \notin Workers
ASSUME ProjectsAssumption == ProjectOf \in [Media -> Projects]
ASSUME BoundsAssumption == MaxRequeues \in Nat /\ MaxCrashes \in Nat

VARIABLES
    drift,     \* media -> its identity_drift assessment
    expired,   \* media whose claimed_at is older than max_age_minutes
    workers,   \* worker -> where it is in process_identity_assessment
    requeues,  \* claims put back so far
    lost       \* history: <<media, attempt>> of the claims whose worker died

vars == <<drift, expired, workers, requeues, lost>>

Verdicts == {"passed", "blocked", "error"}
Attempts == 0..(MaxRequeues + 1)

Assessment ==
    [status : {"none", "pending", "running"} \cup Verdicts,
     worker : Workers \cup {NoWorker},
     attempt : Attempts]

Idle == [at |-> "idle"]
Worker ==
    {Idle}
    \cup [at : {"listed"}, media : Media]
    \cup [at : {"evaluating"}, media : Media, attempt : Attempts]
    \cup [at : {"storing"}, media : Media, attempt : Attempts, verdict : Verdicts]

TypeOK ==
    /\ drift \in [Media -> Assessment]
    /\ expired \subseteq Media
    /\ workers \in [Workers -> Worker]
    /\ requeues \in 0..MaxRequeues
    /\ lost \subseteq Media \X Attempts

Init ==
    /\ drift = [m \in Media |->
                    [status |-> "none", worker |-> NoWorker, attempt |-> 0]]
    /\ expired = {}
    /\ workers = [w \in Workers |-> Idle]
    /\ requeues = 0
    /\ lost = {}

Decided(m) == drift[m].status \in Verdicts
Working(w) == workers[w].at \in {"evaluating", "storing"}
Holds(w, m) == Working(w) /\ workers[w].media = m

-----------------------------------------------------------------------------
(* create_media_result: a result of a shot with a locked character is      *)
(* stored with a pending assessment.                                       *)

Queue(m) ==
    /\ drift[m].status = "none"
    /\ drift' = [drift EXCEPT ![m].status = "pending"]
    /\ UNCHANGED <<expired, workers, requeues, lost>>

-----------------------------------------------------------------------------
(* A worker: list, claim, evaluate, store. *)

ListPending(project) ==
    {m \in Media : ProjectOf[m] = project /\ drift[m].status = "pending"}

List(w) ==
    /\ workers[w] = Idle
    /\ \E m \in ListPending(Scope[w]) :
          workers' = [workers EXCEPT ![w] = [at |-> "listed", media |-> m]]
    /\ UNCHANGED <<drift, expired, requeues, lost>>

\* Mutant: the claim trusts the listing and does not look at the row again.
Claim_Unchecked(w) ==
    /\ workers[w].at = "listed"
    /\ LET m == workers[w].media
           attempt == IF drift[m].status = "pending" THEN drift[m].attempt + 1
                                                     ELSE drift[m].attempt IN
       /\ drift' = [drift EXCEPT ![m] =
                       [status |-> "running", worker |-> w, attempt |-> attempt]]
       /\ expired' = expired \ {m}
       /\ workers' = [workers EXCEPT ![w] =
                         [at |-> "evaluating", media |-> m, attempt |-> attempt]]
    /\ UNCHANGED <<requeues, lost>>

\* Only a pending assessment is claimed; otherwise 409 and the worker goes on
\* to its next listing.
Claim(w) ==
    /\ workers[w].at = "listed"
    /\ LET m == workers[w].media
           attempt == drift[m].attempt + 1 IN
       \/ /\ drift[m].status = "pending"
          /\ drift' = [drift EXCEPT ![m] =
                          [status |-> "running", worker |-> w, attempt |-> attempt]]
          /\ expired' = expired \ {m}
          /\ workers' = [workers EXCEPT ![w] =
                            [at |-> "evaluating", media |-> m, attempt |-> attempt]]
       \/ /\ drift[m].status # "pending"
          /\ workers' = [workers EXCEPT ![w] = Idle]
          /\ UNCHANGED <<drift, expired>>
    /\ UNCHANGED <<requeues, lost>>

\* validate_identity_drift_worker_ownership, on the row as it was read.
Owns(w, m) == drift[m].status = "running" /\ drift[m].worker = w

\* Mutant: a failed evaluation is dropped instead of recorded as an error.
ReadForStore_DropsErrors(w, verdict) ==
    /\ workers[w].at = "evaluating"
    /\ LET m == workers[w].media IN
       workers' = [workers EXCEPT ![w] =
           IF Owns(w, m) /\ verdict # "error"
           THEN [at |-> "storing", media |-> m,
                 attempt |-> drift[m].attempt, verdict |-> verdict]
           ELSE Idle]
    /\ UNCHANGED <<drift, expired, requeues, lost>>

\* The evaluation ends in a verdict, "error" when it raised, and the store
\* reads the row: the worker's own claim, or 409.
ReadForStore(w, verdict) ==
    /\ workers[w].at = "evaluating"
    /\ LET m == workers[w].media IN
       workers' = [workers EXCEPT ![w] =
           IF Owns(w, m)
           THEN [at |-> "storing", media |-> m,
                 attempt |-> drift[m].attempt, verdict |-> verdict]
           ELSE Idle]
    /\ UNCHANGED <<drift, expired, requeues, lost>>

\* The UPDATE overwrites whatever assessment the row holds by now.
WriteStore(w) ==
    /\ workers[w].at = "storing"
    /\ drift' = [drift EXCEPT ![workers[w].media] =
                    [status |-> workers[w].verdict, worker |-> w,
                     attempt |-> workers[w].attempt]]
    /\ workers' = [workers EXCEPT ![w] = Idle]
    /\ UNCHANGED <<expired, requeues, lost>>

\* A worker dies on its claim and is started again with nothing in memory.
\* (To die after a listing is to list again.)
Crash(w) ==
    /\ Working(w)
    /\ Cardinality(lost) < MaxCrashes
    /\ lost' = lost \cup {<<workers[w].media, workers[w].attempt>>}
    /\ workers' = [workers EXCEPT ![w] = Idle]
    /\ UNCHANGED <<drift, expired, requeues>>

-----------------------------------------------------------------------------
(* Expired claims.  A recorded verdict keeps its claimed_at, so it ages too. *)

Expire(m) ==
    /\ drift[m].worker # NoWorker
    /\ m \notin expired
    /\ expired' = expired \cup {m}
    /\ UNCHANGED <<drift, workers, requeues, lost>>

\* Mutant: the sweep looks at the age of the claim and not at the status.
Requeueable_AnyStatus(m, project) ==
    ProjectOf[m] = project /\ m \in expired

Requeueable(m, project) ==
    ProjectOf[m] = project /\ m \in expired /\ drift[m].status = "running"

\* Mutant: the claim is released and the status is left alone.
Requeued_StaysRunning(a) == [a EXCEPT !.worker = NoWorker]

Requeued(a) == [a EXCEPT !.status = "pending", !.worker = NoWorker]

\* requeue-stale: every expired claim of one project, in one transaction.
RequeueStale(project) ==
    /\ requeues < MaxRequeues
    /\ \E m \in Media : Requeueable(m, project)
    /\ drift' = [m \in Media |-> IF Requeueable(m, project) THEN Requeued(drift[m])
                                                            ELSE drift[m]]
    /\ expired' = {m \in expired : ~Requeueable(m, project)}
    /\ requeues' = requeues + 1
    /\ UNCHANGED <<workers, lost>>

-----------------------------------------------------------------------------
Process(w) ==
    \/ List(w)
    \/ Claim(w)
    \/ \E verdict \in Verdicts : ReadForStore(w, verdict)
    \/ WriteStore(w)

Next ==
    \/ \E m \in Media : Queue(m) \/ Expire(m)
    \/ \E w \in Workers : Process(w) \/ Crash(w)
    \/ \E p \in Projects : RequeueStale(p)

Spec == Init /\ [][Next]_vars

\* A worker asks again as soon as it is idle.  Nothing runs requeue-stale but
\* an operator, so the sweep is not fair.
FairSpec == Spec /\ \A w \in Workers : WF_vars(Process(w))
-----------------------------------------------------------------------------
(* Properties. *)

\* A claim has one evaluator: two workers may be busy with one media result
\* only when the claim of one of them was taken away, which a later attempt
\* number shows.
OneEvaluatorPerClaim ==
    \A v, w \in Workers : \A m \in Media :
        v # w /\ Holds(v, m) /\ Holds(w, m) => workers[v].attempt # workers[w].attempt

\* No claim is orphaned but by the death of its worker: a running assessment
\* has a worker that is still going to write its verdict, for this attempt.
RunningIsHeld ==
    \A m \in Media : drift[m].status = "running" =>
        \/ <<m, drift[m].attempt>> \in lost
        \/ \E w \in Workers :
              /\ drift[m].worker = w
              /\ Holds(w, m)
              /\ workers[w].attempt = drift[m].attempt

\* A decided assessment is never queued or claimed again, whatever late sweeps
\* and stores do: nobody pays for a second evaluation of a judged result.
DecidedStaysDecided == [][\A m \in Media : Decided(m) => Decided(m)']_vars

\* Every pending assessment gets a verdict, unless a worker dies on it: then
\* it is the operator's requeue-stale that has to bring it back.
Abandoned(m) == \E attempt \in Attempts : <<m, attempt>> \in lost
EventuallyDecided ==
    \A m \in Media : drift[m].status = "pending" ~> Decided(m) \/ Abandoned(m)
=============================================================================
