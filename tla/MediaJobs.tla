------------------------------ MODULE MediaJobs ------------------------------
(***************************************************************************)
(* The rows of the table media_jobs and the row updates of                 *)
(* src/app/repositories/jobs.py, one operator per SQL UPDATE or INSERT.    *)
(* The modules JobQueue and MediaWorker say when each update runs.         *)
(*                                                                         *)
(* A row keeps the columns the queue decides on: status, attempts,         *)
(* max_attempts, worker_id, provider_task_id and whether finished_at is    *)
(* set.  Payload, result, error text, costs and timestamps are left out.   *)
(* "absent" stands for an id that has no row: not inserted yet, or deleted *)
(* together with its shot.                                                 *)
(***************************************************************************)
EXTENDS Naturals

CONSTANTS
    Workers,    \* worker identities that appear in worker_id
    NoWorker,   \* the empty worker_id
    Tasks,      \* task ids a video provider can answer a submission with
    NoTask      \* the empty provider_task_id

ASSUME NoWorkerAssumption == NoWorker \notin Workers
ASSUME NoTaskAssumption == NoTask \notin Tasks

Waiting == {"queued", "retrying"}
Finished == {"completed", "failed"}
Status == Waiting \cup Finished \cup {"running", "absent"}

Row == [status   : Status,
        attempts : Nat,
        max      : Nat,
        worker   : Workers \cup {NoWorker},
        task     : Tasks \cup {NoTask},
        finished : BOOLEAN]

Absent == [status |-> "absent", attempts |-> 0, max |-> 0,
           worker |-> NoWorker, task |-> NoTask, finished |-> FALSE]

\* INSERT INTO media_jobs: every column not named takes its default.
NewRow(max) == [Absent EXCEPT !.status = "queued", !.max = max]

HasBudget(r) == r.attempts < r.max

\* Mutant: the SELECT forgets attempts < max_attempts.
Claimable_AnyBudget(r) == r.status \in Waiting

\* The rows the SELECT of claim_next_job ranges over.
Claimable(r) == r.status \in Waiting /\ HasBudget(r)

\* Mutant: the claim does not count as an attempt.
Claimed_FreeRun(r, w) == [r EXCEPT !.status = "running", !.worker = w]

\* claim_next_job's UPDATE.  finished_at is not among its columns.
Claimed(r, w) == [r EXCEPT !.status = "running", !.attempts = @ + 1, !.worker = w]

\* Mutant: the budget is not looked at.
FailureStatus_IgnoresBudget(r, retryable) == IF retryable THEN "retrying" ELSE "failed"

\* The status fail_job and reclaim_stale_jobs compute from the row they read.
FailureStatus(r, retryable) ==
    IF retryable /\ HasBudget(r) THEN "retrying" ELSE "failed"

\* Mutant: finished_at is not touched.
Released_KeepsFinishedAt(r, status) == [r EXCEPT !.status = status, !.worker = NoWorker]

\* Mutant: a released job starts its attempts anew.
Released_ResetsAttempts(r, status) ==
    [r EXCEPT !.status = status, !.worker = NoWorker, !.finished = (status = "failed"), !.attempts = 0]

\* The UPDATE of fail_job, reclaim_stale_jobs and retry_failed_job: they set
\* the same columns, from a status computed beforehand.
Released(r, status) ==
    [r EXCEPT !.status = status, !.worker = NoWorker, !.finished = (status = "failed")]

\* _finish's UPDATE.  worker_id stays.
Completed(r) == [r EXCEPT !.status = "completed", !.finished = TRUE]

\* record_provider_task_id's UPDATE: the status is left alone.
TaskRecorded(r, t) == [r EXCEPT !.task = t]

\* An update WHERE id=? of a row that was deleted in the meantime changes
\* nothing.
IfPresent(r, updated) == IF r.status = "absent" THEN r ELSE updated

-----------------------------------------------------------------------------
(* What holds of every single row whatever the order of the updates. *)

\* The attempt counter never passes the row's max_attempts.
WithinBudget(r) == r.attempts <= r.max

\* finished_at is set on exactly the rows whose status is final.
FinishedAtMatches(r) == r.finished <=> r.status \in Finished

\* A running row names its worker; a row that waits or failed names none.
OwnerMatches(r) ==
    /\ r.status = "running" => r.worker \in Workers
    /\ r.status \in Waiting \cup {"failed", "absent"} => r.worker = NoWorker
=============================================================================
