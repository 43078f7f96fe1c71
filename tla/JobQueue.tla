------------------------------ MODULE JobQueue ------------------------------
(***************************************************************************)
(* The media job queue as any number of HTTP clients and worker threads    *)
(* drive it: src/app/repositories/jobs.py behind src/app/api/jobs.py.      *)
(*                                                                         *)
(* No endpoint authenticates the caller of complete or fail, and none      *)
(* compares it with the row's worker_id, so every operation is enabled for *)
(* every row.  claim_next_job and reclaim_stale_jobs take the write lock   *)
(* first (BEGIN IMMEDIATE) and are one step.  enqueue_job, fail_job,       *)
(* retry_failed_job and the completion callback read, decide, and write in *)
(* a transaction that opens only with the write: each is a read step and a *)
(* write step, and handlers[h] keeps what handler h decided in between.    *)
(* The jobs here are video jobs: completing one stores its result first    *)
(* (src/app/services/video_result_ingestion.py).                           *)
(***************************************************************************)
EXTENDS MediaJobs

CONSTANTS
    Handlers,     \* requests that can be between their read and their write
    Keys,         \* idempotency keys
    Projects,
    MaxJobs,      \* bound: row ids the model hands out
    Budgets       \* the max_attempts clients ask for

ASSUME KeysAssumption == Keys # {} /\ Projects # {}
ASSUME MaxJobsAssumption == MaxJobs \in Nat
ASSUME BudgetsAssumption == Budgets \subseteq Nat \ {0}

VARIABLES
    jobs,      \* id -> row of media_jobs
    identity,  \* id -> the idempotency_key and project_id the row was inserted with
    nextId,    \* AUTOINCREMENT: ids are never used twice
    results,   \* id -> number of media results with this generation_job_id
    handlers,  \* handler -> what it has read and not yet written
    raced      \* ids that two callbacks were about to store a result of (history)

vars == <<jobs, identity, nextId, results, handlers, raced>>

JobIds == 1..MaxJobs

Idle == [op |-> "idle"]
Pending ==
    {Idle}
    \cup [op : {"insert"}, key : Keys, project : Projects, max : Budgets]
    \cup [op : {"fail"}, job : JobIds, status : {"retrying", "failed"}]
    \cup [op : {"retry", "store", "complete"}, job : JobIds]

Identity == [key : Keys, project : Projects]

TypeOK ==
    /\ jobs \in [JobIds -> Row]
    /\ identity \in [JobIds -> Identity]
    /\ nextId \in 1..(MaxJobs + 1)
    /\ results \in [JobIds -> Nat]
    /\ handlers \in [Handlers -> Pending]
    /\ raced \subseteq JobIds

Present(j) == jobs[j].status # "absent"
KeyTaken(k) == \E j \in JobIds : Present(j) /\ identity[j].key = k

Init ==
    /\ jobs = [j \in JobIds |-> Absent]
    /\ identity = [j \in JobIds |-> CHOOSE i \in Identity : TRUE]
    /\ nextId = 1
    /\ results = [j \in JobIds |-> 0]
    /\ handlers = [h \in Handlers |-> Idle]
    /\ raced = {}

-----------------------------------------------------------------------------
(* Enqueue: SELECT by key, then INSERT. *)

\* No row has the key: the handler goes on to the INSERT.  With a row, the
\* call returns it (or refuses another project's key) and changes nothing.
ReadForEnqueue(h, k, p, max) ==
    /\ handlers[h] = Idle
    /\ ~KeyTaken(k)
    /\ handlers' = [handlers EXCEPT ![h] =
                        [op |-> "insert", key |-> k, project |-> p, max |-> max]]
    /\ UNCHANGED <<jobs, identity, nextId, results>>

\* Mutant: no UNIQUE constraint on idempotency_key.
Insert_NotUnique(h) ==
    /\ handlers[h].op = "insert"
    /\ nextId \in JobIds
    /\ handlers' = [handlers EXCEPT ![h] = Idle]
    /\ jobs' = [jobs EXCEPT ![nextId] = NewRow(handlers[h].max)]
    /\ identity' = [identity EXCEPT ![nextId] =
                        [key |-> handlers[h].key, project |-> handlers[h].project]]
    /\ nextId' = nextId + 1
    /\ UNCHANGED results

\* The INSERT; the key may have been taken since, and then the UNIQUE
\* constraint refuses the row.
Insert(h) ==
    /\ handlers[h].op = "insert"
    /\ handlers' = [handlers EXCEPT ![h] = Idle]
    /\ \/ /\ ~KeyTaken(handlers[h].key)
          /\ nextId \in JobIds
          /\ jobs' = [jobs EXCEPT ![nextId] = NewRow(handlers[h].max)]
          /\ identity' = [identity EXCEPT ![nextId] =
                              [key |-> handlers[h].key, project |-> handlers[h].project]]
          /\ nextId' = nextId + 1
       \/ /\ KeyTaken(handlers[h].key)
          /\ UNCHANGED <<jobs, identity, nextId>>
    /\ UNCHANGED results

-----------------------------------------------------------------------------
(* Claim: the first claimable row by id (no code sets a priority). *)

Claim(w) ==
    \E j \in JobIds :
        /\ Claimable(jobs[j])
        /\ \A i \in 1..(j - 1) : ~Claimable(jobs[i])
        /\ jobs' = [jobs EXCEPT ![j] = Claimed(@, w)]
        /\ UNCHANGED <<identity, nextId, results, handlers>>

-----------------------------------------------------------------------------
(* Results: complete_job and record_provider_task_id check only that the   *)
(* row exists; fail_job decides from the row it read.                      *)

\* Mutant: the results of the shot are not looked through.
ReadForComplete_Blind(h, j) ==
    /\ handlers[h] = Idle
    /\ Present(j)
    /\ handlers' = [handlers EXCEPT ![h] = [op |-> "store", job |-> j]]
    /\ UNCHANGED <<jobs, identity, nextId, results>>

\* POST /jobs/{id}/complete: ingest_completed_video_job looks for a result of
\* this job and stores one if there is none.
ReadForComplete(h, j) ==
    /\ handlers[h] = Idle
    /\ Present(j)
    /\ handlers' = [handlers EXCEPT ![h] =
                        [op |-> IF results[j] = 0 THEN "store" ELSE "complete", job |-> j]]
    /\ UNCHANGED <<jobs, identity, nextId, results>>

\* create_media_result reads the next version and inserts; when another result
\* of the shot took the version, UNIQUE refuses it and the callback fails.
StoreResult(h) ==
    /\ handlers[h].op = "store"
    /\ LET j == handlers[h].job IN
       \/ /\ Present(j)
          /\ results' = [results EXCEPT ![j] = @ + 1]
          /\ handlers' = [handlers EXCEPT ![h] = [op |-> "complete", job |-> j]]
       \/ handlers' = [handlers EXCEPT ![h] = Idle] /\ UNCHANGED results
    /\ UNCHANGED <<jobs, identity, nextId>>

WriteComplete(h) ==
    /\ handlers[h].op = "complete"
    /\ LET j == handlers[h].job IN
       jobs' = [jobs EXCEPT ![j] = IfPresent(@, Completed(@))]
    /\ handlers' = [handlers EXCEPT ![h] = Idle]
    /\ UNCHANGED <<identity, nextId, results>>

\* The worker calls complete_job itself, with a result it stored under its own
\* key (MediaWorker).
Complete(j) ==
    /\ Present(j)
    /\ jobs' = [jobs EXCEPT ![j] = Completed(@)]
    /\ UNCHANGED <<identity, nextId, results, handlers>>

ReadForFail(h, j, retryable) ==
    /\ handlers[h] = Idle
    /\ Present(j)
    /\ handlers' = [handlers EXCEPT ![h] =
                        [op |-> "fail", job |-> j,
                         status |-> FailureStatus(jobs[j], retryable)]]
    /\ UNCHANGED <<jobs, identity, nextId, results>>

WriteFail(h) ==
    /\ handlers[h].op = "fail"
    /\ LET j == handlers[h].job IN
       jobs' = [jobs EXCEPT ![j] = IfPresent(@, Released(@, handlers[h].status))]
    /\ handlers' = [handlers EXCEPT ![h] = Idle]
    /\ UNCHANGED <<identity, nextId, results>>

-----------------------------------------------------------------------------
(* Requeueing: the operator's retry of a failed job, and the sweep. *)

ReadForRetry(h, j) ==
    /\ handlers[h] = Idle
    /\ jobs[j].status = "failed"
    /\ HasBudget(jobs[j])
    /\ handlers' = [handlers EXCEPT ![h] = [op |-> "retry", job |-> j]]
    /\ UNCHANGED <<jobs, identity, nextId, results>>

WriteRetry(h) ==
    /\ handlers[h].op = "retry"
    /\ LET j == handlers[h].job IN
       jobs' = [jobs EXCEPT ![j] = IfPresent(@, Released(@, "retrying"))]
    /\ handlers' = [handlers EXCEPT ![h] = Idle]
    /\ UNCHANGED <<identity, nextId, results>>

Running == {j \in JobIds : jobs[j].status = "running"}

\* reclaim_stale_jobs: every running row whose updated_at lies before the
\* cutoff, in one transaction.  Any of them may; MediaWorker counts the time.
ReclaimStale ==
    \E stale \in (SUBSET Running) \ {{}} :
        /\ jobs' = [j \in JobIds |-> IF j \in stale
                                     THEN Released(jobs[j], FailureStatus(jobs[j], TRUE))
                                     ELSE jobs[j]]
        /\ UNCHANGED <<identity, nextId, results, handlers>>

-----------------------------------------------------------------------------
(* The environment. *)

\* Replacing a scene's shots deletes them, and with them their jobs and results.
DeleteWithShot(j) ==
    /\ Present(j)
    /\ jobs' = [jobs EXCEPT ![j] = Absent]
    /\ results' = [results EXCEPT ![j] = 0]
    /\ UNCHANGED <<identity, nextId, handlers>>

-----------------------------------------------------------------------------
\* The endpoints that take a read and a write.
Enqueue ==
    \E h \in Handlers :
        \/ \E k \in Keys, p \in Projects, max \in Budgets : ReadForEnqueue(h, k, p, max)
        \/ Insert(h)

Fail ==
    \E h \in Handlers :
        \/ \E j \in JobIds, retryable \in BOOLEAN : ReadForFail(h, j, retryable)
        \/ WriteFail(h)

Retry ==
    \E h \in Handlers :
        \/ \E j \in JobIds : ReadForRetry(h, j)
        \/ WriteRetry(h)

Callback ==
    \E h \in Handlers :
        \/ \E j \in JobIds : ReadForComplete(h, j)
        \/ StoreResult(h)
        \/ WriteComplete(h)

Step ==
    \/ Enqueue
    \/ Callback
    \/ Fail
    \/ Retry
    \/ ReclaimStale
    \/ \E w \in Workers : Claim(w)
    \/ \E j \in JobIds :
          \/ Complete(j)
          \/ DeleteWithShot(j)

Storing(h, j) == handlers[h].op = "store" /\ handlers[h].job = j

Racing == {j \in JobIds : \E g, h \in Handlers : g # h /\ Storing(g, j) /\ Storing(h, j)}

Next == Step /\ raced' = raced \cup Racing'

Spec == Init /\ [][Next]_vars

\* A worker loop never stops asking for work (run_forever, _worker_loop).
ClaimFairness == WF_jobs(\E w \in Workers : Claim(w))
FairSpec == Spec /\ ClaimFairness
-----------------------------------------------------------------------------
(* Properties. *)

\* However claims, failures, retries and sweeps interleave, no row's attempt
\* counter passes its max_attempts: the paid retries of a job stay bounded.
AttemptsWithinBudget == \A j \in JobIds : WithinBudget(jobs[j])

\* The columns of a row agree although complete and fail may arrive from anyone
\* at any time: finished_at is set exactly while the status is final (the claim
\* relies on it, it does not write the column), and a row names a worker while
\* it runs and none while it waits or has failed.
RowsAgree == \A j \in JobIds : FinishedAtMatches(jobs[j]) /\ OwnerMatches(jobs[j])

\* Two requests that both found the key unused still leave one row for it.
OneJobPerKey ==
    \A i, j \in JobIds :
        Present(i) /\ Present(j) /\ identity[i].key = identity[j].key => i = j

\* "Repeated completion callbacks are idempotent by generation job id": however
\* often and in whatever state of the job they arrive, they leave one result,
\* unless two of them were past the look for it at once.
OneResultPerJob == \A j \in JobIds \ raced : results[j] <= 1

\* A job is run by spending an attempt and in no other way, and nothing short
\* of deleting the row gives an attempt back or moves the job to another key
\* or project: "a duplicate queue request must never reset attempts".
RunStep ==
    \A j \in JobIds : Present(j) /\ Present(j)' =>
        /\ jobs'[j].max = jobs[j].max
        /\ identity'[j] = identity[j]
        /\ jobs'[j].attempts =
              IF jobs'[j].status = "running" /\ jobs[j].status # "running"
              THEN jobs[j].attempts + 1
              ELSE jobs[j].attempts

RunsSpendAttempts == [][RunStep]_vars

\* No starvation behind lower ids: while some worker keeps claiming, a
\* claimable job does not stay claimable for ever, even when the jobs ahead of
\* it fail and are retried whenever they can be.
ClaimableIsServed ==
    \A j \in JobIds : Claimable(jobs[j]) ~> ~Claimable(jobs[j])
=============================================================================
