----------------------------- MODULE MediaWorker -----------------------------
(***************************************************************************)
(* Workers running process_one_job of src/app/worker.py against the queue, *)
(* the video provider and the store of media results.                      *)
(*                                                                         *)
(* A worker is the thread of the web process (background_worker.py), a     *)
(* request to /api/worker/process-next, or a separate `python -m           *)
(* app.worker` process; only the last one, a member of Reclaimers, ever    *)
(* calls reclaim_stale_jobs.  A worker stops at every point where it       *)
(* leaves the process: the claim's commit and the read after it, the       *)
(* provider's answer to a submission, the commit of the task id, each      *)
(* poll, the download, the lip sync of a dialogue, the insert of the media *)
(* result, the final update.  It can crash at each of them.  What the      *)
(* provider's answers come to is ProviderAnswers.                          *)
(*                                                                         *)
(* Time is a count of ticks.  updated_at is the age of a row in ticks; a   *)
(* worker spends at most SubmitTime, PollTime, TransferTime and SyncTime   *)
(* ticks in the phases that wait for the network, and no tick passes while *)
(* a worker is between two statements on the database.                     *)
(***************************************************************************)
EXTENDS MediaJobs, ProviderAnswers, FiniteSets

CONSTANTS
    NumJobs,       \* bound: jobs enqueued, all before the workers start
    Kinds,         \* kinds of jobs that are enqueued
    Backends,      \* video providers a deployment may have keys for
    Budget,        \* max_attempts of every job (3 in queue_video)
    Reclaimers,    \* workers that sweep (run_forever)
    StaleAfter,    \* STALE_RUNNING_SECONDS
    SubmitTime,    \* longest submission
    PollTime,      \* TASK_TIMEOUT_SECONDS and the last poll's overrun
    TransferTime,  \* longest download and store of a finished video
    SyncTime,      \* _MAX_POLLS * _POLL_INTERVAL of the lip sync
    MaxCrashes     \* bound: crashes of workers

ASSUME NumJobsAssumption == NumJobs \in Nat
ASSUME KindsAssumption == Kinds \subseteq {"image", "draft image", "video", "draft video", "dialogue"}
ASSUME BudgetAssumption == Budget \in Nat \ {0}
ASSUME ReclaimersAssumption == Reclaimers \subseteq Workers
ASSUME TimesAssumption == {StaleAfter, SubmitTime, PollTime, TransferTime, SyncTime, MaxCrashes} \subseteq Nat
ASSUME BackendsAssumption == Backends # {} /\ Backends \subseteq VideoProviders \cup {"disabled"}

VARIABLES
    jobs,      \* id -> row of media_jobs
    kind,      \* id -> its job_type, whether it has draft_mode or a dialogue
    age,       \* id -> ticks since updated_at, counted up to just past StaleAfter
    workers,   \* worker -> where it is in process_one_job
    backend,   \* worker -> the video provider its process has keys for
    provider,  \* task id -> the provider's task
    drafts,    \* id -> media results stored by runs of this job
    strays,    \* id -> runs that stored a result and did not complete the job (history)
    lost,      \* id -> submissions the provider took whose id reached no row (history)
    crashes    \* crashes so far

vars == <<jobs, kind, age, workers, backend, provider, drafts, strays, lost, crashes>>

JobIds == 1..NumJobs
NoJob == 0

\* A dialogue is a video job with an approved recording to sync the lips to.
IsImage(j) == kind[j] \in {"image", "draft image"}
IsDraft(j) == kind[j] \in {"draft image", "draft video"}

Waits == {"submit", "poll", "transfer", "sync"}
Points == Waits \cup {"idle", "sweep", "claimed", "prepare", "record", "store",
                      "complete", "failing", "release", "down"}
Worker == [at      : Points,
           job     : JobIds \cup {NoJob},
           task    : Tasks \cup {NoTask},
           left    : 0..(SubmitTime + PollTime + TransferTime + SyncTime),
           verdict : {"retryable", "final", "retrying", "failed"}]
Task == [state : {"unused", "running", "succeeded", "failed"},
         job   : JobIds \cup {NoJob},
         by    : Providers \cup {"nobody"}]

At(point) == [at |-> point, job |-> NoJob, task |-> NoTask, left |-> 0, verdict |-> "final"]
Unused == [state |-> "unused", job |-> NoJob, by |-> "nobody"]

TypeOK ==
    /\ jobs \in [JobIds -> Row]
    /\ kind \in [JobIds -> Kinds]
    /\ age \in [JobIds -> 0..(StaleAfter + 1)]
    /\ workers \in [Workers -> Worker]
    /\ backend \in [Workers -> Backends]
    /\ provider \in [Tasks -> Task]
    /\ drafts \in [JobIds -> Nat]
    /\ strays \in [JobIds -> Nat]
    /\ lost \in [JobIds -> Nat]
    /\ crashes \in 0..MaxCrashes

\* A worker process begins with a sweep, a thread of the web process with a
\* claim.
Booted(w) == IF w \in Reclaimers THEN At("sweep") ELSE At("idle")

Init ==
    /\ jobs = [j \in JobIds |-> NewRow(Budget)]
    /\ kind \in [JobIds -> Kinds]
    /\ age = [j \in JobIds |-> 0]
    /\ workers = [w \in Workers |-> Booted(w)]
    /\ backend \in [Workers -> Backends]
    /\ provider = [t \in Tasks |-> Unused]
    /\ drafts = [j \in JobIds |-> 0]
    /\ strays = [j \in JobIds |-> 0]
    /\ lost = [j \in JobIds |-> 0]
    /\ crashes = 0

\* Moving on in process_one_job, with the ticks the next point may take.
Budgeted(point) ==
    CASE point = "submit" -> SubmitTime
      [] point = "poll" -> PollTime
      [] point = "transfer" -> TransferTime
      [] point = "sync" -> SyncTime
      [] OTHER -> 0

GoTo(w, point) == [workers EXCEPT ![w].at = point, ![w].left = Budgeted(point)]

\* An exception: retryable or not, as the except clauses classify it.
Raise(w, verdict) == [workers EXCEPT ![w].at = "failing", ![w].left = 0, ![w].verdict = verdict]

UpdateRow(j, r) ==
    /\ jobs' = [jobs EXCEPT ![j] = r]
    /\ age' = [age EXCEPT ![j] = 0]

NoRowUpdated == UNCHANGED <<jobs, age>>

-----------------------------------------------------------------------------
(* The loop: claim, or find nothing and sweep. *)

Claim(w) ==
    /\ workers[w].at = "idle"
    /\ \E j \in JobIds :
        /\ Claimable(jobs[j])
        /\ \A i \in 1..(j - 1) : ~Claimable(jobs[i])
        /\ UpdateRow(j, Claimed(jobs[j], w))
        /\ workers' = [workers EXCEPT ![w] = [At("claimed") EXCEPT !.job = j]]
    /\ UNCHANGED <<kind, backend, provider, drafts, strays, lost, crashes>>

FindNothing(w) ==
    /\ workers[w].at = "idle"
    /\ w \in Reclaimers
    /\ \A j \in JobIds : ~Claimable(jobs[j])
    /\ workers' = [workers EXCEPT ![w] = At("sweep")]
    /\ UNCHANGED <<jobs, age, kind, backend, provider, drafts, strays, lost, crashes>>

\* Mutant: the sweep does not look at updated_at.
Stale_AnyAge(j) == jobs[j].status = "running"

Stale(j) == jobs[j].status = "running" /\ age[j] > StaleAfter

Sweep(w) ==
    /\ workers[w].at = "sweep"
    /\ jobs' = [j \in JobIds |-> IF Stale(j)
                                 THEN Released(jobs[j], FailureStatus(jobs[j], TRUE))
                                 ELSE jobs[j]]
    /\ age' = [j \in JobIds |-> IF Stale(j) THEN 0 ELSE age[j]]
    /\ workers' = [workers EXCEPT ![w] = At("idle")]
    /\ UNCHANGED <<kind, backend, provider, drafts, strays, lost, crashes>>

-----------------------------------------------------------------------------
(* Submitting, or resuming what an earlier run submitted. *)

\* Mutant: the task id in the row is not looked at, every run submits.
ReadJob_IgnoresTask(w) ==
    /\ workers[w].at = "claimed"
    /\ workers' = [workers EXCEPT ![w].at = "prepare"]
    /\ NoRowUpdated
    /\ UNCHANGED <<kind, backend, provider, drafts, strays, lost, crashes>>

\* claim_next_job returns get_job's row; only a video job looks at the task id
\* in it, and every run of an image job submits.
ReadJob(w) ==
    /\ workers[w].at = "claimed"
    /\ LET j == workers[w].job IN
       workers' = [workers EXCEPT ![w].at = "prepare",
                                  ![w].task = IF IsImage(j) THEN NoTask ELSE jobs[j].task]
    /\ NoRowUpdated
    /\ UNCHANGED <<kind, backend, provider, drafts, strays, lost, crashes>>

\* The provider a run talks to: get_video_provider, or the image path.
Asked(w) ==
    CASE IsDraft(workers[w].job) -> "comfyui"
      [] kind[workers[w].job] = "image" -> "magnific"
      [] OTHER -> backend[w]

Prepare(w) ==
    /\ workers[w].at = "prepare"
    /\ \/ /\ Asked(w) # "disabled"
          /\ workers' = GoTo(w, IF workers[w].task = NoTask THEN "submit" ELSE "poll")
       \/ workers' = Raise(w, "final")      \* no shot, no approved image, no provider
    /\ NoRowUpdated
    /\ UNCHANGED <<kind, backend, provider, drafts, strays, lost, crashes>>

\* The provider takes the request and makes a task; its answer arrives, or is
\* lost and the call raises.
Submit(w) ==
    /\ workers[w].at = "submit"
    /\ \E t \in Tasks : provider[t] = Unused
    /\ LET t == CHOOSE t \in Tasks : provider[t] = Unused
           j == workers[w].job IN
       /\ provider' = [provider EXCEPT ![t] = [state |-> "running", job |-> j, by |-> Asked(w)]]
       /\ \/ /\ workers' = [GoTo(w, IF IsImage(j) THEN "poll" ELSE "record")
                              EXCEPT ![w].task = t]
             /\ UNCHANGED lost
          \/ /\ \E verdict \in LostVerdicts(Asked(w)) : workers' = Raise(w, verdict)
             /\ lost' = [lost EXCEPT ![j] = @ + 1]
    /\ NoRowUpdated
    /\ UNCHANGED <<kind, backend, drafts, strays, crashes>>

SubmitRefused(w) ==
    /\ workers[w].at = "submit"
    /\ \E verdict \in RefusedVerdicts(Asked(w)) : workers' = Raise(w, verdict)
    /\ NoRowUpdated
    /\ UNCHANGED <<kind, backend, provider, drafts, strays, lost, crashes>>

\* record_provider_task_id commits, or the database refuses.
Record(w) ==
    /\ workers[w].at = "record"
    /\ LET j == workers[w].job IN
       \/ /\ UpdateRow(j, TaskRecorded(jobs[j], workers[w].task))
          /\ workers' = GoTo(w, "poll")
          /\ UNCHANGED lost
       \/ /\ NoRowUpdated
          /\ workers' = Raise(w, "retryable")
          /\ lost' = [lost EXCEPT ![j] = @ + 1]
    /\ UNCHANGED <<kind, backend, provider, drafts, strays, crashes>>

-----------------------------------------------------------------------------
(* Polling the task, fetching the video, storing the result. *)

\* Mutant: whatever ends the task, its media are fetched.
Poll_AnyEnd(w) ==
    /\ workers[w].at = "poll"
    /\ \/ /\ provider[workers[w].task].state \in {"succeeded", "failed"}
          /\ workers' = GoTo(w, "transfer")
       \/ workers[w].left = 0 /\ workers' = Raise(w, "retryable")
    /\ NoRowUpdated
    /\ UNCHANGED <<kind, backend, provider, drafts, strays, lost, crashes>>

\* One check_task, or the end of the loop: TimeoutError at the deadline.  The
\* provider asked may not be the one that was given the task.
Poll(w) ==
    /\ workers[w].at = "poll"
    /\ LET p == Asked(w)
           task == provider[workers[w].task] IN
       \/ /\ task.by = p /\ task.state = "succeeded"
          /\ workers' = GoTo(w, "transfer") \/ workers' = Raise(w, Verdict(EmptyReason(p)))
       \/ /\ task.by = p /\ task.state = "failed"
          /\ \E verdict \in FailedVerdicts(p) : workers' = Raise(w, verdict)
       \/ task.by # p /\ workers' = Raise(w, Verdict(ForeignReason(p)))
       \/ workers[w].left = 0 /\ workers' = Raise(w, "retryable")
    /\ NoRowUpdated
    /\ UNCHANGED <<kind, backend, provider, drafts, strays, lost, crashes>>

\* The request for the status itself breaks.
PollBreaks(w) ==
    /\ workers[w].at = "poll"
    /\ \E verdict \in BrokenVerdicts(Asked(w)) : workers' = Raise(w, verdict)
    /\ NoRowUpdated
    /\ UNCHANGED <<kind, backend, provider, drafts, strays, lost, crashes>>

\* Mutant: the job is completed without its media result.
Transfer_SkipsStore(w) ==
    /\ workers[w].at = "transfer"
    /\ workers' = GoTo(w, "complete") \/ workers' = Raise(w, "retryable")
    /\ NoRowUpdated
    /\ UNCHANGED <<kind, backend, provider, drafts, strays, lost, crashes>>

\* persist_remote_video, whose every failure is retryable; for an image the
\* checks of the finished image, whose refusal of its content is final.
Transfer(w) ==
    /\ workers[w].at = "transfer"
    /\ \/ workers' = GoTo(w, IF kind[workers[w].job] = "dialogue" THEN "sync" ELSE "store")
       \/ workers' = Raise(w, "retryable")
       \/ IsImage(workers[w].job) /\ workers' = Raise(w, "final")
    /\ NoRowUpdated
    /\ UNCHANGED <<kind, backend, provider, drafts, strays, lost, crashes>>

\* apply_lip_sync waits for a task of its own; whatever becomes of it, the run
\* goes on, with the synced video or the one it had.
Sync(w) ==
    /\ workers[w].at = "sync"
    /\ workers' = GoTo(w, "store")
    /\ NoRowUpdated
    /\ UNCHANGED <<kind, backend, provider, drafts, strays, lost, crashes>>

\* Mutant: a shot's status that is refused repeats the whole store.
Store_RepeatsInsert(w) ==
    /\ workers[w].at = "store"
    /\ drafts' = [drafts EXCEPT ![workers[w].job] = @ + 1]
    /\ workers' = GoTo(w, "complete") \/ workers' = GoTo(w, "store")
    /\ NoRowUpdated
    /\ UNCHANGED <<kind, backend, provider, strays, lost, crashes>>

\* create_media_result, then the shot's status in a transaction of its own;
\* the database may refuse either.
Store(w) ==
    /\ workers[w].at = "store"
    /\ LET j == workers[w].job IN
       \/ /\ drafts' = [drafts EXCEPT ![j] = @ + 1]
          /\ workers' = GoTo(w, "complete")
          /\ UNCHANGED strays
       \/ /\ drafts' = [drafts EXCEPT ![j] = @ + 1]
          /\ workers' = Raise(w, "retryable")
          /\ strays' = [strays EXCEPT ![j] = @ + 1]
       \/ /\ workers' = Raise(w, "retryable")
          /\ UNCHANGED <<drafts, strays>>
    /\ NoRowUpdated
    /\ UNCHANGED <<kind, backend, provider, lost, crashes>>

\* complete_job commits, or the database refuses.
Complete(w) ==
    /\ workers[w].at = "complete"
    /\ LET j == workers[w].job IN
       \/ /\ UpdateRow(j, Completed(jobs[j]))
          /\ workers' = [workers EXCEPT ![w] = At("idle")]
          /\ UNCHANGED strays
       \/ /\ NoRowUpdated
          /\ workers' = Raise(w, "retryable")
          /\ strays' = [strays EXCEPT ![j] = @ + 1]
    /\ UNCHANGED <<kind, backend, provider, drafts, lost, crashes>>

-----------------------------------------------------------------------------
(* Failing: fail_job reads the row, then writes what it decided. *)

ReadForFail(w) ==
    /\ workers[w].at = "failing"
    /\ workers' = [workers EXCEPT
            ![w].at = "release",
            ![w].verdict = FailureStatus(jobs[workers[w].job], workers[w].verdict = "retryable")]
    /\ NoRowUpdated
    /\ UNCHANGED <<kind, backend, provider, drafts, strays, lost, crashes>>

WriteFail(w) ==
    /\ workers[w].at = "release"
    /\ LET j == workers[w].job IN UpdateRow(j, Released(jobs[j], workers[w].verdict))
    /\ workers' = [workers EXCEPT ![w] = At("idle")]
    /\ UNCHANGED <<kind, backend, provider, drafts, strays, lost, crashes>>

-----------------------------------------------------------------------------
(* The environment. *)

\* A crash or redeploy; the task id of an unrecorded submission is gone, and
\* a result already stored stays without its job completed.
Crash(w) ==
    /\ workers[w].at \notin {"idle", "down"}
    /\ crashes < MaxCrashes
    /\ crashes' = crashes + 1
    /\ workers' = [workers EXCEPT ![w] = At("down")]
    /\ lost' = IF workers[w].at = "record"
               THEN [lost EXCEPT ![workers[w].job] = @ + 1]
               ELSE lost
    /\ strays' = IF workers[w].at = "complete"
                 THEN [strays EXCEPT ![workers[w].job] = @ + 1]
                 ELSE strays
    /\ NoRowUpdated
    /\ UNCHANGED <<kind, backend, provider, drafts>>

\* The process may come back with another provider's keys.
Restart(w) ==
    /\ workers[w].at = "down"
    /\ workers' = [workers EXCEPT ![w] = Booted(w)]
    /\ \E p \in Backends : backend' = [backend EXCEPT ![w] = p]
    /\ UNCHANGED <<jobs, kind, age, provider, drafts, strays, lost, crashes>>

\* The operator retries a failed job (POST .../jobs/{id}/retry).
Retry(j) ==
    /\ jobs[j].status = "failed"
    /\ HasBudget(jobs[j])
    /\ UpdateRow(j, Released(jobs[j], "retrying"))
    /\ UNCHANGED <<workers, kind, backend, provider, drafts, strays, lost, crashes>>

ProviderFinishes(t) ==
    /\ provider[t].state = "running"
    /\ \E state \in {"succeeded", "failed"} :
          provider' = [provider EXCEPT ![t].state = state]
    /\ UNCHANGED <<jobs, age, workers, kind, backend, drafts, strays, lost, crashes>>

\* A tick passes while every busy worker still has time for what it waits on.
Busy(w) == workers[w].at \notin {"idle", "sweep", "down"}

Tick ==
    /\ \/ \E j \in JobIds : jobs[j].status = "running" /\ age[j] <= StaleAfter
       \/ \E w \in Workers : Busy(w)
    /\ \A w \in Workers : Busy(w) => workers[w].left > 0
    /\ age' = [j \in JobIds |-> IF jobs[j].status = "running" /\ age[j] <= StaleAfter
                                THEN age[j] + 1
                                ELSE age[j]]
    /\ workers' = [w \in Workers |-> IF Busy(w) THEN [workers[w] EXCEPT !.left = @ - 1]
                                     ELSE workers[w]]
    /\ UNCHANGED <<jobs, kind, backend, provider, drafts, strays, lost, crashes>>

-----------------------------------------------------------------------------
Run(w) ==
    \/ ReadJob(w) \/ Prepare(w)
    \/ Submit(w) \/ SubmitRefused(w) \/ Record(w)
    \/ Poll(w) \/ Transfer(w) \/ Sync(w)
    \/ Store(w) \/ Complete(w)
    \/ ReadForFail(w) \/ WriteFail(w)

Loop(w) == Claim(w) \/ FindNothing(w) \/ Sweep(w)

Next ==
    \/ \E w \in Workers : Loop(w) \/ Run(w) \/ PollBreaks(w) \/ Crash(w) \/ Restart(w)
    \/ \E j \in JobIds : Retry(j)
    \/ \E t \in Tasks : ProviderFinishes(t)
    \/ Tick

Spec == Init /\ [][Next]_vars

\* The loops do not stop, a crashed process is started again and the clock
\* runs.  Crashes and the operator's retries are not fair, and the provider
\* need never finish what it took.
Fairness ==
    /\ \A w \in Workers : WF_vars(Loop(w)) /\ WF_vars(Run(w)) /\ WF_vars(Restart(w))
    /\ WF_vars(Tick)

FairSpec == Spec /\ Fairness
-----------------------------------------------------------------------------
(* Properties. *)

\* A job being run is still its worker's: the row is running and names it.
\* With it no two live workers run one job, and the unguarded writes of
\* complete_job and fail_job fall on rows that are the writer's.  It rests on
\* time alone: a run must end, or write its row, before StaleAfter.
LiveRunOwnsRow ==
    \A w \in Workers : Busy(w) =>
        /\ jobs[workers[w].job].status = "running"
        /\ jobs[workers[w].job].worker = w

Submissions(j) == {t \in Tasks : provider[t].job = j}

\* A video job is submitted, and billed, once more only for each submission
\* whose id never reached the row: retries, timeouts, failed downloads,
\* sweeps and restarts all resume the recorded task.
BilledOncePerLoss ==
    \A j \in JobIds : ~IsImage(j) => Cardinality(Submissions(j)) <= 1 + lost[j]

\* What a completed video job delivered is what its recorded task made.  With
\* it a task that failed is the end of its job: every retry, after whatever
\* crashes and changes of provider, is of that task, and none can complete.
CompletedFromItsTask ==
    \A j \in JobIds :
        ~IsImage(j) /\ jobs[j].status = "completed" =>
            /\ jobs[j].task # NoTask
            /\ provider[jobs[j].task].state = "succeeded"
            /\ provider[jobs[j].task].job = j

\* A job has a second media result only for each run that stored one and died,
\* or was refused by the database, before it completed the job: every such
\* stray is run again and adds a draft, although the design (SYSTEM_ARCHITECTURE.md,
\* reliability) promises no duplicate records.  Nothing else repeats a store:
\* neither sweeps of slow runs, nor retries of downloads, nor an operator's.
DraftsAreAccountedFor == \A j \in JobIds : drafts[j] <= 1 + strays[j]

phaseOf(r) == IF r.status \in Waiting THEN "waiting" ELSE r.status

Lifecycle == INSTANCE JobLifecycle WITH
    Jobs <- JobIds,
    phase <- [j \in JobIds |-> phaseOf(jobs[j])],
    spent <- [j \in JobIds |-> jobs[j].attempts],
    stored <- {j \in JobIds : drafts[j] > 0}

\* Workers, crashes and sweeps implement the lifecycle a reader of jobs.py
\* expects: bounded runs, completed only with a stored result, and then final.
ImplementsLifecycle == Lifecycle!Spec

\* Every enqueued job comes to rest as completed or failed, whatever crashes,
\* as README.md says of a job stuck in running.
JobsSettle == \A j \in JobIds : <>[](jobs[j].status \in Finished)

=============================================================================
