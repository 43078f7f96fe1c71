-------------------------- MODULE MediaWorkerProofs --------------------------
(***************************************************************************)
(* The safety of MediaWorker for any number of workers, jobs, tasks and    *)
(* crashes, and that it implements JobLifecycle.                           *)
(*                                                                         *)
(* The first part, of types, needs nothing of time.  The rest rests on     *)
(* TimesFit: a run writes its row or ends before a sweep may take it for   *)
(* dead, so that while it lives the row is its own and nobody else runs the*)
(* job.  That makes the unguarded writes of complete_job and fail_job safe,*)
(* keeps the task in the row the one its run follows, leaves one draft per *)
(* job beside those of strays, and gives the refinement.                   *)
(***************************************************************************)
EXTENDS MediaWorker, TLAPS, FiniteSetTheorems

\* What a worker may hold.
Typed(w) ==
    /\ Busy(w) => workers[w].job \in JobIds
    /\ workers[w].at = "submit" => Asked(w) # "disabled"
    /\ workers[w].at = "release" => workers[w].verdict \in {"retrying", "failed"}

BaseInv ==
    /\ TypeOK
    /\ \A w \in Workers : Typed(w)
    /\ \A j \in JobIds : jobs[j].max = Budget

-----------------------------------------------------------------------------
(* The invariant of time, rows and tasks. *)

\* The longest a run may go without writing its row.  An image run writes
\* nothing between its claim and its end; a video run writes its task id after
\* the submission.  600 s of polling leave 300 s of the 900 s for the rest of
\* the network calls; 720 s of lip sync after them do not fit.
TimesFit ==
    /\ SubmitTime + PollTime + TransferTime <= StaleAfter
    /\ "dialogue" \in Kinds => PollTime + TransferTime + SyncTime <= StaleAfter

\* The age of its row a run may reach at a point.
Deadline(point, j) ==
    CASE point \in {"claimed", "prepare"} -> 0
      [] point = "submit" -> SubmitTime
      [] point = "poll" -> IF IsImage(j) THEN SubmitTime + PollTime ELSE PollTime
      [] point = "transfer" -> (IF IsImage(j) THEN SubmitTime ELSE 0) + PollTime + TransferTime
      [] OTHER -> StaleAfter

OwnsRow(w) == jobs[workers[w].job].status = "running" /\ jobs[workers[w].job].worker = w

OnTime(w) ==
    /\ age[workers[w].job] + workers[w].left <= Deadline(workers[w].at, workers[w].job)
    /\ workers[w].at \notin Waits => workers[w].left = 0

Following == {"poll", "transfer", "sync", "store", "complete"}
Fetched == Following \ {"poll"}

\* The task a run follows is its job's, and for a video that in the row.
FollowsTask(w) ==
    LET x == workers[w]
        j == x.job IN
    /\ x.at = "prepare" => x.task = IF IsImage(j) THEN NoTask ELSE jobs[j].task
    /\ x.at \in {"submit", "record"} => IsImage(j) \/ jobs[j].task = NoTask
    /\ x.at = "record" => ~IsImage(j)
    /\ x.at \in {"record"} \cup Following => x.task \in Tasks /\ provider[x.task].job = j
    /\ x.at \in Following => IsImage(j) \/ x.task = jobs[j].task
    /\ x.at \in Fetched => provider[x.task].state = "succeeded"

\* What the end of a run relies on.
MayEnd(w) ==
    LET x == workers[w] IN
    /\ x.at = "sync" => kind[x.job] = "dialogue"
    /\ x.at = "complete" => drafts[x.job] > 0
    /\ x.at = "release" /\ x.verdict = "retrying" => HasBudget(jobs[x.job])

RunOK(w) == Busy(w) => OwnsRow(w) /\ OnTime(w) /\ FollowsTask(w) /\ MayEnd(w)

\* The submission whose id is in the row or on its way there.
Known(j) == jobs[j].task # NoTask \/ \E w \in Workers : workers[w].at = "record" /\ workers[w].job = j

BillOK(j) ==
    /\ IsFiniteSet(Submissions(j))
    /\ Cardinality(Submissions(j)) <= lost[j] + (IF Known(j) THEN 1 ELSE 0)

RecordedOK(j) ==
    /\ jobs[j].task # NoTask => provider[jobs[j].task].job = j
    /\ jobs[j].status = "completed" =>
          jobs[j].task # NoTask /\ provider[jobs[j].task].state = "succeeded"

JobOK(j) == ~IsImage(j) => BillOK(j) /\ RecordedOK(j)

IInv ==
    /\ BaseInv
    /\ \A w \in Workers : RunOK(w)
    /\ \A j \in JobIds : JobOK(j)

-----------------------------------------------------------------------------
(* Moves of one worker, and writes of one row. *)

LEMMA Times ==
    /\ StaleAfter \in Nat /\ SubmitTime \in Nat /\ PollTime \in Nat
    /\ TransferTime \in Nat /\ SyncTime \in Nat /\ MaxCrashes \in Nat
BY TimesAssumption

LEMMA BudgetedType ==
    ASSUME NEW point
    PROVE  Budgeted(point) \in 0..(SubmitTime + PollTime + TransferTime + SyncTime)
BY Times DEF Budgeted

LEMMA GoToFacts ==
    ASSUME TypeOK, NEW w \in Workers, NEW point \in Points
    PROVE  /\ GoTo(w, point) \in [Workers -> Worker]
           /\ \A v \in Workers : v # w => GoTo(w, point)[v] = workers[v]
           /\ GoTo(w, point)[w].at = point
           /\ GoTo(w, point)[w].left = Budgeted(point)
           /\ GoTo(w, point)[w].job = workers[w].job
           /\ GoTo(w, point)[w].task = workers[w].task
           /\ GoTo(w, point)[w].verdict = workers[w].verdict
<1>1. workers[w] \in Worker /\ workers \in [Workers -> Worker]
  BY DEF TypeOK
<1>2. [workers[w] EXCEPT !.at = point, !.left = Budgeted(point)] \in Worker
  BY <1>1, BudgetedType DEF Worker
<1>3. QED
  BY <1>1, <1>2 DEF GoTo, Worker

LEMMA RaiseFacts ==
    ASSUME TypeOK, NEW w \in Workers, NEW verdict \in {"retryable", "final"}
    PROVE  /\ Raise(w, verdict) \in [Workers -> Worker]
           /\ \A v \in Workers : v # w => Raise(w, verdict)[v] = workers[v]
           /\ Raise(w, verdict)[w].at = "failing"
           /\ Raise(w, verdict)[w].left = 0
           /\ Raise(w, verdict)[w].job = workers[w].job
<1>1. workers[w] \in Worker /\ workers \in [Workers -> Worker]
  BY DEF TypeOK
<1>2. 0 \in 0..(SubmitTime + PollTime + TransferTime + SyncTime)
  BY Times
<1>3. [workers[w] EXCEPT !.at = "failing", !.left = 0, !.verdict = verdict] \in Worker
  BY <1>1, <1>2 DEF Worker, Points
<1>4. QED
  BY <1>1, <1>3 DEF Raise, Worker

LEMMA AtFacts ==
    ASSUME NEW point \in Points
    PROVE  /\ At(point) \in Worker
           /\ At(point).at = point /\ At(point).job = NoJob /\ At(point).left = 0
BY Times DEF At, Worker

LEMMA VerdictType ==
    ASSUME NEW p
    PROVE  /\ \A reason : Verdict(reason) \in {"retryable", "final"}
           /\ RefusedVerdicts(p) \cup LostVerdicts(p) \cup BrokenVerdicts(p)
                  \cup FailedVerdicts(p) \subseteq {"retryable", "final"}
<1>1. \A reason : Verdict(reason) \in {"retryable", "final"}
  BY DEF Verdict
<1>2. QED
  BY <1>1 DEF RefusedVerdicts, LostVerdicts, BrokenVerdicts, FailedVerdicts

LEMMA WriteFacts ==
    ASSUME TypeOK, NEW j \in JobIds, NEW r \in Row, UpdateRow(j, r)
    PROVE  /\ jobs' \in [JobIds -> Row] /\ age' \in [JobIds -> 0..(StaleAfter + 1)]
           /\ jobs'[j] = r /\ age'[j] = 0
           /\ \A i \in JobIds : i # j => jobs'[i] = jobs[i] /\ age'[i] = age[i]
BY Times DEF TypeOK, UpdateRow

LEMMA ClaimedRow ==
    ASSUME NEW r \in Row, NEW w \in Workers
    PROVE  /\ Claimed(r, w) \in Row
           /\ Claimed(r, w).status = "running" /\ Claimed(r, w).worker = w
           /\ Claimed(r, w).attempts = r.attempts + 1
           /\ Claimed(r, w).max = r.max /\ Claimed(r, w).task = r.task
<1>1. r.attempts + 1 \in Nat
  BY DEF Row
<1>2. Claimed(r, w) \in Row
  BY <1>1 DEF Claimed, Row, Status
<1>3. QED
  BY <1>2 DEF Claimed, Row

LEMMA ReleasedRow ==
    ASSUME NEW r \in Row, NEW status \in {"retrying", "failed"}
    PROVE  /\ Released(r, status) \in Row
           /\ Released(r, status).status = status
           /\ Released(r, status).attempts = r.attempts
           /\ Released(r, status).max = r.max /\ Released(r, status).task = r.task
BY DEF Released, Row, Status, Waiting, Finished

LEMMA CompletedRow ==
    ASSUME NEW r \in Row
    PROVE  /\ Completed(r) \in Row
           /\ Completed(r).status = "completed"
           /\ Completed(r).attempts = r.attempts
           /\ Completed(r).max = r.max /\ Completed(r).task = r.task
BY DEF Completed, Row, Status, Finished

LEMMA RecordedRow ==
    ASSUME NEW r \in Row, NEW t \in Tasks \cup {NoTask}
    PROVE  /\ TaskRecorded(r, t) \in Row
           /\ TaskRecorded(r, t).status = r.status /\ TaskRecorded(r, t).worker = r.worker
           /\ TaskRecorded(r, t).attempts = r.attempts
           /\ TaskRecorded(r, t).max = r.max /\ TaskRecorded(r, t).task = t
BY DEF TaskRecorded, Row

LEMMA FailureStatusType ==
    ASSUME NEW r, NEW retryable
    PROVE  FailureStatus(r, retryable) \in {"retrying", "failed"}
BY DEF FailureStatus

-----------------------------------------------------------------------------
(* The first part: types, and what needs nothing of time. *)

LEMMA BaseStep ==
    ASSUME BaseInv,
           workers' \in [Workers -> Worker],
           \A v \in Workers : Typed(v)',
           jobs' \in [JobIds -> Row],
           \A j \in JobIds : jobs'[j].max = jobs[j].max,
           age' \in [JobIds -> 0..(StaleAfter + 1)],
           backend' \in [Workers -> Backends],
           provider' \in [Tasks -> Task],
           drafts' \in [JobIds -> Nat],
           strays' \in [JobIds -> Nat],
           lost' \in [JobIds -> Nat],
           crashes' \in 0..MaxCrashes,
           UNCHANGED kind
    PROVE  BaseInv'
<1>1. TypeOK'
  BY DEF BaseInv, TypeOK
<1>2. QED
  BY <1>1 DEF BaseInv

\* A step of one worker that leaves every row as it is, or writes its job's.
LEMMA WorkerStep ==
    ASSUME BaseInv, NEW w \in Workers,
           workers' \in [Workers -> Worker],
           \A v \in Workers : v # w => workers'[v] = workers[v],
           Typed(w)',
           \/ NoRowUpdated
           \/ \E j \in JobIds, r \in Row : UpdateRow(j, r) /\ r.max = jobs[j].max,
           backend' \in [Workers -> Backends],
           \A v \in Workers : v # w => backend'[v] = backend[v],
           provider' \in [Tasks -> Task],
           drafts' \in [JobIds -> Nat],
           strays' \in [JobIds -> Nat],
           lost' \in [JobIds -> Nat],
           crashes' \in 0..MaxCrashes,
           UNCHANGED kind
    PROVE  BaseInv'
<1>1. TypeOK
  BY DEF BaseInv
<1>2. /\ jobs' \in [JobIds -> Row]
      /\ \A j \in JobIds : jobs'[j].max = jobs[j].max
      /\ age' \in [JobIds -> 0..(StaleAfter + 1)]
  <2>1. CASE NoRowUpdated
    BY <1>1, <2>1 DEF NoRowUpdated, TypeOK
  <2>2. CASE \E j \in JobIds, r \in Row : UpdateRow(j, r) /\ r.max = jobs[j].max
    BY <1>1, <2>2, WriteFacts
  <2>3. QED
    BY <2>1, <2>2
<1>3. \A v \in Workers : Typed(v)'
  <2> SUFFICES ASSUME NEW v \in Workers, v # w PROVE Typed(v)' /\ workers'[v] = workers[v]
    OBVIOUS
  <2>1. Typed(v) /\ workers'[v] = workers[v]
    BY DEF BaseInv
  <2>2. QED
    BY <2>1 DEF Typed, Busy, Asked, IsDraft
<1>4. QED
  BY <1>2, <1>3, BaseStep

\* The initial workers hold nothing.
LEMMA InitBase == Init => BaseInv
<1> SUFFICES ASSUME Init PROVE BaseInv
  OBVIOUS
<1>1. \A w \in Workers : Booted(w) \in Worker /\ Booted(w).at \in {"sweep", "idle"}
  BY AtFacts DEF Booted, Points
<1>2. /\ NewRow(Budget) \in Row /\ NewRow(Budget).max = Budget
      /\ NewRow(Budget).attempts = 0
  <2>1. Absent \in Row /\ Absent.attempts = 0
    BY DEF Absent, Row, Status
  <2>2. Budget \in Nat
    BY BudgetAssumption
  <2>3. QED
    BY <2>1, <2>2 DEF NewRow, Row, Status, Waiting
<1>3. TypeOK
  <2>1. Unused \in Task
    BY DEF Unused, Task
  <2>2. 0 \in 0..StaleAfter + 1 /\ 0 \in 0..MaxCrashes
    BY Times
  <2>3. QED
    BY <1>1, <1>2, <2>1, <2>2 DEF Init, TypeOK
<1>4. \A w \in Workers : workers[w].at \in {"sweep", "idle"}
  BY <1>1 DEF Init
<1>5. \A w \in Workers : Typed(w)
  BY <1>4 DEF Typed, Busy
<1>6. \A j \in JobIds : jobs[j].max = Budget
  BY <1>2 DEF Init
<1>7. QED
  BY <1>3, <1>5, <1>6 DEF BaseInv

\* A claim begins a run.
LEMMA ClaimBase == ASSUME BaseInv, NEW w \in Workers, Claim(w) PROVE BaseInv'
<1>1. TypeOK
  BY DEF BaseInv
<1>2. PICK j \in JobIds :
          /\ Claimable(jobs[j])
          /\ UpdateRow(j, Claimed(jobs[j], w))
          /\ workers' = [workers EXCEPT ![w] = [At("claimed") EXCEPT !.job = j]]
  BY DEF Claim
<1> DEFINE x == [At("claimed") EXCEPT !.job = j]
<1>3. x \in Worker /\ x.at = "claimed" /\ x.job = j
  BY AtFacts DEF Points, Worker
<1> HIDE DEF x
<1>4. /\ workers' \in [Workers -> Worker] /\ workers'[w] = x
      /\ \A v \in Workers : v # w => workers'[v] = workers[v]
  BY <1>1, <1>2, <1>3 DEF x, TypeOK
<1> DEFINE r == Claimed(jobs[j], w)
<1>5. /\ r \in Row /\ r.max = Budget /\ r.attempts = jobs[j].attempts + 1
  <2>1. jobs[j] \in Row /\ jobs[j].max = Budget
    BY <1>1 DEF TypeOK, BaseInv
  <2>2. QED
    BY <2>1, ClaimedRow
<1> HIDE DEF r
<1>6. /\ jobs' \in [JobIds -> Row] /\ age' \in [JobIds -> 0..(StaleAfter + 1)]
      /\ jobs'[j] = r
      /\ \A i \in JobIds : i # j => jobs'[i] = jobs[i]
  BY <1>1, <1>2, <1>5, WriteFacts DEF r
<1>7. UNCHANGED <<kind, backend, provider, drafts, strays, lost, crashes>>
  BY DEF Claim
<1>8. TypeOK'
  BY <1>1, <1>4, <1>6, <1>7 DEF TypeOK
<1>9. \A v \in Workers : Typed(v)'
  BY <1>3, <1>4, <1>7 DEF BaseInv, Typed, Busy, Asked, IsDraft
<1>10. \A i \in JobIds : jobs'[i].max = Budget
  BY <1>5, <1>6 DEF BaseInv
<1>11. QED
  BY <1>8, <1>9, <1>10 DEF BaseInv

\* A worker that holds nothing afterwards, whatever it did before.
LEMMA ClearedWorker ==
    ASSUME TypeOK, NEW w \in Workers, NEW point \in {"idle", "sweep", "down"},
           workers' = [workers EXCEPT ![w] = At(point)]
    PROVE  /\ workers' \in [Workers -> Worker]
           /\ \A v \in Workers : v # w => workers'[v] = workers[v]
           /\ workers'[w] = At(point) /\ workers'[w].at = point /\ ~Busy(w)'
           /\ Typed(w)'
<1>1. At(point) \in Worker /\ At(point).at = point
  BY AtFacts DEF Points
<1>2. /\ workers' \in [Workers -> Worker] /\ workers'[w] = At(point)
      /\ \A v \in Workers : v # w => workers'[v] = workers[v]
  BY <1>1 DEF TypeOK
<1>3. QED
  BY <1>1, <1>2 DEF Typed, Busy

\* A step of the loop other than a claim.
LEMMA LoopBase ==
    ASSUME BaseInv, NEW w \in Workers, FindNothing(w) \/ Sweep(w)
    PROVE  BaseInv'
<1>1. TypeOK
  BY DEF BaseInv
<1>2. CASE FindNothing(w)
  <2>1. /\ workers' = [workers EXCEPT ![w] = At("sweep")]
        /\ NoRowUpdated /\ UNCHANGED <<kind, backend, provider, drafts, strays, lost, crashes>>
    BY <1>2 DEF FindNothing, NoRowUpdated
  <2>2. QED
    BY <1>1, <2>1, ClearedWorker, WorkerStep DEF TypeOK
<1>3. CASE Sweep(w)
  <2>1. /\ workers' = [workers EXCEPT ![w] = At("idle")]
        /\ UNCHANGED <<kind, backend, provider, drafts, strays, lost, crashes>>
    BY <1>3 DEF Sweep
  <2>2. ASSUME NEW j \in JobIds
        PROVE  /\ jobs'[j] \in Row
               /\ jobs'[j].max = jobs[j].max /\ jobs'[j].attempts = jobs[j].attempts
    <3>1. jobs[j] \in Row
      BY <1>1 DEF TypeOK
    <3>2. jobs'[j] = IF Stale(j) THEN Released(jobs[j], FailureStatus(jobs[j], TRUE)) ELSE jobs[j]
      BY <1>3 DEF Sweep
    <3>3. FailureStatus(jobs[j], TRUE) \in {"retrying", "failed"}
      BY FailureStatusType
    <3> DEFINE r == Released(jobs[j], FailureStatus(jobs[j], TRUE))
    <3>4. r \in Row /\ r.max = jobs[j].max /\ r.attempts = jobs[j].attempts
      BY <3>1, <3>3, ReleasedRow
    <3> HIDE DEF r
    <3>5. QED
      BY <3>1, <3>2, <3>4 DEF r
  <2>3. jobs' \in [JobIds -> Row] /\ age' \in [JobIds -> 0..(StaleAfter + 1)]
    <3>1. jobs' = [j \in JobIds |-> jobs'[j]]
      BY <1>3 DEF Sweep
    <3>2. jobs' \in [JobIds -> Row]
      BY <2>2, <3>1
    <3>3. age' \in [JobIds -> 0..(StaleAfter + 1)]
      BY <1>1, <1>3, Times DEF Sweep, TypeOK
    <3>4. QED
      BY <3>2, <3>3
  <2>4. /\ workers' \in [Workers -> Worker]
        /\ \A v \in Workers : v # w => workers'[v] = workers[v]
        /\ Typed(w)'
    BY <1>1, <2>1, ClearedWorker
  <2>5. \A v \in Workers : Typed(v)'
    BY <2>1, <2>4 DEF BaseInv, Typed, Busy, Asked, IsDraft
  <2>6. QED
    BY <1>1, <2>1, <2>2, <2>3, <2>4, <2>5, BaseStep DEF TypeOK
<1>4. QED
  BY <1>2, <1>3

\* A run goes on to another point, or to fail; it stays the run of its job.
LEMMA GoToBase ==
    ASSUME BaseInv, NEW w \in Workers, Busy(w), NEW point \in Points \ {"release"},
           point = "submit" => Asked(w) # "disabled",
           workers' = GoTo(w, point), NoRowUpdated,
           UNCHANGED <<kind, backend, provider, drafts, strays, lost, crashes>>
    PROVE  BaseInv'
<1>1. TypeOK /\ Typed(w)
  BY DEF BaseInv
<1>2. /\ workers' \in [Workers -> Worker]
      /\ \A v \in Workers : v # w => workers'[v] = workers[v]
      /\ workers'[w].at = point /\ workers'[w].job = workers[w].job
  BY <1>1, GoToFacts
<1>3. Typed(w)'
  BY <1>1, <1>2 DEF Typed, Busy, Asked, IsDraft
<1>4. QED
  BY <1>1, <1>2, <1>3, WorkerStep DEF TypeOK

LEMMA RaiseBase ==
    ASSUME BaseInv, NEW w \in Workers, Busy(w), NEW verdict \in {"retryable", "final"},
           workers' = Raise(w, verdict), NoRowUpdated,
           provider' \in [Tasks -> Task],
           drafts' \in [JobIds -> Nat], strays' \in [JobIds -> Nat], lost' \in [JobIds -> Nat],
           UNCHANGED <<kind, backend, crashes>>
    PROVE  BaseInv'
<1>1. TypeOK /\ Typed(w)
  BY DEF BaseInv
<1>2. /\ workers' \in [Workers -> Worker]
      /\ \A v \in Workers : v # w => workers'[v] = workers[v]
      /\ workers'[w].at = "failing" /\ workers'[w].job = workers[w].job
  BY <1>1, RaiseFacts
<1>3. Typed(w)'
  BY <1>1, <1>2 DEF Typed, Busy
<1>4. QED
  BY <1>1, <1>2, <1>3, WorkerStep DEF TypeOK

\* A busy worker has a job, and its job a row.
LEMMA BusyFacts ==
    ASSUME BaseInv, NEW w \in Workers, Busy(w)
    PROVE  /\ workers[w] \in Worker /\ workers[w].job \in JobIds
           /\ jobs[workers[w].job] \in Row /\ jobs[workers[w].job].max = Budget
           /\ kind[workers[w].job] \in Kinds
BY DEF BaseInv, Typed, TypeOK

LEMMA ReadJobFacts ==
    ASSUME BaseInv, NEW w \in Workers, ReadJob(w)
    PROVE  LET j == workers[w].job IN
           /\ workers[w].at = "claimed" /\ j \in JobIds
           /\ workers' \in [Workers -> Worker]
           /\ \A v \in Workers : v # w => workers'[v] = workers[v]
           /\ workers'[w].at = "prepare" /\ workers'[w].job = j
           /\ workers'[w].left = workers[w].left
           /\ workers'[w].task = IF IsImage(j) THEN NoTask ELSE jobs[j].task
<1> DEFINE j == workers[w].job
           task == IF IsImage(j) THEN NoTask ELSE jobs[j].task
           x == [workers[w] EXCEPT !.at = "prepare", !.task = task]
<1>1. workers[w].at = "claimed" /\ workers' = [workers EXCEPT ![w] = x]
  BY DEF ReadJob
<1>2. workers[w] \in Worker /\ j \in JobIds /\ jobs[j] \in Row
  BY <1>1, BusyFacts DEF Busy
<1>3. task \in Tasks \cup {NoTask}
  BY <1>2 DEF Row
<1>4. /\ x \in Worker
      /\ x.at = "prepare" /\ x.job = j /\ x.left = workers[w].left /\ x.task = task
  <2> HIDE DEF task, j
  <2>1. QED
    BY <1>2, <1>3 DEF Worker, Points, j
<1> HIDE DEF x
<1>5. /\ workers' \in [Workers -> Worker] /\ workers'[w] = x
      /\ \A v \in Workers : v # w => workers'[v] = workers[v]
  BY <1>1, <1>4 DEF BaseInv, TypeOK
<1>6. QED
  BY <1>1, <1>2, <1>4, <1>5

LEMMA ReadJobBase == ASSUME BaseInv, NEW w \in Workers, ReadJob(w) PROVE BaseInv'
<1>1. NoRowUpdated /\ UNCHANGED <<kind, backend, provider, drafts, strays, lost, crashes>>
  BY DEF ReadJob
<1>2. Typed(w)'
  BY ReadJobFacts, <1>1 DEF Typed, Busy, NoRowUpdated
<1>3. QED
  BY <1>1, <1>2, ReadJobFacts, WorkerStep DEF BaseInv, TypeOK

\* The provider has taken the request, and the answer has arrived or not.
LEMMA SubmitFacts ==
    ASSUME BaseInv, NEW w \in Workers, Submit(w)
    PROVE  LET j == workers[w].job IN
           /\ workers[w].at = "submit" /\ j \in JobIds
           /\ provider' \in [Tasks -> Task] /\ lost' \in [JobIds -> Nat]
           /\ NoRowUpdated /\ UNCHANGED <<kind, backend, drafts, strays, crashes>>
           /\ \E t \in Tasks :
                 /\ provider[t] = Unused
                 /\ provider'[t].job = j
                 /\ \A u \in Tasks : u # t => provider'[u] = provider[u]
                 /\ \/ /\ UNCHANGED lost
                       /\ workers' \in [Workers -> Worker]
                       /\ \A v \in Workers : v # w => workers'[v] = workers[v]
                       /\ workers'[w].at = IF IsImage(j) THEN "poll" ELSE "record"
                       /\ workers'[w].left = IF IsImage(j) THEN PollTime ELSE 0
                       /\ workers'[w].job = j /\ workers'[w].task = t
                    \/ /\ \E verdict \in {"retryable", "final"} : workers' = Raise(w, verdict)
                       /\ lost' = [lost EXCEPT ![j] = @ + 1]
<1> DEFINE j == workers[w].job
           t == CHOOSE t \in Tasks : provider[t] = Unused
           new == [state |-> "running", job |-> j, by |-> Asked(w)]
           point == IF IsImage(j) THEN "poll" ELSE "record"
<1>1. workers[w].at = "submit"
  BY DEF Submit
<1>2. TypeOK /\ workers[w] \in Worker /\ j \in JobIds /\ kind[j] \in Kinds
  BY <1>1, BusyFacts DEF Busy, BaseInv
<1>3. t \in Tasks /\ provider[t] = Unused
  BY DEF Submit
<1>4. /\ provider' = [provider EXCEPT ![t] = new]
      /\ \/ /\ workers' = [GoTo(w, point) EXCEPT ![w].task = t]
            /\ UNCHANGED lost
         \/ /\ \E verdict \in LostVerdicts(Asked(w)) : workers' = Raise(w, verdict)
            /\ lost' = [lost EXCEPT ![j] = @ + 1]
      /\ NoRowUpdated /\ UNCHANGED <<kind, backend, drafts, strays, crashes>>
  BY DEF Submit
<1> HIDE DEF t
<1>5. Asked(w) \in Providers
  BY <1>1, <1>2, BackendsAssumption DEF BaseInv, Typed, Asked, Providers, VideoProviders, TypeOK
<1>6. new \in Task /\ new.job = j
  BY <1>2, <1>5 DEF Task
<1> HIDE DEF new
<1>7. /\ provider' \in [Tasks -> Task] /\ provider'[t].job = j
      /\ \A u \in Tasks : u # t => provider'[u] = provider[u]
  BY <1>2, <1>3, <1>4, <1>6 DEF TypeOK
<1>8. lost' \in [JobIds -> Nat]
  BY <1>2, <1>4 DEF TypeOK
<1>9. CASE /\ workers' = [GoTo(w, point) EXCEPT ![w].task = t]
           /\ UNCHANGED lost
  <2> DEFINE g == GoTo(w, point)
  <2>1. /\ g \in [Workers -> Worker] /\ \A v \in Workers : v # w => g[v] = workers[v]
        /\ g[w].at = point /\ g[w].left = Budgeted(point) /\ g[w].job = j
    BY <1>2, GoToFacts DEF Points, Waits
  <2> HIDE DEF g
  <2>2. Budgeted(point) = IF IsImage(j) THEN PollTime ELSE 0
    BY DEF Budgeted
  <2>3. workers' = [g EXCEPT ![w].task = t]
    BY <1>9 DEF g
  <2> HIDE DEF point, j
  <2>4. /\ workers' \in [Workers -> Worker] /\ \A v \in Workers : v # w => workers'[v] = g[v]
        /\ workers'[w].at = point /\ workers'[w].left = Budgeted(point)
        /\ workers'[w].job = j /\ workers'[w].task = t
    BY <1>3, <2>1, <2>3 DEF Worker
  <2>5. QED
    BY <1>1, <1>2, <1>3, <1>4, <1>7, <1>8, <1>9, <2>1, <2>2, <2>4 DEF point, j
<1>10. CASE /\ \E verdict \in LostVerdicts(Asked(w)) : workers' = Raise(w, verdict)
            /\ lost' = [lost EXCEPT ![j] = @ + 1]
  <2>1. \E verdict \in {"retryable", "final"} : workers' = Raise(w, verdict)
    BY <1>10, VerdictType
  <2> HIDE DEF j
  <2>2. QED
    BY <1>1, <1>2, <1>3, <1>4, <1>7, <1>8, <1>10, <2>1 DEF j
<1>11. QED
  BY <1>4, <1>9, <1>10

LEMMA SubmitBase == ASSUME BaseInv, NEW w \in Workers, Submit(w) PROVE BaseInv'
<1> DEFINE j == workers[w].job
<1>1. /\ workers[w].at = "submit" /\ j \in JobIds
      /\ provider' \in [Tasks -> Task] /\ lost' \in [JobIds -> Nat]
      /\ NoRowUpdated /\ UNCHANGED <<kind, backend, drafts, strays, crashes>>
  BY SubmitFacts
<1>2. CASE \E verdict \in {"retryable", "final"} : workers' = Raise(w, verdict)
  BY <1>1, <1>2, RaiseBase DEF Busy, BaseInv, TypeOK
<1>3. CASE /\ workers' \in [Workers -> Worker]
           /\ \A v \in Workers : v # w => workers'[v] = workers[v]
           /\ workers'[w].at \in {"poll", "record"} /\ workers'[w].job = j
  <2>1. Typed(w)'
    BY <1>1, <1>3 DEF Typed, Busy
  <2>2. QED
    BY <1>1, <1>3, <2>1, WorkerStep DEF BaseInv, TypeOK
<1>4. QED
  BY <1>2, <1>3, SubmitFacts

\* The points a run goes on to from one that only waits or looks.
Onward(w, point) ==
    LET x == workers[w] IN
    \/ x.at = "prepare" /\ x.task = NoTask /\ point = "submit" /\ Asked(w) # "disabled"
    \/ x.at = "prepare" /\ x.task # NoTask /\ point = "poll"
    \/ x.at = "poll" /\ provider[x.task].state = "succeeded" /\ point = "transfer"
    \/ x.at = "transfer" /\ kind[x.job] = "dialogue" /\ point = "sync"
    \/ x.at \in {"transfer", "sync"} /\ point = "store"

Looks(w) ==
    \/ Prepare(w) \/ SubmitRefused(w) \/ Poll(w) \/ PollBreaks(w) \/ Transfer(w) \/ Sync(w)

\* Whatever a run asks for, it goes on or it fails.
LEMMA LooksFacts ==
    ASSUME BaseInv, NEW w \in Workers, Looks(w)
    PROVE  /\ workers[w].at \in {"prepare"} \cup Waits
           /\ NoRowUpdated /\ UNCHANGED <<kind, backend, provider, drafts, strays, lost, crashes>>
           /\ \/ \E verdict \in {"retryable", "final"} : workers' = Raise(w, verdict)
              \/ \E point \in Points : Onward(w, point) /\ workers' = GoTo(w, point)
<1>1. CASE Prepare(w)
  BY <1>1 DEF Prepare, Onward, Points, Waits
<1>2. CASE SubmitRefused(w)
  BY <1>2, VerdictType DEF SubmitRefused, Waits
<1>3. CASE Poll(w)
  <2>1. /\ workers[w].at = "poll"
        /\ NoRowUpdated /\ UNCHANGED <<kind, backend, provider, drafts, strays, lost, crashes>>
    BY <1>3 DEF Poll
  <2>2. \/ provider[workers[w].task].state = "succeeded" /\ workers' = GoTo(w, "transfer")
        \/ \E verdict \in {"retryable", "final"} : workers' = Raise(w, verdict)
    BY <1>3, VerdictType DEF Poll
  <2>3. QED
    BY <2>1, <2>2 DEF Onward, Points, Waits
<1>4. CASE PollBreaks(w)
  BY <1>4, VerdictType DEF PollBreaks, Waits
<1>5. CASE Transfer(w)
  BY <1>5 DEF Transfer, Onward, Points, Waits
<1>6. CASE Sync(w)
  BY <1>6 DEF Sync, Onward, Points, Waits
<1>7. QED
  BY <1>1, <1>2, <1>3, <1>4, <1>5, <1>6 DEF Looks

LEMMA LooksBase == ASSUME BaseInv, NEW w \in Workers, Looks(w) PROVE BaseInv'
<1>1. /\ workers[w].at \in {"prepare"} \cup Waits
      /\ NoRowUpdated /\ UNCHANGED <<kind, backend, provider, drafts, strays, lost, crashes>>
  BY LooksFacts
<1>2. Busy(w)
  BY <1>1 DEF Busy, Waits
<1>3. ASSUME NEW verdict \in {"retryable", "final"}, workers' = Raise(w, verdict)
      PROVE  BaseInv'
  BY <1>1, <1>2, <1>3, RaiseBase DEF BaseInv, TypeOK
<1>4. ASSUME NEW point \in Points, Onward(w, point), workers' = GoTo(w, point)
      PROVE  BaseInv'
  <2>1. point # "release" /\ (point = "submit" => Asked(w) # "disabled")
    BY <1>4 DEF Onward
  <2>2. QED
    BY <1>1, <1>2, <1>4, <2>1, GoToBase
<1>5. QED
  BY <1>3, <1>4, LooksFacts

\* The id reaches the row, or the submission is lost.
LEMMA RecordFacts ==
    ASSUME BaseInv, NEW w \in Workers, Record(w)
    PROVE  LET j == workers[w].job
               r == TaskRecorded(jobs[j], workers[w].task) IN
           /\ workers[w].at = "record" /\ j \in JobIds
           /\ UNCHANGED <<kind, backend, provider, drafts, strays, crashes>>
           /\ \/ /\ UpdateRow(j, r)
                 /\ r \in Row /\ r.max = jobs[j].max /\ r.attempts = jobs[j].attempts
                 /\ r.status = jobs[j].status /\ r.worker = jobs[j].worker
                 /\ r.task = workers[w].task
                 /\ workers' = GoTo(w, "poll")
                 /\ UNCHANGED lost
              \/ /\ NoRowUpdated
                 /\ workers' = Raise(w, "retryable")
                 /\ lost' = [lost EXCEPT ![j] = @ + 1]
<1> DEFINE j == workers[w].job
<1>1. workers[w].at = "record"
  BY DEF Record
<1>2. workers[w].task \in Tasks \cup {NoTask} /\ j \in JobIds /\ jobs[j] \in Row
  BY <1>1, BusyFacts DEF Busy, Worker
<1>3. /\ UNCHANGED <<kind, backend, provider, drafts, strays, crashes>>
      /\ \/ /\ UpdateRow(j, TaskRecorded(jobs[j], workers[w].task))
            /\ workers' = GoTo(w, "poll")
            /\ UNCHANGED lost
         \/ /\ NoRowUpdated
            /\ workers' = Raise(w, "retryable")
            /\ lost' = [lost EXCEPT ![j] = @ + 1]
  BY DEF Record
<1>4. QED
  BY <1>1, <1>2, <1>3, RecordedRow

LEMMA RecordBase == ASSUME BaseInv, NEW w \in Workers, Record(w) PROVE BaseInv'
<1> DEFINE j == workers[w].job
           r == TaskRecorded(jobs[j], workers[w].task)
<1>1. /\ workers[w].at = "record" /\ j \in JobIds /\ TypeOK
      /\ UNCHANGED <<kind, backend, provider, drafts, strays, crashes>>
  BY RecordFacts DEF BaseInv
<1>2. CASE /\ UpdateRow(j, r)
           /\ r \in Row /\ r.max = jobs[j].max /\ r.attempts = jobs[j].attempts
           /\ workers' = GoTo(w, "poll")
           /\ UNCHANGED lost
  <2>1. /\ workers' \in [Workers -> Worker]
        /\ \A v \in Workers : v # w => workers'[v] = workers[v]
        /\ workers'[w].at = "poll" /\ workers'[w].job = j
    BY <1>1, <1>2, GoToFacts DEF Points, Waits
  <2>2. Typed(w)'
    BY <1>1, <2>1 DEF Typed, Busy
  <2> HIDE DEF r
  <2>3. QED
    BY <1>1, <1>2, <2>1, <2>2, WorkerStep DEF TypeOK
<1>3. CASE /\ NoRowUpdated
           /\ workers' = Raise(w, "retryable")
           /\ lost' = [lost EXCEPT ![j] = @ + 1]
  <2>1. lost' \in [JobIds -> Nat] /\ Busy(w)
    BY <1>1, <1>3 DEF TypeOK, Busy
  <2>2. QED
    BY <1>1, <1>3, <2>1, RaiseBase DEF TypeOK
<1>4. QED
  BY <1>2, <1>3, RecordFacts

\* A result is stored, and the run goes on to complete its job or strays.
LEMMA StoreFacts ==
    ASSUME BaseInv, NEW w \in Workers, Store(w)
    PROVE  LET j == workers[w].job IN
           /\ workers[w].at = "store" /\ j \in JobIds
           /\ NoRowUpdated /\ UNCHANGED <<kind, backend, provider, lost, crashes>>
           /\ drafts' \in [JobIds -> Nat] /\ strays' \in [JobIds -> Nat]
           /\ \/ /\ drafts' = [drafts EXCEPT ![j] = @ + 1] /\ UNCHANGED strays
                 /\ workers' = GoTo(w, "complete")
              \/ /\ drafts' = [drafts EXCEPT ![j] = @ + 1]
                 /\ strays' = [strays EXCEPT ![j] = @ + 1]
                 /\ workers' = Raise(w, "retryable")
              \/ UNCHANGED <<drafts, strays>> /\ workers' = Raise(w, "retryable")
<1>1. workers[w].at = "store"
  BY DEF Store
<1>2. workers[w].job \in JobIds /\ drafts \in [JobIds -> Nat] /\ strays \in [JobIds -> Nat]
  BY <1>1, BusyFacts DEF Busy, BaseInv, TypeOK
<1>3. QED
  BY <1>1, <1>2 DEF Store

LEMMA StoreBase == ASSUME BaseInv, NEW w \in Workers, Store(w) PROVE BaseInv'
<1>1. /\ workers[w].at = "store" /\ NoRowUpdated
      /\ UNCHANGED <<kind, backend, provider, lost, crashes>>
      /\ drafts' \in [JobIds -> Nat] /\ strays' \in [JobIds -> Nat]
  BY StoreFacts
<1>2. TypeOK /\ Busy(w)
  BY <1>1 DEF BaseInv, Busy
<1>3. CASE workers' = Raise(w, "retryable")
  BY <1>1, <1>2, <1>3, RaiseBase DEF TypeOK
<1>4. CASE workers' = GoTo(w, "complete")
  <2>1. /\ workers' \in [Workers -> Worker]
        /\ \A v \in Workers : v # w => workers'[v] = workers[v]
        /\ workers'[w].at = "complete" /\ workers'[w].job = workers[w].job
    BY <1>2, <1>4, GoToFacts DEF Points
  <2>2. Typed(w)'
    BY <1>1, <1>2, <2>1 DEF BaseInv, Typed, Busy
  <2>3. QED
    BY <1>1, <1>2, <2>1, <2>2, WorkerStep DEF TypeOK
<1>5. QED
  BY <1>3, <1>4, StoreFacts

LEMMA CompleteFacts ==
    ASSUME BaseInv, NEW w \in Workers, Complete(w)
    PROVE  LET j == workers[w].job
               r == Completed(jobs[j]) IN
           /\ workers[w].at = "complete" /\ j \in JobIds
           /\ UNCHANGED <<kind, backend, provider, drafts, lost, crashes>>
           /\ \/ /\ UpdateRow(j, r)
                 /\ r \in Row /\ r.max = jobs[j].max /\ r.attempts = jobs[j].attempts
                 /\ r.status = "completed" /\ r.task = jobs[j].task
                 /\ workers' = [workers EXCEPT ![w] = At("idle")]
                 /\ UNCHANGED strays
              \/ /\ NoRowUpdated
                 /\ workers' = Raise(w, "retryable")
                 /\ strays' = [strays EXCEPT ![j] = @ + 1]
<1> DEFINE j == workers[w].job
<1>1. workers[w].at = "complete"
  BY DEF Complete
<1>2. j \in JobIds /\ jobs[j] \in Row
  BY <1>1, BusyFacts DEF Busy
<1>3. /\ UNCHANGED <<kind, backend, provider, drafts, lost, crashes>>
      /\ \/ /\ UpdateRow(j, Completed(jobs[j]))
            /\ workers' = [workers EXCEPT ![w] = At("idle")]
            /\ UNCHANGED strays
         \/ /\ NoRowUpdated
            /\ workers' = Raise(w, "retryable")
            /\ strays' = [strays EXCEPT ![j] = @ + 1]
  BY DEF Complete
<1>4. QED
  BY <1>1, <1>2, <1>3, CompletedRow

LEMMA CompleteBase == ASSUME BaseInv, NEW w \in Workers, Complete(w) PROVE BaseInv'
<1> DEFINE j == workers[w].job
           r == Completed(jobs[j])
<1>1. /\ workers[w].at = "complete" /\ j \in JobIds /\ TypeOK
      /\ UNCHANGED <<kind, backend, provider, drafts, lost, crashes>>
  BY CompleteFacts DEF BaseInv
<1>2. CASE /\ UpdateRow(j, r)
           /\ r \in Row /\ r.max = jobs[j].max /\ r.attempts = jobs[j].attempts
           /\ workers' = [workers EXCEPT ![w] = At("idle")]
           /\ UNCHANGED strays
  <2>1. /\ workers' \in [Workers -> Worker]
        /\ \A v \in Workers : v # w => workers'[v] = workers[v]
        /\ Typed(w)'
    BY <1>1, <1>2, ClearedWorker
  <2> HIDE DEF r
  <2>2. QED
    BY <1>1, <1>2, <2>1, WorkerStep DEF TypeOK
<1>3. CASE /\ NoRowUpdated /\ workers' = Raise(w, "retryable")
           /\ strays' = [strays EXCEPT ![j] = @ + 1]
  <2>1. strays' \in [JobIds -> Nat] /\ Busy(w)
    BY <1>1, <1>3 DEF TypeOK, Busy
  <2>2. QED
    BY <1>1, <1>3, <2>1, RaiseBase DEF TypeOK
<1>4. QED
  BY <1>2, <1>3, CompleteFacts

\* fail_job decides from the row it reads.
LEMMA ReadForFailFacts ==
    ASSUME BaseInv, NEW w \in Workers, ReadForFail(w)
    PROVE  LET j == workers[w].job IN
           /\ workers[w].at = "failing" /\ j \in JobIds
           /\ workers' \in [Workers -> Worker]
           /\ \A v \in Workers : v # w => workers'[v] = workers[v]
           /\ workers'[w].at = "release" /\ workers'[w].job = j
           /\ workers'[w].left = workers[w].left
           /\ workers'[w].verdict \in {"retrying", "failed"}
           /\ workers'[w].verdict = "retrying" => HasBudget(jobs[j])
<1> DEFINE j == workers[w].job
           status == FailureStatus(jobs[j], workers[w].verdict = "retryable")
           x == [workers[w] EXCEPT !.at = "release", !.verdict = status]
<1>1. workers[w].at = "failing" /\ workers' = [workers EXCEPT ![w] = x]
  BY DEF ReadForFail
<1>2. workers[w] \in Worker /\ j \in JobIds
  BY <1>1, BusyFacts DEF Busy
<1>3. status \in {"retrying", "failed"} /\ (status = "retrying" => HasBudget(jobs[j]))
  BY DEF FailureStatus
<1> HIDE DEF status, j
<1>4. /\ x \in Worker /\ x.at = "release" /\ x.job = j /\ x.left = workers[w].left
      /\ x.verdict = status
  BY <1>2, <1>3 DEF Worker, Points, j
<1> HIDE DEF x
<1>5. /\ workers' \in [Workers -> Worker] /\ workers'[w] = x
      /\ \A v \in Workers : v # w => workers'[v] = workers[v]
  BY <1>1, <1>4 DEF BaseInv, TypeOK
<1>6. QED
  BY <1>1, <1>2, <1>3, <1>4, <1>5 DEF j

LEMMA ReadForFailBase == ASSUME BaseInv, NEW w \in Workers, ReadForFail(w) PROVE BaseInv'
<1>1. NoRowUpdated /\ UNCHANGED <<kind, backend, provider, drafts, strays, lost, crashes>>
  BY DEF ReadForFail
<1>2. Typed(w)'
  BY ReadForFailFacts, <1>1 DEF Typed, Busy, NoRowUpdated
<1>3. QED
  BY <1>1, <1>2, ReadForFailFacts, WorkerStep DEF BaseInv, TypeOK

LEMMA WriteFailFacts ==
    ASSUME BaseInv, NEW w \in Workers, WriteFail(w)
    PROVE  LET j == workers[w].job
               r == Released(jobs[j], workers[w].verdict) IN
           /\ workers[w].at = "release" /\ j \in JobIds
           /\ workers[w].verdict \in {"retrying", "failed"}
           /\ UNCHANGED <<kind, backend, provider, drafts, strays, lost, crashes>>
           /\ UpdateRow(j, r)
           /\ r \in Row /\ r.max = jobs[j].max /\ r.attempts = jobs[j].attempts
           /\ r.status = workers[w].verdict /\ r.task = jobs[j].task
           /\ workers' = [workers EXCEPT ![w] = At("idle")]
<1> DEFINE j == workers[w].job
<1>1. workers[w].at = "release"
  BY DEF WriteFail
<1>2. j \in JobIds /\ jobs[j] \in Row /\ workers[w].verdict \in {"retrying", "failed"}
  BY <1>1, BusyFacts DEF Busy, BaseInv, Typed
<1>3. /\ UNCHANGED <<kind, backend, provider, drafts, strays, lost, crashes>>
      /\ UpdateRow(j, Released(jobs[j], workers[w].verdict))
      /\ workers' = [workers EXCEPT ![w] = At("idle")]
  BY DEF WriteFail
<1>4. QED
  BY <1>1, <1>2, <1>3, ReleasedRow

LEMMA WriteFailBase == ASSUME BaseInv, NEW w \in Workers, WriteFail(w) PROVE BaseInv'
<1> DEFINE j == workers[w].job
           r == Released(jobs[j], workers[w].verdict)
<1>1. /\ j \in JobIds /\ TypeOK
      /\ UNCHANGED <<kind, backend, provider, drafts, strays, lost, crashes>>
      /\ UpdateRow(j, r)
      /\ r \in Row /\ r.max = jobs[j].max /\ r.attempts = jobs[j].attempts
      /\ workers' = [workers EXCEPT ![w] = At("idle")]
  BY WriteFailFacts DEF BaseInv
<1>2. /\ workers' \in [Workers -> Worker]
      /\ \A v \in Workers : v # w => workers'[v] = workers[v]
      /\ Typed(w)'
  BY <1>1, ClearedWorker
<1> HIDE DEF r
<1>3. QED
  BY <1>1, <1>2, WorkerStep DEF TypeOK

\* A crash and a restart.
LEMMA ProcessBase ==
    ASSUME BaseInv, NEW w \in Workers, Crash(w) \/ Restart(w)
    PROVE  BaseInv'
<1>1. TypeOK
  BY DEF BaseInv
<1>2. CASE Crash(w)
  <2>1. /\ workers' = [workers EXCEPT ![w] = At("down")]
        /\ NoRowUpdated /\ UNCHANGED <<kind, backend, provider, drafts>>
        /\ crashes' = crashes + 1 /\ crashes < MaxCrashes
        /\ lost' = IF workers[w].at = "record" THEN [lost EXCEPT ![workers[w].job] = @ + 1] ELSE lost
        /\ strays' = IF workers[w].at = "complete"
                     THEN [strays EXCEPT ![workers[w].job] = @ + 1] ELSE strays
    BY <1>2 DEF Crash
  <2>2. /\ lost' \in [JobIds -> Nat] /\ strays' \in [JobIds -> Nat]
        /\ crashes' \in 0..MaxCrashes
    <3>1. lost' \in [JobIds -> Nat] /\ strays' \in [JobIds -> Nat]
      <4> DEFINE j == workers[w].job
      <4>1. workers[w].at \in {"record", "complete"} => j \in JobIds
        BY BusyFacts DEF Busy
      <4>2. /\ lost' = IF workers[w].at = "record" THEN [lost EXCEPT ![j] = @ + 1] ELSE lost
            /\ strays' = IF workers[w].at = "complete"
                         THEN [strays EXCEPT ![j] = @ + 1] ELSE strays
        BY <2>1
      <4>3. lost \in [JobIds -> Nat] /\ strays \in [JobIds -> Nat]
        BY <1>1 DEF TypeOK
      <4> HIDE DEF j
      <4>4. /\ workers[w].at = "record" => [lost EXCEPT ![j] = @ + 1] \in [JobIds -> Nat]
            /\ workers[w].at = "complete" => [strays EXCEPT ![j] = @ + 1] \in [JobIds -> Nat]
        BY <4>1, <4>3
      <4>5. QED
        BY <4>2, <4>3, <4>4
    <3>2. crashes \in 0..MaxCrashes
      BY <1>1 DEF TypeOK
    <3>3. QED
      BY <2>1, <3>1, <3>2, Times
  <2>3. /\ workers' \in [Workers -> Worker]
        /\ \A v \in Workers : v # w => workers'[v] = workers[v]
        /\ Typed(w)'
    BY <1>1, <2>1, ClearedWorker
  <2>4. QED
    BY <1>1, <2>1, <2>2, <2>3, WorkerStep DEF TypeOK
<1>3. CASE Restart(w)
  <2>1. PICK p \in Backends : backend' = [backend EXCEPT ![w] = p]
    BY <1>3 DEF Restart
  <2>2. /\ workers' = [workers EXCEPT ![w] = Booted(w)]
        /\ NoRowUpdated /\ UNCHANGED <<kind, provider, drafts, strays, lost, crashes>>
    BY <1>3 DEF Restart, NoRowUpdated
  <2>3. \E point \in {"idle", "sweep", "down"} : workers' = [workers EXCEPT ![w] = At(point)]
    BY <2>2 DEF Booted
  <2>4. /\ workers' \in [Workers -> Worker]
        /\ \A v \in Workers : v # w => workers'[v] = workers[v]
        /\ Typed(w)'
    BY <1>1, <2>3, ClearedWorker
  <2>5. /\ backend' \in [Workers -> Backends]
        /\ \A v \in Workers : v # w => backend'[v] = backend[v]
    BY <1>1, <2>1 DEF TypeOK
  <2>6. QED
    BY <1>1, <2>2, <2>4, <2>5, WorkerStep DEF TypeOK
<1>4. QED
  BY <1>2, <1>3

LEMMA RetryFacts ==
    ASSUME BaseInv, NEW j \in JobIds, Retry(j)
    PROVE  LET r == Released(jobs[j], "retrying") IN
           /\ jobs[j].status = "failed" /\ HasBudget(jobs[j])
           /\ UpdateRow(j, r)
           /\ r \in Row /\ r.max = jobs[j].max /\ r.attempts = jobs[j].attempts
           /\ r.status = "retrying" /\ r.task = jobs[j].task
           /\ UNCHANGED <<workers, kind, backend, provider, drafts, strays, lost, crashes>>
BY ReleasedRow DEF Retry, BaseInv, TypeOK

\* A tick takes time from the busy workers, who have some left.
LEMMA TickFacts ==
    ASSUME BaseInv, Tick
    PROVE  /\ workers' \in [Workers -> Worker]
           /\ \A w \in Workers :
                 /\ workers'[w].at = workers[w].at /\ workers'[w].job = workers[w].job
                 /\ workers'[w].task = workers[w].task
                 /\ workers'[w].verdict = workers[w].verdict
                 /\ Busy(w) => workers[w].left > 0 /\ workers'[w].left = workers[w].left - 1
           /\ age' \in [JobIds -> 0..(StaleAfter + 1)]
           /\ \A j \in JobIds : age'[j] <= age[j] + 1
           /\ UNCHANGED <<jobs, kind, backend, provider, drafts, strays, lost, crashes>>
<1>1. TypeOK
  BY DEF BaseInv
<1>2. ASSUME NEW w \in Workers
      PROVE  /\ workers'[w] \in Worker
             /\ workers'[w].at = workers[w].at /\ workers'[w].job = workers[w].job
             /\ workers'[w].task = workers[w].task
             /\ workers'[w].verdict = workers[w].verdict
             /\ Busy(w) => workers[w].left > 0 /\ workers'[w].left = workers[w].left - 1
  <2>1. workers[w] \in Worker
    BY <1>1 DEF TypeOK
  <2>2. workers'[w] = IF Busy(w) THEN [workers[w] EXCEPT !.left = @ - 1] ELSE workers[w]
    BY DEF Tick
  <2>3. Busy(w) => workers[w].left > 0
    BY DEF Tick
  <2>4. CASE Busy(w)
    <3>1. workers[w].left - 1 \in 0..(SubmitTime + PollTime + TransferTime + SyncTime)
      BY <2>1, <2>3, <2>4, Times DEF Worker
    <3>2. QED
      BY <2>1, <2>2, <2>3, <2>4, <3>1 DEF Worker
  <2>5. CASE ~Busy(w)
    BY <2>1, <2>2, <2>5
  <2>6. QED
    BY <2>4, <2>5
<1>3. workers' = [w \in Workers |-> workers'[w]]
  BY DEF Tick
<1>4. age' \in [JobIds -> 0..(StaleAfter + 1)] /\ \A j \in JobIds : age'[j] <= age[j] + 1
  BY <1>1, Times DEF Tick, TypeOK
<1>5. QED
  BY <1>2, <1>3, <1>4 DEF Tick

\* The operator, the provider and the clock.
LEMMA EnvironmentBase ==
    ASSUME BaseInv,
           \/ \E j \in JobIds : Retry(j)
           \/ \E t \in Tasks : ProviderFinishes(t)
           \/ Tick
    PROVE  BaseInv'
<1>1. TypeOK /\ \A w \in Workers : Typed(w)
  BY DEF BaseInv
<1>2. ASSUME NEW j \in JobIds, Retry(j) PROVE BaseInv'
  <2> DEFINE r == Released(jobs[j], "retrying")
  <2>1. /\ UpdateRow(j, r) /\ r \in Row /\ r.max = jobs[j].max /\ r.attempts = jobs[j].attempts
        /\ UNCHANGED <<workers, kind, backend, provider, drafts, strays, lost, crashes>>
    BY <1>2, RetryFacts
  <2> HIDE DEF r
  <2>2. \A w \in Workers : Typed(w)'
    BY <1>1, <2>1 DEF Typed, Busy, Asked, IsDraft
  <2>3. /\ jobs' \in [JobIds -> Row] /\ age' \in [JobIds -> 0..(StaleAfter + 1)]
        /\ \A i \in JobIds : jobs'[i].max = jobs[i].max /\ jobs'[i].attempts = jobs[i].attempts
    BY <1>1, <2>1, WriteFacts
  <2>4. QED
    BY <1>1, <2>1, <2>2, <2>3, BaseStep DEF TypeOK
<1>3. ASSUME NEW t \in Tasks, ProviderFinishes(t) PROVE BaseInv'
  <2>1. UNCHANGED <<jobs, age, workers, kind, backend, drafts, strays, lost, crashes>>
    BY <1>3 DEF ProviderFinishes
  <2>2. provider' \in [Tasks -> Task]
    BY <1>1, <1>3 DEF ProviderFinishes, TypeOK, Task
  <2>3. \A w \in Workers : Typed(w)'
    BY <1>1, <2>1 DEF Typed, Busy, Asked, IsDraft
  <2>4. QED
    BY <1>1, <2>1, <2>2, <2>3, BaseStep DEF TypeOK
<1>4. ASSUME Tick PROVE BaseInv'
  <2>1. \A w \in Workers : Typed(w)'
    BY <1>1, <1>4, TickFacts DEF Typed, Busy, Asked, IsDraft
  <2>2. QED
    BY <1>1, <1>4, <2>1, TickFacts, BaseStep DEF TypeOK
<1>5. QED
  BY <1>2, <1>3, <1>4

LEMMA StepBase == BaseInv /\ [Next]_vars => BaseInv'
<1> SUFFICES ASSUME BaseInv, [Next]_vars PROVE BaseInv'
  OBVIOUS
<1>1. CASE UNCHANGED vars
  BY <1>1 DEF vars, BaseInv, TypeOK, Typed, Busy, Asked, IsDraft
<1>2. ASSUME NEW w \in Workers, Loop(w) \/ Run(w) \/ PollBreaks(w) \/ Crash(w) \/ Restart(w)
      PROVE  BaseInv'
  <2>1. CASE Loop(w)
    BY <2>1, ClaimBase, LoopBase DEF Loop
  <2>2. CASE Looks(w)
    BY <2>2, LooksBase
  <2>3. CASE Run(w) /\ ~Looks(w)
    BY <2>3, ReadJobBase, SubmitBase, RecordBase, StoreBase, CompleteBase, ReadForFailBase,
       WriteFailBase DEF Run, Looks
  <2>4. CASE Crash(w) \/ Restart(w)
    BY <2>4, ProcessBase
  <2>5. QED
    BY <1>2, <2>1, <2>2, <2>3, <2>4 DEF Looks
<1>3. QED
  BY <1>1, <1>2, EnvironmentBase DEF Next

\* The inductive invariant that needs nothing of time.
THEOREM BaseInvariance == Spec => []BaseInv
BY InitBase, StepBase, PTL DEF Spec

\* Workers, rows and tasks stay well typed.
THEOREM TypeCorrect == Spec => []TypeOK
<1>1. BaseInv => TypeOK
  BY DEF BaseInv
<1>2. QED
  BY <1>1, BaseInvariance, PTL

-----------------------------------------------------------------------------
(* The second part: a live run owns its row. *)

LEMMA DeadlineFits ==
    ASSUME TimesFit, TypeOK, NEW j \in JobIds, NEW point
    PROVE  Deadline(point, j) \in Nat /\ Deadline(point, j) <= StaleAfter
BY Times DEF TimesFit, Deadline

\* A busy worker's row is running, its own and not too old.
LEMMA OwnedFacts ==
    ASSUME TimesFit, IInv, NEW w \in Workers, Busy(w)
    PROVE  LET j == workers[w].job IN
           /\ j \in JobIds /\ jobs[j] \in Row /\ kind[j] \in Kinds
           /\ jobs[j].status = "running" /\ jobs[j].worker = w
           /\ age[j] \in Nat /\ workers[w].left \in Nat
           /\ age[j] + workers[w].left <= Deadline(workers[w].at, j)
           /\ age[j] <= StaleAfter
           /\ \A v \in Workers : Busy(v) /\ workers[v].job = j => v = w
<1> DEFINE j == workers[w].job
<1>1. /\ j \in JobIds /\ jobs[j] \in Row /\ kind[j] \in Kinds /\ workers[w] \in Worker
  BY BusyFacts DEF IInv
<1>2. /\ jobs[j].status = "running" /\ jobs[j].worker = w
      /\ age[j] + workers[w].left <= Deadline(workers[w].at, j)
  BY DEF IInv, RunOK, OwnsRow, OnTime
<1>3. age[j] \in Nat /\ workers[w].left \in Nat
  BY <1>1, Times DEF IInv, BaseInv, TypeOK, Worker
<1>4. Deadline(workers[w].at, j) \in Nat /\ Deadline(workers[w].at, j) <= StaleAfter
  BY <1>1, DeadlineFits DEF IInv, BaseInv
<1>5. age[j] <= StaleAfter
  BY <1>2, <1>3, <1>4, Times
<1>6. \A v \in Workers : Busy(v) /\ workers[v].job = j => v = w
  BY <1>2 DEF IInv, RunOK, OwnsRow
<1>7. QED
  BY <1>1, <1>2, <1>3, <1>5, <1>6

\* Tasks stay their jobs', and a finished one stays finished.
TasksKept ==
    \A t \in Tasks : provider[t].job \in JobIds =>
        /\ provider'[t].job = provider[t].job
        /\ provider[t].state = "succeeded" => provider'[t].state = "succeeded"

\* A run that does not move while its row stays as it is.
LEMMA RunKept ==
    ASSUME IInv, NEW v \in Workers, workers'[v] = workers[v],
           Busy(v) => /\ jobs'[workers[v].job] = jobs[workers[v].job]
                      /\ age'[workers[v].job] = age[workers[v].job],
           \A i \in JobIds : drafts'[i] \in Nat /\ drafts'[i] >= drafts[i],
           TasksKept, UNCHANGED kind
    PROVE  RunOK(v)'
<1> SUFFICES ASSUME Busy(v)' PROVE (OwnsRow(v) /\ OnTime(v) /\ FollowsTask(v) /\ MayEnd(v))'
  BY DEF RunOK
<1> DEFINE j == workers[v].job
<1>1. /\ Busy(v) /\ j \in JobIds
      /\ OwnsRow(v) /\ OnTime(v) /\ FollowsTask(v) /\ MayEnd(v)
  BY BusyFacts DEF IInv, RunOK, Busy
<1>2. OwnsRow(v)'
  BY <1>1 DEF OwnsRow
<1>3. OnTime(v)'
  BY <1>1 DEF OnTime, Deadline, IsImage
<1>4. FollowsTask(v)'
  BY <1>1 DEF FollowsTask, TasksKept, IsImage, Following, Fetched
<1>5. MayEnd(v)'
  <2>1. drafts[j] \in Nat /\ drafts'[j] \in Nat /\ drafts'[j] >= drafts[j]
    BY <1>1 DEF IInv, BaseInv, TypeOK
  <2>2. QED
    BY <1>1, <2>1 DEF MayEnd
<1>6. QED
  BY <1>2, <1>3, <1>4, <1>5

\* A job whose task id and submissions stay as they are.
LEMMA JobKept ==
    ASSUME IInv, NEW i \in JobIds,
           jobs'[i].task = jobs[i].task, jobs[i] \in Row,
           jobs'[i].status = "completed" => jobs[i].status = "completed",
           \A v \in Workers : workers[v].at = "record" /\ workers[v].job = i =>
                workers'[v].at = "record" /\ workers'[v].job = i,
           lost'[i] \in Nat, lost'[i] >= lost[i],
           \A t \in Tasks : provider'[t].job = i <=> provider[t].job = i,
           TasksKept, UNCHANGED kind
    PROVE  JobOK(i)'
<1> SUFFICES ASSUME ~IsImage(i) PROVE BillOK(i)' /\ RecordedOK(i)'
  BY DEF JobOK, IsImage
<1>1. BillOK(i) /\ RecordedOK(i)
  BY DEF IInv, JobOK
<1>2. Submissions(i)' = Submissions(i)
  BY DEF Submissions
<1>3. Known(i) => Known(i)'
  BY DEF Known
<1>4. lost[i] \in Nat
  BY DEF IInv, BaseInv, TypeOK
<1>5. BillOK(i)'
  <2>1. IsFiniteSet(Submissions(i)) /\ Cardinality(Submissions(i)) \in Nat
    BY <1>1, FS_CardinalityType DEF BillOK
  <2>2. Cardinality(Submissions(i)) <= lost[i] + (IF Known(i) THEN 1 ELSE 0)
    BY <1>1 DEF BillOK
  <2>3. Cardinality(Submissions(i)) <= lost'[i] + (IF Known(i)' THEN 1 ELSE 0)
    BY <1>3, <1>4, <2>1, <2>2
  <2>4. QED
    BY <1>2, <2>1, <2>3 DEF BillOK
<1>6. RecordedOK(i)'
  <2>1. jobs[i].task # NoTask => jobs[i].task \in Tasks
    BY DEF Row
  <2>2. QED
    BY <1>1, <2>1 DEF RecordedOK, TasksKept
<1>7. QED
  BY <1>5, <1>6

\* One worker moves; it may write the row of its job, which no other live
\* run is of.
LEMMA LiveStep ==
    ASSUME IInv, BaseInv', NEW w \in Workers,
           \A v \in Workers : v # w => workers'[v] = workers[v],
           \A v \in Workers : v # w /\ Busy(v) =>
               /\ jobs'[workers[v].job] = jobs[workers[v].job]
               /\ age'[workers[v].job] = age[workers[v].job],
           \A i \in JobIds : drafts'[i] >= drafts[i],
           TasksKept, UNCHANGED kind,
           RunOK(w)',
           \A i \in JobIds : JobOK(i)'
    PROVE  IInv'
<1>1. \A i \in JobIds : drafts'[i] \in Nat
  BY DEF BaseInv, TypeOK
<1>2. ASSUME NEW v \in Workers, v # w PROVE RunOK(v)'
  BY <1>1, <1>2, RunKept
<1>3. QED
  BY <1>2 DEF IInv

\* The same for a worker that leaves every row and task as it is.
LEMMA QuietStep ==
    ASSUME IInv, BaseInv', NEW w \in Workers,
           \A v \in Workers : v # w => workers'[v] = workers[v],
           workers[w].at # "record",
           NoRowUpdated, UNCHANGED <<kind, provider, lost>>,
           \A i \in JobIds : drafts'[i] >= drafts[i],
           RunOK(w)'
    PROVE  IInv'
<1>1. TasksKept
  BY DEF TasksKept
<1>2. \A i \in JobIds : jobs[i] \in Row /\ lost[i] \in Nat
  BY DEF IInv, BaseInv, TypeOK
<1>3. ASSUME NEW i \in JobIds PROVE JobOK(i)'
  BY <1>1, <1>2, JobKept DEF NoRowUpdated
<1>4. QED
  BY <1>1, <1>3, LiveStep DEF NoRowUpdated

\* A run that fails still owns its row.
LEMMA RaiseRun ==
    ASSUME TimesFit, IInv, NEW w \in Workers, Busy(w), NEW verdict \in {"retryable", "final"},
           workers' = Raise(w, verdict), NoRowUpdated, UNCHANGED kind
    PROVE  RunOK(w)'
<1> DEFINE j == workers[w].job
<1>1. TypeOK
  BY DEF IInv, BaseInv
<1>2. workers'[w].at = "failing" /\ workers'[w].job = j /\ workers'[w].left = 0
  BY <1>1, RaiseFacts
<1>3. /\ jobs[j].status = "running" /\ jobs[j].worker = w
      /\ age[j] \in Nat /\ age[j] <= StaleAfter
  BY OwnedFacts
<1>4. OwnsRow(w)'
  BY <1>2, <1>3 DEF OwnsRow, NoRowUpdated
<1>5. OnTime(w)'
  BY <1>2, <1>3 DEF OnTime, Deadline, NoRowUpdated
<1>6. FollowsTask(w)' /\ MayEnd(w)'
  BY <1>2 DEF FollowsTask, MayEnd, Following, Fetched
<1>7. QED
  BY <1>4, <1>5, <1>6 DEF RunOK

\* Nobody runs yet, and nothing was submitted.
LEMMA InitIInv == Init => IInv
<1> SUFFICES ASSUME Init PROVE IInv
  OBVIOUS
<1>1. BaseInv
  BY InitBase
<1>2. \A w \in Workers : ~Busy(w)
  <2>1. \A w \in Workers : Booted(w).at \in {"sweep", "idle"}
    BY AtFacts DEF Booted, Points
  <2>2. QED
    BY <2>1 DEF Init, Busy
<1>3. ASSUME NEW j \in JobIds PROVE JobOK(j)
  <2>1. Submissions(j) = {}
    BY DEF Init, Submissions, Unused, NoJob, JobIds
  <2>2. jobs[j].task = NoTask /\ jobs[j].status = "queued"
    <3>1. Absent \in [status : {"absent"}, attempts : {0}, max : {0}, worker : {NoWorker},
                      task : {NoTask}, finished : {FALSE}]
      BY DEF Absent
    <3>2. NewRow(Budget).task = NoTask /\ NewRow(Budget).status = "queued"
      BY <3>1 DEF NewRow
    <3>3. QED
      BY <3>2 DEF Init
  <2>3. BillOK(j)
    BY <2>1, FS_EmptySet DEF BillOK, Init
  <2>4. RecordedOK(j)
    BY <2>2 DEF RecordedOK
  <2>5. QED
    BY <2>3, <2>4 DEF JobOK
<1>4. QED
  BY <1>1, <1>2, <1>3 DEF IInv, RunOK

\* A waiting job has no live run.
LEMMA ClaimLive ==
    ASSUME TimesFit, IInv, NEW w \in Workers, Claim(w) PROVE IInv'
<1>1. TypeOK /\ BaseInv'
  BY ClaimBase DEF IInv, BaseInv
<1>2. PICK j \in JobIds :
          /\ Claimable(jobs[j])
          /\ UpdateRow(j, Claimed(jobs[j], w))
          /\ workers' = [workers EXCEPT ![w] = [At("claimed") EXCEPT !.job = j]]
  BY DEF Claim
<1> DEFINE x == [At("claimed") EXCEPT !.job = j]
           r == Claimed(jobs[j], w)
<1>3. x \in Worker /\ x.at = "claimed" /\ x.job = j /\ x.left = 0
  BY AtFacts DEF Points, Worker
<1> HIDE DEF x
<1>4. /\ workers'[w] = x
      /\ \A v \in Workers : v # w => workers'[v] = workers[v]
  BY <1>1, <1>2 DEF x, TypeOK
<1>5. jobs[j] \in Row
  BY <1>1 DEF TypeOK
<1>6. r \in Row /\ r.status = "running" /\ r.worker = w /\ r.task = jobs[j].task
  BY <1>5, ClaimedRow
<1> HIDE DEF r
<1>7. /\ jobs'[j] = r /\ age'[j] = 0
      /\ \A i \in JobIds : i # j => jobs'[i] = jobs[i] /\ age'[i] = age[i]
  BY <1>1, <1>2, <1>6, WriteFacts DEF r
<1>8. UNCHANGED <<kind, backend, provider, drafts, strays, lost, crashes>> /\ workers[w].at = "idle"
  BY DEF Claim
<1>9. \A v \in Workers : Busy(v) => workers[v].job \in JobIds \ {j}
  BY <1>2, OwnedFacts DEF Claimable, Waiting
<1>10. RunOK(w)'
  <2>1. OwnsRow(w)'
    BY <1>3, <1>4, <1>6, <1>7 DEF OwnsRow
  <2>2. OnTime(w)'
    BY <1>3, <1>4, <1>7 DEF OnTime, Deadline
  <2>3. FollowsTask(w)' /\ MayEnd(w)'
    BY <1>3, <1>4 DEF FollowsTask, MayEnd, Following, Fetched
  <2>4. QED
    BY <2>1, <2>2, <2>3 DEF RunOK
<1>11. TasksKept
  BY <1>8 DEF TasksKept
<1>12. ASSUME NEW i \in JobIds PROVE JobOK(i)'
  <2>1. /\ jobs[i] \in Row /\ lost[i] \in Nat
        /\ jobs'[i].task = jobs[i].task
        /\ jobs'[i].status = "completed" => jobs[i].status = "completed"
    BY <1>1, <1>6, <1>7 DEF TypeOK
  <2>2. \A v \in Workers : workers[v].at = "record" => workers'[v] = workers[v]
    BY <1>4, <1>8
  <2>3. QED
    BY <1>8, <1>11, <2>1, <2>2, JobKept
<1>13. \A i \in JobIds : drafts'[i] >= drafts[i]
  BY <1>1, <1>8 DEF TypeOK
<1>14. QED
  BY <1>1, <1>4, <1>7, <1>8, <1>9, <1>10, <1>11, <1>12, <1>13, LiveStep

\* A worker that is not busy afterwards owes nothing.
LEMMA ClearedRun ==
    ASSUME NEW w \in Workers, NEW point \in {"idle", "sweep", "down"},
           TypeOK, workers' = [workers EXCEPT ![w] = At(point)]
    PROVE  /\ \A v \in Workers : v # w => workers'[v] = workers[v]
           /\ RunOK(w)'
BY ClearedWorker DEF RunOK

\* The sweep takes no job from a live run.
LEMMA SweepLive ==
    ASSUME TimesFit, IInv, NEW w \in Workers, Sweep(w)
    PROVE  /\ IInv'
           /\ \A v \in Workers : Busy(v) => ~Stale(workers[v].job)
<1>1. TypeOK /\ BaseInv'
  BY LoopBase DEF IInv, BaseInv
<1>2. /\ workers[w].at = "sweep" /\ workers' = [workers EXCEPT ![w] = At("idle")]
      /\ UNCHANGED <<kind, backend, provider, drafts, strays, lost, crashes>>
  BY DEF Sweep
<1>3. /\ \A v \in Workers : v # w => workers'[v] = workers[v]
      /\ RunOK(w)'
  BY <1>1, <1>2, ClearedRun
<1>4. ASSUME NEW v \in Workers, Busy(v)
      PROVE  workers[v].job \in JobIds /\ ~Stale(workers[v].job)
  BY <1>4, OwnedFacts, Times DEF Stale
<1>5. ASSUME NEW v \in Workers, Busy(v)
      PROVE  /\ jobs'[workers[v].job] = jobs[workers[v].job]
             /\ age'[workers[v].job] = age[workers[v].job]
  BY <1>4, <1>5 DEF Sweep
<1>6. TasksKept
  BY <1>2 DEF TasksKept
<1>7. ASSUME NEW i \in JobIds PROVE JobOK(i)'
  <2>1. jobs[i] \in Row /\ lost[i] \in Nat
    BY <1>1 DEF TypeOK
  <2> DEFINE status == FailureStatus(jobs[i], TRUE)
             r == Released(jobs[i], status)
  <2>2. status \in {"retrying", "failed"}
    BY FailureStatusType
  <2> HIDE DEF status
  <2>3. r.task = jobs[i].task /\ r.status = status
    BY <2>1, <2>2, ReleasedRow
  <2> HIDE DEF r
  <2>4. jobs'[i] = IF Stale(i) THEN r ELSE jobs[i]
    BY DEF Sweep, r, status
  <2>5. /\ jobs'[i].task = jobs[i].task
        /\ jobs'[i].status = "completed" => jobs[i].status = "completed"
    BY <2>2, <2>3, <2>4
  <2>6. \A v \in Workers : workers[v].at = "record" => workers'[v] = workers[v]
    BY <1>2, <1>3
  <2>7. QED
    BY <1>2, <1>6, <2>1, <2>5, <2>6, JobKept
<1>8. \A i \in JobIds : drafts'[i] >= drafts[i]
  BY <1>1, <1>2 DEF TypeOK
<1>9. QED
  BY <1>1, <1>2, <1>3, <1>4, <1>5, <1>6, <1>7, <1>8, LiveStep

LEMMA FindNothingLive ==
    ASSUME IInv, NEW w \in Workers, FindNothing(w) PROVE IInv'
<1>1. TypeOK /\ BaseInv'
  BY LoopBase DEF IInv, BaseInv
<1>2. /\ workers[w].at = "idle" /\ workers' = [workers EXCEPT ![w] = At("sweep")]
      /\ NoRowUpdated /\ UNCHANGED <<kind, provider, drafts, strays, lost>>
  BY DEF FindNothing, NoRowUpdated
<1>3. \A i \in JobIds : drafts'[i] >= drafts[i]
  BY <1>1, <1>2 DEF TypeOK
<1>4. QED
  BY <1>1, <1>2, <1>3, ClearedRun, QuietStep

LEMMA ReadJobLive ==
    ASSUME TimesFit, IInv, NEW w \in Workers, ReadJob(w) PROVE IInv'
<1> DEFINE j == workers[w].job
<1>1. BaseInv /\ BaseInv' /\ TypeOK
  BY ReadJobBase DEF IInv, BaseInv
<1>2. /\ workers[w].at = "claimed" /\ j \in JobIds
      /\ \A v \in Workers : v # w => workers'[v] = workers[v]
      /\ workers'[w].at = "prepare" /\ workers'[w].job = j
      /\ workers'[w].left = workers[w].left
      /\ workers'[w].task = IF IsImage(j) THEN NoTask ELSE jobs[j].task
  BY <1>1, ReadJobFacts
<1>3. NoRowUpdated /\ UNCHANGED <<kind, provider, drafts, strays, lost>>
  BY DEF ReadJob
<1>4. OwnsRow(w) /\ OnTime(w)
  BY <1>2 DEF IInv, RunOK, Busy
<1>5. RunOK(w)'
  <2>1. OwnsRow(w)'
    BY <1>2, <1>3, <1>4 DEF OwnsRow, NoRowUpdated
  <2>2. OnTime(w)'
    BY <1>2, <1>3, <1>4 DEF OnTime, Deadline, NoRowUpdated, Waits
  <2>3. FollowsTask(w)' /\ MayEnd(w)'
    BY <1>2, <1>3 DEF FollowsTask, MayEnd, Following, Fetched, IsImage, NoRowUpdated
  <2>4. QED
    BY <2>1, <2>2, <2>3 DEF RunOK
<1>6. \A i \in JobIds : drafts'[i] >= drafts[i]
  BY <1>1, <1>3 DEF TypeOK
<1>7. QED
  BY <1>1, <1>2, <1>3, <1>5, <1>6, QuietStep

\* Going on, a run has the time of its next point left, and follows a
\* task only if that is its job's.
LEMMA OnwardRun ==
    ASSUME TimesFit, IInv, NEW w \in Workers, NEW point \in Points,
           workers[w].at \in {"prepare"} \cup Waits,
           Onward(w, point), workers' = GoTo(w, point),
           NoRowUpdated, UNCHANGED <<kind, provider>>
    PROVE  RunOK(w)'
<1> DEFINE j == workers[w].job
<1>1. TypeOK /\ Busy(w) /\ workers[w] \in Worker
  BY DEF IInv, BaseInv, TypeOK, Busy, Waits
<1>2. /\ workers'[w].at = point /\ workers'[w].left = Budgeted(point)
      /\ workers'[w].job = j /\ workers'[w].task = workers[w].task
  BY <1>1, GoToFacts
<1>3. /\ j \in JobIds /\ jobs[j] \in Row /\ kind[j] \in Kinds
      /\ jobs[j].status = "running" /\ jobs[j].worker = w
      /\ age[j] \in Nat /\ workers[w].left \in Nat
      /\ age[j] + workers[w].left <= Deadline(workers[w].at, j)
      /\ age[j] <= StaleAfter
  BY <1>1, OwnedFacts
<1>4. OwnsRow(w)'
  BY <1>2, <1>3 DEF OwnsRow, NoRowUpdated
<1>5. FollowsTask(w) /\ JobOK(j)
  BY <1>1, <1>3 DEF IInv, RunOK
<1>6. OnTime(w)'
  <2>1. kind[j] = "dialogue" => ~IsImage(j)
    BY DEF IsImage
  <2>2. workers[w].at = "prepare" /\ workers[w].task # NoTask => ~IsImage(j)
    BY <1>5 DEF FollowsTask
  <2>3. age[j] + Budgeted(point) <= Deadline(point, j)
    BY <1>3, <2>1, <2>2, Times DEF Onward, Deadline, Budgeted, TimesFit
  <2>4. point \notin Waits => Budgeted(point) = 0
    BY DEF Waits, Budgeted
  <2>5. Deadline(point, j)' = Deadline(point, j)
    BY DEF Deadline, IsImage
  <2>6. QED
    BY <1>2, <2>3, <2>4, <2>5 DEF OnTime, NoRowUpdated, Deadline, IsImage
<1>7. FollowsTask(w)'
  <2>1. workers[w].task # NoTask => workers[w].task \in Tasks
    BY <1>1 DEF Worker
  <2>2. workers[w].at = "prepare" /\ workers[w].task # NoTask =>
            ~IsImage(j) /\ provider[workers[w].task].job = j
    BY <1>5 DEF FollowsTask, JobOK, RecordedOK
  <2>3. QED
    BY <1>2, <1>5, <2>1, <2>2
       DEF FollowsTask, Onward, IsImage, NoRowUpdated, Following, Fetched
<1>8. MayEnd(w)'
  BY <1>2 DEF MayEnd, Onward
<1>9. QED
  BY <1>4, <1>6, <1>7, <1>8 DEF RunOK

LEMMA LooksLive ==
    ASSUME TimesFit, IInv, NEW w \in Workers, Looks(w) PROVE IInv'
<1>1. BaseInv /\ BaseInv' /\ TypeOK
  BY LooksBase DEF IInv, BaseInv
<1>2. /\ workers[w].at \in {"prepare"} \cup Waits
      /\ NoRowUpdated /\ UNCHANGED <<kind, provider, drafts, strays, lost>>
  BY <1>1, LooksFacts
<1>3. Busy(w) /\ workers[w].at # "record"
  BY <1>2 DEF Busy, Waits
<1>4. \A i \in JobIds : drafts'[i] >= drafts[i]
  BY <1>1, <1>2 DEF TypeOK
<1>5. ASSUME NEW verdict \in {"retryable", "final"}, workers' = Raise(w, verdict)
      PROVE  IInv'
  BY <1>1, <1>2, <1>3, <1>4, <1>5, RaiseFacts, RaiseRun, QuietStep
<1>6. ASSUME NEW point \in Points, Onward(w, point), workers' = GoTo(w, point)
      PROVE  IInv'
  BY <1>1, <1>2, <1>3, <1>4, <1>6, GoToFacts, OnwardRun, QuietStep
<1>7. QED
  BY <1>1, <1>5, <1>6, LooksFacts

\* A run whose row is young enough where it goes.
LEMMA OnTimeAfter ==
    ASSUME NEW w \in Workers, NEW j \in JobIds, workers'[w].job = j, UNCHANGED kind,
           age'[j] + workers'[w].left <= Deadline(workers'[w].at, j),
           workers'[w].at \notin Waits => workers'[w].left = 0
    PROVE  OnTime(w)'
BY DEF OnTime, Deadline, IsImage

\* A submission adds one task to its job: it is lost, or its id is on its way
\* to a row that has none.
LEMMA SubmitLive ==
    ASSUME TimesFit, IInv, NEW w \in Workers, Submit(w) PROVE IInv'
<1>1. BaseInv /\ BaseInv' /\ TypeOK
  BY SubmitBase DEF IInv, BaseInv
<1>0. PICK j \in JobIds : j = workers[w].job
  BY <1>1, SubmitFacts
<1>2. /\ workers[w].at = "submit" /\ workers[w].job = j
      /\ NoRowUpdated /\ UNCHANGED <<kind, drafts>>
      /\ provider' \in [Tasks -> Task] /\ lost' \in [JobIds -> Nat]
  BY <1>0, <1>1, SubmitFacts
<1>3. PICK t \in Tasks :
          /\ provider[t] = Unused
          /\ provider'[t].job = j
          /\ \A u \in Tasks : u # t => provider'[u] = provider[u]
          /\ \/ /\ UNCHANGED lost
                /\ \A v \in Workers : v # w => workers'[v] = workers[v]
                /\ workers'[w].at = IF IsImage(j) THEN "poll" ELSE "record"
                /\ workers'[w].left = IF IsImage(j) THEN PollTime ELSE 0
                /\ workers'[w].job = j /\ workers'[w].task = t
             \/ /\ \E verdict \in {"retryable", "final"} : workers' = Raise(w, verdict)
                /\ lost' = [lost EXCEPT ![j] = @ + 1]
  BY <1>0, <1>1, SubmitFacts
<1>4. /\ Busy(w)
      /\ jobs[j].status = "running" /\ jobs[j].worker = w
      /\ age[j] \in Nat /\ workers[w].left \in Nat
      /\ age[j] + workers[w].left <= SubmitTime /\ age[j] <= StaleAfter
      /\ \A v \in Workers : Busy(v) /\ workers[v].job = j => v = w
  <2>1. Busy(w)
    BY <1>2 DEF Busy
  <2>2. QED
    BY <1>2, <2>1, OwnedFacts DEF Deadline
<1>5. provider[t].job \notin JobIds
  BY <1>3 DEF Unused, NoJob, JobIds
<1>6. TasksKept
  BY <1>3, <1>5 DEF TasksKept
<1>7. \A v \in Workers : v # w => workers'[v] = workers[v]
  BY <1>1, <1>3, RaiseFacts
<1>8. RunOK(w)'
  <2>1. CASE \E verdict \in {"retryable", "final"} : workers' = Raise(w, verdict)
    BY <1>2, <1>4, <2>1, RaiseRun
  <2>2. CASE /\ workers'[w].at = IF IsImage(j) THEN "poll" ELSE "record"
             /\ workers'[w].left = IF IsImage(j) THEN PollTime ELSE 0
             /\ workers'[w].job = j /\ workers'[w].task = t
    <3>1. OwnsRow(w)'
      BY <1>2, <1>4, <2>2 DEF OwnsRow, NoRowUpdated
    <3>2. OnTime(w)'
      <4>1. CASE IsImage(j)
        <5>1. /\ workers'[w].at = "poll" /\ workers'[w].left = PollTime
              /\ Deadline("poll", j) = SubmitTime + PollTime
          BY <2>2, <4>1 DEF Deadline
        <5>2. age'[j] + workers'[w].left <= Deadline("poll", j)
          BY <1>2, <1>4, <5>1, Times DEF NoRowUpdated
        <5>3. QED
          BY <1>2, <2>2, <5>1, <5>2, OnTimeAfter DEF Waits
      <4>2. CASE ~IsImage(j)
        <5>1. /\ workers'[w].at = "record" /\ workers'[w].left = 0
              /\ Deadline("record", j) = StaleAfter
          BY <2>2, <4>2 DEF Deadline
        <5>2. age'[j] + workers'[w].left <= Deadline("record", j)
          BY <1>2, <1>4, <5>1, Times DEF NoRowUpdated
        <5>3. QED
          BY <1>2, <2>2, <5>1, <5>2, OnTimeAfter
      <4>3. QED
        BY <4>1, <4>2
    <3>3. IsImage(j) \/ jobs[j].task = NoTask
      BY <1>2, <1>4 DEF IInv, RunOK, FollowsTask
    <3>4. FollowsTask(w)' /\ MayEnd(w)'
      BY <1>2, <1>3, <2>2, <3>3
         DEF FollowsTask, MayEnd, Following, Fetched, IsImage, NoRowUpdated
    <3>5. QED
      BY <3>1, <3>2, <3>4 DEF RunOK
  <2>3. QED
    BY <1>3, <2>1, <2>2
<1>9. ASSUME NEW i \in JobIds PROVE JobOK(i)'
  <2>1. jobs[i] \in Row /\ lost[i] \in Nat /\ lost'[i] \in Nat
    BY <1>1, <1>2 DEF TypeOK
  <2>2. CASE i # j
    <3>1. lost'[i] = lost[i]
      BY <1>1, <1>3, <2>2 DEF TypeOK
    <3>2. \A u \in Tasks : provider'[u].job = i <=> provider[u].job = i
      BY <1>3, <1>5, <2>2
    <3>3. \A v \in Workers : workers[v].at = "record" => workers'[v] = workers[v]
      BY <1>2, <1>7
    <3>4. QED
      BY <1>2, <1>6, <2>1, <3>1, <3>2, <3>3, JobKept DEF NoRowUpdated
  <2>3. CASE i = j /\ ~IsImage(j)
    <3>1. BillOK(j) /\ RecordedOK(j) /\ jobs[j].task = NoTask
      BY <1>2, <1>4, <2>3 DEF IInv, JobOK, RunOK, FollowsTask
    <3>2. ~Known(j)
      BY <1>2, <1>4, <3>1 DEF Known, Busy
    <3>3. Submissions(j)' = Submissions(j) \cup {t} /\ t \notin Submissions(j)
      BY <1>2, <1>3, <1>5 DEF Submissions
    <3>4. /\ IsFiniteSet(Submissions(j)') /\ Cardinality(Submissions(j)) \in Nat
          /\ Cardinality(Submissions(j)') = Cardinality(Submissions(j)) + 1
      BY <3>1, <3>3, FS_AddElement, FS_CardinalityType DEF BillOK
    <3>5. Cardinality(Submissions(j)) <= lost[j]
      BY <2>1, <2>3, <3>1, <3>2, <3>4 DEF BillOK
    <3>6. \/ Known(j)' /\ lost'[j] = lost[j]
          \/ lost'[j] = lost[j] + 1
      <4>1. CASE lost' = [lost EXCEPT ![j] = @ + 1]
        BY <1>1, <1>2, <4>1 DEF TypeOK
      <4>2. CASE UNCHANGED lost /\ workers'[w].at = "record" /\ workers'[w].job = j
        BY <4>2 DEF Known
      <4>3. QED
        BY <1>3, <2>3, <4>1, <4>2
    <3>7. Cardinality(Submissions(j)') <= lost'[j] + (IF Known(j)' THEN 1 ELSE 0)
      BY <2>1, <2>3, <3>4, <3>5, <3>6
    <3>8. BillOK(j)'
      BY <3>4, <3>7 DEF BillOK
    <3>9. RecordedOK(j)'
      BY <1>2, <1>4, <3>1 DEF RecordedOK, NoRowUpdated
    <3>10. QED
      BY <2>3, <3>8, <3>9 DEF JobOK
  <2>4. QED
    BY <1>2, <2>2, <2>3 DEF JobOK, IsImage
<1>10. \A i \in JobIds : drafts'[i] >= drafts[i]
  BY <1>1, <1>2 DEF TypeOK
<1>11. QED
  BY <1>1, <1>2, <1>6, <1>7, <1>8, <1>9, <1>10, LiveStep DEF NoRowUpdated

\* The id of the one submission that was on its way is in the row, or lost.
LEMMA RecordLive ==
    ASSUME TimesFit, IInv, NEW w \in Workers, Record(w) PROVE IInv'
<1>1. BaseInv /\ BaseInv' /\ TypeOK
  BY RecordBase DEF IInv, BaseInv
<1>0. PICK j \in JobIds : j = workers[w].job
  BY <1>1, RecordFacts
<1> DEFINE t == workers[w].task
           r == TaskRecorded(jobs[j], t)
<1>2. /\ workers[w].at = "record" /\ workers[w].job = j
      /\ UNCHANGED <<kind, provider, drafts>>
  BY <1>0, <1>1, RecordFacts
<1>3. /\ Busy(w)
      /\ jobs[j] \in Row /\ jobs[j].status = "running" /\ jobs[j].worker = w
      /\ \A v \in Workers : Busy(v) /\ workers[v].job = j => v = w
  <2>1. Busy(w)
    BY <1>2 DEF Busy
  <2>2. QED
    BY <1>2, <2>1, OwnedFacts
<1>4. /\ ~IsImage(j) /\ jobs[j].task = NoTask
      /\ t \in Tasks /\ provider[t].job = j
  BY <1>2, <1>3 DEF IInv, RunOK, FollowsTask
<1>5. TasksKept /\ \A i \in JobIds : drafts'[i] >= drafts[i]
  BY <1>1, <1>2 DEF TasksKept, TypeOK
<1>6. /\ lost[j] \in Nat /\ lost'[j] \in Nat
      /\ IsFiniteSet(Submissions(j)) /\ Cardinality(Submissions(j)) \in Nat
      /\ Cardinality(Submissions(j)) <= lost[j] + 1
  <2>1. BillOK(j)
    BY <1>2, <1>4 DEF IInv, JobOK
  <2>2. lost[j] \in Nat /\ lost'[j] \in Nat
    BY <1>1, <1>2 DEF BaseInv, TypeOK
  <2>3. QED
    BY <2>1, <2>2, FS_CardinalityType DEF BillOK
<1>7. Submissions(j)' = Submissions(j)
  BY <1>2 DEF Submissions
<1>8. ASSUME UpdateRow(j, r), workers' = GoTo(w, "poll"), UNCHANGED lost
      PROVE  IInv'
  <2>1. r \in Row /\ r.status = "running" /\ r.worker = w /\ r.task = t
    BY <1>3, <1>4, RecordedRow
  <2> HIDE DEF r
  <2>2. /\ jobs'[j] = r /\ age'[j] = 0
        /\ \A i \in JobIds : i # j => jobs'[i] = jobs[i] /\ age'[i] = age[i]
    BY <1>1, <1>2, <1>8, <2>1, WriteFacts
  <2>3. /\ \A v \in Workers : v # w => workers'[v] = workers[v]
        /\ workers'[w].at = "poll" /\ workers'[w].left = PollTime
        /\ workers'[w].job = j /\ workers'[w].task = t
    BY <1>1, <1>2, <1>8, GoToFacts DEF Points, Waits, Budgeted
  <2>4. RunOK(w)'
    <3>1. OwnsRow(w)'
      BY <2>1, <2>2, <2>3 DEF OwnsRow
    <3>2. OnTime(w)'
      <4>1. Deadline("poll", j) = PollTime
        BY <1>4 DEF Deadline
      <4>2. age'[j] + workers'[w].left <= Deadline("poll", j)
        BY <2>2, <2>3, <4>1, Times
      <4>3. QED
        BY <1>2, <2>3, <4>2, OnTimeAfter DEF Waits
    <3>3. FollowsTask(w)' /\ MayEnd(w)'
      BY <1>2, <1>4, <2>1, <2>2, <2>3 DEF FollowsTask, MayEnd, Following, Fetched, IsImage
    <3>4. QED
      BY <3>1, <3>2, <3>3 DEF RunOK
  <2>5. ASSUME NEW i \in JobIds PROVE JobOK(i)'
    <3>1. CASE i = j
      <4>1. Known(j)'
        BY <1>4, <2>1, <2>2, NoTaskAssumption DEF Known
      <4>2. BillOK(j)'
        BY <1>6, <1>7, <1>8, <4>1 DEF BillOK
      <4>3. RecordedOK(j)'
        BY <1>2, <1>4, <2>1, <2>2 DEF RecordedOK
      <4>4. QED
        BY <3>1, <4>2, <4>3 DEF JobOK
    <3>2. CASE i # j
      <4>1. jobs[i] \in Row /\ lost[i] \in Nat /\ jobs'[i] = jobs[i]
        BY <1>1, <2>2, <3>2 DEF TypeOK
      <4>2. \A v \in Workers : workers[v].at = "record" /\ workers[v].job = i =>
                workers'[v].at = "record" /\ workers'[v].job = i
        BY <1>2, <2>3, <3>2
      <4>3. QED
        BY <1>2, <1>5, <1>8, <4>1, <4>2, JobKept
    <3>3. QED
      BY <3>1, <3>2
  <2>6. \A v \in Workers : v # w /\ Busy(v) =>
            /\ jobs'[workers[v].job] = jobs[workers[v].job]
            /\ age'[workers[v].job] = age[workers[v].job]
    BY <1>3, <2>2, OwnedFacts
  <2>7. QED
    BY <1>1, <1>2, <1>5, <2>3, <2>4, <2>5, <2>6, LiveStep
<1>9. ASSUME NoRowUpdated, workers' = Raise(w, "retryable"), lost' = [lost EXCEPT ![j] = @ + 1]
      PROVE  IInv'
  <2>1. \A v \in Workers : v # w => workers'[v] = workers[v]
    BY <1>1, <1>9, RaiseFacts
  <2>2. RunOK(w)'
    BY <1>2, <1>3, <1>9, RaiseRun
  <2>3. ASSUME NEW i \in JobIds PROVE JobOK(i)'
    <3>1. CASE i = j
      <4>1. lost'[j] = lost[j] + 1
        BY <1>1, <1>2, <1>9 DEF TypeOK
      <4>2. Cardinality(Submissions(j)') <= lost'[j] + (IF Known(j)' THEN 1 ELSE 0)
        BY <1>6, <1>7, <4>1
      <4>3. BillOK(j)'
        BY <1>6, <1>7, <4>2 DEF BillOK
      <4>4. RecordedOK(j)'
        BY <1>3, <1>4, <1>9 DEF RecordedOK, NoRowUpdated
      <4>5. QED
        BY <3>1, <4>3, <4>4 DEF JobOK
    <3>2. CASE i # j
      <4>1. /\ jobs[i] \in Row /\ jobs'[i] = jobs[i]
            /\ lost[i] \in Nat /\ lost'[i] = lost[i]
        BY <1>1, <1>9, <3>2 DEF TypeOK, NoRowUpdated
      <4>2. \A v \in Workers : workers[v].at = "record" /\ workers[v].job = i =>
                workers'[v].at = "record" /\ workers'[v].job = i
        BY <1>2, <2>1, <3>2
      <4>3. QED
        BY <1>2, <1>5, <4>1, <4>2, JobKept
    <3>3. QED
      BY <3>1, <3>2
  <2>4. QED
    BY <1>1, <1>2, <1>5, <1>9, <2>1, <2>2, <2>3, LiveStep DEF NoRowUpdated
<1>10. QED
  BY <1>0, <1>1, <1>8, <1>9, RecordFacts

LEMMA StoreLive ==
    ASSUME TimesFit, IInv, NEW w \in Workers, Store(w) PROVE IInv'
<1> DEFINE j == workers[w].job
<1>1. BaseInv /\ BaseInv' /\ TypeOK
  BY StoreBase DEF IInv, BaseInv
<1>2. workers[w].at = "store" /\ NoRowUpdated /\ UNCHANGED <<kind, provider, lost>>
  BY DEF Store
<1>3. /\ Busy(w) /\ j \in JobIds
      /\ jobs[j].status = "running" /\ jobs[j].worker = w
      /\ age[j] \in Nat /\ age[j] <= StaleAfter
  <2>1. Busy(w)
    BY <1>2 DEF Busy
  <2>2. QED
    BY <2>1, OwnedFacts
<1>4. \A i \in JobIds : drafts'[i] >= drafts[i]
  BY <1>1, <1>3 DEF Store, TypeOK
<1>5. CASE workers' = Raise(w, "retryable")
  BY <1>1, <1>2, <1>3, <1>4, <1>5, RaiseFacts, RaiseRun, QuietStep
<1>6. CASE drafts' = [drafts EXCEPT ![j] = @ + 1] /\ workers' = GoTo(w, "complete")
  <2>1. /\ \A v \in Workers : v # w => workers'[v] = workers[v]
        /\ workers'[w].at = "complete" /\ workers'[w].left = 0
        /\ workers'[w].job = j /\ workers'[w].task = workers[w].task
    BY <1>1, <1>6, GoToFacts DEF Points, Budgeted
  <2>2. OwnsRow(w)'
    BY <1>2, <1>3, <2>1 DEF OwnsRow, NoRowUpdated
  <2>3. OnTime(w)'
    BY <1>2, <1>3, <2>1 DEF OnTime, Deadline, NoRowUpdated
  <2>4. FollowsTask(w)
    BY <1>3 DEF IInv, RunOK
  <2>5. FollowsTask(w)'
    BY <1>2, <2>1, <2>4 DEF FollowsTask, Following, Fetched, IsImage, NoRowUpdated
  <2>6. drafts'[j] > 0
    BY <1>1, <1>3, <1>6 DEF TypeOK
  <2>7. MayEnd(w)'
    BY <2>1, <2>6 DEF MayEnd
  <2>8. RunOK(w)'
    BY <2>2, <2>3, <2>5, <2>7 DEF RunOK
  <2>9. QED
    BY <1>1, <1>2, <1>4, <2>1, <2>8, QuietStep
<1>7. QED
  BY <1>5, <1>6 DEF Store


\* A run completes its job only with the result of the task in the row.
LEMMA CompleteLive ==
    ASSUME TimesFit, IInv, NEW w \in Workers, Complete(w) PROVE IInv'
<1>1. BaseInv /\ BaseInv' /\ TypeOK
  BY CompleteBase DEF IInv, BaseInv
<1>2. PICK j \in JobIds : j = workers[w].job
  BY <1>1, CompleteFacts
<1> DEFINE r == Completed(jobs[j])
<1>3. /\ workers[w].at = "complete" /\ workers[w].job = j
      /\ UNCHANGED <<kind, provider, drafts, lost>>
      /\ \/ /\ UpdateRow(j, r)
            /\ r \in Row /\ r.status = "completed" /\ r.task = jobs[j].task
            /\ workers' = [workers EXCEPT ![w] = At("idle")]
         \/ /\ NoRowUpdated
            /\ workers' = Raise(w, "retryable")
  BY <1>1, <1>2, CompleteFacts
<1> HIDE DEF r
<1>4. Busy(w)
  BY <1>3 DEF Busy
<1>5. \A v \in Workers : Busy(v) /\ workers[v].job = j => v = w
  BY <1>3, <1>4, OwnedFacts
<1>6. TasksKept /\ \A i \in JobIds : drafts'[i] >= drafts[i]
  BY <1>1, <1>3 DEF TasksKept, TypeOK
<1>7. CASE NoRowUpdated /\ workers' = Raise(w, "retryable")
  BY <1>1, <1>3, <1>4, <1>6, <1>7, RaiseFacts, RaiseRun, QuietStep
<1>8. CASE /\ UpdateRow(j, r)
           /\ r \in Row /\ r.status = "completed" /\ r.task = jobs[j].task
           /\ workers' = [workers EXCEPT ![w] = At("idle")]
  <2>1. /\ \A v \in Workers : v # w => workers'[v] = workers[v]
        /\ RunOK(w)'
    BY <1>1, <1>8, ClearedRun
  <2>2. /\ jobs'[j] = r
        /\ \A i \in JobIds : i # j => jobs'[i] = jobs[i] /\ age'[i] = age[i]
    BY <1>1, <1>8, WriteFacts
  <2>3. ASSUME NEW i \in JobIds PROVE JobOK(i)'
    <3>1. CASE i = j /\ ~IsImage(j)
      <4>1. /\ jobs[j].task \in Tasks /\ provider[jobs[j].task].job = j
            /\ provider[jobs[j].task].state = "succeeded"
        BY <1>3, <1>4, <3>1 DEF IInv, RunOK, FollowsTask, Following, Fetched
      <4>2. jobs'[j].task = jobs[j].task /\ jobs[j].task # NoTask
        BY <1>8, <2>2, <4>1, NoTaskAssumption
      <4>3. BillOK(j)
        BY <3>1 DEF IInv, JobOK
      <4>4. BillOK(j)'
        BY <1>3, <4>2, <4>3 DEF BillOK, Known, Submissions
      <4>5. RecordedOK(j)'
        BY <1>3, <4>1, <4>2 DEF RecordedOK
      <4>6. QED
        BY <3>1, <4>4, <4>5 DEF JobOK
    <3>2. CASE i # j
      <4>1. jobs[i] \in Row /\ lost[i] \in Nat /\ jobs'[i] = jobs[i]
        BY <1>1, <2>2, <3>2 DEF TypeOK
      <4>2. \A v \in Workers : workers[v].at = "record" => workers'[v] = workers[v]
        BY <1>3, <2>1
      <4>3. QED
        BY <1>3, <1>6, <4>1, <4>2, JobKept
    <3>3. QED
      BY <1>3, <3>1, <3>2 DEF JobOK, IsImage
  <2>4. ASSUME NEW v \in Workers, v # w, Busy(v)
        PROVE  /\ jobs'[workers[v].job] = jobs[workers[v].job]
               /\ age'[workers[v].job] = age[workers[v].job]
    BY <1>5, <2>2, <2>4, OwnedFacts
  <2>5. QED
    BY <1>1, <1>3, <1>6, <2>1, <2>3, <2>4, LiveStep
<1>9. QED
  BY <1>3, <1>7, <1>8

LEMMA ReadForFailLive ==
    ASSUME TimesFit, IInv, NEW w \in Workers, ReadForFail(w) PROVE IInv'
<1>1. BaseInv /\ BaseInv' /\ TypeOK
  BY ReadForFailBase DEF IInv, BaseInv
<1>2. PICK j \in JobIds : j = workers[w].job
  BY <1>1, ReadForFailFacts
<1>3. /\ workers[w].at = "failing" /\ workers[w].job = j
      /\ \A v \in Workers : v # w => workers'[v] = workers[v]
      /\ workers'[w].at = "release" /\ workers'[w].job = j
      /\ workers'[w].left = workers[w].left
      /\ workers'[w].verdict = "retrying" => HasBudget(jobs[j])
  BY <1>1, <1>2, ReadForFailFacts
<1>4. NoRowUpdated /\ UNCHANGED <<kind, provider, drafts, strays, lost>>
  BY DEF ReadForFail
<1>5. OwnsRow(w) /\ OnTime(w)
  BY <1>3 DEF IInv, RunOK, Busy
<1>6. RunOK(w)'
  <2>1. OwnsRow(w)'
    BY <1>3, <1>4, <1>5 DEF OwnsRow, NoRowUpdated
  <2>2. OnTime(w)'
    BY <1>3, <1>4, <1>5 DEF OnTime, Deadline, NoRowUpdated, Waits
  <2>3. FollowsTask(w)' /\ MayEnd(w)'
    BY <1>3, <1>4 DEF FollowsTask, MayEnd, Following, Fetched, NoRowUpdated, HasBudget
  <2>4. QED
    BY <2>1, <2>2, <2>3 DEF RunOK
<1>7. \A i \in JobIds : drafts'[i] >= drafts[i]
  BY <1>1, <1>4 DEF TypeOK
<1>8. QED
  BY <1>1, <1>3, <1>4, <1>6, <1>7, QuietStep

LEMMA WriteFailLive ==
    ASSUME TimesFit, IInv, NEW w \in Workers, WriteFail(w) PROVE IInv'
<1>1. BaseInv /\ BaseInv' /\ TypeOK
  BY WriteFailBase DEF IInv, BaseInv
<1>2. PICK j \in JobIds : j = workers[w].job
  BY <1>1, WriteFailFacts
<1> DEFINE r == Released(jobs[j], workers[w].verdict)
<1>3. /\ workers[w].at = "release" /\ workers[w].job = j
      /\ UNCHANGED <<kind, provider, drafts, strays, lost>>
      /\ UpdateRow(j, r) /\ r \in Row
      /\ r.status \in {"retrying", "failed"} /\ r.task = jobs[j].task
      /\ workers' = [workers EXCEPT ![w] = At("idle")]
  BY <1>1, <1>2, WriteFailFacts
<1> HIDE DEF r
<1>4. Busy(w)
  BY <1>3 DEF Busy
<1>5. \A v \in Workers : Busy(v) /\ workers[v].job = j => v = w
  BY <1>3, <1>4, OwnedFacts
<1>6. TasksKept /\ \A i \in JobIds : drafts'[i] >= drafts[i]
  BY <1>1, <1>3 DEF TasksKept, TypeOK
<1>7. /\ \A v \in Workers : v # w => workers'[v] = workers[v]
      /\ RunOK(w)'
  BY <1>1, <1>3, ClearedRun
<1>8. /\ jobs'[j] = r
      /\ \A i \in JobIds : i # j => jobs'[i] = jobs[i] /\ age'[i] = age[i]
  BY <1>1, <1>3, WriteFacts
<1>9. ASSUME NEW i \in JobIds PROVE JobOK(i)'
  <2>1. /\ jobs[i] \in Row /\ lost[i] \in Nat
        /\ jobs'[i].task = jobs[i].task
        /\ jobs'[i].status = "completed" => jobs[i].status = "completed"
    BY <1>1, <1>3, <1>8 DEF TypeOK
  <2>2. \A v \in Workers : workers[v].at = "record" => workers'[v] = workers[v]
    BY <1>3, <1>7
  <2>3. QED
    BY <1>3, <1>6, <2>1, <2>2, JobKept
<1>10. ASSUME NEW v \in Workers, v # w, Busy(v)
       PROVE  /\ jobs'[workers[v].job] = jobs[workers[v].job]
              /\ age'[workers[v].job] = age[workers[v].job]
  BY <1>5, <1>8, <1>10, OwnedFacts
<1>11. QED
  BY <1>1, <1>3, <1>6, <1>7, <1>9, <1>10, LiveStep

\* The task id that was on its way when its worker crashed counts as lost.
LEMMA CrashLive ==
    ASSUME TimesFit, IInv, NEW w \in Workers, Crash(w) PROVE IInv'
<1>1. BaseInv /\ BaseInv' /\ TypeOK
  BY ProcessBase DEF IInv, BaseInv
<1>2. /\ workers' = [workers EXCEPT ![w] = At("down")]
      /\ NoRowUpdated /\ UNCHANGED <<kind, provider, drafts>>
      /\ lost' = IF workers[w].at = "record"
                 THEN [lost EXCEPT ![workers[w].job] = @ + 1] ELSE lost
  BY DEF Crash
<1>3. /\ \A v \in Workers : v # w => workers'[v] = workers[v]
      /\ RunOK(w)'
  BY <1>1, <1>2, ClearedRun
<1>4. TasksKept /\ \A i \in JobIds : drafts'[i] >= drafts[i]
  BY <1>1, <1>2 DEF TasksKept, TypeOK
<1>5. ASSUME NEW i \in JobIds PROVE JobOK(i)'
  <2>1. jobs[i] \in Row /\ lost[i] \in Nat /\ jobs'[i] = jobs[i]
    BY <1>1, <1>2 DEF TypeOK, NoRowUpdated
  <2>2. CASE workers[w].at = "record" /\ workers[w].job = i /\ ~IsImage(i)
    <3>1. BillOK(i) /\ RecordedOK(i)
      BY <2>2 DEF IInv, JobOK
    <3>2. lost'[i] = lost[i] + 1
      BY <1>1, <1>2, <2>2 DEF TypeOK
    <3>3. /\ IsFiniteSet(Submissions(i)) /\ Cardinality(Submissions(i)) \in Nat
          /\ Cardinality(Submissions(i)) <= lost'[i]
      BY <2>1, <3>1, <3>2, FS_CardinalityType DEF BillOK
    <3>4. Cardinality(Submissions(i)) <= lost'[i] + (IF Known(i)' THEN 1 ELSE 0)
      BY <2>1, <3>2, <3>3
    <3>5. BillOK(i)'
      BY <1>2, <3>3, <3>4 DEF BillOK, Submissions
    <3>6. RecordedOK(i)'
      BY <1>2, <2>1, <3>1 DEF RecordedOK
    <3>7. QED
      BY <3>5, <3>6 DEF JobOK
  <2>3. CASE ~(workers[w].at = "record" /\ workers[w].job = i)
    <3>1. lost'[i] = lost[i]
      BY <1>1, <1>2, <2>3 DEF TypeOK
    <3>2. \A v \in Workers : workers[v].at = "record" /\ workers[v].job = i =>
              workers'[v].at = "record" /\ workers'[v].job = i
      BY <1>3, <2>3
    <3>3. QED
      BY <1>2, <1>4, <2>1, <3>1, <3>2, JobKept
  <2>4. QED
    BY <1>2, <2>2, <2>3 DEF JobOK, IsImage
<1>6. QED
  BY <1>1, <1>2, <1>3, <1>4, <1>5, LiveStep DEF NoRowUpdated

LEMMA RestartLive ==
    ASSUME IInv, NEW w \in Workers, Restart(w) PROVE IInv'
<1>1. BaseInv /\ BaseInv' /\ TypeOK
  BY ProcessBase DEF IInv, BaseInv
<1>2. /\ workers[w].at = "down" /\ workers' = [workers EXCEPT ![w] = Booted(w)]
      /\ NoRowUpdated /\ UNCHANGED <<kind, provider, drafts, strays, lost>>
  BY DEF Restart, NoRowUpdated
<1>3. PICK point \in {"idle", "sweep"} : workers' = [workers EXCEPT ![w] = At(point)]
  BY <1>2 DEF Booted
<1>4. \A i \in JobIds : drafts'[i] >= drafts[i]
  BY <1>1, <1>2 DEF TypeOK
<1>5. QED
  BY <1>1, <1>2, <1>3, <1>4, ClearedRun, QuietStep

\* A failed job has no live run.
LEMMA RetryLive ==
    ASSUME TimesFit, IInv, NEW j \in JobIds, Retry(j) PROVE IInv'
<1>1. BaseInv /\ BaseInv' /\ TypeOK
  BY EnvironmentBase DEF IInv, BaseInv
<1> DEFINE r == Released(jobs[j], "retrying")
<1>2. /\ jobs[j].status = "failed"
      /\ UpdateRow(j, r) /\ r \in Row
      /\ r.status = "retrying" /\ r.task = jobs[j].task
      /\ UNCHANGED <<workers, kind, provider, drafts, strays, lost>>
  BY <1>1, RetryFacts
<1> HIDE DEF r
<1>3. /\ jobs'[j] = r
      /\ \A i \in JobIds : i # j => jobs'[i] = jobs[i] /\ age'[i] = age[i]
  BY <1>1, <1>2, WriteFacts
<1>4. TasksKept /\ \A i \in JobIds : drafts'[i] \in Nat /\ drafts'[i] >= drafts[i]
  BY <1>1, <1>2 DEF TasksKept, TypeOK
<1>5. ASSUME NEW v \in Workers PROVE RunOK(v)'
  <2>1. Busy(v) => /\ jobs'[workers[v].job] = jobs[workers[v].job]
                   /\ age'[workers[v].job] = age[workers[v].job]
    BY <1>2, <1>3, OwnedFacts
  <2>2. QED
    BY <1>2, <1>4, <2>1, RunKept
<1>6. ASSUME NEW i \in JobIds PROVE JobOK(i)'
  <2>1. /\ jobs[i] \in Row /\ lost[i] \in Nat
        /\ jobs'[i].task = jobs[i].task
        /\ jobs'[i].status = "completed" => jobs[i].status = "completed"
    BY <1>1, <1>2, <1>3 DEF TypeOK
  <2>2. QED
    BY <1>2, <1>4, <2>1, JobKept
<1>7. QED
  BY <1>1, <1>5, <1>6 DEF IInv

LEMMA ProviderFinishesLive ==
    ASSUME IInv, NEW t \in Tasks, ProviderFinishes(t) PROVE IInv'
<1>1. BaseInv /\ BaseInv' /\ TypeOK
  BY EnvironmentBase DEF IInv, BaseInv
<1>2. UNCHANGED <<jobs, age, workers, kind, drafts, strays, lost>>
  BY DEF ProviderFinishes
<1>3. PICK state \in {"succeeded", "failed"} :
          provider[t].state = "running" /\ provider' = [provider EXCEPT ![t].state = state]
  BY DEF ProviderFinishes
<1>4. \A u \in Tasks :
          /\ provider'[u].job = provider[u].job
          /\ provider[u].state = "succeeded" => provider'[u].state = "succeeded"
  BY <1>1, <1>3 DEF TypeOK, Task
<1>5. TasksKept
  BY <1>4 DEF TasksKept
<1>6. \A i \in JobIds : /\ drafts'[i] \in Nat /\ drafts'[i] >= drafts[i]
                        /\ jobs[i] \in Row /\ lost[i] \in Nat
  BY <1>1, <1>2 DEF TypeOK
<1>7. ASSUME NEW v \in Workers PROVE RunOK(v)'
  BY <1>2, <1>5, <1>6, RunKept
<1>8. ASSUME NEW i \in JobIds PROVE JobOK(i)'
  BY <1>2, <1>4, <1>5, <1>6, JobKept
<1>9. QED
  BY <1>1, <1>7, <1>8 DEF IInv

\* What a tick adds to the age of a row its run has less left.
LEMMA TickLive == ASSUME TimesFit, IInv, Tick PROVE IInv'
<1>1. BaseInv /\ BaseInv' /\ TypeOK /\ TypeOK'
  BY EnvironmentBase DEF IInv, BaseInv
<1>2. UNCHANGED <<jobs, kind, provider, drafts, strays, lost>>
  BY <1>1, TickFacts
<1>3. ASSUME NEW w \in Workers, Busy(w)' PROVE RunOK(w)'
  <2>1. PICK j : j = workers[w].job
    OBVIOUS
  <2>2. /\ workers'[w].at = workers[w].at /\ workers'[w].job = j
        /\ workers'[w].task = workers[w].task /\ workers'[w].verdict = workers[w].verdict
        /\ Busy(w) => workers[w].left > 0 /\ workers'[w].left = workers[w].left - 1
        /\ \A i \in JobIds : age'[i] <= age[i] + 1
    BY <1>1, <2>1, TickFacts
  <2>3. Busy(w)
    BY <1>3, <2>2 DEF Busy
  <2>4. /\ j \in JobIds /\ jobs[j].status = "running" /\ jobs[j].worker = w
        /\ age[j] \in Nat /\ workers[w].left \in Nat
        /\ age[j] + workers[w].left <= Deadline(workers[w].at, j)
    BY <2>1, <2>3, OwnedFacts
  <2>5. OnTime(w) /\ FollowsTask(w) /\ MayEnd(w)
    BY <2>3 DEF IInv, RunOK
  <2>6. OwnsRow(w)'
    BY <1>2, <2>2, <2>4 DEF OwnsRow
  <2>7. OnTime(w)'
    <3>1. workers[w].at \in Waits
      BY <2>2, <2>3, <2>5 DEF OnTime
    <3>2. age'[j] \in Nat /\ Deadline(workers[w].at, j) \in Nat
      BY <1>1, <2>4, Times, DeadlineFits DEF TypeOK
    <3>3. age'[j] + workers'[w].left <= Deadline(workers[w].at, j)
      BY <2>2, <2>3, <2>4, <3>2
    <3>4. QED
      BY <1>2, <2>2, <2>4, <3>1, <3>3, OnTimeAfter
  <2>8. FollowsTask(w)' /\ MayEnd(w)'
    BY <1>2, <2>1, <2>2, <2>5 DEF FollowsTask, MayEnd, IsImage, HasBudget
  <2>9. QED
    BY <2>6, <2>7, <2>8 DEF RunOK
<1>4. ASSUME NEW i \in JobIds PROVE JobOK(i)'
  <2>1. jobs[i] \in Row /\ lost[i] \in Nat
    BY <1>1 DEF TypeOK
  <2>2. \A v \in Workers : workers'[v].at = workers[v].at /\ workers'[v].job = workers[v].job
    BY <1>1, TickFacts
  <2>3. QED
    BY <1>2, <2>1, <2>2, JobKept DEF TasksKept
<1>5. QED
  BY <1>1, <1>3, <1>4 DEF IInv, RunOK

LEMMA StepIInv == ASSUME TimesFit PROVE IInv /\ [Next]_vars => IInv'
<1> SUFFICES ASSUME IInv, [Next]_vars PROVE IInv'
  OBVIOUS
<1>1. CASE UNCHANGED vars
  <2>1. BaseInv'
    BY <1>1, StepBase DEF IInv
  <2>2. UNCHANGED <<jobs, kind, age, workers, provider, drafts, strays, lost>>
    BY <1>1 DEF vars
  <2>3. TasksKept
    BY <2>2 DEF TasksKept
  <2>4. \A i \in JobIds : /\ drafts'[i] \in Nat /\ drafts'[i] >= drafts[i]
                          /\ jobs[i] \in Row /\ lost[i] \in Nat
    BY <2>2 DEF IInv, BaseInv, TypeOK
  <2>5. ASSUME NEW v \in Workers PROVE RunOK(v)'
    BY <2>2, <2>3, <2>4, RunKept
  <2>6. ASSUME NEW i \in JobIds PROVE JobOK(i)'
    BY <2>2, <2>3, <2>4, JobKept
  <2>7. QED
    BY <2>1, <2>5, <2>6 DEF IInv
<1>2. ASSUME NEW w \in Workers, Loop(w) \/ Run(w) \/ PollBreaks(w) \/ Crash(w) \/ Restart(w)
      PROVE  IInv'
  <2>1. CASE Loop(w)
    BY <2>1, ClaimLive, SweepLive, FindNothingLive DEF Loop
  <2>2. CASE Looks(w)
    BY <2>2, LooksLive
  <2>3. CASE Run(w) /\ ~Looks(w)
    BY <2>3, ReadJobLive, SubmitLive, RecordLive, StoreLive, CompleteLive, ReadForFailLive,
       WriteFailLive DEF Run, Looks
  <2>4. CASE Crash(w) \/ Restart(w)
    BY <2>4, CrashLive, RestartLive
  <2>5. QED
    BY <1>2, <2>1, <2>2, <2>3, <2>4 DEF Looks
<1>3. QED
  BY <1>1, <1>2, RetryLive, ProviderFinishesLive, TickLive DEF Next

\* The inductive invariant of rows, tasks and time.
THEOREM Invariance == ASSUME TimesFit PROVE Spec => []IInv
BY InitIInv, StepIInv, PTL DEF Spec

\* Where the limits of the network calls fit in STALE_RUNNING_SECONDS, no
\* sweep of reclaim_stale_jobs takes a job from a live run: complete_job and
\* fail_job, which name the row by its id alone, write the writer's own row.
THEOREM LiveRunsOwnTheirRows == ASSUME TimesFit PROVE Spec => []LiveRunOwnsRow
<1>1. IInv => LiveRunOwnsRow
  BY DEF IInv, RunOK, OwnsRow, LiveRunOwnsRow
<1>2. QED
  BY <1>1, Invariance, PTL

\* A video job is billed twice only for a submission whose id was lost on its
\* way to record_provider_task_id, whatever retries, timeouts and crashes.
THEOREM BilledOnce == ASSUME TimesFit PROVE Spec => []BilledOncePerLoss
<1>1. ASSUME IInv, NEW j \in JobIds, ~IsImage(j)
      PROVE  Cardinality(Submissions(j)) <= 1 + lost[j]
  <2>1. /\ IsFiniteSet(Submissions(j)) /\ lost[j] \in Nat
        /\ Cardinality(Submissions(j)) <= lost[j] + (IF Known(j) THEN 1 ELSE 0)
    BY <1>1 DEF IInv, BaseInv, TypeOK, JobOK, BillOK
  <2>2. QED
    BY <2>1, FS_CardinalityType
<1>2. IInv => BilledOncePerLoss
  BY <1>1 DEF BilledOncePerLoss
<1>3. QED
  BY <1>2, Invariance, PTL

\* A completed video job delivered what the task in its row made: _poll_task
\* leaves only with a task that succeeded, and the row's task is that one.
THEOREM CompletedWithItsTask == ASSUME TimesFit PROVE Spec => []CompletedFromItsTask
<1>1. IInv => CompletedFromItsTask
  BY DEF IInv, JobOK, RecordedOK, CompletedFromItsTask
<1>2. QED
  BY <1>1, Invariance, PTL

-----------------------------------------------------------------------------
(* The drafts of a job: one for its completion, and one per stray. *)

\* The draft of the run that completed the job, or is about to.
Drafted(j) ==
    \/ jobs[j].status = "completed"
    \/ \E w \in Workers : workers[w].at = "complete" /\ workers[w].job = j

DraftsOK == \A j \in JobIds : drafts[j] <= strays[j] + (IF Drafted(j) THEN 1 ELSE 0)

\* No draft is stored, and the run that stored the last one is still there.
LEMMA DraftsKept ==
    ASSUME DraftsOK, UNCHANGED <<drafts, strays>>,
           \A v \in Workers : workers[v].at = "complete" =>
               workers'[v].at = "complete" /\ workers'[v].job = workers[v].job,
           \A j \in JobIds : jobs[j].status = "completed" => jobs'[j].status = "completed",
           TypeOK
    PROVE  DraftsOK'
<1>1. ASSUME NEW j \in JobIds PROVE Drafted(j) => Drafted(j)'
  BY DEF Drafted
<1>2. ASSUME NEW j \in JobIds
      PROVE  drafts'[j] <= strays'[j] + (IF Drafted(j)' THEN 1 ELSE 0)
  <2>1. /\ drafts'[j] = drafts[j] /\ strays'[j] = strays[j]
        /\ drafts[j] \in Nat /\ strays[j] \in Nat
        /\ drafts[j] <= strays[j] + (IF Drafted(j) THEN 1 ELSE 0)
    BY DEF DraftsOK, TypeOK
  <2>2. QED
    BY <1>1, <2>1
<1>3. QED
  BY <1>2 DEF DraftsOK

\* A write to a row that is not completed leaves the completed ones.
LEMMA CompletedKept ==
    ASSUME TypeOK, NEW j \in JobIds, NEW r \in Row, UpdateRow(j, r),
           jobs[j].status # "completed"
    PROVE  \A i \in JobIds : jobs[i].status = "completed" => jobs'[i].status = "completed"
BY WriteFacts

LEMMA LoopDrafts ==
    ASSUME IInv, DraftsOK, NEW w \in Workers, Loop(w)
    PROVE  DraftsOK'
<1>1. TypeOK /\ BaseInv
  BY DEF IInv, BaseInv
<1>2. /\ UNCHANGED <<drafts, strays>> /\ workers[w].at # "complete"
      /\ \A v \in Workers : v # w => workers'[v] = workers[v]
  BY <1>1 DEF Loop, Claim, FindNothing, Sweep, TypeOK
<1>3. CASE Claim(w)
  <2>1. PICK j \in JobIds : Claimable(jobs[j]) /\ UpdateRow(j, Claimed(jobs[j], w))
    BY <1>3 DEF Claim
  <2> DEFINE r == Claimed(jobs[j], w)
  <2>2. r \in Row /\ UpdateRow(j, r)
    BY <1>1, <2>1, ClaimedRow DEF TypeOK
  <2>3. jobs[j].status # "completed"
    BY <2>1 DEF Claimable, Waiting
  <2> HIDE DEF r
  <2>4. \A i \in JobIds : jobs[i].status = "completed" => jobs'[i].status = "completed"
    BY <1>1, <2>2, <2>3, CompletedKept
  <2>5. QED
    BY <1>1, <1>2, <2>4, DraftsKept
<1>4. CASE FindNothing(w)
  <2>1. UNCHANGED jobs
    BY <1>4 DEF FindNothing
  <2>2. QED
    BY <1>1, <1>2, <2>1, DraftsKept
<1>5. CASE Sweep(w)
  <2>1. \A i \in JobIds : jobs[i].status = "completed" => jobs'[i].status = "completed"
    BY <1>5 DEF Sweep, Stale
  <2>2. QED
    BY <1>1, <1>2, <2>1, DraftsKept
<1>6. QED
  BY <1>3, <1>4, <1>5 DEF Loop

\* The steps of a run before it stores, and after it failed.
LEMMA RunDrafts ==
    ASSUME TimesFit, IInv, DraftsOK, NEW w \in Workers,
           ReadJob(w) \/ Looks(w) \/ Submit(w) \/ Record(w) \/ ReadForFail(w) \/ WriteFail(w)
    PROVE  DraftsOK'
<1>1. TypeOK /\ BaseInv
  BY DEF IInv, BaseInv
<1>2. /\ UNCHANGED <<drafts, strays>> /\ workers[w].at # "complete" /\ Busy(w)
  BY <1>1, LooksFacts, SubmitFacts, RecordFacts
     DEF ReadJob, ReadForFail, WriteFail, Waits, Busy
<1>3. \A v \in Workers : v # w => workers'[v] = workers[v]
  <2>1. CASE ReadJob(w) \/ ReadForFail(w) \/ WriteFail(w)
    BY <1>1, <2>1 DEF ReadJob, ReadForFail, WriteFail, TypeOK
  <2>2. CASE Looks(w)
    <3>1. \/ \E verdict \in {"retryable", "final"} : workers' = Raise(w, verdict)
          \/ \E point \in Points : workers' = GoTo(w, point)
      BY <1>1, <2>2, LooksFacts
    <3>2. ASSUME NEW verdict \in {"retryable", "final"}, workers' = Raise(w, verdict)
          PROVE  \A v \in Workers : v # w => workers'[v] = workers[v]
      BY <1>1, <3>2, RaiseFacts
    <3>3. ASSUME NEW point \in Points, workers' = GoTo(w, point)
          PROVE  \A v \in Workers : v # w => workers'[v] = workers[v]
      BY <1>1, <3>3, GoToFacts
    <3>4. QED
      BY <3>1, <3>2, <3>3
  <2>3. CASE Submit(w)
    <3>1. \/ \A v \in Workers : v # w => workers'[v] = workers[v]
          \/ \E verdict \in {"retryable", "final"} : workers' = Raise(w, verdict)
      BY <1>1, <2>3, SubmitFacts
    <3>2. ASSUME NEW verdict \in {"retryable", "final"}, workers' = Raise(w, verdict)
          PROVE  \A v \in Workers : v # w => workers'[v] = workers[v]
      BY <1>1, <3>2, RaiseFacts
    <3>3. QED
      BY <3>1, <3>2
  <2>4. CASE Record(w)
    <3>1. workers' = GoTo(w, "poll") \/ workers' = Raise(w, "retryable")
      BY <2>4 DEF Record
    <3>2. QED
      BY <1>1, <3>1, GoToFacts, RaiseFacts DEF Points, Waits
  <2>5. QED
    BY <2>1, <2>2, <2>3, <2>4
<1>4. \A i \in JobIds : jobs[i].status = "completed" => jobs'[i].status = "completed"
  <2>1. PICK j \in JobIds : j = workers[w].job /\ jobs[j].status # "completed"
    BY <1>2, OwnedFacts
  <2>2. CASE WriteFail(w)
    <3> DEFINE r == Released(jobs[j], workers[w].verdict)
    <3>1. r \in Row /\ UpdateRow(j, r)
      BY <1>1, <2>1, <2>2, WriteFailFacts
    <3> HIDE DEF r
    <3>2. QED
      BY <1>1, <2>1, <3>1, CompletedKept
  <2>3. CASE Record(w)
    <3> DEFINE r == TaskRecorded(jobs[j], workers[w].task)
    <3>1. (r \in Row /\ UpdateRow(j, r)) \/ NoRowUpdated
      BY <1>1, <2>1, <2>3, RecordFacts
    <3> HIDE DEF r
    <3>2. QED
      BY <1>1, <2>1, <3>1, CompletedKept DEF NoRowUpdated
  <2>4. CASE ReadJob(w) \/ Looks(w) \/ Submit(w) \/ ReadForFail(w)
    <3>1. NoRowUpdated
      BY <1>1, <2>4, LooksFacts, SubmitFacts DEF ReadJob, ReadForFail
    <3>2. QED
      BY <3>1 DEF NoRowUpdated
  <2>5. QED
    BY <2>2, <2>3, <2>4
<1>5. QED
  BY <1>1, <1>2, <1>3, <1>4, DraftsKept

\* The job of a run that stores is running, and no other run has stored for it:
\* its drafts are its strays.
LEMMA StoreDrafts ==
    ASSUME TimesFit, IInv, DraftsOK, NEW w \in Workers, Store(w)
    PROVE  DraftsOK'
<1>1. TypeOK /\ BaseInv
  BY DEF IInv, BaseInv
<1>2. PICK j \in JobIds : j = workers[w].job
  BY <1>1, StoreFacts
<1>3. /\ workers[w].at = "store" /\ UNCHANGED jobs
      /\ \/ /\ drafts' = [drafts EXCEPT ![j] = @ + 1] /\ UNCHANGED strays
            /\ workers' = GoTo(w, "complete")
         \/ /\ drafts' = [drafts EXCEPT ![j] = @ + 1]
            /\ strays' = [strays EXCEPT ![j] = @ + 1]
            /\ workers' = Raise(w, "retryable")
         \/ UNCHANGED <<drafts, strays>> /\ workers' = Raise(w, "retryable")
  BY <1>1, <1>2, StoreFacts DEF NoRowUpdated
<1>4. Busy(w)
  BY <1>3 DEF Busy
<1>5. ~Drafted(j)
  <2>1. jobs[j].status # "completed" /\ \A v \in Workers : Busy(v) /\ workers[v].job = j => v = w
    BY <1>2, <1>4, OwnedFacts
  <2>2. QED
    BY <1>3, <2>1 DEF Drafted, Busy
<1>6. /\ \A v \in Workers : v # w => workers'[v] = workers[v]
      /\ workers' = GoTo(w, "complete") =>
            workers'[w].at = "complete" /\ workers'[w].job = j
  BY <1>1, <1>2, <1>3, GoToFacts, RaiseFacts DEF Points
<1>7. CASE UNCHANGED <<drafts, strays>>
  BY <1>1, <1>3, <1>6, <1>7, DraftsKept
<1>8. CASE drafts' = [drafts EXCEPT ![j] = @ + 1]
  <2>1. ASSUME NEW i \in JobIds PROVE i # j /\ Drafted(i) => Drafted(i)'
    BY <1>2, <1>3, <1>6 DEF Drafted
  <2>2. ASSUME NEW i \in JobIds
        PROVE  drafts'[i] <= strays'[i] + (IF Drafted(i)' THEN 1 ELSE 0)
    <3>1. /\ drafts[i] \in Nat /\ strays[i] \in Nat
          /\ drafts[i] <= strays[i] + (IF Drafted(i) THEN 1 ELSE 0)
          /\ drafts'[i] = IF i = j THEN drafts[i] + 1 ELSE drafts[i]
      BY <1>1, <1>8 DEF DraftsOK, TypeOK
    <3>2. CASE UNCHANGED strays /\ workers' = GoTo(w, "complete")
      <4>1. i = j => Drafted(i)'
        BY <1>6, <3>2 DEF Drafted
      <4>2. strays'[i] = strays[i]
        BY <3>2
      <4>3. QED
        BY <1>5, <2>1, <3>1, <4>1, <4>2
    <3>3. CASE strays' = [strays EXCEPT ![j] = @ + 1]
      <4>1. strays'[i] = IF i = j THEN strays[i] + 1 ELSE strays[i]
        BY <1>1, <3>3 DEF TypeOK
      <4>2. QED
        BY <1>5, <2>1, <3>1, <4>1
    <3>4. ~UNCHANGED <<drafts, strays>>
      BY <1>1, <1>8 DEF TypeOK
    <3>5. QED
      BY <1>3, <3>2, <3>3, <3>4
  <2>3. QED
    BY <2>2 DEF DraftsOK
<1>9. QED
  BY <1>3, <1>7, <1>8

\* A run that leaves the point of completion completes its job or is a stray.
LEMMA EndDrafts ==
    ASSUME TimesFit, IInv, DraftsOK, NEW w \in Workers, Complete(w) \/ Crash(w) \/ Restart(w)
    PROVE  DraftsOK'
<1>1. TypeOK /\ BaseInv
  BY DEF IInv, BaseInv
<1>2. UNCHANGED drafts /\ \A v \in Workers : v # w => workers'[v] = workers[v]
  <2>1. CASE Complete(w)
    BY <1>1, <2>1, CompleteFacts, RaiseFacts DEF TypeOK
  <2>2. CASE Crash(w) \/ Restart(w)
    BY <1>1, <2>2 DEF Crash, Restart, TypeOK
  <2>3. QED
    BY <2>1, <2>2
<1>3. CASE workers[w].at # "complete"
  <2>1. UNCHANGED <<jobs, strays>>
    BY <1>3 DEF Complete, Crash, Restart, NoRowUpdated
  <2>2. QED
    BY <1>1, <1>2, <1>3, <2>1, DraftsKept
<1>4. CASE workers[w].at = "complete"
  <2>1. Busy(w) /\ ~Restart(w)
    BY <1>4 DEF Busy, Restart
  <2>2. PICK j \in JobIds : j = workers[w].job /\ jobs[j].status # "completed"
    BY <2>1, OwnedFacts
  <2>3. \/ /\ jobs'[j].status = "completed" /\ UNCHANGED strays
           /\ \A i \in JobIds : i # j => jobs'[i] = jobs[i]
        \/ strays' = [strays EXCEPT ![j] = @ + 1] /\ UNCHANGED jobs
    <3>1. CASE Complete(w)
      <4> DEFINE r == Completed(jobs[j])
      <4>1. \/ UpdateRow(j, r) /\ r \in Row /\ r.status = "completed" /\ UNCHANGED strays
            \/ NoRowUpdated /\ strays' = [strays EXCEPT ![j] = @ + 1]
        BY <1>1, <2>2, <3>1, CompleteFacts
      <4> HIDE DEF r
      <4>2. QED
        BY <1>1, <4>1, WriteFacts DEF NoRowUpdated
    <3>2. CASE Crash(w)
      BY <1>4, <2>2, <3>2 DEF Crash, NoRowUpdated
    <3>3. QED
      BY <2>1, <3>1, <3>2
  <2>4. ASSUME NEW i \in JobIds, i # j PROVE Drafted(i) => Drafted(i)'
    BY <1>2, <2>2, <2>3, <2>4 DEF Drafted
  <2>5. ASSUME NEW i \in JobIds
        PROVE  drafts'[i] <= strays'[i] + (IF Drafted(i)' THEN 1 ELSE 0)
    <3>1. /\ drafts[i] \in Nat /\ strays[i] \in Nat /\ drafts'[i] = drafts[i]
          /\ drafts[i] <= strays[i] + (IF Drafted(i) THEN 1 ELSE 0)
      BY <1>1, <1>2 DEF DraftsOK, TypeOK
    <3>2. CASE i # j
      <4>1. strays'[i] = strays[i]
        BY <1>1, <2>3, <3>2 DEF TypeOK
      <4>2. QED
        BY <2>4, <3>1, <3>2, <4>1
    <3>3. CASE i = j
      <4>1. \/ Drafted(i)' /\ strays'[i] = strays[i]
            \/ strays'[i] = strays[i] + 1
        BY <1>1, <2>3, <3>3 DEF TypeOK, Drafted
      <4>2. QED
        BY <3>1, <4>1
    <3>4. QED
      BY <3>2, <3>3
  <2>6. QED
    BY <2>5 DEF DraftsOK
<1>5. QED
  BY <1>3, <1>4

LEMMA StepDrafts ==
    ASSUME TimesFit
    PROVE  IInv /\ DraftsOK /\ [Next]_vars => DraftsOK'
<1> SUFFICES ASSUME IInv, DraftsOK, [Next]_vars PROVE DraftsOK'
  OBVIOUS
<1>1. TypeOK /\ BaseInv
  BY DEF IInv, BaseInv
<1>2. ASSUME NEW w \in Workers, Loop(w) \/ Run(w) \/ PollBreaks(w) \/ Crash(w) \/ Restart(w)
      PROVE  DraftsOK'
  BY <1>2, LoopDrafts, RunDrafts, StoreDrafts, EndDrafts DEF Run, Looks
<1>3. ASSUME NEW j \in JobIds, Retry(j) PROVE DraftsOK'
  <2> DEFINE r == Released(jobs[j], "retrying")
  <2>1. /\ r \in Row /\ UpdateRow(j, r) /\ jobs[j].status = "failed"
        /\ UNCHANGED <<workers, drafts, strays>>
    BY <1>1, <1>3, RetryFacts
  <2> HIDE DEF r
  <2>2. \A i \in JobIds : jobs[i].status = "completed" => jobs'[i].status = "completed"
    BY <1>1, <2>1, CompletedKept
  <2>3. QED
    BY <1>1, <2>1, <2>2, DraftsKept
<1>4. CASE UNCHANGED vars \/ \E t \in Tasks : ProviderFinishes(t)
  <2>1. UNCHANGED <<jobs, workers, drafts, strays>>
    BY <1>4 DEF vars, ProviderFinishes
  <2>2. QED
    BY <1>1, <2>1, DraftsKept
<1>5. CASE Tick
  BY <1>1, <1>5, TickFacts, DraftsKept
<1>6. QED
  BY <1>2, <1>3, <1>4, <1>5 DEF Next

\* A job has a second media result only for each run that stored one and did
\* not get to complete_job: no sweep, retry or failed download stores twice,
\* for every number of workers, crashes and refusals.
THEOREM DraftsAccounted == ASSUME TimesFit PROVE Spec => []DraftsAreAccountedFor
<1>1. Init => DraftsOK
  <2> SUFFICES ASSUME Init, NEW j \in JobIds
               PROVE  drafts[j] <= strays[j] + (IF Drafted(j) THEN 1 ELSE 0)
    BY DEF DraftsOK
  <2>1. drafts[j] = 0 /\ strays[j] = 0
    BY DEF Init
  <2>2. QED
    BY <2>1
<1>2. Spec => []IInv
  BY Invariance
<1>3. IInv /\ DraftsOK /\ [Next]_vars => DraftsOK'
  BY StepDrafts
<1>4. ASSUME IInv, DraftsOK PROVE DraftsAreAccountedFor
  <2> SUFFICES ASSUME NEW j \in JobIds PROVE drafts[j] <= 1 + strays[j]
    BY DEF DraftsAreAccountedFor
  <2>1. /\ drafts[j] \in Nat /\ strays[j] \in Nat
        /\ drafts[j] <= strays[j] + (IF Drafted(j) THEN 1 ELSE 0)
    BY <1>4 DEF DraftsOK, IInv, BaseInv, TypeOK
  <2>2. QED
    BY <2>1
<1>5. QED
  BY <1>1, <1>2, <1>3, <1>4, PTL DEF Spec

-----------------------------------------------------------------------------
(* MediaWorker implements JobLifecycle. *)

\* A step that changes no phase and no attempts, and stores no first result.
LEMMA Stutter ==
    ASSUME \A i \in JobIds :
               /\ phaseOf(jobs'[i]) = phaseOf(jobs[i])
               /\ jobs'[i].attempts = jobs[i].attempts
               /\ drafts'[i] > 0 <=> drafts[i] > 0
    PROVE  UNCHANGED Lifecycle!vars
<1>1. [i \in JobIds |-> phaseOf(jobs[i])]' = [i \in JobIds |-> phaseOf(jobs[i])]
  BY DEF phaseOf
<1>2. [i \in JobIds |-> jobs[i].attempts]' = [i \in JobIds |-> jobs[i].attempts]
  OBVIOUS
<1>3. {i \in JobIds : drafts[i] > 0}' = {i \in JobIds : drafts[i] > 0}
  OBVIOUS
<1>4. QED
  BY <1>1, <1>2, <1>3 DEF Lifecycle!vars

\* One row written and no result stored.
LEMMA PhaseWritten ==
    ASSUME TypeOK, NEW j \in JobIds, NEW r \in Row, UpdateRow(j, r), UNCHANGED drafts
    PROVE  /\ [i \in JobIds |-> phaseOf(jobs[i])]'
                  = [[i \in JobIds |-> phaseOf(jobs[i])] EXCEPT ![j] = phaseOf(r)]
           /\ [i \in JobIds |-> jobs[i].attempts]'
                  = [[i \in JobIds |-> jobs[i].attempts] EXCEPT ![j] = r.attempts]
           /\ {i \in JobIds : drafts[i] > 0}' = {i \in JobIds : drafts[i] > 0}
<1>1. jobs'[j] = r /\ \A i \in JobIds : i # j => jobs'[i] = jobs[i]
  BY WriteFacts
<1>2. [i \in JobIds |-> phaseOf(jobs[i])]'
          = [[i \in JobIds |-> phaseOf(jobs[i])] EXCEPT ![j] = phaseOf(r)]
  BY <1>1 DEF phaseOf
<1>3. [i \in JobIds |-> jobs[i].attempts]'
          = [[i \in JobIds |-> jobs[i].attempts] EXCEPT ![j] = r.attempts]
  BY <1>1
<1>4. QED
  BY <1>2, <1>3

\* The same, of a row whose attempts stay.
LEMMA PhaseMoved ==
    ASSUME TypeOK, NEW j \in JobIds, NEW r \in Row, UpdateRow(j, r), UNCHANGED drafts,
           r.attempts = jobs[j].attempts
    PROVE  /\ [i \in JobIds |-> phaseOf(jobs[i])]'
                  = [[i \in JobIds |-> phaseOf(jobs[i])] EXCEPT ![j] = phaseOf(r)]
           /\ [i \in JobIds |-> jobs[i].attempts]' = [i \in JobIds |-> jobs[i].attempts]
           /\ {i \in JobIds : drafts[i] > 0}' = {i \in JobIds : drafts[i] > 0}
BY PhaseWritten

LEMMA InitLifecycle == Init => Lifecycle!Init
<1> SUFFICES ASSUME Init PROVE Lifecycle!Init
  OBVIOUS
<1>1. NewRow(Budget).status = "queued" /\ NewRow(Budget).attempts = 0
  <2>1. Absent \in [status : {"absent"}, attempts : {0}, max : {0}, worker : {NoWorker},
                    task : {NoTask}, finished : {FALSE}]
    BY DEF Absent
  <2>2. QED
    BY <2>1 DEF NewRow
<1>2. \A j \in JobIds : phaseOf(jobs[j]) = "waiting" /\ jobs[j].attempts = 0 /\ ~(drafts[j] > 0)
  BY <1>1 DEF Init, phaseOf, Waiting
<1>3. QED
  BY <1>2 DEF Lifecycle!Init

\* A claim starts a run of a job that waits and has budget.
LEMMA ClaimStarts ==
    ASSUME IInv, NEW w \in Workers, Claim(w)
    PROVE  \E j \in JobIds : Lifecycle!Start(j)
<1>1. TypeOK
  BY DEF IInv, BaseInv
<1>2. PICK j \in JobIds : Claimable(jobs[j]) /\ UpdateRow(j, Claimed(jobs[j], w))
  BY DEF Claim
<1> DEFINE r == Claimed(jobs[j], w)
<1>3. jobs[j] \in Row /\ jobs[j].max = Budget /\ UNCHANGED drafts
  BY <1>1 DEF IInv, BaseInv, TypeOK, Claim
<1>4. r \in Row /\ r.status = "running" /\ r.attempts = jobs[j].attempts + 1
  BY <1>3, ClaimedRow
<1>5. UpdateRow(j, r)
  BY <1>2
<1> HIDE DEF r
<1>6. phaseOf(r) = "running"
  BY <1>4 DEF phaseOf, Waiting
<1>7. phaseOf(jobs[j]) = "waiting" /\ jobs[j].attempts < Budget
  BY <1>2, <1>3 DEF Claimable, HasBudget, phaseOf
<1>8. Lifecycle!Start(j)
  <2> DEFINE phase == [i \in JobIds |-> phaseOf(jobs[i])]
             spent == [i \in JobIds |-> jobs[i].attempts]
  <2>1. /\ phase' = [phase EXCEPT ![j] = phaseOf(r)]
        /\ spent' = [spent EXCEPT ![j] = r.attempts]
        /\ {i \in JobIds : drafts[i] > 0}' = {i \in JobIds : drafts[i] > 0}
    BY <1>1, <1>3, <1>4, <1>5, PhaseWritten
  <2>2. phase[j] = "waiting" /\ spent[j] = jobs[j].attempts /\ spent[j] < Budget
    BY <1>7
  <2>3. spent' = [spent EXCEPT ![j] = @ + 1]
    BY <1>4, <2>1, <2>2
  <2>4. QED
    BY <1>6, <2>1, <2>2, <2>3 DEF Lifecycle!Start
<1>9. QED
  BY <1>8

\* A row written as released ends one run.
LEMMA ReleaseEnds ==
    ASSUME IInv, NEW w \in Workers, WriteFail(w), TimesFit
    PROVE  \E again, failed \in SUBSET JobIds : Lifecycle!Release(again, failed)
<1>1. BaseInv /\ TypeOK
  BY DEF IInv, BaseInv
<1>2. PICK j \in JobIds : j = workers[w].job
  BY <1>1, WriteFailFacts
<1> DEFINE r == Released(jobs[j], workers[w].verdict)
           status == workers[w].verdict
<1>3. /\ workers[w].at = "release" /\ UNCHANGED drafts
      /\ UpdateRow(j, r) /\ r \in Row /\ r.attempts = jobs[j].attempts
      /\ r.status = status /\ status \in {"retrying", "failed"}
  BY <1>1, <1>2, WriteFailFacts
<1>4. Busy(w)
  BY <1>3 DEF Busy
<1>5. jobs[j].status = "running" /\ jobs[j].max = Budget
  BY <1>1, <1>2, <1>4, OwnedFacts DEF BaseInv
<1>6. status = "retrying" => jobs[j].attempts < Budget
  BY <1>2, <1>3, <1>4, <1>5 DEF IInv, RunOK, MayEnd, HasBudget
<1>7. /\ phaseOf(jobs[j]) = "running"
      /\ phaseOf(r) = IF status = "retrying" THEN "waiting" ELSE "failed"
  BY <1>3, <1>5 DEF phaseOf, Waiting
<1> HIDE DEF r, status
<1> DEFINE phase == [i \in JobIds |-> phaseOf(jobs[i])]
<1>8. /\ phase' = [phase EXCEPT ![j] = IF status = "retrying" THEN "waiting" ELSE "failed"]
      /\ [i \in JobIds |-> jobs[i].attempts]' = [i \in JobIds |-> jobs[i].attempts]
      /\ {i \in JobIds : drafts[i] > 0}' = {i \in JobIds : drafts[i] > 0}
  BY <1>1, <1>3, <1>7, PhaseMoved
<1>9. CASE status = "retrying"
  <2>1. phase' = [i \in JobIds |-> IF i \in {j} THEN "waiting"
                                  ELSE IF i \in {} THEN "failed" ELSE phase[i]]
    BY <1>8, <1>9
  <2>2. Lifecycle!Release({j}, {})
    BY <1>6, <1>7, <1>8, <1>9, <2>1 DEF Lifecycle!Release
  <2>3. QED
    BY <2>2
<1>10. CASE status = "failed"
  <2>1. phase' = [i \in JobIds |-> IF i \in {} THEN "waiting"
                                  ELSE IF i \in {j} THEN "failed" ELSE phase[i]]
    BY <1>8, <1>10
  <2>2. Lifecycle!Release({}, {j})
    BY <1>7, <1>8, <2>1 DEF Lifecycle!Release
  <2>3. QED
    BY <2>2
<1>11. QED
  BY <1>3, <1>9, <1>10

\* A sweep ends every run it finds stale at once.
LEMMA SweepEnds ==
    ASSUME IInv, NEW w \in Workers, Sweep(w)
    PROVE  \E again, failed \in SUBSET JobIds : Lifecycle!Release(again, failed)
<1> DEFINE again == {i \in JobIds : Stale(i) /\ HasBudget(jobs[i])}
           failed == {i \in JobIds : Stale(i) /\ ~HasBudget(jobs[i])}
           phase == [i \in JobIds |-> phaseOf(jobs[i])]
<1>1. ASSUME NEW i \in JobIds
      PROVE  /\ phaseOf(jobs'[i]) = IF i \in again THEN "waiting"
                                    ELSE IF i \in failed THEN "failed" ELSE phaseOf(jobs[i])
             /\ jobs'[i].attempts = jobs[i].attempts
  <2>1. jobs[i] \in Row
    BY DEF IInv, BaseInv, TypeOK
  <2> DEFINE status == FailureStatus(jobs[i], TRUE)
             r == Released(jobs[i], status)
  <2>2. status = IF HasBudget(jobs[i]) THEN "retrying" ELSE "failed"
    BY DEF FailureStatus
  <2> HIDE DEF status
  <2>3. r.status = status /\ r.attempts = jobs[i].attempts
    BY <2>1, <2>2, ReleasedRow
  <2> HIDE DEF r
  <2>4. jobs'[i] = IF Stale(i) THEN r ELSE jobs[i]
    BY DEF Sweep, r, status
  <2>5. QED
    BY <2>2, <2>3, <2>4 DEF phaseOf, Waiting
<1>2. ASSUME NEW i \in again \cup failed PROVE phase[i] = "running"
  BY DEF Stale, phaseOf, Waiting
<1>3. ASSUME NEW i \in again PROVE jobs[i].attempts < Budget
  BY DEF HasBudget, IInv, BaseInv
<1>4. again \in SUBSET JobIds /\ failed \in SUBSET JobIds /\ again \cap failed = {}
  OBVIOUS
<1> HIDE DEF again, failed
<1>5. phase' = [i \in JobIds |-> IF i \in again THEN "waiting"
                                ELSE IF i \in failed THEN "failed" ELSE phase[i]]
  BY <1>1, <1>4 DEF phaseOf
<1>6. /\ [i \in JobIds |-> jobs[i].attempts]' = [i \in JobIds |-> jobs[i].attempts]
      /\ {i \in JobIds : drafts[i] > 0}' = {i \in JobIds : drafts[i] > 0}
  BY <1>1 DEF Sweep
<1>7. Lifecycle!Release(again, failed)
  BY <1>2, <1>3, <1>4, <1>5, <1>6 DEF Lifecycle!Release
<1>8. QED
  BY <1>4, <1>7

\* A completed run has stored a result, or it did not get to complete.
LEMMA CompleteEnds ==
    ASSUME TimesFit, IInv, NEW w \in Workers, Complete(w)
    PROVE  (\E j \in JobIds : Lifecycle!Complete(j)) \/ UNCHANGED Lifecycle!vars
<1>1. BaseInv /\ TypeOK
  BY DEF IInv, BaseInv
<1>2. PICK j \in JobIds : j = workers[w].job
  BY <1>1, CompleteFacts
<1> DEFINE r == Completed(jobs[j])
<1>3. /\ workers[w].at = "complete" /\ UNCHANGED drafts
      /\ \/ /\ UpdateRow(j, r)
            /\ r \in Row /\ r.status = "completed" /\ r.attempts = jobs[j].attempts
         \/ NoRowUpdated
  BY <1>1, <1>2, CompleteFacts
<1> HIDE DEF r
<1>4. Busy(w)
  BY <1>3 DEF Busy
<1>5. jobs[j].status = "running" /\ drafts[j] > 0
  BY <1>2, <1>3, <1>4, OwnedFacts DEF IInv, RunOK, MayEnd
<1>6. CASE NoRowUpdated
  BY <1>3, <1>6, Stutter DEF NoRowUpdated
<1>7. CASE /\ UpdateRow(j, r)
           /\ r \in Row /\ r.status = "completed" /\ r.attempts = jobs[j].attempts
  <2>1. phaseOf(jobs[j]) = "running" /\ phaseOf(r) = "completed"
    BY <1>5, <1>7 DEF phaseOf, Waiting
  <2>2. Lifecycle!Complete(j)
    BY <1>1, <1>3, <1>5, <1>7, <2>1, PhaseMoved DEF Lifecycle!Complete
  <2>3. QED
    BY <2>2
<1>8. QED
  BY <1>3, <1>6, <1>7

\* A result is stored while its job runs.
LEMMA StoreStores ==
    ASSUME TimesFit, IInv, NEW w \in Workers, Store(w)
    PROVE  (\E j \in JobIds : Lifecycle!Store(j)) \/ UNCHANGED Lifecycle!vars
<1>1. BaseInv /\ TypeOK
  BY DEF IInv, BaseInv
<1>2. /\ workers[w].at = "store" /\ NoRowUpdated
      /\ \/ drafts' = [drafts EXCEPT ![workers[w].job] = @ + 1]
         \/ UNCHANGED drafts
  BY DEF Store
<1>3. Busy(w)
  BY <1>2 DEF Busy
<1>4. PICK j \in JobIds : j = workers[w].job /\ jobs[j].status = "running"
  BY <1>3, OwnedFacts
<1>5. CASE UNCHANGED drafts
  BY <1>2, <1>5, Stutter DEF NoRowUpdated
<1>6. CASE drafts' = [drafts EXCEPT ![j] = @ + 1]
  <2>1. drafts \in [JobIds -> Nat]
    BY <1>1 DEF TypeOK
  <2>2. {i \in JobIds : drafts[i] > 0}' = {i \in JobIds : drafts[i] > 0} \cup {j}
    BY <1>6, <2>1
  <2>3. phaseOf(jobs[j]) = "running"
    BY <1>4 DEF phaseOf, Waiting
  <2>4. Lifecycle!Store(j)
    BY <1>2, <2>2, <2>3 DEF Lifecycle!Store, NoRowUpdated
  <2>5. QED
    BY <2>4
<1>7. QED
  BY <1>2, <1>4, <1>5, <1>6

LEMMA RetryRetries ==
    ASSUME IInv, NEW j \in JobIds, Retry(j)
    PROVE  Lifecycle!Retry(j)
<1>1. BaseInv /\ TypeOK
  BY DEF IInv, BaseInv
<1> DEFINE r == Released(jobs[j], "retrying")
<1>2. /\ jobs[j].status = "failed" /\ HasBudget(jobs[j]) /\ jobs[j].max = Budget
      /\ UpdateRow(j, r) /\ r \in Row
      /\ r.status = "retrying" /\ r.attempts = jobs[j].attempts
      /\ UNCHANGED drafts
  BY <1>1, RetryFacts DEF BaseInv
<1> HIDE DEF r
<1>3. phaseOf(jobs[j]) = "failed" /\ phaseOf(r) = "waiting" /\ jobs[j].attempts < Budget
  BY <1>2 DEF phaseOf, Waiting, HasBudget
<1>4. QED
  BY <1>1, <1>2, <1>3, PhaseMoved DEF Lifecycle!Retry

\* Every other step changes nothing a reader of the lifecycle sees.
LEMMA QuietSteps ==
    ASSUME IInv,
           \/ UNCHANGED vars
           \/ \E w \in Workers :
                 \/ FindNothing(w) \/ ReadJob(w) \/ Looks(w) \/ Submit(w) \/ Record(w)
                 \/ ReadForFail(w) \/ Crash(w) \/ Restart(w)
           \/ \E t \in Tasks : ProviderFinishes(t)
           \/ Tick
    PROVE  UNCHANGED Lifecycle!vars
<1>1. BaseInv /\ TypeOK
  BY DEF IInv, BaseInv
<1>2. ASSUME NEW w \in Workers, Record(w) PROVE UNCHANGED Lifecycle!vars
  <2>1. PICK j \in JobIds : j = workers[w].job
    BY <1>1, <1>2, RecordFacts
  <2> DEFINE r == TaskRecorded(jobs[j], workers[w].task)
  <2>2. /\ UNCHANGED drafts
        /\ \/ /\ UpdateRow(j, r)
              /\ r \in Row /\ r.status = jobs[j].status /\ r.attempts = jobs[j].attempts
           \/ NoRowUpdated
    BY <1>1, <1>2, <2>1, RecordFacts
  <2> HIDE DEF r
  <2>3. \A i \in JobIds : /\ jobs'[i].status = jobs[i].status
                          /\ jobs'[i].attempts = jobs[i].attempts
    BY <1>1, <2>2, WriteFacts DEF NoRowUpdated
  <2>4. QED
    BY <2>2, <2>3, Stutter DEF phaseOf
<1>3. CASE \E w \in Workers :
              \/ FindNothing(w) \/ ReadJob(w) \/ Looks(w) \/ Submit(w)
              \/ ReadForFail(w) \/ Crash(w) \/ Restart(w)
  <2>1. UNCHANGED <<jobs, drafts>>
    BY <1>1, <1>3, LooksFacts
       DEF FindNothing, ReadJob, Submit, ReadForFail, Crash, Restart, NoRowUpdated
  <2>2. QED
    BY <2>1, Stutter
<1>4. CASE \/ UNCHANGED vars
           \/ \E t \in Tasks : ProviderFinishes(t)
           \/ Tick
  <2>1. UNCHANGED <<jobs, drafts>>
    BY <1>4 DEF vars, ProviderFinishes, Tick
  <2>2. QED
    BY <2>1, Stutter
<1>5. QED
  BY <1>2, <1>3, <1>4

LEMMA StepLifecycle == ASSUME TimesFit PROVE IInv /\ [Next]_vars => [Lifecycle!Next]_(Lifecycle!vars)
<1> SUFFICES ASSUME IInv, [Next]_vars PROVE Lifecycle!Next \/ UNCHANGED Lifecycle!vars
  OBVIOUS
<1>1. ASSUME NEW w \in Workers, Loop(w) \/ Run(w) \/ PollBreaks(w) \/ Crash(w) \/ Restart(w)
      PROVE  Lifecycle!Next \/ UNCHANGED Lifecycle!vars
  <2>1. CASE Claim(w)
    BY <2>1, ClaimStarts DEF Lifecycle!Next
  <2>2. CASE Sweep(w)
    BY <2>2, SweepEnds DEF Lifecycle!Next
  <2>3. CASE WriteFail(w)
    BY <2>3, ReleaseEnds DEF Lifecycle!Next
  <2>4. CASE Complete(w)
    BY <2>4, CompleteEnds DEF Lifecycle!Next
  <2>5. CASE Store(w)
    BY <2>5, StoreStores DEF Lifecycle!Next
  <2>6. CASE \/ FindNothing(w) \/ ReadJob(w) \/ Looks(w) \/ Submit(w) \/ Record(w)
             \/ ReadForFail(w) \/ Crash(w) \/ Restart(w)
    BY <2>6, QuietSteps
  <2>7. QED
    BY <1>1, <2>1, <2>2, <2>3, <2>4, <2>5, <2>6 DEF Loop, Run, Looks
<1>2. ASSUME NEW j \in JobIds, Retry(j) PROVE Lifecycle!Next
  BY <1>2, RetryRetries DEF Lifecycle!Next
<1>3. QED
  BY <1>1, <1>2, QuietSteps DEF Next

\* Workers that claim, crash, lose answers and are swept, and the operator's
\* retries, implement the lifecycle a reader of jobs.py expects: at most
\* Budget runs of a job, completed only with a result stored, and then final.
THEOREM RefinesLifecycle == ASSUME TimesFit PROVE Spec => ImplementsLifecycle
<1>1. Spec => []IInv
  BY Invariance
<1>2. Init => Lifecycle!Init
  BY InitLifecycle
<1>3. IInv /\ [Next]_vars => [Lifecycle!Next]_(Lifecycle!vars)
  BY StepLifecycle
<1>4. QED
  BY <1>1, <1>2, <1>3, PTL DEF Spec, ImplementsLifecycle, Lifecycle!Spec

=============================================================================
