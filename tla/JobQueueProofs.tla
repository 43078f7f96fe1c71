--------------------------- MODULE JobQueueProofs ---------------------------
(***************************************************************************)
(* The safety properties of JobQueue for every set of handlers, workers,   *)
(* keys, projects and tasks and every bound: type correctness, one row per *)
(* key, the well-formedness of every row, and that only a claim spends an  *)
(* attempt.                                                                *)
(*                                                                         *)
(* The invariant IInv is inductive because all but three actions are one   *)
(* row update: lemma RowUpdateStep does their case once, from the lemma    *)
(* that says that the update keeps a row well formed.                      *)
(***************************************************************************)
EXTENDS JobQueue, TLAPS

(* Every row update of MediaJobs keeps a row well formed. *)

RowOK(r) ==
    /\ r \in Row
    /\ WithinBudget(r)
    /\ FinishedAtMatches(r)
    /\ OwnerMatches(r)

\* An id without a row is well formed.
LEMMA AbsentOK == RowOK(Absent)
BY NoWorkerAssumption
   DEF RowOK, Row, Absent, Status, Waiting, Finished, WithinBudget, FinishedAtMatches, OwnerMatches

\* The INSERT makes a well-formed row.
LEMMA NewRowOK ==
    ASSUME NEW max \in Nat
    PROVE  RowOK(NewRow(max)) /\ NewRow(max).status = "queued"
<1>1. Absent \in Row
  BY AbsentOK DEF RowOK
<1>2. NewRow(max) \in Row
  BY <1>1 DEF Row, NewRow, Status, Waiting
<1>3. NewRow(max).status = "queued" /\ NewRow(max).max = max
  BY <1>1 DEF Row, NewRow
<1>4. /\ NewRow(max).attempts = 0
      /\ NewRow(max).worker = NoWorker
      /\ NewRow(max).finished = FALSE
  BY <1>1 DEF Row, NewRow, Absent
<1>5. WithinBudget(NewRow(max))
  BY <1>3, <1>4 DEF WithinBudget
<1>6. FinishedAtMatches(NewRow(max)) /\ OwnerMatches(NewRow(max))
  BY <1>3, <1>4 DEF FinishedAtMatches, OwnerMatches, Finished
<1>7. QED
  BY <1>2, <1>3, <1>5, <1>6 DEF RowOK

\* A claim spends an attempt that is there, and finished_at was unset.
LEMMA ClaimedOK ==
    ASSUME NEW r, NEW w \in Workers, RowOK(r), Claimable(r)
    PROVE  /\ RowOK(Claimed(r, w))
           /\ Claimed(r, w).attempts = r.attempts + 1
           /\ Claimed(r, w).max = r.max
           /\ Claimed(r, w).status = "running"
<1>1. r \in Row /\ r.attempts + 1 \in Nat
  BY DEF RowOK, Row
<1>2. Claimed(r, w) \in Row
  BY <1>1 DEF Row, Claimed, Status
<1>3. /\ Claimed(r, w).attempts = r.attempts + 1
      /\ Claimed(r, w).max = r.max
      /\ Claimed(r, w).status = "running"
      /\ Claimed(r, w).worker = w
      /\ Claimed(r, w).finished = r.finished
  BY <1>1 DEF Row, Claimed
<1>4. WithinBudget(Claimed(r, w))
  BY <1>1, <1>3 DEF Row, WithinBudget, Claimable, HasBudget
<1>5. FinishedAtMatches(Claimed(r, w))
  BY <1>3 DEF FinishedAtMatches, RowOK, Claimable, Waiting, Finished
<1>6. OwnerMatches(Claimed(r, w))
  BY <1>3 DEF OwnerMatches, Waiting
<1>7. QED
  BY <1>2, <1>3, <1>4, <1>5, <1>6 DEF RowOK

\* A release clears the worker and sets finished_at exactly for "failed",
\* whatever row it finds.
LEMMA ReleasedOK ==
    ASSUME NEW r, NEW status \in {"retrying", "failed"}, RowOK(r)
    PROVE  /\ RowOK(Released(r, status))
           /\ Released(r, status).attempts = r.attempts
           /\ Released(r, status).max = r.max
           /\ Released(r, status).status = status
<1>1. r \in Row
  BY DEF RowOK
<1>2. Released(r, status) \in Row
  BY <1>1 DEF Row, Released, Status, Waiting, Finished
<1>3. /\ Released(r, status).attempts = r.attempts
      /\ Released(r, status).max = r.max
      /\ Released(r, status).status = status
      /\ Released(r, status).worker = NoWorker
  BY <1>1 DEF Row, Released
<1>4. Released(r, status).finished = (status = "failed")
  BY <1>1 DEF Row, Released
<1>5. WithinBudget(Released(r, status))
  BY <1>3 DEF RowOK, WithinBudget
<1>6. FinishedAtMatches(Released(r, status))
  BY <1>3, <1>4 DEF FinishedAtMatches, Finished
<1>7. OwnerMatches(Released(r, status))
  BY <1>3 DEF OwnerMatches
<1>8. QED
  BY <1>2, <1>3, <1>5, <1>6, <1>7 DEF RowOK

\* A completion sets the final status and finished_at together.
LEMMA CompletedOK ==
    ASSUME NEW r, RowOK(r)
    PROVE  /\ RowOK(Completed(r))
           /\ Completed(r).attempts = r.attempts
           /\ Completed(r).max = r.max
           /\ Completed(r).status = "completed"
<1>1. r \in Row
  BY DEF RowOK
<1>2. Completed(r) \in Row
  BY <1>1 DEF Row, Completed, Status, Finished
<1>3. /\ Completed(r).attempts = r.attempts
      /\ Completed(r).max = r.max
      /\ Completed(r).status = "completed"
      /\ Completed(r).finished = TRUE
  BY <1>1 DEF Row, Completed
<1>4. WithinBudget(Completed(r))
  BY <1>3 DEF RowOK, WithinBudget
<1>5. FinishedAtMatches(Completed(r)) /\ OwnerMatches(Completed(r))
  BY <1>3 DEF FinishedAtMatches, OwnerMatches, Finished, Waiting
<1>6. QED
  BY <1>2, <1>3, <1>4, <1>5 DEF RowOK

\* Recording a provider task touches neither status nor counters.
LEMMA TaskRecordedOK ==
    ASSUME NEW r, NEW t \in Tasks, RowOK(r)
    PROVE  /\ RowOK(TaskRecorded(r, t))
           /\ TaskRecorded(r, t).attempts = r.attempts
           /\ TaskRecorded(r, t).max = r.max
           /\ TaskRecorded(r, t).status = r.status
<1>1. r \in Row
  BY DEF RowOK
<1>2. TaskRecorded(r, t) \in Row
  BY <1>1 DEF Row, TaskRecorded
<1>3. /\ TaskRecorded(r, t).attempts = r.attempts
      /\ TaskRecorded(r, t).max = r.max
      /\ TaskRecorded(r, t).status = r.status
      /\ TaskRecorded(r, t).worker = r.worker
      /\ TaskRecorded(r, t).finished = r.finished
  BY <1>1 DEF Row, TaskRecorded
<1>4. WithinBudget(TaskRecorded(r, t)) /\ OwnerMatches(TaskRecorded(r, t))
  BY <1>3 DEF RowOK, WithinBudget, OwnerMatches
<1>5. FinishedAtMatches(TaskRecorded(r, t))
  BY <1>3 DEF RowOK, FinishedAtMatches
<1>6. QED
  BY <1>2, <1>3, <1>4, <1>5 DEF RowOK

\* The status computed for a failure is one a release may write.
LEMMA FailureStatusType ==
    ASSUME NEW r, NEW retryable \in BOOLEAN
    PROVE  FailureStatus(r, retryable) \in {"retrying", "failed"}
BY DEF FailureStatus

-----------------------------------------------------------------------------
(* The queue. *)

\* Ids not handed out yet have no row, so an INSERT never lands on one.
UnusedIdsAbsent == \A j \in JobIds : j >= nextId => ~Present(j)

RowsOK == \A j \in JobIds : RowOK(jobs[j])

IInv ==
    /\ TypeOK
    /\ RowsOK
    /\ OneJobPerKey
    /\ UnusedIdsAbsent

\* The initial table is empty.
LEMMA InitIInv == Init => IInv
<1> SUFFICES ASSUME Init PROVE IInv
  OBVIOUS
<1>1. \A j \in JobIds : jobs[j] = Absent /\ ~Present(j)
  BY DEF Init, Present, Absent
<1>2. RowsOK
  BY <1>1, AbsentOK DEF RowsOK
<1>3. OneJobPerKey /\ UnusedIdsAbsent
  BY <1>1 DEF OneJobPerKey, UnusedIdsAbsent
<1>4. (CHOOSE i \in Identity : TRUE) \in Identity
  <2>1. PICK k \in Keys, p \in Projects : TRUE
    BY KeysAssumption
  <2>2. [key |-> k, project |-> p] \in Identity
    BY DEF Identity
  <2>3. QED
    BY <2>2
<1>5. TypeOK
  <2>1. jobs \in [JobIds -> Row]
    BY AbsentOK DEF Init, RowOK
  <2>2. identity \in [JobIds -> Identity]
    BY <1>4 DEF Init
  <2>3. nextId \in 1..(MaxJobs + 1)
    BY MaxJobsAssumption DEF Init
  <2>4. /\ results \in [JobIds -> Nat] /\ raced \subseteq JobIds
        /\ handlers \in [Handlers -> Pending]
    BY DEF Init, Pending
  <2>5. QED
    BY <2>1, <2>2, <2>3, <2>4 DEF TypeOK
<1>6. QED
  BY <1>2, <1>3, <1>5 DEF IInv

\* One row replaced by a well-formed one that exists only if the old one did,
\* with the attempts the step is allowed to spend.
LEMMA RowUpdateStep ==
    ASSUME IInv, NEW j \in JobIds, NEW r,
           RowOK(r),
           r.status # "absent" =>
              /\ Present(j)
              /\ r.max = jobs[j].max
              /\ r.attempts = IF r.status = "running" /\ jobs[j].status # "running"
                              THEN jobs[j].attempts + 1
                              ELSE jobs[j].attempts,
           jobs' = [jobs EXCEPT ![j] = r],
           UNCHANGED <<identity, nextId>>,
           results' \in [JobIds -> Nat],
           raced' \subseteq JobIds,
           handlers' \in [Handlers -> Pending]
    PROVE  IInv' /\ RunStep
<1>1. /\ jobs'[j] = r
      /\ \A i \in JobIds \ {j} : jobs'[i] = jobs[i]
  BY DEF IInv, TypeOK
<1>2. TypeOK'
  BY DEF IInv, TypeOK, RowOK
<1>3. RowsOK'
  BY <1>1 DEF IInv, RowsOK
<1>4. \A i \in JobIds : Present(i)' => Present(i)
  BY <1>1 DEF Present
<1>5. OneJobPerKey'
  BY <1>4 DEF IInv, OneJobPerKey
<1>6. UnusedIdsAbsent'
  BY <1>4 DEF IInv, UnusedIdsAbsent
<1>7. RunStep
  <2> SUFFICES ASSUME NEW i \in JobIds, Present(i), Present(i)'
               PROVE  /\ jobs'[i].max = jobs[i].max
                      /\ identity'[i] = identity[i]
                      /\ jobs'[i].attempts =
                            IF jobs'[i].status = "running" /\ jobs[i].status # "running"
                            THEN jobs[i].attempts + 1
                            ELSE jobs[i].attempts
    BY DEF RunStep
  <2>1. CASE i = j
    BY <1>1, <2>1 DEF Present
  <2>2. CASE i # j
    BY <1>1, <2>2
  <2>3. QED
    BY <2>1, <2>2
<1>8. QED
  BY <1>2, <1>3, <1>5, <1>6, <1>7 DEF IInv

\* Steps that leave every row alone.
LEMMA NoRowStep ==
    ASSUME IInv, UNCHANGED <<jobs, identity, nextId>>,
           results' \in [JobIds -> Nat], raced' \subseteq JobIds,
           handlers' \in [Handlers -> Pending]
    PROVE  IInv' /\ RunStep
BY DEF IInv, TypeOK, RowsOK, OneJobPerKey, UnusedIdsAbsent, Present, RunStep

\* A handler that goes idle, or has read, is still a handler.
LEMMA IdlePending ==
    ASSUME TypeOK, NEW h \in Handlers, NEW p \in Pending
    PROVE  [handlers EXCEPT ![h] = p] \in [Handlers -> Pending]
BY DEF TypeOK

\* The UPDATE of a handler that read before: it may find the row gone.
LEMMA ReleaseStep ==
    ASSUME IInv, NEW h \in Handlers, NEW j \in JobIds, NEW status \in {"retrying", "failed"},
           jobs' = [jobs EXCEPT ![j] = IfPresent(@, Released(@, status))],
           handlers' = [handlers EXCEPT ![h] = Idle],
           UNCHANGED <<identity, nextId, results>>, raced' \subseteq JobIds
    PROVE  IInv' /\ RunStep
<1>1. RowOK(jobs[j])
  BY DEF IInv, RowsOK
<1>2. results' \in [JobIds -> Nat] /\ handlers' \in [Handlers -> Pending]
  BY DEF IInv, TypeOK, Pending
<1>3. CASE Present(j)
  <2>1. jobs' = [jobs EXCEPT ![j] = Released(jobs[j], status)]
    BY <1>3 DEF Present, IfPresent
  <2>2. /\ RowOK(Released(jobs[j], status))
        /\ Released(jobs[j], status).attempts = jobs[j].attempts
        /\ Released(jobs[j], status).max = jobs[j].max
        /\ Released(jobs[j], status).status # "running"
    BY <1>1, ReleasedOK
  <2>3. QED
    BY <1>2, <1>3, <2>1, <2>2, RowUpdateStep
<1>4. CASE ~Present(j)
  <2>1. jobs' = [jobs EXCEPT ![j] = jobs[j]]
    BY <1>4 DEF Present, IfPresent
  <2>2. UNCHANGED jobs
    BY <2>1 DEF IInv, TypeOK
  <2>3. QED
    BY <1>2, <2>2, NoRowStep
<1>5. QED
  BY <1>3, <1>4

\* The INSERT takes the next id, which has no row yet, and a key no row has.
LEMMA InsertStep ==
    ASSUME IInv, NEW h \in Handlers, Insert(h), raced' \subseteq JobIds
    PROVE  IInv' /\ RunStep
<1>1. /\ handlers[h] \in Pending
      /\ handlers[h].op = "insert"
  BY DEF IInv, TypeOK, Insert
<1>2. /\ handlers[h].key \in Keys
      /\ handlers[h].project \in Projects
      /\ handlers[h].max \in Budgets
  BY <1>1 DEF Pending, Idle
<1>3. handlers' \in [Handlers -> Pending] /\ results' \in [JobIds -> Nat]
  BY DEF IInv, TypeOK, Insert, Pending
<1>4. CASE KeyTaken(handlers[h].key) /\ UNCHANGED <<jobs, identity, nextId>>
  BY <1>3, <1>4, NoRowStep
<1>5. CASE /\ ~KeyTaken(handlers[h].key)
           /\ nextId \in JobIds
           /\ jobs' = [jobs EXCEPT ![nextId] = NewRow(handlers[h].max)]
           /\ identity' = [identity EXCEPT ![nextId] =
                               [key |-> handlers[h].key, project |-> handlers[h].project]]
           /\ nextId' = nextId + 1
  <2> DEFINE row == NewRow(handlers[h].max)
             id == [key |-> handlers[h].key, project |-> handlers[h].project]
  <2>1. RowOK(row) /\ row.status = "queued" /\ id \in Identity
    BY <1>2, NewRowOK, BudgetsAssumption DEF Identity
  <2> HIDE DEF row, id
  <2>2. /\ jobs' = [jobs EXCEPT ![nextId] = row]
        /\ identity' = [identity EXCEPT ![nextId] = id]
        /\ id.key = handlers[h].key
    BY <1>5 DEF row, id
  <2>3. /\ jobs'[nextId] = row /\ identity'[nextId] = id
        /\ \A i \in JobIds \ {nextId} : jobs'[i] = jobs[i] /\ identity'[i] = identity[i]
    BY <1>5, <2>2 DEF IInv, TypeOK
  <2>4. /\ ~Present(nextId)
        /\ \A i \in JobIds \ {nextId} : Present(i)' <=> Present(i)
    BY <1>5, <2>3, MaxJobsAssumption DEF IInv, UnusedIdsAbsent, Present, JobIds
  <2>5. TypeOK'
    <3>1. jobs' \in [JobIds -> Row] /\ identity' \in [JobIds -> Identity]
      BY <1>5, <2>1, <2>2 DEF IInv, TypeOK, RowOK
    <3>2. nextId' \in 1..(MaxJobs + 1)
      BY <1>5, MaxJobsAssumption DEF JobIds
    <3>3. QED
      BY <1>3, <3>1, <3>2 DEF TypeOK
  <2>6. RowsOK'
    BY <2>1, <2>3 DEF IInv, RowsOK
  <2>7. OneJobPerKey'
    BY <1>5, <2>2, <2>3, <2>4 DEF IInv, OneJobPerKey, KeyTaken
  <2>8. UnusedIdsAbsent'
    BY <1>5, <2>4, MaxJobsAssumption DEF IInv, UnusedIdsAbsent, JobIds
  <2>9. RunStep
    BY <2>3, <2>4 DEF RunStep
  <2>10. QED
    BY <2>5, <2>6, <2>7, <2>8, <2>9 DEF IInv
<1>6. QED
  BY <1>4, <1>5 DEF Insert

\* The sweep releases the rows it selects, each as a failure does.
LEMMA ReclaimStaleStep ==
    ASSUME IInv, ReclaimStale, raced' \subseteq JobIds
    PROVE  IInv' /\ RunStep
<1>0. PICK stale \in (SUBSET Running) \ {{}} :
         /\ jobs' = [j \in JobIds |-> IF j \in stale
                                      THEN Released(jobs[j], FailureStatus(jobs[j], TRUE))
                                      ELSE jobs[j]]
         /\ UNCHANGED <<identity, nextId, results, handlers>>
  BY DEF ReclaimStale
<1>1. \A j \in JobIds :
         /\ RowOK(jobs'[j])
         /\ jobs'[j].attempts = jobs[j].attempts
         /\ jobs'[j].max = jobs[j].max
         /\ jobs'[j].status = "running" => jobs[j].status = "running"
         /\ Present(j)' <=> Present(j)
  <2> SUFFICES ASSUME NEW j \in JobIds
               PROVE  /\ RowOK(jobs'[j])
                      /\ jobs'[j].attempts = jobs[j].attempts
                      /\ jobs'[j].max = jobs[j].max
                      /\ jobs'[j].status = "running" => jobs[j].status = "running"
                      /\ Present(j)' <=> Present(j)
    OBVIOUS
  <2>1. RowOK(jobs[j])
    BY DEF IInv, RowsOK
  <2>2. CASE j \in stale
    <3> DEFINE status == FailureStatus(jobs[j], TRUE)
    <3>1. status \in {"retrying", "failed"}
      BY FailureStatusType
    <3>2. jobs'[j] = Released(jobs[j], status) /\ jobs[j].status = "running"
      BY <1>0, <2>2 DEF Running
    <3> HIDE DEF status
    <3>3. QED
      BY <2>1, <3>1, <3>2, ReleasedOK DEF Present
  <2>3. CASE j \notin stale
    BY <1>0, <2>1, <2>3 DEF Present
  <2>4. QED
    BY <2>2, <2>3
<1>2. TypeOK'
  BY <1>0, <1>1 DEF IInv, TypeOK, RowOK
<1>3. RowsOK'
  BY <1>1 DEF RowsOK
<1>4. OneJobPerKey' /\ UnusedIdsAbsent'
  BY <1>0, <1>1 DEF IInv, OneJobPerKey, UnusedIdsAbsent
<1>5. RunStep
  BY <1>0, <1>1 DEF RunStep
<1>6. QED
  BY <1>2, <1>3, <1>4, <1>5 DEF IInv

\* A callback's own writes: a result, and the row if it is still there.
LEMMA CallbackStep ==
    ASSUME IInv, Callback, raced' \subseteq JobIds
    PROVE  IInv' /\ RunStep
<1>1. PICK h \in Handlers :
         (\E j \in JobIds : ReadForComplete(h, j)) \/ StoreResult(h) \/ WriteComplete(h)
  BY DEF Callback
<1>2. ASSUME NEW op \in {"store", "complete"}, NEW j \in JobIds
      PROVE  [op |-> op, job |-> j] \in Pending
  BY DEF Pending
<1>3. handlers[h] \in Pending /\ Idle \in Pending
  BY DEF IInv, TypeOK, Pending
<1>4. ASSUME NEW j \in JobIds, ReadForComplete(h, j)
      PROVE  IInv' /\ RunStep
  <2>1. handlers' \in [Handlers -> Pending]
    BY <1>2, <1>4 DEF ReadForComplete, IInv, TypeOK
  <2>2. QED
    BY <1>4, <2>1, NoRowStep DEF ReadForComplete, IInv, TypeOK
<1>5. CASE StoreResult(h)
  <2>1. handlers[h].job \in JobIds
    BY <1>3, <1>5 DEF StoreResult, Pending, Idle
  <2>2. handlers' \in [Handlers -> Pending]
    BY <1>2, <1>3, <1>5, <2>1 DEF StoreResult, IInv, TypeOK
  <2>3. results' \in [JobIds -> Nat]
    BY <1>5 DEF StoreResult, IInv, TypeOK
  <2>4. QED
    BY <1>5, <2>2, <2>3, NoRowStep DEF StoreResult
<1>6. CASE WriteComplete(h)
  <2>1. PICK j \in JobIds : j = handlers[h].job
    BY <1>3, <1>6 DEF WriteComplete, Pending, Idle
  <2>2. /\ handlers' \in [Handlers -> Pending] /\ results' \in [JobIds -> Nat]
        /\ UNCHANGED <<identity, nextId>>
    BY <1>3, <1>6 DEF WriteComplete, IInv, TypeOK
  <2>3. RowOK(jobs[j])
    BY DEF IInv, RowsOK
  <2>4. CASE Present(j)
    <3>1. jobs' = [jobs EXCEPT ![j] = Completed(jobs[j])]
      BY <1>6, <2>1, <2>4 DEF WriteComplete, Present, IfPresent
    <3>2. /\ RowOK(Completed(jobs[j]))
          /\ Completed(jobs[j]).attempts = jobs[j].attempts
          /\ Completed(jobs[j]).max = jobs[j].max
          /\ Completed(jobs[j]).status # "running"
      BY <2>3, <2>4, CompletedOK DEF Present
    <3>3. QED
      BY <2>2, <2>4, <3>1, <3>2, RowUpdateStep
  <2>5. CASE ~Present(j)
    <3>1. jobs' = [jobs EXCEPT ![j] = jobs[j]]
      BY <1>6, <2>1, <2>5 DEF WriteComplete, Present, IfPresent
    <3>2. UNCHANGED jobs
      BY <3>1 DEF IInv, TypeOK
    <3>3. QED
      BY <2>2, <3>2, NoRowStep
  <2>6. QED
    BY <2>4, <2>5
<1>7. QED
  BY <1>1, <1>4, <1>5, <1>6

\* Every step keeps the invariant and spends attempts only on claims.
LEMMA NextIInv == ASSUME IInv, Next PROVE IInv' /\ RunStep
<1>0. Step /\ raced' \subseteq JobIds
  BY DEF Next, Racing, IInv, TypeOK
<1>1. /\ results \in [JobIds -> Nat]
      /\ handlers \in [Handlers -> Pending]
      /\ Idle \in Pending
      /\ \A j \in JobIds : RowOK(jobs[j])
  BY DEF IInv, TypeOK, RowsOK, Pending
<1>2. CASE Enqueue
  <2>1. ASSUME NEW h \in Handlers, NEW k \in Keys, NEW p \in Projects,
               NEW max \in Budgets, ReadForEnqueue(h, k, p, max)
        PROVE  IInv' /\ RunStep
    <3>1. [op |-> "insert", key |-> k, project |-> p, max |-> max] \in Pending
      BY DEF Pending
    <3>2. QED
      BY <1>0, <1>1, <2>1, <3>1, NoRowStep DEF ReadForEnqueue
  <2>2. QED
    BY <1>0, <1>2, <2>1, InsertStep DEF Enqueue
<1>3. CASE Fail
  <2>1. ASSUME NEW h \in Handlers, NEW j \in JobIds, NEW retryable \in BOOLEAN,
               ReadForFail(h, j, retryable)
        PROVE  IInv' /\ RunStep
    <3> DEFINE status == FailureStatus(jobs[j], retryable)
    <3>1. [op |-> "fail", job |-> j, status |-> status] \in Pending
      BY FailureStatusType DEF Pending
    <3>2. handlers' \in [Handlers -> Pending]
      BY <1>1, <2>1, <3>1 DEF ReadForFail
    <3>3. QED
      BY <1>0, <1>1, <2>1, <3>2, NoRowStep DEF ReadForFail
  <2>2. ASSUME NEW h \in Handlers, WriteFail(h)
        PROVE  IInv' /\ RunStep
    <3>1. handlers[h] \in Pending /\ handlers[h].op = "fail"
      BY <1>1, <2>2 DEF WriteFail
    <3>2. handlers[h].job \in JobIds /\ handlers[h].status \in {"retrying", "failed"}
      BY <3>1 DEF Pending, Idle
    <3>3. QED
      BY <1>0, <2>2, <3>2, ReleaseStep DEF WriteFail
  <2>3. QED
    BY <1>3, <2>1, <2>2 DEF Fail
<1>4. CASE Retry
  <2>1. ASSUME NEW h \in Handlers, NEW j \in JobIds, ReadForRetry(h, j)
        PROVE  IInv' /\ RunStep
    <3>1. [op |-> "retry", job |-> j] \in Pending
      BY DEF Pending
    <3>2. QED
      BY <1>0, <1>1, <2>1, <3>1, NoRowStep DEF ReadForRetry
  <2>2. ASSUME NEW h \in Handlers, WriteRetry(h)
        PROVE  IInv' /\ RunStep
    <3>1. handlers[h] \in Pending /\ handlers[h].op = "retry"
      BY <1>1, <2>2 DEF WriteRetry
    <3>2. handlers[h].job \in JobIds
      BY <3>1 DEF Pending, Idle
    <3>3. QED
      BY <1>0, <2>2, <3>2, ReleaseStep DEF WriteRetry
  <2>3. QED
    BY <1>4, <2>1, <2>2 DEF Retry
<1>5. CASE ReclaimStale
  BY <1>0, <1>5, ReclaimStaleStep
<1>6. ASSUME NEW w \in Workers, Claim(w)
      PROVE  IInv' /\ RunStep
  <2>1. PICK j \in JobIds :
           /\ Claimable(jobs[j])
           /\ jobs' = [jobs EXCEPT ![j] = Claimed(jobs[j], w)]
           /\ UNCHANGED <<identity, nextId, results, handlers>>
    BY <1>6 DEF Claim
  <2>2. Present(j) /\ jobs[j].status # "running"
    BY <2>1 DEF Claimable, Waiting, Present
  <2>3. /\ RowOK(Claimed(jobs[j], w))
        /\ Claimed(jobs[j], w).attempts = jobs[j].attempts + 1
        /\ Claimed(jobs[j], w).max = jobs[j].max
        /\ Claimed(jobs[j], w).status = "running"
    BY <1>1, <2>1, ClaimedOK
  <2>4. QED
    BY <1>0, <1>1, <2>1, <2>2, <2>3, RowUpdateStep
<1>7. ASSUME NEW j \in JobIds, Complete(j)
      PROVE  IInv' /\ RunStep
  <2>1. /\ RowOK(Completed(jobs[j]))
        /\ Completed(jobs[j]).attempts = jobs[j].attempts
        /\ Completed(jobs[j]).max = jobs[j].max
        /\ Completed(jobs[j]).status # "running"
    BY <1>1, CompletedOK
  <2>2. QED
    BY <1>0, <1>1, <1>7, <2>1, RowUpdateStep DEF Complete
<1>8. CASE Callback
  BY <1>0, <1>8, CallbackStep
<1>9. ASSUME NEW j \in JobIds, DeleteWithShot(j)
       PROVE  IInv' /\ RunStep
  <2>1. Absent.status = "absent" /\ results' \in [JobIds -> Nat]
    BY <1>9 DEF Absent, DeleteWithShot, IInv, TypeOK
  <2>2. QED
    BY <1>0, <1>1, <1>9, <2>1, AbsentOK, RowUpdateStep DEF DeleteWithShot
<1>10. QED
  BY <1>0, <1>2, <1>3, <1>4, <1>5, <1>6, <1>7, <1>8, <1>9 DEF Step

\* IInv is inductive.
LEMMA StepIInv == IInv /\ [Next]_vars => IInv' /\ [RunStep]_vars
<1> SUFFICES ASSUME IInv, [Next]_vars PROVE IInv' /\ [RunStep]_vars
  OBVIOUS
<1>1. CASE Next
  BY <1>1, NextIInv
<1>2. CASE UNCHANGED vars
  BY <1>2 DEF vars, IInv, TypeOK, RowsOK, OneJobPerKey, UnusedIdsAbsent, Present
<1>3. QED
  BY <1>1, <1>2

\* IInv holds in every reachable state.
THEOREM Invariance == Spec => []IInv
<1>1. IInv /\ [Next]_vars => IInv'
  BY StepIInv
<1>2. QED
  BY InitIInv, <1>1, PTL DEF Spec

\* The tables and the handlers only ever hold what TypeOK says.
THEOREM TypeCorrect == Spec => []TypeOK
<1>1. IInv => TypeOK
  BY DEF IInv
<1>2. QED
  BY Invariance, <1>1, PTL

\* The attempts of every job stay within its max_attempts, for any number of
\* clients that claim, fail, retry and sweep as they like.
THEOREM BoundedAttempts == Spec => []AttemptsWithinBudget
<1>1. IInv => AttemptsWithinBudget
  BY DEF IInv, RowsOK, RowOK, AttemptsWithinBudget
<1>2. QED
  BY Invariance, <1>1, PTL

\* finished_at is set on exactly the completed and failed rows, and a row
\* names a worker exactly when the queue says it runs.
THEOREM ConsistentRows == Spec => []RowsAgree
<1>1. IInv => RowsAgree
  BY DEF IInv, RowsOK, RowOK, RowsAgree
<1>2. QED
  BY Invariance, <1>1, PTL

\* An idempotency key names at most one job at a time.
THEOREM UniqueKeys == Spec => []OneJobPerKey
<1>1. IInv => OneJobPerKey
  BY DEF IInv
<1>2. QED
  BY Invariance, <1>1, PTL

\* No step gives an attempt back, and only a claim starts a run.
THEOREM OnlyClaimsSpend == Spec => RunsSpendAttempts
<1>1. IInv /\ [Next]_vars => [RunStep]_vars
  BY StepIInv
<1>2. QED
  BY Invariance, <1>1, PTL DEF Spec, RunsSpendAttempts
-----------------------------------------------------------------------------
(* The results of completion callbacks. *)

\* A job that no two callbacks raced for has at most one result, none while a
\* callback is about to store one, and at most one such callback.
ResultsOK ==
    \A j \in JobIds \ raced :
        /\ results[j] <= 1
        /\ \A h \in Handlers : Storing(h, j) => results[j] = 0
        /\ \A g, h \in Handlers : Storing(g, j) /\ Storing(h, j) => g = h

\* Only the look for a result of the job makes a callback go on to store one.
LEMMA StoringMoves ==
    ASSUME TypeOK, Step, NEW k \in Handlers, NEW j \in JobIds, Storing(k, j)', ~Storing(k, j)
    PROVE  results[j] = 0 /\ UNCHANGED results
<1>1. CASE handlers' = handlers
  BY <1>1 DEF Storing
<1>2. CASE Enqueue
  BY <1>2 DEF Enqueue, ReadForEnqueue, Insert, Storing, Idle, TypeOK
<1>3. CASE Fail
  BY <1>3 DEF Fail, ReadForFail, WriteFail, Storing, Idle, TypeOK
<1>4. CASE Retry
  BY <1>4 DEF Retry, ReadForRetry, WriteRetry, Storing, Idle, TypeOK
<1>5. ASSUME NEW h \in Handlers, NEW i \in JobIds, ReadForComplete(h, i)
      PROVE  results[j] = 0 /\ UNCHANGED results
  <2>1. h = k
    BY <1>5 DEF ReadForComplete, Storing, TypeOK
  <2>2. i = j /\ results[i] = 0
    BY <1>5, <2>1 DEF ReadForComplete, Storing, TypeOK
  <2>3. QED
    BY <1>5, <2>2 DEF ReadForComplete
<1>6. ASSUME NEW h \in Handlers, StoreResult(h) \/ WriteComplete(h)
      PROVE  FALSE
  BY <1>6 DEF StoreResult, WriteComplete, Storing, Idle, TypeOK
<1>7. CASE Callback
  BY <1>5, <1>6, <1>7 DEF Callback
<1>8. QED
  BY <1>1, <1>2, <1>3, <1>4, <1>7 DEF Step, ReclaimStale, Claim, Complete, DeleteWithShot

\* A result is added by a callback that was about to store it.
LEMMA ResultMoves ==
    ASSUME TypeOK, Step, NEW j \in JobIds, results'[j] # results[j]
    PROVE  \/ results'[j] = 0
           \/ /\ results'[j] = results[j] + 1
              /\ \E h \in Handlers : Storing(h, j) /\ ~Storing(h, j)'
<1>1. ASSUME NEW h \in Handlers, StoreResult(h)
      PROVE  /\ results'[j] = results[j] + 1
             /\ Storing(h, j) /\ ~Storing(h, j)'
  <2>1. handlers[h].job = j /\ results' = [results EXCEPT ![handlers[h].job] = @ + 1]
    BY <1>1 DEF StoreResult, TypeOK
  <2>2. ~Storing(h, j)'
    BY <1>1 DEF StoreResult, Storing, Idle, TypeOK
  <2>3. QED
    BY <1>1, <2>1, <2>2 DEF StoreResult, Storing, TypeOK
<1>2. ASSUME NEW i \in JobIds, DeleteWithShot(i) PROVE results'[j] = 0
  BY <1>2 DEF DeleteWithShot, TypeOK
<1>3. CASE results' = results
  BY <1>3
<1>4. QED
  BY <1>1, <1>2, <1>3 DEF Step, Enqueue, ReadForEnqueue, Insert, Callback, ReadForComplete,
     WriteComplete, Fail, ReadForFail, WriteFail, Retry, ReadForRetry, WriteRetry,
     ReclaimStale, Claim, Complete

\* What the callbacks of a job have in hand and what they have stored come to
\* one, or the job was raced for.
LEMMA ResultsStep ==
    ASSUME TypeOK, TypeOK', ResultsOK, [Next]_vars
    PROVE  ResultsOK'
<1>1. CASE UNCHANGED vars
  BY <1>1 DEF vars, ResultsOK, Storing
<1>2. CASE Next
  <2>1. Step /\ raced' = raced \cup Racing'
    BY <1>2 DEF Next
  <2> SUFFICES ASSUME NEW j \in JobIds, j \notin raced'
               PROVE  /\ results'[j] <= 1
                      /\ \A h \in Handlers : Storing(h, j)' => results'[j] = 0
                      /\ \A g, h \in Handlers : Storing(g, j)' /\ Storing(h, j)' => g = h
    BY DEF ResultsOK
  <2>2. j \notin raced /\ j \notin Racing'
    BY <2>1
  <2>3. \A g, h \in Handlers : Storing(g, j)' /\ Storing(h, j)' => g = h
    BY <2>2 DEF Racing
  <2>4. /\ results[j] <= 1 /\ results[j] \in Nat
        /\ \A h \in Handlers : Storing(h, j) => results[j] = 0
        /\ \A g, h \in Handlers : Storing(g, j) /\ Storing(h, j) => g = h
    BY <2>2 DEF ResultsOK, TypeOK
  <2>5. CASE results'[j] = results[j]
    BY <2>1, <2>3, <2>4, <2>5, StoringMoves
  <2>6. CASE results'[j] = 0
    BY <2>3, <2>6
  <2>7. CASE /\ results'[j] = results[j] + 1
             /\ \E h \in Handlers : Storing(h, j) /\ ~Storing(h, j)'
    <3>1. PICK h \in Handlers : Storing(h, j) /\ ~Storing(h, j)'
      BY <2>7
    <3>2. results'[j] = 1 /\ results' # results
      BY <2>4, <2>7, <3>1
    <3>3. \A k \in Handlers : ~Storing(k, j)'
      <4> SUFFICES ASSUME NEW k \in Handlers, Storing(k, j)' PROVE FALSE
        OBVIOUS
      <4>1. Storing(k, j)
        BY <2>1, <3>2, StoringMoves
      <4>2. QED
        BY <2>4, <3>1, <4>1
    <3>4. QED
      BY <2>3, <3>2, <3>3
  <2>8. QED
    BY <2>1, <2>5, <2>6, <2>7, ResultMoves
<1>3. QED
  BY <1>1, <1>2

\* ingest_completed_video_job, for any number of callbacks: a job has one
\* result unless two callbacks were past the look for it at once.
THEOREM CallbacksStoreOne == Spec => []OneResultPerJob
<1>1. Init => ResultsOK
  BY DEF Init, ResultsOK, Storing, Idle
<1>2. TypeOK /\ TypeOK' /\ ResultsOK /\ [Next]_vars => ResultsOK'
  BY ResultsStep
<1>3. ResultsOK => OneResultPerJob
  BY DEF ResultsOK, OneResultPerJob
<1>4. QED
  BY <1>1, <1>2, <1>3, TypeCorrect, PTL DEF Spec
=============================================================================
