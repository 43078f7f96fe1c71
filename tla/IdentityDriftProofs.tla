------------------------- MODULE IdentityDriftProofs -------------------------
(***************************************************************************)
(* The claims of IdentityDrift for any number of workers, media results,   *)
(* sweeps and crashes: a claim has one evaluator, a running assessment has *)
(* its worker, and a judged result stays judged.                           *)
(*                                                                         *)
(* The argument is about attempt numbers.  A claim raises the row's, so    *)
(* it is above those of all workers still busy with claims that were taken *)
(* away; a store keeps it, because only the owner of the running claim     *)
(* passes the check.  A store of a lost claim may put a smaller number     *)
(* back, but then with a verdict, after which nobody claims again.         *)
(***************************************************************************)
EXTENDS IdentityDrift, TLAPS

\* Every sweep lets a claim happen once more.
AttemptsBounded ==
    \A m \in Media :
        /\ drift[m].status \in {"none", "pending"} => drift[m].attempt <= requeues
        /\ drift[m].status = "running" => drift[m].attempt <= requeues + 1

\* Until there is a verdict, no busy worker has a later attempt than the row,
\* and the owner of the claim has the row's.
ClaimsOrdered ==
    \A m \in Media : \A w \in Workers :
        Holds(w, m) /\ ~Decided(m) =>
            /\ workers[w].attempt <= drift[m].attempt
            /\ Owns(w, m) => workers[w].attempt = drift[m].attempt

IInv ==
    /\ TypeOK
    /\ AttemptsBounded
    /\ ClaimsOrdered
    /\ OneEvaluatorPerClaim
    /\ RunningIsHeld

\* Nothing is queued, and nobody is busy.
LEMMA InitIInv == Init => IInv
<1> SUFFICES ASSUME Init PROVE IInv
  OBVIOUS
<1>1. \A w \in Workers : ~Working(w)
  BY DEF Init, Idle, Working
<1>2. \A m \in Media : drift[m].status = "none" /\ drift[m].attempt = 0
  BY DEF Init
<1>3. TypeOK
  BY BoundsAssumption DEF Init, TypeOK, Assessment, Attempts, Worker
<1>4. AttemptsBounded
  BY <1>2 DEF Init, AttemptsBounded
<1>5. ClaimsOrdered /\ OneEvaluatorPerClaim
  BY <1>1 DEF ClaimsOrdered, OneEvaluatorPerClaim, Holds
<1>6. RunningIsHeld
  BY <1>2 DEF RunningIsHeld
<1>7. QED
  BY <1>3, <1>4, <1>5, <1>6 DEF IInv

\* A worker that is busy has a media result and an attempt.
LEMMA BusyWorker ==
    ASSUME TypeOK, NEW w \in Workers, Working(w)
    PROVE  workers[w].media \in Media /\ workers[w].attempt \in Attempts
BY DEF TypeOK, Worker, Working, Idle

\* A worker becomes something that holds no claim; if it held one that is
\* still running and its own, its death is recorded.
LEMMA LeaveStep ==
    ASSUME IInv, NEW w \in Workers, NEW x \in Worker,
           x.at \in {"idle", "listed"},
           workers' = [workers EXCEPT ![w] = x],
           UNCHANGED <<drift, requeues>>,
           expired' \in SUBSET Media,
           lost \subseteq lost', lost' \subseteq Media \X Attempts,
           \A m \in Media : Holds(w, m) /\ Owns(w, m) => <<m, drift[m].attempt>> \in lost'
    PROVE  IInv'
<1>1. /\ ~Working(w)'
      /\ \A v \in Workers \ {w} : workers'[v] = workers[v]
  BY DEF IInv, TypeOK, Working
<1>2. \A v \in Workers, m \in Media :
          Holds(v, m)' => v # w /\ Holds(v, m) /\ workers'[v] = workers[v]
  BY <1>1 DEF Holds, Working
<1>3. TypeOK'
  BY DEF IInv, TypeOK
<1>4. AttemptsBounded'
  BY DEF IInv, AttemptsBounded
<1>5. ClaimsOrdered'
  BY <1>2 DEF IInv, ClaimsOrdered, Decided, Owns
<1>6. OneEvaluatorPerClaim'
  BY <1>2 DEF IInv, OneEvaluatorPerClaim
<1>7. RunningIsHeld'
  <2> SUFFICES ASSUME NEW m \in Media, drift[m].status = "running",
                      <<m, drift[m].attempt>> \notin lost'
               PROVE  \E v \in Workers : /\ drift[m].worker = v
                                         /\ Holds(v, m)'
                                         /\ workers'[v].attempt = drift[m].attempt
    BY DEF RunningIsHeld
  <2>1. PICK v \in Workers : /\ drift[m].worker = v
                             /\ Holds(v, m)
                             /\ workers[v].attempt = drift[m].attempt
    BY DEF IInv, RunningIsHeld
  <2>2. v # w
    BY <2>1 DEF Owns
  <2>3. Holds(v, m)' /\ workers'[v] = workers[v]
    BY <1>1, <2>1, <2>2 DEF Holds, Working
  <2>4. QED
    BY <2>1, <2>3
<1>8. QED
  BY <1>3, <1>4, <1>5, <1>6, <1>7 DEF IInv

\* A claim: an attempt above all others.
LEMMA ClaimStep ==
    ASSUME IInv, NEW w \in Workers, Claim(w)
    PROVE  IInv'
<1>0. PICK m \in Media : workers[w].at = "listed" /\ m = workers[w].media
  BY DEF IInv, TypeOK, Worker, Claim, Idle
<1>1. ~Working(w)
  BY <1>0 DEF Working
<1>2. CASE drift[m].status # "pending"
  <2>1. /\ workers' = [workers EXCEPT ![w] = Idle]
        /\ UNCHANGED <<drift, expired, requeues, lost>>
    BY <1>0, <1>2 DEF Claim
  <2>2. Idle \in Worker /\ Idle.at = "idle"
    BY DEF Idle, Worker
  <2>3. QED
    BY <1>1, <2>1, <2>2, LeaveStep DEF Holds, IInv, TypeOK
<1>3. CASE drift[m].status = "pending"
  <2> DEFINE attempt == drift[m].attempt + 1
             busy == [at |-> "evaluating", media |-> m, attempt |-> attempt]
             row == [status |-> "running", worker |-> w, attempt |-> attempt]
  <2>1. /\ drift' = [drift EXCEPT ![m] = row]
        /\ expired' = expired \ {m}
        /\ workers' = [workers EXCEPT ![w] = busy]
        /\ UNCHANGED <<requeues, lost>>
    BY <1>0, <1>3 DEF Claim
  <2>2. attempt \in Attempts /\ attempt <= requeues + 1 /\ drift[m].attempt \in Nat
    BY <1>3, BoundsAssumption DEF IInv, TypeOK, AttemptsBounded, Assessment, Attempts
  <2>3. busy \in Worker /\ row \in Assessment
    BY <2>2 DEF Worker, Assessment
  <2>4. TypeOK'
    BY <2>1, <2>3 DEF IInv, TypeOK
  <2>5. /\ drift'[m] = row /\ workers'[w] = busy
        /\ \A n \in Media \ {m} : drift'[n] = drift[n]
        /\ \A v \in Workers \ {w} : workers'[v] = workers[v]
    BY <2>1 DEF IInv, TypeOK
  <2>6. AttemptsBounded'
    BY <2>1, <2>2, <2>5 DEF IInv, AttemptsBounded
  <2>7. \A v \in Workers, n \in Media :
            Holds(v, n)' <=> IF v = w THEN n = m ELSE Holds(v, n)
    BY <2>5, <1>1 DEF Holds, Working
  <2>8. \A v \in Workers \ {w} :
            Holds(v, m) => workers[v].attempt \in Nat /\ workers[v].attempt <= drift[m].attempt
    BY <1>3, BusyWorker, BoundsAssumption
       DEF IInv, ClaimsOrdered, Decided, Verdicts, Holds, Attempts
  <2>9. ClaimsOrdered'
    <3> SUFFICES ASSUME NEW n \in Media, NEW v \in Workers, Holds(v, n)', ~Decided(n)'
                 PROVE  /\ workers'[v].attempt <= drift'[n].attempt
                        /\ Owns(v, n)' => workers'[v].attempt = drift'[n].attempt
      BY DEF ClaimsOrdered
    <3>1. CASE v = w
      BY <3>1, <2>7, <2>5, <2>2 DEF Owns, Attempts
    <3>2. CASE v # w /\ n = m
      BY <3>2, <2>7, <2>5, <2>2, <2>8 DEF Owns
    <3>3. CASE v # w /\ n # m
      BY <3>3, <2>7, <2>5 DEF IInv, ClaimsOrdered, Decided, Owns
    <3>4. QED
      BY <3>1, <3>2, <3>3
  <2>10. OneEvaluatorPerClaim'
    <3> SUFFICES ASSUME NEW u \in Workers, NEW v \in Workers, NEW n \in Media,
                        u # v, Holds(u, n)', Holds(v, n)'
                 PROVE  workers'[u].attempt # workers'[v].attempt
      BY DEF OneEvaluatorPerClaim
    <3>1. CASE u # w /\ v # w
      BY <3>1, <2>5, <2>7 DEF IInv, OneEvaluatorPerClaim
    <3>2. CASE u = w
      BY <3>2, <2>2, <2>5, <2>7, <2>8
    <3>3. CASE v = w
      BY <3>3, <2>2, <2>5, <2>7, <2>8
    <3>4. QED
      BY <3>1, <3>2, <3>3
  <2>11. RunningIsHeld'
    <3> SUFFICES ASSUME NEW n \in Media, drift'[n].status = "running"
                 PROVE  \/ <<n, drift'[n].attempt>> \in lost'
                        \/ \E v \in Workers : /\ drift'[n].worker = v
                                              /\ Holds(v, n)'
                                              /\ workers'[v].attempt = drift'[n].attempt
      BY DEF RunningIsHeld
    <3>1. CASE n = m
      BY <3>1, <2>5, <2>7
    <3>2. CASE n # m
      BY <3>2, <1>1, <2>1, <2>5, <2>7 DEF IInv, RunningIsHeld, Holds
    <3>3. QED
      BY <3>1, <3>2
  <2>12. QED
    BY <2>4, <2>6, <2>9, <2>10, <2>11 DEF IInv
<1>4. QED
  BY <1>2, <1>3

\* The owner of the claim passes the check and keeps its attempt.
LEMMA ReadForStoreStep ==
    ASSUME IInv, NEW w \in Workers, NEW verdict \in Verdicts, ReadForStore(w, verdict)
    PROVE  IInv'
<1>0. PICK m \in Media : workers[w].at = "evaluating" /\ m = workers[w].media
  BY DEF IInv, TypeOK, Worker, ReadForStore, Idle
<1>1. Holds(w, m) /\ \A n \in Media : Holds(w, n) => n = m
  BY <1>0 DEF Holds, Working
<1>2. CASE ~Owns(w, m)
  <2>1. /\ workers' = [workers EXCEPT ![w] = Idle]
        /\ UNCHANGED <<drift, expired, requeues, lost>>
    BY <1>0, <1>2 DEF ReadForStore
  <2>2. Idle \in Worker /\ Idle.at = "idle"
    BY DEF Idle, Worker
  <2>3. QED
    BY <1>1, <1>2, <2>1, <2>2, LeaveStep DEF IInv, TypeOK
<1>3. CASE Owns(w, m)
  <2> DEFINE storing == [at |-> "storing", media |-> m,
                         attempt |-> drift[m].attempt, verdict |-> verdict]
  <2>1. /\ workers' = [workers EXCEPT ![w] = storing]
        /\ UNCHANGED <<drift, expired, requeues, lost>>
    BY <1>0, <1>3 DEF ReadForStore
  <2>2. workers[w].attempt = drift[m].attempt
    BY <1>1, <1>3 DEF IInv, ClaimsOrdered, Decided, Owns, Verdicts
  <2>3. storing \in Worker
    BY DEF IInv, TypeOK, Assessment, Worker
  <2>4. /\ TypeOK' /\ AttemptsBounded'
    BY <2>1, <2>3 DEF IInv, TypeOK, AttemptsBounded
  <2>5. /\ workers'[w] = storing
        /\ \A v \in Workers \ {w} : workers'[v] = workers[v]
    BY <2>1 DEF IInv, TypeOK
  <2>6. \A v \in Workers : workers'[v].attempt = workers[v].attempt
    BY <2>2, <2>5
  <2>7. \A v \in Workers, n \in Media : Holds(v, n)' <=> Holds(v, n)
    BY <2>5, <1>1 DEF Holds, Working
  <2>8. ClaimsOrdered' /\ OneEvaluatorPerClaim' /\ RunningIsHeld'
    BY <2>1, <2>6, <2>7
       DEF IInv, ClaimsOrdered, OneEvaluatorPerClaim, RunningIsHeld, Decided, Owns
  <2>9. QED
    BY <2>4, <2>8 DEF IInv
<1>4. QED
  BY <1>2, <1>3

\* A verdict ends the claim, whoever holds it.
LEMMA WriteStoreStep ==
    ASSUME IInv, NEW w \in Workers, WriteStore(w)
    PROVE  IInv' /\ \A m \in Media : Decided(m) => Decided(m)'
<1>0. PICK m \in Media : /\ workers[w].at = "storing" /\ m = workers[w].media
                         /\ workers[w].verdict \in Verdicts
                         /\ workers[w].attempt \in Attempts
  BY DEF IInv, TypeOK, Worker, WriteStore, Idle
<1> DEFINE row == [status |-> workers[w].verdict, worker |-> w, attempt |-> workers[w].attempt]
<1>1. /\ drift' = [drift EXCEPT ![m] = row]
      /\ workers' = [workers EXCEPT ![w] = Idle]
      /\ UNCHANGED <<expired, requeues, lost>>
  BY <1>0 DEF WriteStore
<1>2. /\ drift'[m] = row /\ workers'[w] = Idle
      /\ \A n \in Media \ {m} : drift'[n] = drift[n]
      /\ \A v \in Workers \ {w} : workers'[v] = workers[v]
  BY <1>1 DEF IInv, TypeOK
<1>3. \A n \in Media : n # m => ~Holds(w, n)
  BY <1>0 DEF Holds
<1>4. \A v \in Workers, n \in Media :
          Holds(v, n)' => v # w /\ Holds(v, n) /\ workers'[v] = workers[v]
  BY <1>2 DEF Holds, Working, Idle
<1>5. Decided(m)' /\ drift'[m].status \notin {"none", "pending", "running"}
  BY <1>0, <1>2 DEF Decided, Verdicts
<1>6. TypeOK'
  BY <1>0, <1>1 DEF IInv, TypeOK, Assessment, Worker
<1>7. AttemptsBounded'
  BY <1>1, <1>2, <1>5 DEF IInv, AttemptsBounded
<1>8. ClaimsOrdered'
  BY <1>2, <1>4, <1>5 DEF IInv, ClaimsOrdered, Decided, Owns
<1>9. OneEvaluatorPerClaim'
  BY <1>4 DEF IInv, OneEvaluatorPerClaim
<1>10. RunningIsHeld'
  <2> SUFFICES ASSUME NEW n \in Media, drift'[n].status = "running"
               PROVE  \/ <<n, drift'[n].attempt>> \in lost'
                      \/ \E v \in Workers : /\ drift'[n].worker = v
                                            /\ Holds(v, n)'
                                            /\ workers'[v].attempt = drift'[n].attempt
    BY DEF RunningIsHeld
  <2>1. n # m /\ drift'[n] = drift[n]
    BY <1>2, <1>5
  <2>2. \A v \in Workers : Holds(v, n) => Holds(v, n)' /\ workers'[v] = workers[v]
    BY <1>2, <1>3, <2>1 DEF Holds, Working
  <2>3. QED
    BY <1>1, <2>1, <2>2 DEF IInv, RunningIsHeld
<1>11. \A n \in Media : Decided(n) => Decided(n)'
  BY <1>2, <1>5 DEF Decided
<1>12. QED
  BY <1>6, <1>7, <1>8, <1>9, <1>10, <1>11 DEF IInv

\* What becomes of a row that is queued, for the first time or again.
LEMMA PendingRow ==
    ASSUME NEW a \in Assessment
    PROVE  /\ [a EXCEPT !.status = "pending", !.worker = NoWorker] \in Assessment
           /\ [a EXCEPT !.status = "pending", !.worker = NoWorker].status = "pending"
           /\ [a EXCEPT !.status = "pending", !.worker = NoWorker].attempt = a.attempt
           /\ [a EXCEPT !.status = "pending"] \in Assessment
           /\ [a EXCEPT !.status = "pending"].status = "pending"
           /\ [a EXCEPT !.status = "pending"].attempt = a.attempt
           /\ [a EXCEPT !.status = "pending"].worker = a.worker
<1>1. a \in [status : {"none", "pending", "running"} \cup Verdicts,
            worker : Workers \cup {NoWorker}, attempt : Attempts]
  BY DEF Assessment
<1>2. [a EXCEPT !.status = "pending", !.worker = NoWorker] \in Assessment
  BY <1>1 DEF Assessment
<1>3. [a EXCEPT !.status = "pending"] \in Assessment
  BY <1>1 DEF Assessment
<1>4. /\ [a EXCEPT !.status = "pending", !.worker = NoWorker].status = "pending"
      /\ [a EXCEPT !.status = "pending", !.worker = NoWorker].attempt = a.attempt
  BY <1>1
<1>5. /\ [a EXCEPT !.status = "pending"].status = "pending"
      /\ [a EXCEPT !.status = "pending"].attempt = a.attempt
      /\ [a EXCEPT !.status = "pending"].worker = a.worker
  BY <1>1
<1>6. QED
  BY <1>2, <1>3, <1>4, <1>5

\* A sweep queues running assessments again.
LEMMA RequeueStep ==
    ASSUME IInv, NEW project \in Projects, RequeueStale(project)
    PROVE  IInv' /\ \A m \in Media : Decided(m) => Decided(m)'
<1>1. /\ workers' = workers /\ lost' = lost /\ requeues' = requeues + 1
      /\ expired' \in SUBSET Media
      /\ requeues \in 0..MaxRequeues /\ requeues + 1 \in 0..MaxRequeues
  BY BoundsAssumption DEF RequeueStale, IInv, TypeOK
<1>2. \A m \in Media : \/ drift'[m] = drift[m]
                       \/ /\ drift[m].status = "running"
                          /\ drift'[m] = [drift[m] EXCEPT !.status = "pending", !.worker = NoWorker]
  BY DEF RequeueStale, Requeueable, Requeued
<1>3. \A m \in Media : /\ drift[m] \in Assessment /\ drift'[m] \in Assessment
                       /\ drift'[m].attempt = drift[m].attempt
                       /\ drift'[m].status \in {drift[m].status, "pending"}
                       /\ drift'[m].status # drift[m].status => drift[m].status = "running"
                       /\ drift'[m].status # "pending" => drift'[m] = drift[m]
  <2> TAKE m \in Media
  <2>1. drift[m] \in Assessment
    BY DEF IInv, TypeOK
  <2>2. CASE drift'[m] = drift[m]
    BY <2>1, <2>2
  <2>3. CASE /\ drift[m].status = "running"
             /\ drift'[m] = [drift[m] EXCEPT !.status = "pending", !.worker = NoWorker]
    BY <2>1, <2>3, PendingRow
  <2>4. QED
    BY <1>2, <2>2, <2>3
<1>4. TypeOK'
  BY <1>1, <1>3 DEF IInv, TypeOK, RequeueStale
<1>5. AttemptsBounded'
  BY <1>1, <1>3, BoundsAssumption DEF IInv, AttemptsBounded, Assessment, Attempts
<1>6. \A v \in Workers, n \in Media : Holds(v, n)' <=> Holds(v, n)
  BY <1>1 DEF Holds, Working
<1>7. \A m \in Media : Decided(m)' <=> Decided(m)
  BY <1>3 DEF Decided, Verdicts
<1>8. \A m \in Media, w \in Workers : Owns(w, m)' => Owns(w, m)
  BY <1>3 DEF Owns
<1>9. ClaimsOrdered' /\ OneEvaluatorPerClaim' /\ RunningIsHeld'
  <2>1. ClaimsOrdered'
    BY <1>1, <1>3, <1>6, <1>7, <1>8 DEF IInv, ClaimsOrdered
  <2>2. OneEvaluatorPerClaim'
    BY <1>1, <1>6 DEF IInv, OneEvaluatorPerClaim
  <2>3. RunningIsHeld'
    BY <1>1, <1>3, <1>6 DEF IInv, RunningIsHeld
  <2>4. QED
    BY <2>1, <2>2, <2>3
<1>10. QED
  BY <1>4, <1>5, <1>7, <1>9 DEF IInv

\* A new assessment, or a claim grown old.
LEMMA WaitStep ==
    ASSUME IInv, NEW m \in Media, Queue(m) \/ Expire(m)
    PROVE  IInv' /\ \A n \in Media : Decided(n) => Decided(n)'
<1>1. /\ workers' = workers /\ lost' = lost /\ requeues' = requeues
      /\ expired' \in SUBSET Media
  BY DEF Queue, Expire, IInv, TypeOK
<1>2. \A n \in Media : \/ drift'[n] = drift[n]
                       \/ /\ drift[n].status = "none"
                          /\ drift'[n] = [drift[n] EXCEPT !.status = "pending"]
  BY DEF Queue, Expire, IInv, TypeOK
<1>3. \A n \in Media : /\ drift'[n] \in Assessment
                       /\ drift'[n].attempt = drift[n].attempt
                       /\ drift'[n].worker = drift[n].worker
                       /\ drift'[n].status \in {drift[n].status, "pending"}
                       /\ drift'[n].status # drift[n].status => drift[n].status = "none"
  <2> TAKE n \in Media
  <2>1. drift[n] \in Assessment
    BY DEF IInv, TypeOK
  <2>2. CASE drift'[n] = drift[n]
    BY <2>1, <2>2
  <2>3. CASE drift[n].status = "none" /\ drift'[n] = [drift[n] EXCEPT !.status = "pending"]
    BY <2>1, <2>3, PendingRow
  <2>4. QED
    BY <1>2, <2>2, <2>3
<1>4. TypeOK'
  BY <1>1, <1>3 DEF IInv, TypeOK, Queue, Expire
<1>5. AttemptsBounded'
  BY <1>1, <1>3 DEF IInv, AttemptsBounded
<1>6. \A v \in Workers, n \in Media : Holds(v, n)' <=> Holds(v, n)
  BY <1>1 DEF Holds, Working
<1>7. \A n \in Media : Decided(n)' <=> Decided(n)
  BY <1>3 DEF Decided, Verdicts
<1>8. \A n \in Media, w \in Workers : Owns(w, n)' => Owns(w, n)
  BY <1>3 DEF Owns
<1>9. ClaimsOrdered'
  BY <1>1, <1>3, <1>6, <1>7, <1>8 DEF IInv, ClaimsOrdered
<1>10. OneEvaluatorPerClaim'
  BY <1>1, <1>6 DEF IInv, OneEvaluatorPerClaim
<1>11. RunningIsHeld'
  BY <1>1, <1>3, <1>6 DEF IInv, RunningIsHeld
<1>12. QED
  BY <1>4, <1>5, <1>7, <1>9, <1>10, <1>11 DEF IInv

\* A worker lists, or dies.
LEMMA ListOrCrashStep ==
    ASSUME IInv, NEW w \in Workers, List(w) \/ Crash(w)
    PROVE  IInv'
<1>1. CASE List(w)
  <2>1. PICK m \in Media : workers' = [workers EXCEPT ![w] = [at |-> "listed", media |-> m]]
    BY <1>1 DEF List, ListPending
  <2>2. [at |-> "listed", media |-> m] \in Worker
    BY DEF Worker
  <2>3. \A n \in Media : ~Holds(w, n)
    BY <1>1 DEF List, Holds, Working, Idle
  <2>4. QED
    BY <1>1, <2>1, <2>2, <2>3, LeaveStep DEF List, IInv, TypeOK
<1>2. CASE Crash(w)
  <2>1. workers[w].media \in Media /\ workers[w].attempt \in Attempts
    BY <1>2, BusyWorker DEF Crash, IInv
  <2>2. lost' \subseteq Media \X Attempts /\ lost \subseteq lost'
    BY <1>2, <2>1 DEF Crash, IInv, TypeOK
  <2>3. \A m \in Media : Holds(w, m) /\ Owns(w, m) => <<m, drift[m].attempt>> \in lost'
    BY <1>2 DEF Crash, IInv, ClaimsOrdered, Holds, Owns, Decided, Verdicts
  <2>4. Idle \in Worker /\ Idle.at = "idle"
    BY DEF Idle, Worker
  <2>5. QED
    BY <1>2, <2>2, <2>3, <2>4, LeaveStep DEF Crash, IInv, TypeOK
<1>3. QED
  BY <1>1, <1>2

\* IInv is inductive, and no step takes a verdict back.
LEMMA StepIInv ==
    IInv /\ [Next]_vars => IInv' /\ \A m \in Media : Decided(m) => Decided(m)'
<1> SUFFICES ASSUME IInv, [Next]_vars
             PROVE  IInv' /\ \A m \in Media : Decided(m) => Decided(m)'
  OBVIOUS
<1>1. CASE \E m \in Media : Queue(m) \/ Expire(m)
  BY <1>1, WaitStep
<1>2. CASE \E w \in Workers : List(w) \/ Crash(w)
  <2>1. drift' = drift
    BY <1>2 DEF List, Crash
  <2>2. QED
    BY <1>2, <2>1, ListOrCrashStep DEF Decided
<1>3. CASE \E w \in Workers : Claim(w)
  <2>1. PICK w \in Workers : Claim(w)
    BY <1>3
  <2>2. \A m \in Media : drift[m].status # "pending" => drift'[m] = drift[m]
    BY <2>1 DEF Claim, IInv, TypeOK
  <2>3. QED
    BY <2>1, <2>2, ClaimStep DEF Decided, Verdicts
<1>4. CASE \E w \in Workers : \E verdict \in Verdicts : ReadForStore(w, verdict)
  <2>1. drift' = drift
    BY <1>4 DEF ReadForStore
  <2>2. QED
    BY <1>4, <2>1, ReadForStoreStep DEF Decided
<1>5. CASE \E w \in Workers : WriteStore(w)
  BY <1>5, WriteStoreStep
<1>6. CASE \E p \in Projects : RequeueStale(p)
  BY <1>6, RequeueStep
<1>7. CASE UNCHANGED vars
  <2>1. UNCHANGED <<drift, expired, workers, requeues, lost>>
    BY <1>7 DEF vars
  <2>2. QED
    BY <2>1 DEF IInv, TypeOK, AttemptsBounded, ClaimsOrdered, OneEvaluatorPerClaim,
                RunningIsHeld, Decided, Owns, Holds, Working
<1>8. QED
  BY <1>1, <1>2, <1>3, <1>4, <1>5, <1>6, <1>7 DEF Next, Process

\* IInv holds in every reachable state.
THEOREM Invariance == Spec => []IInv
<1>1. IInv /\ [Next]_vars => IInv'
  BY StepIInv
<1>2. QED
  BY InitIInv, <1>1, PTL DEF Spec

\* The assessments, workers and counters only ever hold what TypeOK says; in
\* particular no more claims of a result are made than its sweeps allow.
THEOREM TypeCorrect == Spec => []TypeOK
<1>1. IInv => TypeOK
  BY DEF IInv
<1>2. QED
  BY Invariance, <1>1, PTL

\* Two workers evaluate one result only under different attempts.
THEOREM ClaimsAreExclusive == Spec => []OneEvaluatorPerClaim
<1>1. IInv => OneEvaluatorPerClaim
  BY DEF IInv
<1>2. QED
  BY Invariance, <1>1, PTL

\* A running assessment has its worker, or its worker died.
THEOREM ClaimsAreHeld == Spec => []RunningIsHeld
<1>1. IInv => RunningIsHeld
  BY DEF IInv
<1>2. QED
  BY Invariance, <1>1, PTL

\* A judged result is never queued or claimed again.
THEOREM VerdictsStay == Spec => DecidedStaysDecided
<1>1. IInv /\ [Next]_vars => [\A m \in Media : Decided(m) => Decided(m)']_vars
  BY StepIInv
<1>2. QED
  BY Invariance, <1>1, PTL DEF Spec, DecidedStaysDecided
=============================================================================
