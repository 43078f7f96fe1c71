---------------------------- MODULE JobLifecycle ----------------------------
(***************************************************************************)
(* What the media queue and its workers promise together, with nothing of  *)
(* workers, provider tasks, polling or crashes in it: a job is run at most *)
(* Budget times, it completes only once a result of it is stored, and a    *)
(* completed job is never touched again.  MediaWorker implements this.     *)
(***************************************************************************)
EXTENDS Naturals

CONSTANTS Jobs, Budget

VARIABLES
    phase,    \* waiting, running, completed or failed
    spent,    \* runs started so far
    stored    \* jobs with a stored result

vars == <<phase, spent, stored>>

Init ==
    /\ phase = [j \in Jobs |-> "waiting"]
    /\ spent = [j \in Jobs |-> 0]
    /\ stored = {}

Start(j) ==
    /\ phase[j] = "waiting"
    /\ spent[j] < Budget
    /\ phase' = [phase EXCEPT ![j] = "running"]
    /\ spent' = [spent EXCEPT ![j] = @ + 1]
    /\ UNCHANGED stored

Store(j) ==
    /\ phase[j] = "running"
    /\ stored' = stored \cup {j}
    /\ UNCHANGED <<phase, spent>>

Complete(j) ==
    /\ phase[j] = "running"
    /\ j \in stored
    /\ phase' = [phase EXCEPT ![j] = "completed"]
    /\ UNCHANGED <<spent, stored>>

\* A run ends without a result: the jobs in again wait for another run, the
\* jobs in failed do not.  A sweep ends several runs at once.
Release(again, failed) ==
    /\ again \cap failed = {}
    /\ \A j \in again \cup failed : phase[j] = "running"
    /\ \A j \in again : spent[j] < Budget
    /\ phase' = [j \in Jobs |-> IF j \in again THEN "waiting"
                                ELSE IF j \in failed THEN "failed"
                                ELSE phase[j]]
    /\ UNCHANGED <<spent, stored>>

Retry(j) ==
    /\ phase[j] = "failed"
    /\ spent[j] < Budget
    /\ phase' = [phase EXCEPT ![j] = "waiting"]
    /\ UNCHANGED <<spent, stored>>

Next ==
    \/ \E j \in Jobs : Start(j) \/ Store(j) \/ Complete(j) \/ Retry(j)
    \/ \E again, failed \in SUBSET Jobs : Release(again, failed)

Spec == Init /\ [][Next]_vars
=============================================================================
