--------------------------- MODULE MCIdentityDrift ---------------------------
(* IdentityDrift on the media results of one production, p1; p2 is another   *)
(* production, with no media.                                                *)
EXTENDS IdentityDrift

CONSTANTS m1, m2, p1, p2, Unscoped

OneProject == [m \in Media |-> p1]

\* An HTTP worker names the project whose queue it lists.
Scoped == [w \in Workers |-> p1]

\* The runner calls list_pending_identity_drift(limit=1): project_id is then
\* the Query(...) default of the signature, which binds to no project.
RunnerScope == [w \in Workers |-> Unscoped]
=============================================================================
