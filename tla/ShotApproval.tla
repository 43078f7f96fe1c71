---------------------------- MODULE ShotApproval ----------------------------
(***************************************************************************)
(* One shot on its way to "final": the operator's decisions on its media   *)
(* results, the finalisation gate, the continuity findings that block it,  *)
(* and the workers and screens that write the shot's status meanwhile      *)
(* (src/app/repositories/approvals.py, shots.py, issues.py).               *)
(*                                                                         *)
(* Each endpoint runs in a thread of its own.  Its SELECTs are single      *)
(* autocommit reads; the first UPDATE or INSERT opens the transaction that *)
(* holds the writes.  A handler here is therefore a sequence of read steps *)
(* that collect its checks, and one step with all its writes; a request    *)
(* with a single step only needs a free handler.                           *)
(***************************************************************************)
EXTENDS FiniteSets

CONSTANTS
    Media,           \* media results the shot may get
    Images,          \* those of media_type image; the others are videos
    Findings,        \* critical or high continuity findings
    Handlers,        \* requests in progress
    ManualStatuses   \* statuses the operator writes with PATCH

ShotStatus ==
    {"planned", "prompt_ready", "image_draft", "image_approved",
     "video_draft", "video_approved", "final"}

ASSUME ImagesAssumption == Images \subseteq Media

ASSUME ManualStatusesAssumption == ManualStatuses \subseteq ShotStatus

Videos == Media \ Images
OfType(m) == IF m \in Images THEN Images ELSE Videos

VARIABLES
    media,     \* media result -> its status
    identity,  \* media result -> the verdict of its identity assessment
    issues,    \* rows of continuity_issues of this shot
    shot,      \* the shot's status column
    logged,    \* media result -> to_status of its last row in approval_events
    handlers,  \* handler -> where it is
    overtaken  \* finalisations since whose start media or findings changed (history)

vars == <<media, identity, issues, shot, logged, handlers, overtaken>>

\* The column's values: טיוטה, מאושר, הוחלף, נדחה.
MediaStatus == {"absent", "draft", "approved", "replaced", "rejected"}
Assessment == {"unchecked", "pending", "passed", "blocked"}
IssueStatus == {"open", "accepted", "resolved"}
IssueRow == [finding : Findings, status : IssueStatus]
Idle == [at |-> "idle"]
Handler ==
    {Idle}
    \cup [at : {"approve", "reject"}, media : Media]
    \cup [at : {"need_image"}, media : Videos]
    \cup [at : {"need_video", "need_clear", "finalize", "director"}]
    \cup [at : {"status"}, status : {"image_draft", "video_draft"}]

TypeOK ==
    /\ media \in [Media -> MediaStatus]
    /\ identity \in [Media -> Assessment]
    /\ issues \subseteq IssueRow
    /\ shot \in ShotStatus
    /\ logged \in [Media -> {"draft", "approved", "rejected"}]
    /\ handlers \in [Handlers -> Handler]
    /\ overtaken \subseteq Handlers

Init ==
    /\ media = [m \in Media |-> "absent"]
    /\ identity = [m \in Media |-> "unchecked"]
    /\ issues = {}
    /\ shot = "planned"
    /\ logged = [m \in Media |-> "draft"]
    /\ handlers = [h \in Handlers |-> Idle]
    /\ overtaken = {}

Goto(h, next) == handlers' = [handlers EXCEPT ![h] = next]

Exists(S) == \E m \in S : media[m] # "absent"
Approved(S) == \E m \in S : media[m] = "approved"

-----------------------------------------------------------------------------
(* Media results arrive: create_media_result with a draft, and a pending   *)
(* assessment when the shot has a locked character.                        *)

NewDraft(m) ==
    /\ media[m] = "absent"
    /\ media' = [media EXCEPT ![m] = "draft"]
    /\ \E a \in {"unchecked", "pending"} : identity' = [identity EXCEPT ![m] = a]

\* An upload leaves the shot alone.
Upload(h, m) ==
    /\ handlers[h] = Idle
    /\ NewDraft(m)
    /\ UNCHANGED <<issues, shot, logged, handlers>>

\* The media worker, or the poll of an interactive task, then writes the
\* shot's status in a transaction of its own, whatever it is by then.
Deliver(h, m) ==
    /\ handlers[h] = Idle
    /\ NewDraft(m)
    /\ Goto(h, [at |-> "status",
                status |-> IF m \in Images THEN "image_draft" ELSE "video_draft"])
    /\ UNCHANGED <<issues, shot, logged>>

WriteStatus(h) ==
    /\ handlers[h].at = "status"
    /\ shot' = handlers[h].status
    /\ Goto(h, Idle)
    /\ UNCHANGED <<media, identity, issues, logged>>

\* A verdict arrives; IdentityDrift models the queue behind it.
Assess(m) ==
    /\ identity[m] = "pending"
    /\ \E v \in {"passed", "blocked"} : identity' = [identity EXCEPT ![m] = v]
    /\ UNCHANGED <<media, issues, shot, logged, handlers>>

-----------------------------------------------------------------------------
(* decide_media. *)

\* Mutant: an assessment that has not run does not block.
Cleared_UnlessBlocked(m) == m \in Images => identity[m] # "blocked"

\* _identity_drift_blocker: only images are gated.
Cleared(m) == m \in Images => identity[m] \in {"unchecked", "passed"}

\* The media row is read with its assessment; a video's approval goes on to
\* look for an approved image.
BeginApprove(h, m) ==
    /\ handlers[h] = Idle
    /\ media[m] # "absent"
    /\ Cleared(m)
    /\ Goto(h, [at |-> IF m \in Images THEN "approve" ELSE "need_image", media |-> m])
    /\ UNCHANGED <<media, identity, issues, shot, logged>>

FindApprovedImage(h) ==
    /\ handlers[h].at = "need_image"
    /\ Goto(h, IF Approved(Images) THEN [at |-> "approve", media |-> handlers[h].media]
                                   ELSE Idle)
    /\ UNCHANGED <<media, identity, issues, shot, logged>>

BeginReject(h, m) ==
    /\ handlers[h] = Idle
    /\ media[m] # "absent"
    /\ Goto(h, [at |-> "reject", media |-> m])
    /\ UNCHANGED <<media, identity, issues, shot, logged>>

\* _shot_status_for_media
DerivedStatus ==
    CASE Approved(Videos) -> "video_approved"
      [] ~Approved(Videos) /\ Approved(Images) /\ Exists(Videos) -> "video_draft"
      [] ~Approved(Videos) /\ Approved(Images) /\ ~Exists(Videos) -> "image_approved"
      [] ~Approved(Videos) /\ ~Approved(Images) /\ Exists(Images) -> "image_draft"
      [] OTHER -> "prompt_ready"

\* Mutant: approving leaves the other approved results as they are.
Supersede_None(m) == media

\* Every other approved result of the type gives way.
Supersede(m) ==
    [o \in Media |-> IF o \in OfType(m) \ {m} /\ media[o] = "approved"
                     THEN "replaced" ELSE media[o]]

\* Mutant: the shot keeps its status when a decision is made.
WriteDecision_KeepsShot(h) ==
    /\ handlers[h].at \in {"approve", "reject"}
    /\ LET m == handlers[h].media IN
       media' = IF handlers[h].at = "approve"
                THEN [Supersede(m) EXCEPT ![m] = "approved"]
                ELSE [media EXCEPT ![m] = "rejected"]
    /\ logged' = [logged EXCEPT ![handlers[h].media] =
                      IF handlers[h].at = "approve" THEN "approved" ELSE "rejected"]
    /\ Goto(h, Idle)
    /\ UNCHANGED <<identity, issues, shot>>

WriteDecision(h) ==
    /\ handlers[h].at \in {"approve", "reject"}
    /\ LET m == handlers[h].media IN
       media' = IF handlers[h].at = "approve"
                THEN [Supersede(m) EXCEPT ![m] = "approved"]
                ELSE [media EXCEPT ![m] = "rejected"]
    /\ logged' = [logged EXCEPT ![handlers[h].media] =
                      IF handlers[h].at = "approve" THEN "approved" ELSE "rejected"]
    /\ shot' = DerivedStatus'
    /\ Goto(h, Idle)
    /\ UNCHANGED <<identity, issues>>

-----------------------------------------------------------------------------
(* finalize_shot: three reads, then the write. *)

\* _blocking_continuity_issue
Blocking == {i \in issues : i.status = "open"}

BeginFinalize(h) ==
    /\ handlers[h] = Idle
    /\ Approved(Images)
    /\ Goto(h, [at |-> "need_video"])
    /\ UNCHANGED <<media, identity, issues, shot, logged>>

\* Mutant: the continuity findings are not looked at.
FindApprovedVideo_SkipsIssues(h) ==
    /\ handlers[h].at = "need_video"
    /\ Goto(h, IF Approved(Videos) THEN [at |-> "finalize"] ELSE Idle)
    /\ UNCHANGED <<media, identity, issues, shot, logged>>

FindApprovedVideo(h) ==
    /\ handlers[h].at = "need_video"
    /\ Goto(h, IF Approved(Videos) THEN [at |-> "need_clear"] ELSE Idle)
    /\ UNCHANGED <<media, identity, issues, shot, logged>>

FindBlockingIssue(h) ==
    /\ handlers[h].at = "need_clear"
    /\ Goto(h, IF Blocking = {} THEN [at |-> "finalize"] ELSE Idle)
    /\ UNCHANGED <<media, identity, issues, shot, logged>>

WriteFinal(h) ==
    /\ handlers[h].at = "finalize"
    /\ shot' = "final"
    /\ Goto(h, Idle)
    /\ UNCHANGED <<media, identity, issues, logged>>

-----------------------------------------------------------------------------
(* Continuity findings. *)

\* replace_shot_issues: the unresolved rows, accepted ones with them, are
\* deleted and the findings of this check inserted as open.
Replaced(found) ==
    {i \in issues : i.status = "resolved"} \cup [finding : found, status : {"open"}]

CheckContinuity(h, found) ==
    /\ handlers[h] = Idle
    /\ issues' = Replaced(found)
    /\ UNCHANGED <<media, identity, shot, logged, handlers>>

\* run_director does the same, and may then write a prompt and the status.
RunDirector(h, found) ==
    /\ handlers[h] = Idle
    /\ issues' = Replaced(found)
    /\ Goto(h, [at |-> "director"])
    /\ UNCHANGED <<media, identity, shot, logged>>

WritePrompt(h) ==
    /\ handlers[h].at = "director"
    /\ shot' \in {shot, "prompt_ready"}
    /\ Goto(h, Idle)
    /\ UNCHANGED <<media, identity, issues, logged>>

\* create_issue, update_issue and resolve_issue: a row of any status, and a
\* row moved to any other.
CreateIssue(h, i) ==
    /\ handlers[h] = Idle
    /\ issues' = issues \cup {i}
    /\ UNCHANGED <<media, identity, shot, logged, handlers>>

UpdateIssue(h, i, status) ==
    /\ handlers[h] = Idle
    /\ i \in issues
    /\ issues' = (issues \ {i}) \cup {[i EXCEPT !.status = status]}
    /\ UNCHANGED <<media, identity, shot, logged, handlers>>

ClearResolved(h) ==
    /\ handlers[h] = Idle
    /\ issues' = {i \in issues : i.status # "resolved"}
    /\ UNCHANGED <<media, identity, shot, logged, handlers>>

\* PATCH of the shot, or of a batch of shots, by the operator.
SetStatus(h, status) ==
    /\ handlers[h] = Idle
    /\ shot' = status
    /\ UNCHANGED <<media, identity, issues, logged, handlers>>

-----------------------------------------------------------------------------
Generate(h) ==
    \/ \E m \in Media : Upload(h, m) \/ Deliver(h, m)
    \/ WriteStatus(h)

\* A batch of decisions, and one of finalisations, makes these calls item by
\* item, each with its own reads and its own transaction, and goes on after a
\* refusal.
Decide(h) ==
    \/ \E m \in Media : BeginApprove(h, m) \/ BeginReject(h, m)
    \/ FindApprovedImage(h)
    \/ WriteDecision(h)

Finalize(h) ==
    \/ BeginFinalize(h)
    \/ FindApprovedVideo(h)
    \/ FindBlockingIssue(h)
    \/ WriteFinal(h)

Review(h) ==
    \/ \E found \in SUBSET Findings : CheckContinuity(h, found) \/ RunDirector(h, found)
    \/ WritePrompt(h)
    \/ \E i \in IssueRow : CreateIssue(h, i)
    \/ \E i \in issues, s \in IssueStatus : UpdateIssue(h, i, s)
    \/ ClearResolved(h)
    \/ \E s \in ManualStatuses : SetStatus(h, s)

Finalizing == {h \in Handlers : handlers[h].at \in {"need_video", "need_clear", "finalize"}}

Watch ==
    overtaken' = Finalizing' \cap (overtaken \cup
        IF media' = media /\ issues' = issues THEN {} ELSE Finalizing)

Step ==
    \/ \E h \in Handlers : Generate(h) \/ Decide(h) \/ Finalize(h) \/ Review(h)
    \/ \E m \in Media : Assess(m)

Next == Step /\ Watch

Spec == Init /\ [][Next]_vars
-----------------------------------------------------------------------------
(* Properties. *)

\* However approvals overlap, a shot has one approved image and one approved
\* video: the manifest of a scene picks "the" approved result.
OneApprovedPerType ==
    \A m, n \in Media :
        media[m] = "approved" /\ media[n] = "approved" /\ OfType(m) = OfType(n) => m = n

\* An approved image was compared with the locked character and passed, or
\* had no assessment to pass; a running or failed check never lets one through.
ApprovedImageIsCleared ==
    \A m \in Images : media[m] = "approved" => identity[m] \in {"unchecked", "passed"}

Gate == Approved(Images) /\ Approved(Videos)

\* A final shot keeps media to be final with: whatever is decided about them,
\* by however many requests, takes the shot out of final in the same
\* transaction.
FinalKeepsItsMedia == [][shot = "final" /\ shot' = "final" /\ Gate => Gate']_vars

\* "Critical unresolved findings block finalization": the three reads of a
\* finalisation that nothing overtook add up to the gate at its write, whatever
\* went on before it or beside it.
FinalizedThroughGate ==
    [][\A h \in Handlers \ overtaken :
          handlers[h].at = "finalize" /\ handlers'[h] # handlers[h]
              => Gate /\ Blocking = {}]_vars

=============================================================================
