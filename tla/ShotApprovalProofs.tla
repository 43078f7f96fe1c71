------------------------- MODULE ShotApprovalProofs -------------------------
(***************************************************************************)
(* What holds of ShotApproval for any number of results and of overlapping *)
(* requests.  The first invariant is inductive with the types alone; that  *)
(* approved images are cleared also needs to know what a handler that has  *)
(* passed the gate may rely on.                                            *)
(***************************************************************************)
EXTENDS ShotApproval, TLAPS

\* Nothing changes the assessment of this result any more.
Settled(m) == media[m] # "absent" /\ identity[m] \in {"unchecked", "passed"}

\* An approval past the gate holds a settled image: an assessment starts with
\* the result and is judged once.
GateHolds ==
    \A h \in Handlers :
        handlers[h].at = "approve" /\ handlers[h].media \in Images
            => Settled(handlers[h].media)

IInv == TypeOK /\ OneApprovedPerType /\ ApprovedImageIsCleared /\ GateHolds

-----------------------------------------------------------------------------
\* A deciding handler holds one of the results; one that still looks for an
\* approved image holds a video.
LEMMA HeldMedia ==
    ASSUME TypeOK, NEW h \in Handlers
    PROVE  /\ handlers[h].at \in {"approve", "reject"} => handlers[h].media \in Media
           /\ handlers[h].at = "need_image" => handlers[h].media \in Videos
<1>1. handlers[h] \in Handler
  BY DEF TypeOK
<1>2. QED
  BY <1>1 DEF Handler, Idle

\* A step that leaves the results alone and moves one handler.
LEMMA MoveStep ==
    ASSUME IInv, NEW h \in Handlers, NEW next \in Handler, Goto(h, next),
           next.at = "approve" /\ next.media \in Images => Settled(next.media),
           UNCHANGED <<media, identity, logged>>,
           issues' \subseteq IssueRow, shot' \in ShotStatus,
           overtaken' \subseteq Handlers
    PROVE  IInv'
<1>1. handlers' \in [Handlers -> Handler]
  BY DEF IInv, TypeOK, Goto
<1>2. TypeOK'
  BY <1>1 DEF IInv, TypeOK
<1>3. OneApprovedPerType' /\ ApprovedImageIsCleared'
  BY DEF IInv, OneApprovedPerType, ApprovedImageIsCleared
<1>4. GateHolds'
  <2> SUFFICES ASSUME NEW k \in Handlers,
                      handlers'[k].at = "approve", handlers'[k].media \in Images
               PROVE  Settled(handlers[k].media)'
    BY DEF GateHolds
  <2>1. CASE k = h
    BY <2>1 DEF Goto, IInv, TypeOK, Settled
  <2>2. CASE k # h
    BY <2>2 DEF Goto, IInv, TypeOK, GateHolds, Settled
  <2>3. QED
    BY <2>1, <2>2
<1>5. QED
  BY <1>2, <1>3, <1>4 DEF IInv

\* A step that leaves the results and the handlers alone.
LEMMA ReviewStep ==
    ASSUME IInv, UNCHANGED <<media, identity, logged, handlers>>,
           issues' \subseteq IssueRow, shot' \in ShotStatus,
           overtaken' \subseteq Handlers
    PROVE  IInv'
BY DEF IInv, TypeOK, OneApprovedPerType, ApprovedImageIsCleared, GateHolds, Settled

\* A new result is a draft: no approved result, and no result a handler
\* holds, is touched.
LEMMA NewDraftStep ==
    ASSUME IInv, NEW m \in Media, NewDraft(m),
           handlers' \in [Handlers -> Handler],
           \A k \in Handlers : handlers'[k].at = "approve" => handlers'[k] = handlers[k],
           UNCHANGED <<issues, shot, logged>>, overtaken' \subseteq Handlers
    PROVE  IInv'
<1>1. PICK a \in {"unchecked", "pending"} : identity' = [identity EXCEPT ![m] = a]
  BY DEF NewDraft
<1>2. TypeOK'
  BY <1>1 DEF IInv, TypeOK, NewDraft, MediaStatus, Assessment
<1>3. /\ media[m] = "absent" /\ media'[m] = "draft"
      /\ \A o \in Media \ {m} : media'[o] = media[o] /\ identity'[o] = identity[o]
  BY <1>1 DEF IInv, TypeOK, NewDraft
<1>4. OneApprovedPerType'
  BY <1>3 DEF IInv, OneApprovedPerType
<1>5. ApprovedImageIsCleared'
  BY <1>3, ImagesAssumption DEF IInv, ApprovedImageIsCleared
<1>6. GateHolds'
  BY <1>3, ImagesAssumption DEF IInv, GateHolds, Settled
<1>7. QED
  BY <1>2, <1>4, <1>5, <1>6 DEF IInv

\* A verdict comes to a pending assessment only, and nothing approved or
\* settled is pending.
LEMMA AssessStep ==
    ASSUME IInv, NEW m \in Media, Assess(m), overtaken' \subseteq Handlers
    PROVE  IInv'
<1>1. PICK v \in {"passed", "blocked"} : identity' = [identity EXCEPT ![m] = v]
  BY DEF Assess
<1>2. TypeOK'
  BY <1>1 DEF IInv, TypeOK, Assess, Assessment
<1>3. /\ identity[m] = "pending"
      /\ \A o \in Media \ {m} : identity'[o] = identity[o]
      /\ UNCHANGED <<media, handlers>>
  BY <1>1 DEF IInv, TypeOK, Assess
<1>4. OneApprovedPerType' /\ ApprovedImageIsCleared'
  BY <1>3, ImagesAssumption DEF IInv, OneApprovedPerType, ApprovedImageIsCleared
<1>5. GateHolds'
  BY <1>3, ImagesAssumption DEF IInv, GateHolds, Settled
<1>6. QED
  BY <1>2, <1>4, <1>5 DEF IInv

\* The transaction of a decision: after an approval the result is the one
\* approved of its type; a rejection approves nothing.
LEMMA DecisionStep ==
    ASSUME IInv, NEW h \in Handlers, WriteDecision(h), overtaken' \subseteq Handlers
    PROVE  IInv'
<1> DEFINE m == handlers[h].media
<1>1. m \in Media
  BY HeldMedia DEF WriteDecision, IInv
<1>2. handlers' \in [Handlers -> Handler]
  BY DEF WriteDecision, Goto, IInv, TypeOK, Handler
<1>3. shot' \in ShotStatus
  BY DEF WriteDecision, DerivedStatus, ShotStatus
<1>4. logged' \in [Media -> {"draft", "approved", "rejected"}]
  BY <1>1 DEF WriteDecision, IInv, TypeOK
<1> DEFINE Verdict ==
             \/ /\ media'[m] = "approved"
                /\ handlers[h].at = "approve"
                /\ \A o \in OfType(m) \ {m} : media'[o] # "approved"
             \/ media'[m] = "rejected"
<1>5. /\ media' \in [Media -> MediaStatus]
      /\ Verdict
      /\ \A o \in Media \ {m} :
            media'[o] = media[o] \/ (media[o] = "approved" /\ media'[o] = "replaced")
  <2>1. CASE handlers[h].at = "approve"
    <3>1. media' = [Supersede(m) EXCEPT ![m] = "approved"]
      BY <2>1 DEF WriteDecision
    <3>2. Supersede(m) \in [Media -> MediaStatus]
      BY DEF Supersede, IInv, TypeOK, MediaStatus
    <3>3. media'[m] = "approved" /\ media' \in [Media -> MediaStatus]
      BY <1>1, <3>1, <3>2 DEF MediaStatus
    <3>4. \A o \in Media \ {m} :
             media'[o] = IF o \in OfType(m) /\ media[o] = "approved"
                         THEN "replaced" ELSE media[o]
      BY <1>1, <3>1, <3>2 DEF Supersede
    <3>5. OfType(m) \subseteq Media
      BY ImagesAssumption DEF OfType, Videos
    <3>6. \A o \in OfType(m) \ {m} : media'[o] # "approved"
      BY <3>4, <3>5
    <3>7. \A o \in Media \ {m} :
             media'[o] = media[o] \/ (media[o] = "approved" /\ media'[o] = "replaced")
      BY <3>4
    <3>8. QED
      BY <2>1, <3>3, <3>6, <3>7
  <2>2. CASE handlers[h].at = "reject"
    <3>1. media' = [media EXCEPT ![m] = "rejected"]
      BY <2>2 DEF WriteDecision
    <3>2. media' \in [Media -> MediaStatus] /\ media'[m] = "rejected"
      BY <1>1, <3>1 DEF IInv, TypeOK, MediaStatus
    <3>3. \A o \in Media \ {m} : media'[o] = media[o]
      BY <1>1, <3>1 DEF IInv, TypeOK
    <3>4. QED
      BY <3>2, <3>3
  <2>3. QED
    BY <2>1, <2>2 DEF WriteDecision
<1>6. UNCHANGED <<identity, issues>>
  BY DEF WriteDecision
<1>7. TypeOK'
  BY <1>2, <1>3, <1>4, <1>5, <1>6 DEF IInv, TypeOK
<1>8. OneApprovedPerType'
  <2> SUFFICES ASSUME NEW p \in Media, NEW q \in Media,
                      media'[p] = "approved", media'[q] = "approved", OfType(p) = OfType(q)
               PROVE  p = q
    BY DEF OneApprovedPerType, OfType, Videos
  <2>1. p \in OfType(p) /\ q \in OfType(q)
    BY DEF OfType, Videos
  <2>2. CASE p = m \/ q = m
    BY <1>5, <2>1, <2>2
  <2>3. CASE p # m /\ q # m
    <3>1. media[p] = "approved" /\ media[q] = "approved"
      BY <1>5, <2>3
    <3>2. QED
      BY <3>1 DEF IInv, OneApprovedPerType
  <2>4. QED
    BY <2>2, <2>3
<1>9. ApprovedImageIsCleared'
  <2> SUFFICES ASSUME NEW p \in Images, media'[p] = "approved"
               PROVE  identity[p] \in {"unchecked", "passed"}
    BY <1>6 DEF ApprovedImageIsCleared
  <2>1. CASE p = m
    BY <1>5, <2>1 DEF IInv, GateHolds, Settled
  <2>2. CASE p # m
    BY <1>5, <2>2, ImagesAssumption DEF IInv, ApprovedImageIsCleared
  <2>3. QED
    BY <2>1, <2>2
<1>10. GateHolds'
  <2> SUFFICES ASSUME NEW k \in Handlers,
                      handlers'[k].at = "approve", handlers'[k].media \in Images
               PROVE  Settled(handlers[k].media)'
    BY DEF GateHolds
  <2>1. handlers'[k] = handlers[k]
    BY DEF WriteDecision, Goto, IInv, TypeOK, Idle
  <2>2. Settled(handlers[k].media)
    BY <2>1 DEF IInv, GateHolds
  <2>3. media'[handlers[k].media] # "absent"
    BY <1>5, <2>1, <2>2, ImagesAssumption DEF Settled
  <2>4. QED
    BY <1>6, <2>1, <2>2, <2>3 DEF Settled
<1>11. QED
  BY <1>7, <1>8, <1>9, <1>10 DEF IInv

-----------------------------------------------------------------------------
\* The shot starts with no media and no request.
THEOREM InitIInv == Init => IInv
<1> SUFFICES ASSUME Init PROVE IInv
  OBVIOUS
<1>1. handlers \in [Handlers -> Handler] /\ \A h \in Handlers : handlers[h].at = "idle"
  BY DEF Init, Handler, Idle
<1>2. TypeOK
  BY <1>1 DEF Init, TypeOK, MediaStatus, Assessment, ShotStatus
<1>3. OneApprovedPerType /\ ApprovedImageIsCleared
  BY ImagesAssumption DEF Init, OneApprovedPerType, ApprovedImageIsCleared
<1>4. GateHolds
  BY <1>1 DEF GateHolds
<1>5. QED
  BY <1>2, <1>3, <1>4 DEF IInv

\* One step per action.
THEOREM StepIInv == IInv /\ [Next]_vars => IInv'
<1> SUFFICES ASSUME IInv, [Next]_vars PROVE IInv'
  OBVIOUS
<1>0. overtaken' \subseteq Handlers
  BY DEF Next, Watch, Finalizing, vars, IInv, TypeOK
<1>1. ASSUME NEW h \in Handlers, NEW m \in Media, Upload(h, m) PROVE IInv'
  <2>1. handlers' \in [Handlers -> Handler] /\ UNCHANGED handlers
    BY <1>1 DEF Upload, IInv, TypeOK
  <2>2. NewDraft(m) /\ UNCHANGED <<issues, shot, logged>>
    BY <1>1 DEF Upload
  <2>3. QED
    BY <1>0, <2>1, <2>2, NewDraftStep
<1>2. ASSUME NEW h \in Handlers, NEW m \in Media, Deliver(h, m) PROVE IInv'
  <2> DEFINE next == [at |-> "status",
                      status |-> IF m \in Images THEN "image_draft" ELSE "video_draft"]
  <2>1. next \in Handler /\ next.at = "status"
    BY DEF Handler
  <2> HIDE DEF next
  <2>2. handlers' = [handlers EXCEPT ![h] = next]
    BY <1>2 DEF Deliver, Goto, next
  <2>3. /\ handlers' \in [Handlers -> Handler]
        /\ \A k \in Handlers : handlers'[k].at = "approve" => handlers'[k] = handlers[k]
    BY <2>1, <2>2 DEF IInv, TypeOK
  <2>4. NewDraft(m) /\ UNCHANGED <<issues, shot, logged>>
    BY <1>2 DEF Deliver
  <2>5. QED
    BY <1>0, <2>3, <2>4, NewDraftStep
<1>3. Idle \in Handler /\ Idle.at = "idle"
  BY DEF Handler, Idle
<1>4. issues \subseteq IssueRow /\ shot \in ShotStatus
  BY DEF IInv, TypeOK
<1>5. ASSUME NEW h \in Handlers, WriteStatus(h) PROVE IInv'
  <2>1. handlers[h] \in Handler
    BY DEF IInv, TypeOK
  <2>2. shot' \in ShotStatus
    BY <1>5, <2>1 DEF WriteStatus, Handler, Idle, ShotStatus
  <2>3. QED
    BY <1>0, <1>3, <1>4, <1>5, <2>2, MoveStep DEF WriteStatus
<1>6. ASSUME NEW h \in Handlers, NEW m \in Media, BeginApprove(h, m) PROVE IInv'
  <2> DEFINE next == [at |-> IF m \in Images THEN "approve" ELSE "need_image", media |-> m]
  <2>1. next \in Handler
    BY DEF Handler, Videos
  <2>2. next.at = "approve" /\ next.media \in Images => Settled(next.media)
    BY <1>6 DEF BeginApprove, Cleared, Settled
  <2> HIDE DEF next
  <2>3. Goto(h, next)
    BY <1>6 DEF BeginApprove, next
  <2>4. UNCHANGED <<media, identity, issues, shot, logged>>
    BY <1>6 DEF BeginApprove
  <2>5. QED
    BY <1>0, <1>4, <2>1, <2>2, <2>3, <2>4, MoveStep
<1>7. ASSUME NEW h \in Handlers, FindApprovedImage(h) PROVE IInv'
  <2> DEFINE next == IF Approved(Images)
                     THEN [at |-> "approve", media |-> handlers[h].media] ELSE Idle
  <2>1. handlers[h].media \in Videos
    BY <1>7, HeldMedia DEF IInv, FindApprovedImage
  <2>2. next \in Handler
    BY <1>3, <2>1 DEF Handler, Videos
  <2>3. next.at = "approve" => next.media \notin Images
    BY <1>3, <2>1 DEF Videos
  <2> HIDE DEF next
  <2>4. Goto(h, next)
    BY <1>7 DEF FindApprovedImage, next
  <2>5. UNCHANGED <<media, identity, issues, shot, logged>>
    BY <1>7 DEF FindApprovedImage
  <2>6. QED
    BY <1>0, <1>4, <2>2, <2>3, <2>4, <2>5, MoveStep
<1>8. ASSUME NEW h \in Handlers, NEW m \in Media, BeginReject(h, m) PROVE IInv'
  <2>1. [at |-> "reject", media |-> m] \in Handler
    BY DEF Handler
  <2>2. QED
    BY <1>0, <1>4, <1>8, <2>1, MoveStep DEF BeginReject
<1>9. ASSUME NEW h \in Handlers, NEW next \in Handler, next.at # "approve", Goto(h, next),
             UNCHANGED <<media, identity, logged>>, issues' \subseteq IssueRow, shot' \in ShotStatus
      PROVE  IInv'
  BY <1>0, <1>9, MoveStep
<1>10. /\ [at |-> "need_video"] \in Handler
       /\ [at |-> "need_clear"] \in Handler
       /\ [at |-> "finalize"] \in Handler
       /\ [at |-> "director"] \in Handler
  BY DEF Handler
<1>11. ASSUME NEW h \in Handlers, Finalize(h) PROVE IInv'
  <2>1. CASE BeginFinalize(h)
    BY <1>4, <1>9, <1>10, <2>1 DEF BeginFinalize
  <2>2. CASE FindApprovedVideo(h)
    BY <1>3, <1>4, <1>9, <1>10, <2>2 DEF FindApprovedVideo
  <2>3. CASE FindBlockingIssue(h)
    BY <1>3, <1>4, <1>9, <1>10, <2>3 DEF FindBlockingIssue
  <2>4. CASE WriteFinal(h)
    <3>1. shot' \in ShotStatus
      BY <2>4 DEF WriteFinal, ShotStatus
    <3>2. QED
      BY <1>3, <1>4, <1>9, <2>4, <3>1 DEF WriteFinal
  <2>5. QED
    BY <1>11, <2>1, <2>2, <2>3, <2>4 DEF Finalize
<1>12. ASSUME NEW found \in SUBSET Findings PROVE Replaced(found) \subseteq IssueRow
  BY <1>4, <1>12 DEF Replaced, IssueRow, IssueStatus
<1>13. ASSUME NEW h \in Handlers, Review(h) PROVE IInv'
  <2>1. ASSUME NEW found \in SUBSET Findings, CheckContinuity(h, found) PROVE IInv'
    BY <1>0, <1>4, <1>12, <2>1, ReviewStep DEF CheckContinuity
  <2>2. ASSUME NEW found \in SUBSET Findings, RunDirector(h, found) PROVE IInv'
    BY <1>4, <1>9, <1>10, <1>12, <2>2 DEF RunDirector
  <2>3. CASE WritePrompt(h)
    <3>1. shot' \in ShotStatus
      BY <1>4, <2>3 DEF WritePrompt, ShotStatus
    <3>2. QED
      BY <1>3, <1>4, <1>9, <2>3, <3>1 DEF WritePrompt
  <2>4. ASSUME NEW i \in IssueRow, CreateIssue(h, i) PROVE IInv'
    BY <1>0, <1>4, <2>4, ReviewStep DEF CreateIssue
  <2>5. ASSUME NEW i \in issues, NEW s \in IssueStatus, UpdateIssue(h, i, s) PROVE IInv'
    <3>1. i \in IssueRow
      BY <1>4
    <3>2. [i EXCEPT !.status = s] \in IssueRow
      BY <3>1 DEF IssueRow
    <3>3. QED
      BY <1>0, <1>4, <2>5, <3>2, ReviewStep DEF UpdateIssue
  <2>6. CASE ClearResolved(h)
    BY <1>0, <1>4, <2>6, ReviewStep DEF ClearResolved
  <2>7. ASSUME NEW s \in ManualStatuses, SetStatus(h, s) PROVE IInv'
    BY <1>0, <1>4, <2>7, ManualStatusesAssumption, ReviewStep DEF SetStatus
  <2>8. QED
    BY <1>13, <2>1, <2>2, <2>3, <2>4, <2>5, <2>6, <2>7 DEF Review
<1>14. CASE UNCHANGED vars
  BY <1>0, <1>4, <1>14, ReviewStep DEF vars
<1>15. CASE Next
  <2>1. ASSUME NEW h \in Handlers, Generate(h) PROVE IInv'
    BY <1>1, <1>2, <1>5, <2>1 DEF Generate
  <2>2. ASSUME NEW h \in Handlers, Decide(h) PROVE IInv'
    BY <1>0, <1>6, <1>7, <1>8, <2>2, DecisionStep DEF Decide
  <2>3. QED
    BY <1>0, <1>11, <1>13, <1>15, <2>1, <2>2, AssessStep DEF Next, Step
<1>16. QED
  BY <1>14, <1>15

\* IInv holds in every reachable state.
THEOREM Inductive == Spec => []IInv
BY InitIInv, StepIInv, PTL DEF Spec

\* Every reachable state is well typed.
THEOREM TypeCorrect == Spec => []TypeOK
<1>1. IInv => TypeOK
  BY DEF IInv
<1>2. QED
  BY <1>1, Inductive, PTL

\* decide_media, however its reads and writes overlap: one approved result of
\* each type.
THEOREM OneApproved == Spec => []OneApprovedPerType
<1>1. IInv => OneApprovedPerType
  BY DEF IInv
<1>2. QED
  BY <1>1, Inductive, PTL

\* _identity_drift_blocker reads before the transaction, and what it read still
\* holds when the approval is written.
THEOREM ApprovedIsCleared == Spec => []ApprovedImageIsCleared
<1>1. IInv => ApprovedImageIsCleared
  BY DEF IInv
<1>2. QED
  BY <1>1, Inductive, PTL
-----------------------------------------------------------------------------
(* The finalisation gate. *)

\* What a finalisation that nothing overtook has read still holds.
SeenHolds ==
    \A h \in Handlers \ overtaken :
        /\ handlers[h].at \in {"need_video", "need_clear", "finalize"} => Approved(Images)
        /\ handlers[h].at \in {"need_clear", "finalize"} => Approved(Videos)
        /\ handlers[h].at = "finalize" => Blocking = {}

\* Only finalize_shot itself moves a request along its gate.
LEMMA GateMoves ==
    ASSUME TypeOK, Step, NEW k \in Handlers, handlers'[k] # handlers[k],
           handlers'[k].at \in {"need_video", "need_clear", "finalize"}
    PROVE  BeginFinalize(k) \/ FindApprovedVideo(k) \/ FindBlockingIssue(k)
<1>1. ASSUME NEW h \in Handlers, Generate(h) PROVE FALSE
  BY <1>1 DEF Generate, Upload, Deliver, WriteStatus, Goto, Idle, TypeOK
<1>2. ASSUME NEW h \in Handlers, Decide(h) PROVE FALSE
  BY <1>2 DEF Decide, BeginApprove, BeginReject, FindApprovedImage, WriteDecision, Goto, Idle, TypeOK
<1>3. ASSUME NEW h \in Handlers, Review(h) PROVE FALSE
  <2>1. CASE WritePrompt(h)
    BY <2>1 DEF WritePrompt, Goto, Idle, TypeOK
  <2>2. ASSUME NEW found \in SUBSET Findings, RunDirector(h, found) PROVE FALSE
    BY <2>2 DEF RunDirector, Goto, TypeOK
  <2>3. QED
    BY <1>3, <2>1, <2>2 DEF Review, CheckContinuity, CreateIssue, UpdateIssue, ClearResolved, SetStatus
<1>4. ASSUME NEW h \in Handlers, Finalize(h)
      PROVE  BeginFinalize(k) \/ FindApprovedVideo(k) \/ FindBlockingIssue(k)
  <2>1. h = k
    BY <1>4 DEF Finalize, BeginFinalize, FindApprovedVideo, FindBlockingIssue, WriteFinal, Goto, TypeOK
  <2>2. ~WriteFinal(k)
    BY DEF WriteFinal, Goto, Idle, TypeOK
  <2>3. QED
    BY <1>4, <2>1, <2>2 DEF Finalize
<1>5. ~(\E m \in Media : Assess(m))
  BY DEF Assess
<1>6. QED
  BY <1>1, <1>2, <1>3, <1>4, <1>5 DEF Step

\* A read adds its own fact; any write of media or findings overtakes.
LEMMA SeenStep ==
    ASSUME TypeOK, SeenHolds, [Next]_vars
    PROVE  SeenHolds'
<1> SUFFICES ASSUME NEW k \in Handlers, k \notin overtaken',
                    handlers'[k].at \in {"need_video", "need_clear", "finalize"}
             PROVE  /\ Approved(Images)'
                    /\ handlers'[k].at \in {"need_clear", "finalize"} => Approved(Videos)'
                    /\ handlers'[k].at = "finalize" => Blocking' = {}
  BY DEF SeenHolds
<1>1. CASE UNCHANGED vars
  BY <1>1 DEF vars, SeenHolds, Approved, Blocking
<1>2. CASE Next /\ handlers'[k] = handlers[k]
  <2>1. k \in Finalizing /\ k \in Finalizing'
    BY <1>2 DEF Finalizing
  <2>2. k \notin overtaken /\ media' = media /\ issues' = issues
    BY <1>2, <2>1 DEF Next, Watch
  <2>3. QED
    BY <1>2, <2>2 DEF SeenHolds, Approved, Blocking
<1>3. CASE Next /\ handlers'[k] # handlers[k]
  <2>1. BeginFinalize(k) \/ FindApprovedVideo(k) \/ FindBlockingIssue(k)
    BY <1>3, GateMoves DEF Next
  <2>2. media' = media /\ issues' = issues
    BY <2>1 DEF BeginFinalize, FindApprovedVideo, FindBlockingIssue
  <2>3. CASE BeginFinalize(k)
    <3>1. handlers'[k].at = "need_video" /\ Approved(Images)
      BY <2>3 DEF BeginFinalize, Goto, TypeOK
    <3>2. QED
      BY <2>2, <3>1 DEF Approved
  <2>4. CASE FindApprovedVideo(k) \/ FindBlockingIssue(k)
    <3>1. k \in Finalizing /\ k \in Finalizing'
      BY <2>4 DEF Finalizing, FindApprovedVideo, FindBlockingIssue
    <3>2. k \notin overtaken
      BY <1>3, <3>1 DEF Next, Watch
    <3>3. CASE FindApprovedVideo(k)
      <4>1. handlers[k].at = "need_video" /\ handlers'[k].at = "need_clear" /\ Approved(Videos)
        BY <3>3 DEF FindApprovedVideo, Goto, Idle, TypeOK
      <4>2. QED
        BY <2>2, <3>2, <4>1 DEF SeenHolds, Approved
    <3>4. CASE FindBlockingIssue(k)
      <4>1. handlers[k].at = "need_clear" /\ handlers'[k].at = "finalize" /\ Blocking = {}
        BY <3>4 DEF FindBlockingIssue, Goto, Idle, TypeOK
      <4>2. QED
        BY <2>2, <3>2, <4>1 DEF SeenHolds, Approved, Blocking
    <3>5. QED
      BY <2>4, <3>3, <3>4
  <2>5. QED
    BY <2>1, <2>3, <2>4
<1>4. QED
  BY <1>1, <1>2, <1>3

\* finalize_shot, for any number of requests beside it: unless media or
\* findings changed after it began, its reads hold together when it writes.
THEOREM FinalizesAtGate == Spec => FinalizedThroughGate
<1>1. Init => SeenHolds
  BY DEF Init, SeenHolds, Idle
<1>2. SeenHolds =>
        [\A h \in Handlers \ overtaken :
            handlers[h].at = "finalize" /\ handlers'[h] # handlers[h]
                => Gate /\ Blocking = {}]_vars
  BY DEF SeenHolds, Gate
<1>3. TypeOK /\ SeenHolds /\ [Next]_vars => SeenHolds'
  BY SeenStep
<1>4. QED
  BY <1>1, <1>2, <1>3, TypeCorrect, PTL DEF Spec, FinalizedThroughGate

\* A step of any request leaves the approved results alone, or is a decision
\* and takes the shot out of final.
LEMMA GateKept ==
    ASSUME IInv, [Next]_vars, shot = "final", shot' = "final", Gate
    PROVE  Gate'
<1>1. CASE media' = media
  BY <1>1 DEF Gate, Approved
<1>2. ASSUME NEW m \in Media, NewDraft(m) PROVE Gate'
  <2>1. \A o \in Media : media[o] = "approved" => media'[o] = "approved"
    BY <1>2 DEF NewDraft, IInv, TypeOK
  <2>2. QED
    BY <2>1, ImagesAssumption DEF Gate, Approved, Videos
<1>3. ASSUME NEW h \in Handlers, WriteDecision(h) PROVE FALSE
  BY <1>3 DEF WriteDecision, DerivedStatus
<1>4. ASSUME NEW h \in Handlers, Generate(h) PROVE Gate'
  BY <1>1, <1>2, <1>4 DEF Generate, Upload, Deliver, WriteStatus
<1>5. ASSUME NEW h \in Handlers, Decide(h) PROVE Gate'
  BY <1>1, <1>3, <1>5 DEF Decide, BeginApprove, BeginReject, FindApprovedImage
<1>6. ASSUME NEW h \in Handlers, Finalize(h) PROVE Gate'
  BY <1>1, <1>6 DEF Finalize, BeginFinalize, FindApprovedVideo, FindBlockingIssue, WriteFinal
<1>7. ASSUME NEW h \in Handlers, Review(h) PROVE Gate'
  BY <1>1, <1>7 DEF Review, CheckContinuity, RunDirector, WritePrompt, CreateIssue, UpdateIssue,
                    ClearResolved, SetStatus
<1>8. QED
  BY <1>1, <1>4, <1>5, <1>6, <1>7 DEF Next, Step, Assess, vars

\* decide_media derives the shot's status in its own transaction, so no
\* decision leaves a final shot without the media it was finalised with.
THEOREM FinalKeeps == Spec => FinalKeepsItsMedia
<1>1. IInv /\ [Next]_vars => [shot = "final" /\ shot' = "final" /\ Gate => Gate']_vars
  BY GateKept
<1>2. QED
  BY <1>1, Inductive, PTL DEF Spec, FinalKeepsItsMedia
=============================================================================
