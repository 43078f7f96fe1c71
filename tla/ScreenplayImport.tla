-------------------------- MODULE ScreenplayImport --------------------------
(***************************************************************************)
(* The scenes of one project and the ways a screenplay gets into them:     *)
(* the two-stage import (src/app/services/screenplay_import_service.py,    *)
(* repositories/screenplay_structure.py: parse, review, approve) and the   *)
(* resumable import's final write (api/import_runs.py).                    *)
(*                                                                         *)
(* Each endpoint runs in a thread of its own.  The approval reads the run, *)
(* the scenes, the shots of the scenes it is to remove, and then commits   *)
(* its plan under the write lock without looking again; the other edits    *)
(* read, and write by id.  A request of a single step needs a free handler.*)
(***************************************************************************)
EXTENDS Naturals, Sequences, FiniteSets, Functions

CONSTANTS
    Texts,          \* screenplays
    Breakdown,      \* text -> sequence of [heading, content]; scene i has number i
    NoHeading,      \* the empty normalized_heading: of a scene entered by hand or
                    \* persisted, and of the one scene of a text without headings
    Shots,          \* shots that may be created
    Handlers,       \* requests in progress
    ManualNumbers,  \* scene numbers the operator gives to scenes by hand
    MaxRuns,        \* bound: import runs
    MaxScenes       \* bound: scene ids handed out

ASSUME BreakdownAssumption ==
    \A t \in Texts : Breakdown[t] \in Seq(Range(Breakdown[t]))
\* SceneCreate and SceneUpdate take no number below one.
ASSUME NumbersAssumption == ManualNumbers \subseteq Nat \ {0}
ASSUME BoundsAssumption == MaxRuns \in Nat /\ MaxScenes \in Nat

VARIABLES
    runs,       \* sequence of the import_runs rows, by id
    scenes,     \* id -> row of scenes; ids are never used twice
    nextScene,  \* AUTOINCREMENT of scenes
    shots,      \* shot -> scene_id; 0 is NULL
    unseen,     \* shots created in a scene an approval had looked at (history)
    handlers    \* handler -> what it has read and not yet written

vars == <<runs, scenes, nextScene, shots, unseen, handlers>>

Editable == {"review_required"}     \* nothing ever writes "draft"
Run == [status : {"review_required", "approved", "superseded"}, breakdown : Texts]

SceneIds == 1..MaxScenes
Absent == [number |-> 0, heading |-> NoHeading, content |-> NoHeading]
NoScene == 0

\* What the parser makes of scene i of a text, and what the resumable import
\* stores of it.
Parsed(t, i) ==
    [number |-> i, heading |-> Breakdown[t][i].heading, content |-> Breakdown[t][i].content]
Untitled(n) == [number |-> n, heading |-> NoHeading, content |-> NoHeading]

SceneRow ==
    {Absent} \cup {Untitled(n) : n \in ManualNumbers}
    \cup (UNION {{Parsed(t, i) : i \in DOMAIN Breakdown[t]} : t \in Texts})
    \cup (UNION {{Untitled(i) : i \in DOMAIN Breakdown[t]} : t \in Texts})

Present == {s \in SceneIds : scenes[s] # Absent}
Current == [s \in Present |-> scenes[s]]
ShotsOf(s) == {x \in DOMAIN shots : shots[x] = s}

Idle == [at |-> "idle"]
Snapshot == UNION {[S -> SceneRow] : S \in SUBSET SceneIds}
Handler ==
    {Idle}
    \cup [at : {"edit"}, run : 1..MaxRuns, breakdown : Texts]
    \cup [at : {"reparse"}, run : 1..MaxRuns, text : Texts]
    \cup [at : {"diff"}, run : 1..MaxRuns, breakdown : Texts, confirm : BOOLEAN]
    \cup [at : {"approve"}, run : 1..MaxRuns, breakdown : Texts, confirm : BOOLEAN,
          existing : Snapshot, left : SUBSET SceneIds]
    \cup [at : {"persist"}, text : Texts]

TypeOK ==
    /\ \A r \in DOMAIN runs : runs[r] \in Run
    /\ scenes \in [SceneIds -> SceneRow]
    /\ nextScene \in 1..(MaxScenes + 1)
    /\ DOMAIN shots \subseteq Shots
    /\ \A x \in DOMAIN shots : shots[x] \in Present \cup {NoScene}
    /\ unseen \subseteq DOMAIN shots
    /\ handlers \in [Handlers -> Handler]

Init ==
    /\ runs = <<>>
    /\ scenes = [s \in SceneIds |-> Absent]
    /\ nextScene = 1
    /\ shots = <<>>
    /\ unseen = {}
    /\ handlers = [h \in Handlers |-> Idle]

Goto(h, next) == handlers' = [handlers EXCEPT ![h] = next]
OnlyRuns == UNCHANGED <<scenes, nextScene, shots, unseen>>
NoRows == UNCHANGED runs /\ OnlyRuns

-----------------------------------------------------------------------------
(* Stage A: previews.  Nothing here touches a scene. *)

\* A new run.  The look for an approved run of the same text only spares
\* calls that do not ask for a new preview with force.
Create(h, t) ==
    /\ handlers[h] = Idle
    /\ Len(runs) < MaxRuns
    /\ runs' = Append(runs, [status |-> "review_required", breakdown |-> t])
    /\ OnlyRuns
    /\ UNCHANGED handlers

ReadForReparse(h, r, t) ==
    /\ handlers[h] = Idle
    /\ runs[r].status \in Editable
    /\ Goto(h, [at |-> "reparse", run |-> r, text |-> t])
    /\ NoRows

\* The UPDATE is by id and writes the status with the rest.
WriteReparse(h) ==
    /\ handlers[h].at = "reparse"
    /\ runs' = [runs EXCEPT ![handlers[h].run] =
                    [status |-> "review_required", breakdown |-> handlers[h].text]]
    /\ Goto(h, Idle)
    /\ OnlyRuns

\* rename_entity and delete_entity write back the breakdown they read, with
\* its entity list edited; the scenes in it are the ones that were read.
ReadForEdit(h, r) ==
    /\ handlers[h] = Idle
    /\ runs[r].status \in Editable
    /\ Goto(h, [at |-> "edit", run |-> r, breakdown |-> runs[r].breakdown])
    /\ NoRows

WriteEdit(h) ==
    /\ handlers[h].at = "edit"
    /\ runs' = [runs EXCEPT ![handlers[h].run].breakdown = handlers[h].breakdown]
    /\ Goto(h, Idle)
    /\ OnlyRuns

-----------------------------------------------------------------------------
(* compute_diff: existing rows against the scenes of a breakdown. *)

\* list_scenes is ordered by scene_number; the first row of a heading, or of
\* a number, is the one the lookups keep.
First(existing, S) ==
    CHOOSE s \in S : \A o \in S \ {s} :
        \/ existing[s].number < existing[o].number
        \/ existing[s].number = existing[o].number /\ s < o

WithHeading(existing, heading) == {s \in DOMAIN existing : existing[s].heading = heading}
WithNumber(existing, n) == {s \in DOMAIN existing : existing[s].number = n}

\* First pass: by heading, the first new scene that has it.  An empty heading
\* matches nothing, on either side.
HeadingMatches(existing, new) ==
    LET matched == {i \in DOMAIN new :
                        /\ new[i].heading # NoHeading
                        /\ WithHeading(existing, new[i].heading) # {}
                        /\ \A j \in 1..(i - 1) : new[j].heading # new[i].heading}
    IN [i \in matched |-> First(existing, WithHeading(existing, new[i].heading))]

\* Mutant: the numbers are matched before the headings.
Matches_NumbersFirst(existing, new) ==
    LET byHeading == HeadingMatches(existing, new)
        byNumber == [i \in {k \in DOMAIN new : WithNumber(existing, k) # {}} |->
                        First(existing, WithNumber(existing, i))]
        later == {i \in DOMAIN byHeading : byHeading[i] \notin Range(byNumber)}
    IN [i \in DOMAIN byNumber \cup later |->
            IF i \in DOMAIN byNumber THEN byNumber[i] ELSE byHeading[i]]

\* Second pass, over the scenes the first left: by number.
Matches(existing, new) ==
    LET byHeading == HeadingMatches(existing, new)
        byNumber == {i \in DOMAIN new \ DOMAIN byHeading :
                        /\ WithNumber(existing, i) # {}
                        /\ First(existing, WithNumber(existing, i)) \notin Range(byHeading)}
    IN [i \in DOMAIN byHeading \cup byNumber |->
            IF i \in byNumber THEN First(existing, WithNumber(existing, i))
                              ELSE byHeading[i]]

\* Mutant: a scene that only moved counts as unchanged.
SceneContentEqual_IgnoresNumber(row, scene) ==
    row.heading = scene.heading /\ row.content = scene.content

\* _scene_content_equal: the number counts, a renumbered scene is changed.
SceneContentEqual(row, scene) == row = scene

\* The plan made of the rows and the breakdown of text t.
Plan(existing, t) ==
    LET new == Breakdown[t]
        match == Matches(existing, new)
        same == {i \in DOMAIN match : SceneContentEqual(existing[match[i]], Parsed(t, i))}
    IN [match   |-> match,
        added   |-> DOMAIN new \ DOMAIN match,
        kept    |-> {match[i] : i \in same},
        changed |-> {match[i] : i \in DOMAIN match \ same},
        removed |-> DOMAIN existing \ Range(match)]

-----------------------------------------------------------------------------
(* Stage B: approve_import_run. *)

ReadRun(h, r, confirm) ==
    /\ handlers[h] = Idle
    /\ runs[r].status \in Editable
    /\ Goto(h, [at |-> "diff", run |-> r, breakdown |-> runs[r].breakdown,
                confirm |-> confirm])
    /\ NoRows

\* The scenes are read and the plan is made; left are the scenes it removes
\* whose shots are still to be looked at.
Planned(h) ==
    LET plan == Plan(Current, handlers[h].breakdown) IN
    [at |-> "approve", run |-> handlers[h].run, breakdown |-> handlers[h].breakdown,
     confirm |-> handlers[h].confirm, existing |-> Current, left |-> plan.removed]

\* Mutant: a plan that changes or removes scenes needs no confirmation.
ReadScenes_Unconfirmed(h) ==
    /\ handlers[h].at = "diff"
    /\ Goto(h, Planned(h))
    /\ NoRows

\* A plan that changes or removes scenes needs the caller's confirmation.
ReadScenes(h) ==
    /\ handlers[h].at = "diff"
    /\ LET plan == Plan(Current, handlers[h].breakdown) IN
       Goto(h, IF handlers[h].confirm \/ plan.changed \cup plan.removed = {}
               THEN Planned(h) ELSE Idle)
    /\ NoRows

\* Mutant: the shots of the scenes to be removed are not looked at.
CheckShots_Skipped(h, s) ==
    /\ handlers[h].at = "approve"
    /\ s \in handlers[h].left
    /\ Goto(h, [handlers[h] EXCEPT !.left = @ \ {s}])
    /\ NoRows

\* has_downstream_data of one scene to be removed.
CheckShots(h, s) ==
    /\ handlers[h].at = "approve"
    /\ s \in handlers[h].left
    /\ Goto(h, IF ShotsOf(s) # {} THEN Idle ELSE [handlers[h] EXCEPT !.left = @ \ {s}])
    /\ NoRows

\* The id the next insert gets when scene i is inserted after those before it.
NewId(added, i) == nextScene + Cardinality({j \in added : j < i})

\* The scenes after the plan's deletes, updates and inserts.
Applied(plan, t) ==
    LET now(s) == IF s \in plan.removed THEN Absent
                  ELSE IF s \in plan.changed \cap Present
                       THEN Parsed(t, CHOOSE i \in DOMAIN plan.match : plan.match[i] = s)
                       ELSE scenes[s]
    IN [s \in SceneIds |->
            IF \E i \in plan.added : s = NewId(plan.added, i)
            THEN Parsed(t, CHOOSE i \in plan.added : s = NewId(plan.added, i))
            ELSE now(s)]

\* Mutant: the runs approved before stay approved.
Approve_KeepsOthers(r) == [runs EXCEPT ![r].status = "approved"]

\* The run becomes the one approved run.
Approve(r) ==
    [q \in DOMAIN runs |->
        IF q = r THEN [runs[q] EXCEPT !.status = "approved"]
        ELSE IF runs[q].status = "approved" THEN [runs[q] EXCEPT !.status = "superseded"]
        ELSE runs[q]]

\* ON DELETE SET NULL: the shots of a deleted scene stay, without a scene.
Detached(plan) ==
    [x \in DOMAIN shots |-> IF shots[x] \in plan.removed THEN NoScene ELSE shots[x]]

\* commit_breakdown, in one transaction.  A scene of the plan that is gone by
\* now breaks a foreign key, and nothing is applied, unless it has no blocks
\* and no characters to insert: then its update is of no row.
Commit(h) ==
    /\ handlers[h].at = "approve"
    /\ handlers[h].left = {}
    /\ LET t == handlers[h].breakdown
           plan == Plan(handlers[h].existing, t) IN
       \/ /\ nextScene + Cardinality(plan.added) <= MaxScenes + 1
          /\ scenes' = Applied(plan, t)
          /\ nextScene' = nextScene + Cardinality(plan.added)
          /\ shots' = Detached(plan)
          /\ runs' = Approve(handlers[h].run)
       \/ /\ ~(plan.changed \cup plan.kept \subseteq Present)
          /\ UNCHANGED <<scenes, nextScene, shots, runs>>
    /\ Goto(h, Idle)
    /\ UNCHANGED unseen

-----------------------------------------------------------------------------
(* The resumable import's persist: only into a project without scenes. *)

\* list_scenes of the request, and then import_scenes' own count, find none.
ReadForPersist(h, t) ==
    /\ handlers[h] = Idle
    /\ Present = {}
    /\ Goto(h, [at |-> "persist", text |-> t])
    /\ NoRows

WritePersist(h) ==
    /\ handlers[h].at = "persist"
    /\ LET n == Len(Breakdown[handlers[h].text]) IN
       /\ nextScene + n <= MaxScenes + 1
       /\ scenes' = [s \in SceneIds |->
                        IF s \in nextScene..(nextScene + n - 1)
                        THEN Untitled(s - nextScene + 1) ELSE scenes[s]]
       /\ nextScene' = nextScene + n
    /\ Goto(h, Idle)
    /\ UNCHANGED <<runs, shots, unseen>>

-----------------------------------------------------------------------------
(* What the operator does to scenes and shots meanwhile. *)

AddScene(h, n) ==
    /\ handlers[h] = Idle
    /\ nextScene \in SceneIds
    /\ scenes' = [scenes EXCEPT ![nextScene] = Untitled(n)]
    /\ nextScene' = nextScene + 1
    /\ UNCHANGED <<runs, shots, unseen, handlers>>

AddShot(h, x, s) ==
    /\ handlers[h] = Idle
    /\ s \in Present
    /\ x \notin DOMAIN shots
    /\ shots' = [y \in DOMAIN shots \cup {x} |-> IF y = x THEN s ELSE shots[y]]
    /\ unseen' = IF \E k \in Handlers : handlers[k].at = "approve" /\ s \notin handlers[k].left
                 THEN unseen \cup {x} ELSE unseen
    /\ UNCHANGED <<runs, scenes, nextScene, handlers>>

-----------------------------------------------------------------------------
\* The endpoints of a run that is not approved yet, of its approval, of the
\* resumable import's end, and of scenes and shots.
Preview(h) ==
    \/ \E t \in Texts : Create(h, t)
    \/ \E r \in DOMAIN runs : ReadForEdit(h, r) \/ \E t \in Texts : ReadForReparse(h, r, t)
    \/ WriteReparse(h)
    \/ WriteEdit(h)

Approval(h) ==
    \/ \E r \in DOMAIN runs, confirm \in BOOLEAN : ReadRun(h, r, confirm)
    \/ ReadScenes(h)
    \/ \E s \in SceneIds : CheckShots(h, s)
    \/ Commit(h)

Persist(h) ==
    \/ \E t \in Texts : ReadForPersist(h, t)
    \/ WritePersist(h)

Manual(h) ==
    \/ \E n \in ManualNumbers : AddScene(h, n)
    \/ \E x \in Shots, s \in SceneIds : AddShot(h, x, s)

Next == \E h \in Handlers : Preview(h) \/ Approval(h) \/ Persist(h) \/ Manual(h)

Spec == Init /\ [][Next]_vars
-----------------------------------------------------------------------------
(* Properties. *)

\* However approvals overlap, at most one run of the project is approved: the
\* idempotency check looks one up by its text.
OneApprovedRun ==
    \A q, r \in DOMAIN runs :
        runs[q].status = "approved" /\ runs[r].status = "approved" => q = r

\* The commit of handler h is what happened in this step.
Commits(h) ==
    /\ handlers[h].at = "approve"
    /\ handlers'[h] = Idle
    /\ runs'[handlers[h].run] # runs[handlers[h].run] \/ scenes' # scenes

\* "Pure additions never require confirmation", and nothing else goes without:
\* an approval without confirm leaves every scene there is as it is, although
\* its plan may be out of date.
UnconfirmedOnlyAdds ==
    [][\A h \in Handlers : Commits(h) /\ ~handlers[h].confirm =>
          \A s \in Present : scenes'[s] = scenes[s]]_vars

\* A plan nothing has overtaken is applied exactly: afterwards the project has
\* the scenes of the breakdown, each of them once.
PlanIsExact ==
    [][\A h \in Handlers : Commits(h) /\ handlers[h].existing = Current =>
          LET t == handlers[h].breakdown IN
          /\ {scenes'[s] : s \in Present'} = {Parsed(t, i) : i \in DOMAIN Breakdown[t]}
          /\ Cardinality(Present') = Len(Breakdown[t])]_vars

\* A scene is known by its heading: where it has one that is unique on both
\* sides the scene keeps its row, and with it its shots, whatever its new number.
HeadingKeepsRow ==
    [][\A h \in Handlers : Commits(h) /\ handlers[h].existing = Current =>
          \A s \in Present : \A i \in DOMAIN Breakdown[handlers[h].breakdown] :
              LET new == Breakdown[handlers[h].breakdown]
                  heading == scenes[s].heading IN
              /\ heading # NoHeading
              /\ WithHeading(Current, heading) = {s}
              /\ {j \in DOMAIN new : new[j].heading = heading} = {i}
              => scenes'[s] = Parsed(handlers[h].breakdown, i)]_vars

\* "Removing a scene that has shots attached is refused unconditionally": only
\* a shot made after the check, while its approval was being committed, can
\* lose its scene.
OnlyUnseenShotsAreOrphaned == \A x \in DOMAIN shots : shots[x] = NoScene => x \in unseen

=============================================================================
