------------------------------ MODULE AssetLock ------------------------------
(***************************************************************************)
(* The assets of a production, their reference images and the lock that    *)
(* makes one reference the master (src/app/repositories/assets.py), with   *)
(* the requests that reach them: the asset endpoints, the reference tasks  *)
(* of Magnific, scene variants, and the generation of a shot that sends    *)
(* the references of its assets to the image provider.                     *)
(*                                                                         *)
(* Every request reads first, outside any transaction, and writes later;   *)
(* a request is in a handler from its read to its write.  The history      *)
(* variable stale holds the assets written by a request whose read another *)
(* write had overtaken by then.                                            *)
(*                                                                         *)
(* A reference image and its URL are one value.  Assets are never created  *)
(* twice under one id, nor references (AUTOINCREMENT).                     *)
(***************************************************************************)
EXTENDS Naturals, FiniteSets

CONSTANTS
    Assets,     \* ids of assets, all linked to the shot that is generated
    Refs,       \* bound: ids of reference images
    Tasks,      \* bound: reference tasks given to Magnific
    Handlers,   \* requests and workers that may overlap
    MaxReferences, \* images Magnific is given at once: 14
    None        \* NULL: no master, no URL, no asset

ASSUME NoneAssumption == None \notin Assets \cup Refs \cup Tasks
ASSUME PayloadAssumption == IsFiniteSet(Assets) /\ MaxReferences \in Nat

VARIABLES
    asset,      \* id -> row of assets
    refs,       \* id -> row of asset_reference_images
    tasks,      \* reference tasks given to Magnific, which knows no assets
    variants,   \* assets with a reference for the scene (scene_asset_variants)
    handlers,   \* handler -> the request it serves
    stale,      \* assets written after an overtaken read (history)
    patched     \* assets whose lock_status a PATCH made 'locked' (history)

vars == <<asset, refs, tasks, variants, handlers, stale, patched>>

\* Locations and wardrobe are one kind, props and the other types another.
Kinds == {"character", "setting", "other"}
LOCKABLE_TYPES == {"character", "setting"}
Locks == {"draft", "review", "locked"}
Presence == {"none", "here", "deleted"}

\* A URL is that of a reference, one typed in by the operator, or empty.
Pasted == "pasted"
Urls == Refs \cup {Pasted, None}

AssetRow == [row    : Presence,
             kind   : Kinds,
             lock   : Locks,
             master : Refs \cup {None},
             shown  : Urls,           \* reference_url
             prompts : {0, 1}]        \* master_prompt and the visual rules
RefRow == [row : Presence, asset : Assets \cup {None}, approved : BOOLEAN,
           task : Tasks \cup {None}]

\* One field of a PATCH; generate-bible is a PATCH of the prompts.
Changes == [field : {"asset_type"}, to : Kinds]
           \cup [field : {"lock_status"}, to : Locks]
           \cup [field : {"reference_url", "master_prompt"}, to : {"other"}]

Ops == {"idle", "add", "approve", "withdraw", "lock", "unlock", "patch",
        "delete", "variant", "generate", "generate draft"}
Generations == {"generate", "generate draft"}
Request == [op : Ops, asset : Assets \cup {None},
            on : Refs \cup Tasks \cup Changes \cup {None}, overtaken : BOOLEAN]
Idle == [op |-> "idle", asset |-> None, on |-> None, overtaken |-> FALSE]

TypeOK ==
    /\ asset \in [Assets -> AssetRow]
    /\ refs \in [Refs -> RefRow]
    /\ tasks \in SUBSET Tasks
    /\ variants \in SUBSET Assets
    /\ handlers \in [Handlers -> Request]
    /\ stale \in SUBSET Assets
    /\ patched \in SUBSET Assets

Init ==
    /\ asset = [a \in Assets |-> [row |-> "none", kind |-> "other", lock |-> "draft",
                                  master |-> None, shown |-> None, prompts |-> 0]]
    /\ refs = [r \in Refs |-> [row |-> "none", asset |-> None, approved |-> FALSE,
                               task |-> None]]
    /\ tasks = {}
    /\ variants = {}
    /\ handlers = [h \in Handlers |-> Idle]
    /\ stale = {}
    /\ patched = {}

Here(a) == asset[a].row = "here"
Locked(a) == Here(a) /\ asset[a].lock = "locked"
RefersTo(r, a) == r \in Refs /\ refs[r].row = "here" /\ refs[r].asset = a

Begin(h, op, a, on) ==
    /\ handlers[h] = Idle
    /\ handlers' = [handlers EXCEPT ![h] =
                        [op |-> op, asset |-> a, on |-> on, overtaken |-> FALSE]]
    /\ UNCHANGED <<asset, refs, tasks, variants, stale, patched>>

\* A request that read asset a, which is being written.
Overtaken(g, a) ==
    IF handlers[g].asset = a \/ handlers[g].op \in Generations
    THEN [handlers[g] EXCEPT !.overtaken = TRUE]
    ELSE handlers[g]

\* The end of h's request with a write on its asset, which overtakes the
\* reads of the other requests on it.
Writes(h) ==
    LET a == handlers[h].asset IN
    /\ handlers' = [g \in Handlers |-> IF g = h THEN Idle ELSE Overtaken(g, a)]
    /\ stale' = IF handlers[h].overtaken THEN stale \cup {a} ELSE stale

\* UPDATE assets ... WHERE id: nothing when the row is gone.
Update(a, r) == asset' = IF Here(a) THEN [asset EXCEPT ![a] = r] ELSE asset

-----------------------------------------------------------------------------
(* Assets. *)

CreateAsset(a) ==
    /\ asset[a].row = "none"
    /\ \E k \in Kinds, u \in {None, Pasted} :
          asset' = [asset EXCEPT ![a] = [@ EXCEPT !.row = "here", !.kind = k, !.shown = u]]
    /\ handlers' = [g \in Handlers |-> Overtaken(g, a)]
    /\ UNCHANGED <<refs, tasks, variants, stale, patched>>

Protected(c) == c.field \in {"asset_type", "reference_url", "master_prompt"}

\* Mutant: a locked asset is patched like any other.
BeginPatch_Unprotected(h, a, c) ==
    /\ Here(a)
    /\ Begin(h, "patch", a, c)

BeginPatch(h, a, c) ==
    /\ Here(a)
    /\ Locked(a) => ~Protected(c)
    /\ Begin(h, "patch", a, c)

PatchedRow(a, c) ==
    CASE c.field = "asset_type" -> [asset[a] EXCEPT !.kind = c.to]
      [] c.field = "lock_status" -> [asset[a] EXCEPT !.lock = c.to]
      [] c.field = "reference_url" -> [asset[a] EXCEPT !.shown = Pasted]
      [] c.field = "master_prompt" -> [asset[a] EXCEPT !.prompts = 1 - @]

WritePatch(h) ==
    /\ handlers[h].op = "patch"
    /\ LET a == handlers[h].asset
           c == handlers[h].on IN
       /\ Update(a, PatchedRow(a, c))
       /\ patched' = IF c.field = "lock_status"
                     THEN IF c.to = "locked" THEN patched \cup {a} ELSE patched \ {a}
                     ELSE patched
    /\ Writes(h)
    /\ UNCHANGED <<refs, tasks, variants>>

BeginDelete(h, a) ==
    /\ Here(a)
    /\ ~Locked(a)
    /\ Begin(h, "delete", a, None)

\* Its references and variants go with it (ON DELETE CASCADE).
WriteDelete(h) ==
    /\ handlers[h].op = "delete"
    /\ LET a == handlers[h].asset IN
       /\ Update(a, [asset[a] EXCEPT !.row = "deleted"])
       /\ refs' = [r \in Refs |-> IF RefersTo(r, a) THEN [refs[r] EXCEPT !.row = "deleted"]
                                  ELSE refs[r]]
       /\ variants' = variants \ {a}
    /\ Writes(h)
    /\ UNCHANGED <<tasks, patched>>

-----------------------------------------------------------------------------
(* Reference images: a task of Magnific, polled until its image is there. *)

\* generate_asset_reference; refused for a locked asset.
StartTask(a, t) ==
    /\ Here(a)
    /\ asset[a].kind \in LOCKABLE_TYPES
    /\ ~Locked(a)
    /\ t \notin tasks
    /\ tasks' = tasks \cup {t}
    /\ UNCHANGED <<asset, refs, variants, handlers, stale, patched>>

\* Mutant: the poll does not look for the reference an earlier poll added.
BeginAdd_Always(h, a, t) ==
    /\ Here(a)
    /\ t \in tasks
    /\ Begin(h, "add", a, t)

\* asset_reference_task of a completed task: the asset is read, then the
\* provider is asked and the image fetched, then the reference added unless
\* the asset that was read had it.  Nothing says which asset a task was for.
BeginAdd(h, a, t) ==
    /\ Here(a)
    /\ t \in tasks
    /\ \A r \in Refs : RefersTo(r, a) => refs[r].task # t
    /\ Begin(h, "add", a, t)

\* create_reference_image.  Only the asset's existence is looked at again.
WriteAdd(h) ==
    /\ handlers[h].op = "add"
    /\ LET a == handlers[h].asset IN
       \/ /\ Here(a)
          /\ \E r \in Refs :
             /\ refs[r].row = "none"
             /\ refs' = [refs EXCEPT ![r] = [row |-> "here", asset |-> a, approved |-> FALSE,
                                             task |-> handlers[h].on]]
             /\ Update(a, [asset[a] EXCEPT !.lock = "review", !.shown = r])
       \/ ~Here(a) /\ UNCHANGED <<asset, refs>>
    /\ Writes(h)
    /\ UNCHANGED <<tasks, variants, patched>>

\* Mutant: the approval of the master of a locked asset can be withdrawn.
BeginWithdraw_OfMaster(h, r) ==
    \E a \in Assets : RefersTo(r, a) /\ Begin(h, "withdraw", a, r)

BeginApprove(h, r) == \E a \in Assets : RefersTo(r, a) /\ Begin(h, "approve", a, r)

BeginWithdraw(h, r) ==
    \E a \in Assets :
        /\ RefersTo(r, a)
        /\ ~(Locked(a) /\ asset[a].master = r)
        /\ Begin(h, "withdraw", a, r)

WriteApproval(h) ==
    /\ handlers[h].op \in {"approve", "withdraw"}
    /\ LET r == handlers[h].on IN
       refs' = IF refs[r].row = "here"
               THEN [refs EXCEPT ![r] = [@ EXCEPT !.approved = (handlers[h].op = "approve")]]
               ELSE refs
    /\ Writes(h)
    /\ UNCHANGED <<asset, tasks, variants, patched>>

-----------------------------------------------------------------------------
(* The lock. *)

BeginLock(h, a, r) ==
    /\ Here(a)
    /\ asset[a].kind \in LOCKABLE_TYPES
    /\ RefersTo(r, a)
    /\ refs[r].approved
    /\ Begin(h, "lock", a, r)

WriteLock(h) ==
    /\ handlers[h].op = "lock"
    /\ LET a == handlers[h].asset
           r == handlers[h].on IN
       /\ Update(a, [asset[a] EXCEPT !.lock = "locked", !.master = r, !.shown = r])
       /\ patched' = patched \ {a}
    /\ Writes(h)
    /\ UNCHANGED <<refs, tasks, variants>>

BeginUnlock(h, a) ==
    /\ Here(a)
    /\ asset[a].kind \in LOCKABLE_TYPES
    /\ Begin(h, "unlock", a, None)

WriteUnlock(h) ==
    /\ handlers[h].op = "unlock"
    /\ LET a == handlers[h].asset IN
       Update(a, [asset[a] EXCEPT !.lock = "review", !.master = None])
    /\ Writes(h)
    /\ UNCHANGED <<refs, tasks, variants, patched>>

-----------------------------------------------------------------------------
(* What the lock is for: the references a shot is generated with. *)

BeginVariant(h, a) ==
    /\ Locked(a)
    /\ asset[a].kind = "setting"
    /\ Begin(h, "variant", a, None)

\* The variant of the scene is inserted or updated, with a URL or without.
WriteVariant(h) ==
    /\ handlers[h].op = "variant"
    /\ LET a == handlers[h].asset IN
       variants' \in IF Here(a) THEN {variants \cup {a}, variants \ {a}} ELSE {variants}
    /\ Writes(h)
    /\ UNCHANGED <<asset, refs, tasks, patched>>

\* Mutant: the gate of the queue lets a shot with unlocked assets through.
BeginGenerate_Ungated(h) == \E op \in Generations : Begin(h, op, None, None)

\* _validate_locked_assets, of drafts as of other generations, then the job is
\* queued.
BeginGenerate(h) ==
    /\ \A a \in Assets : Here(a) /\ asset[a].kind \in LOCKABLE_TYPES => Locked(a)
    /\ \E op \in Generations : Begin(h, op, None, None)

\* The first URL of select_generation_references: the variant of a setting,
\* then the approved master of a locked asset, then reference_url.
ImageFor(a) ==
    IF asset[a].kind = "setting" /\ a \in variants THEN Pasted
    ELSE IF Locked(a) /\ RefersTo(asset[a].master, a) /\ refs[asset[a].master].approved
    THEN asset[a].master
    ELSE asset[a].shown

OfKind(kinds) == {a \in Assets : Here(a) /\ asset[a].kind \in kinds}
ImagesOf(some) == {ImageFor(a) : a \in some} \ {None}

\* The first MaxReferences images of the shot's assets, in the order of the
\* types' names: props, characters, rules, settings, styles.  A payload that has
\* not all images of characters has therefore none of the settings.
Payloads ==
    LET all == ImagesOf(OfKind(Kinds))
        size == IF Cardinality(all) < MaxReferences THEN Cardinality(all) ELSE MaxReferences IN
    {sent \in SUBSET all :
        /\ Cardinality(sent) = size
        /\ \/ ImagesOf(OfKind({"character"})) \subseteq sent
           \/ sent \subseteq ImagesOf(OfKind({"other", "character"}))}

\* The worker takes the job and submits the shot: to Magnific with a payload of
\* images, or as a draft to the local model, which is sent none.
SendImages(h, sent) ==
    /\ handlers[h].op \in Generations
    /\ sent \in IF handlers[h].op = "generate" THEN Payloads ELSE {{}}
    /\ handlers' = [handlers EXCEPT ![h] = Idle]
    /\ UNCHANGED <<asset, refs, tasks, variants, stale, patched>>

-----------------------------------------------------------------------------
Edit(h) ==
    \/ \E a \in Assets : BeginDelete(h, a) \/ \E c \in Changes : BeginPatch(h, a, c)
    \/ WritePatch(h) \/ WriteDelete(h)

Reference(h) ==
    \/ \E a \in Assets, t \in Tasks : BeginAdd(h, a, t)
    \/ \E r \in Refs : BeginApprove(h, r) \/ BeginWithdraw(h, r)
    \/ WriteAdd(h) \/ WriteApproval(h)

Lock(h) ==
    \/ \E a \in Assets : BeginUnlock(h, a) \/ \E r \in Refs : BeginLock(h, a, r)
    \/ WriteLock(h) \/ WriteUnlock(h)

Generate(h) ==
    \/ \E a \in Assets : BeginVariant(h, a)
    \/ WriteVariant(h)
    \/ BeginGenerate(h)
    \/ \E sent \in SUBSET Urls : SendImages(h, sent)

Next ==
    \/ \E h \in Handlers : Edit(h) \/ Reference(h) \/ Lock(h) \/ Generate(h)
    \/ \E a \in Assets : CreateAsset(a) \/ \E t \in Tasks : StartTask(a, t)

Spec == Init /\ [][Next]_vars
-----------------------------------------------------------------------------
(* Properties. *)

Approved(r, a) == RefersTo(r, a) /\ refs[r].approved

\* A locked asset has a master that is there, is its own, is still approved,
\* and is the picture shown for it - unless a PATCH wrote the lock without
\* one, or a request acted on what another had changed since it looked.
LockedMasterApproved ==
    \A a \in Assets :
        Locked(a) /\ a \notin patched \cup stale =>
            /\ Approved(asset[a].master, a)
            /\ asset[a].shown = asset[a].master

\* From one state to the next a locked asset that stays locked keeps its type
\* and prompts and shows another picture only as its new master; and it is not
\* deleted.  The exception is a request overtaken by another.
LockedIsProtected ==
    [][\A a \in Assets :
          Locked(a) /\ a \notin stale' =>
              /\ Here(a)'
              /\ Locked(a)' =>
                    /\ asset'[a].kind = asset[a].kind
                    /\ asset'[a].prompts = asset[a].prompts
                    /\ asset'[a].shown \in {asset[a].shown, asset'[a].master}]_vars

\* However often an asset is polled for a task, it gets its picture once.
OneReferencePerTask ==
    \A q, r \in Refs :
        /\ refs[q].row = "here" /\ refs[r].row = "here"
        /\ refs[q].task = refs[r].task /\ refs[q].asset = refs[r].asset
        /\ refs[q].asset \notin stale
        => q = r

\* Nothing having been written between the gate and the worker, each character
\* of a shot that is not a draft is generated with its approved master: the
\* images of the settings crowd none out, though those of props may.
GatedSendsMaster ==
    [][\A h \in Handlers, sent \in SUBSET Urls :
          /\ SendImages(h, sent)
          /\ handlers[h].op = "generate" /\ ~handlers[h].overtaken
          /\ Cardinality(ImagesOf(OfKind({"other", "character"}))) <= MaxReferences
          => \A a \in OfKind({"character"}) \ (patched \cup stale) :
                /\ Approved(asset[a].master, a)
                /\ asset[a].master \in sent]_vars

=============================================================================
