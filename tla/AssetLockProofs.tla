--------------------------- MODULE AssetLockProofs ---------------------------
(***************************************************************************)
(* Proofs about AssetLock, for any number of assets, references, tasks and *)
(* overlapping requests.  The properties of the lock are not inductive by  *)
(* themselves: a request writes on the strength of what it read.  The      *)
(* strengthening says what a request that nobody overtook still knows.     *)
(***************************************************************************)
EXTENDS AssetLock, FiniteSetTheorems, TLAPS

\* What the request of h found when it read, and where its parts belong.
WellFormed(h) ==
    /\ handlers[h].op \notin Generations \cup {"idle"} => handlers[h].asset \in Assets
    /\ handlers[h].op \in {"approve", "withdraw", "lock"} =>
          /\ handlers[h].on \in Refs
          /\ refs[handlers[h].on].row # "none"
          /\ refs[handlers[h].on].asset = handlers[h].asset
    /\ handlers[h].op = "patch" => handlers[h].on \in Changes
    /\ handlers[h].op = "add" => handlers[h].on \in Tasks

\* What it read, of asset a, still holds if nobody has overtaken it.
LockIsApproved(h, a) == handlers[h].op = "lock" => Approved(handlers[h].on, a)
WithdrawsNoMaster(h, a) ==
    handlers[h].op = "withdraw" => ~(Locked(a) /\ asset[a].master = handlers[h].on)
DeletesUnlocked(h, a) == handlers[h].op = "delete" => ~Locked(a)
PatchesUnprotected(h, a) ==
    handlers[h].op = "patch" => (Locked(a) => ~Protected(handlers[h].on))
AddsNew(h, a) ==
    handlers[h].op = "add" =>
        \A r \in Refs : RefersTo(r, a) => refs[r].task # handlers[h].on

ReadHolds(h, a) ==
    /\ LockIsApproved(h, a) /\ WithdrawsNoMaster(h, a) /\ DeletesUnlocked(h, a)
    /\ PatchesUnprotected(h, a) /\ AddsNew(h, a)

GateHolds(h) ==
    handlers[h].op \in Generations =>
        \A a \in Assets : Here(a) /\ asset[a].kind \in LOCKABLE_TYPES => Locked(a)

FreshReadsHold ==
    \A h \in Handlers :
        ~handlers[h].overtaken =>
            /\ \A a \in Assets : handlers[h].asset = a => ReadHolds(h, a)
            /\ GateHolds(h)

\* A reference is of a task and of an asset.
OfTaskAndAsset ==
    \A r \in Refs : refs[r].row # "none" => refs[r].task \in Tasks /\ refs[r].asset \in Assets

CreatedUnlocked == \A a \in Assets : asset[a].row = "none" => asset[a].lock = "draft"

RequestsHold == (\A h \in Handlers : WellFormed(h)) /\ FreshReadsHold

RowsHold ==
    /\ OfTaskAndAsset
    /\ CreatedUnlocked
    /\ LockedMasterApproved
    /\ OneReferencePerTask

IInv == TypeOK /\ RequestsHold /\ RowsHold

-----------------------------------------------------------------------------
\* A request that has just read is well formed and knows what it read.
LEMMA BeginStep ==
    ASSUME IInv,
           NEW h \in Handlers, NEW op \in Ops \ {"idle"}, NEW a \in Assets \cup {None},
           NEW on \in Refs \cup Tasks \cup Changes \cup {None},
           Begin(h, op, a, on),
           op \notin Generations => a \in Assets,
           op \in {"approve", "withdraw", "lock"} => RefersTo(on, a),
           op = "patch" => on \in Changes /\ (Locked(a) => ~Protected(on)),
           op = "add" => /\ on \in Tasks
                         /\ \A r \in Refs : RefersTo(r, a) => refs[r].task # on,
           op = "lock" => Approved(on, a),
           op = "withdraw" => ~(Locked(a) /\ asset[a].master = on),
           op = "delete" => ~Locked(a),
           op \in Generations =>
               \A b \in Assets : Here(b) /\ asset[b].kind \in LOCKABLE_TYPES => Locked(b)
    PROVE  IInv'
<1> DEFINE new == [op |-> op, asset |-> a, on |-> on, overtaken |-> FALSE]
<1>1. /\ UNCHANGED <<asset, refs, tasks, variants, stale, patched>>
      /\ handlers' = [handlers EXCEPT ![h] = new]
  BY DEF Begin
<1>2. new \in Request
  BY DEF Request
<1>3. TypeOK'
  BY <1>1, <1>2 DEF IInv, TypeOK
<1>4. handlers'[h] = new /\ \A g \in Handlers \ {h} : handlers'[g] = handlers[g]
  BY <1>1 DEF IInv, TypeOK
<1>5. RowsHold'
  BY <1>1 DEF IInv, RowsHold, OfTaskAndAsset, CreatedUnlocked, LockedMasterApproved,
              OneReferencePerTask, Locked, Here, Approved, RefersTo
<1>6. ASSUME NEW g \in Handlers PROVE WellFormed(g)'
  <2>1. CASE g = h
    BY <1>1, <1>4, <2>1 DEF WellFormed, RefersTo
  <2>2. CASE g # h
    BY <1>1, <1>4, <2>2 DEF WellFormed, IInv, RequestsHold
  <2> QED
    BY <2>1, <2>2
<1>7. ASSUME NEW g \in Handlers, ~handlers'[g].overtaken
      PROVE  /\ \A b \in Assets : handlers'[g].asset = b => ReadHolds(g, b)'
             /\ GateHolds(g)'
  <2> USE DEF ReadHolds, LockIsApproved, WithdrawsNoMaster, DeletesUnlocked,
              PatchesUnprotected, AddsNew, GateHolds, Approved, RefersTo, Locked, Here,
              Protected
  <2>1. CASE g = h
    BY <1>1, <1>4, <2>1
  <2>2. CASE g # h
    BY <1>1, <1>4, <1>7, <2>2 DEF IInv, RequestsHold, FreshReadsHold
  <2> QED
    BY <2>1, <2>2
<1> QED
  BY <1>3, <1>5, <1>6, <1>7 DEF IInv, RequestsHold, FreshReadsHold

\* A step that writes nothing but the rows of one asset, whose other requests
\* it overtakes.
Touches(a) ==
    /\ \A b \in Assets \ {a} : asset'[b] = asset[b]
    /\ \A r \in Refs : refs'[r] # refs[r] =>
          /\ refs'[r].asset = a /\ refs'[r].row # "none"
          /\ refs[r].row # "none" => refs[r].asset = a
    /\ UNCHANGED tasks

\* What the requests of the other assets read still holds.
LEMMA OvertakenStep ==
    ASSUME IInv, TypeOK', NEW a \in Assets, Touches(a),
           \A g \in Handlers : handlers'[g] \in {Idle, Overtaken(g, a)}
    PROVE  RequestsHold'
<1>1. ASSUME NEW g \in Handlers
      PROVE  \/ handlers'[g] = Idle
             \/ handlers'[g] = [handlers[g] EXCEPT !.overtaken = TRUE]
             \/ /\ handlers'[g] = handlers[g]
                /\ handlers[g].asset # a /\ handlers[g].op \notin Generations
  BY DEF Overtaken
<1>2. ASSUME NEW g \in Handlers PROVE WellFormed(g)'
  <2>1. CASE handlers'[g] = Idle
    BY <2>1 DEF Idle, WellFormed
  <2>2. CASE handlers'[g] # Idle
    <3>1. /\ handlers'[g].op = handlers[g].op /\ handlers'[g].on = handlers[g].on
          /\ handlers'[g].asset = handlers[g].asset
      BY <1>1, <2>2 DEF IInv, TypeOK, Request
    <3>2. WellFormed(g)
      BY DEF IInv, RequestsHold
    <3> QED
      BY <3>1, <3>2 DEF WellFormed, Touches
  <2> QED
    BY <2>1, <2>2
<1>3. ASSUME NEW g \in Handlers, ~handlers'[g].overtaken
      PROVE  /\ \A b \in Assets : handlers'[g].asset = b => ReadHolds(g, b)'
             /\ GateHolds(g)'
  <2> USE DEF ReadHolds, LockIsApproved, WithdrawsNoMaster, DeletesUnlocked,
              PatchesUnprotected, AddsNew, GateHolds
  <2>1. CASE handlers'[g] = Idle
    BY <2>1 DEF Idle, Generations
  <2>2. CASE handlers'[g] # Idle
    <3>1. /\ handlers'[g] = handlers[g]
          /\ handlers[g].asset # a /\ handlers[g].op \notin Generations
      BY <1>1, <1>3, <2>2 DEF IInv, TypeOK, Request
    <3>2. SUFFICES ASSUME NEW b \in Assets, handlers[g].asset = b PROVE ReadHolds(g, b)'
      BY <3>1
    <3>3. b # a /\ asset'[b] = asset[b]
      BY <3>1, <3>2 DEF Touches
    <3>4. Locked(b)' <=> Locked(b)
      BY <3>3 DEF Locked, Here
    <3>5. ASSUME NEW r \in Refs PROVE RefersTo(r, b)' <=> RefersTo(r, b)
      BY <3>3 DEF RefersTo, Touches
    <3>6. ASSUME NEW r \in Refs, RefersTo(r, b) PROVE refs'[r] = refs[r]
      BY <3>3, <3>6 DEF RefersTo, Touches
    <3>7. ReadHolds(g, b) /\ WellFormed(g)
      BY <1>3, <3>1, <3>2 DEF IInv, RequestsHold, FreshReadsHold
    <3>8. LockIsApproved(g, b)'
      BY <3>1, <3>5, <3>6, <3>7 DEF WellFormed, Approved
    <3>9. AddsNew(g, b)'
      BY <3>1, <3>5, <3>6, <3>7
    <3> QED
      BY <3>1, <3>3, <3>4, <3>7, <3>8, <3>9 DEF Protected
  <2> QED
    BY <2>1, <2>2
<1> QED
  BY <1>2, <1>3 DEF RequestsHold, FreshReadsHold

MasterHolds(a) ==
    Locked(a) /\ a \notin patched \cup stale =>
        /\ Approved(asset[a].master, a)
        /\ asset[a].shown = asset[a].master
OneEach(a) ==
    a \notin stale =>
        \A q, r \in Refs :
            RefersTo(q, a) /\ RefersTo(r, a) /\ refs[q].task = refs[r].task => q = r

\* The rows of the other assets are as good as they were.
LEMMA RowsStep ==
    ASSUME IInv, TypeOK', NEW a \in Assets, Touches(a),
           stale \subseteq stale',
           \A b \in Assets \ {a} : b \in patched => b \in patched',
           asset'[a].row = "none" => asset'[a].lock = "draft",
           \A r \in Refs : refs'[r] # refs[r] => refs'[r].task \in Tasks,
           MasterHolds(a)', OneEach(a)'
    PROVE  RowsHold'
<1>1. ASSUME NEW b \in Assets \ {a}, NEW r \in Refs
      PROVE  /\ RefersTo(r, b)' <=> RefersTo(r, b)
             /\ RefersTo(r, b) => refs'[r] = refs[r]
  BY DEF RefersTo, Touches
<1>2. OfTaskAndAsset'
  BY DEF OfTaskAndAsset, Touches, IInv, RowsHold, TypeOK, RefRow
<1>3. CreatedUnlocked'
  BY DEF CreatedUnlocked, Touches, IInv, RowsHold
<1>4. LockedMasterApproved'
  <2>1. SUFFICES ASSUME NEW b \in Assets \ {a}, Locked(b)', b \notin patched' \cup stale'
                 PROVE  Approved(asset[b].master, b)' /\ asset'[b].shown = asset'[b].master
    BY DEF LockedMasterApproved, MasterHolds
  <2>2. asset'[b] = asset[b] /\ Locked(b) /\ b \notin patched \cup stale
    BY <2>1 DEF Touches, Locked, Here
  <2>3. Approved(asset[b].master, b) /\ asset[b].shown = asset[b].master
    BY <2>1, <2>2 DEF IInv, RowsHold, LockedMasterApproved
  <2> QED
    BY <1>1, <2>2, <2>3 DEF Approved, RefersTo
<1>5. OneReferencePerTask'
  <2>1. SUFFICES ASSUME NEW q \in Refs, NEW r \in Refs,
                        refs'[q].row = "here", refs'[r].row = "here",
                        refs'[q].task = refs'[r].task, refs'[q].asset = refs'[r].asset,
                        refs'[q].asset \notin stale'
                 PROVE  q = r
    BY DEF OneReferencePerTask
  <2>2. refs'[q].asset = refs'[r].asset /\ refs'[q].asset \in Assets
    BY <1>2, <2>1 DEF OfTaskAndAsset
  <2>3. CASE refs'[q].asset = a
    BY <2>1, <2>2, <2>3 DEF OneEach, RefersTo
  <2>4. CASE refs'[q].asset # a
    <3>1. refs'[q] = refs[q] /\ refs'[r] = refs[r]
      BY <2>2, <2>4 DEF Touches
    <3> QED
      BY <2>1, <3>1 DEF IInv, RowsHold, OneReferencePerTask
  <2> QED
    BY <2>3, <2>4
<1> QED
  BY <1>2, <1>3, <1>4, <1>5 DEF RowsHold

-----------------------------------------------------------------------------
\* What a write leaves of the handlers, and of the read it was based on.
LEMMA WriteFacts ==
    ASSUME IInv, NEW h \in Handlers, handlers[h].op \notin Generations \cup {"idle"}, Writes(h),
           NEW a, a = handlers[h].asset
    PROVE  /\ a \in Assets
           /\ WellFormed(h)
           /\ handlers' \in [Handlers -> Request] /\ stale' \in SUBSET Assets
           /\ \A g \in Handlers : handlers'[g] \in {Idle, Overtaken(g, a)}
           /\ stale \subseteq stale'
           /\ a \notin stale' => ReadHolds(h, a)
           /\ a \notin stale' /\ Here(a) => MasterHolds(a) /\ OneEach(a)
<1>1. a \in Assets /\ WellFormed(h)
  BY DEF IInv, RequestsHold, WellFormed
<1>2. handlers' = [g \in Handlers |-> IF g = h THEN Idle ELSE Overtaken(g, a)]
  BY DEF Writes
<1>3. \A g \in Handlers : handlers'[g] \in {Idle, Overtaken(g, a)}
  BY <1>2
<1>7. handlers' \in [Handlers -> Request]
  <2>1. Idle \in Request
    BY DEF Idle, Request, Ops
  <2>2. ASSUME NEW g \in Handlers PROVE Overtaken(g, a) \in Request
    BY DEF Overtaken, Request, IInv, TypeOK
  <2> QED
    BY <1>2, <2>1, <2>2
<1>8. stale' \in SUBSET Assets
  BY <1>1 DEF Writes, IInv, TypeOK
<1>4. stale \subseteq stale'
  BY DEF Writes
<1>5. ASSUME a \notin stale' PROVE ReadHolds(h, a)
  BY <1>1, <1>5 DEF Writes, IInv, RequestsHold, FreshReadsHold
<1>6. ASSUME a \notin stale' PROVE MasterHolds(a) /\ OneEach(a)
  BY <1>1, <1>4, <1>6 DEF IInv, RowsHold, LockedMasterApproved, OneReferencePerTask,
                          MasterHolds, OneEach, RefersTo
<1> QED
  BY <1>1, <1>3, <1>4, <1>5, <1>6, <1>7, <1>8

\* The strengthening is inductive: one step per action.
LEMMA InitIInv == Init => IInv
<1> USE NoneAssumption DEF Generations
<1>1. ASSUME Init PROVE TypeOK
  BY <1>1 DEF Init, TypeOK, AssetRow, RefRow, Presence, Kinds, Locks, Urls, Request, Ops, Idle
<1>2. ASSUME Init PROVE RequestsHold
  BY <1>2 DEF Init, RequestsHold, WellFormed, FreshReadsHold, ReadHolds, LockIsApproved,
              WithdrawsNoMaster, DeletesUnlocked, PatchesUnprotected, AddsNew, GateHolds, Idle
<1>3. ASSUME Init PROVE RowsHold
  BY <1>3 DEF Init, RowsHold, OfTaskAndAsset, CreatedUnlocked, LockedMasterApproved,
              OneReferencePerTask, Locked, Here
<1> QED
  BY <1>1, <1>2, <1>3 DEF IInv

\* A PATCH changes its own field of the row and no other.
LEMMA PatchFacts ==
    ASSUME NEW a \in Assets, NEW c \in Changes, asset[a] \in AssetRow
    PROVE  /\ PatchedRow(a, c) \in AssetRow
           /\ PatchedRow(a, c).row = asset[a].row
           /\ PatchedRow(a, c).master = asset[a].master
           /\ c.field # "lock_status" =>
                 Protected(c) /\ PatchedRow(a, c).lock = asset[a].lock
           /\ c.field = "lock_status" =>
                 /\ c.to \in Locks /\ PatchedRow(a, c).lock = c.to
                 /\ PatchedRow(a, c).kind = asset[a].kind
                 /\ PatchedRow(a, c).shown = asset[a].shown
                 /\ PatchedRow(a, c).prompts = asset[a].prompts
<1>1. CASE c.field = "asset_type"
  <2>1. c.to \in Kinds
    BY <1>1 DEF Changes
  <2>2. PatchedRow(a, c) = [asset[a] EXCEPT !.kind = c.to]
    BY <1>1 DEF PatchedRow
  <2> QED
    BY <1>1, <2>1, <2>2 DEF AssetRow, Protected
<1>2. CASE c.field = "lock_status"
  <2>1. c.to \in Locks
    BY <1>2 DEF Changes
  <2>2. PatchedRow(a, c) = [asset[a] EXCEPT !.lock = c.to]
    BY <1>2 DEF PatchedRow
  <2> QED
    BY <1>2, <2>1, <2>2 DEF AssetRow
<1>3. CASE c.field = "reference_url"
  <2>1. PatchedRow(a, c) = [asset[a] EXCEPT !.shown = Pasted]
    BY <1>3 DEF PatchedRow
  <2> QED
    BY <1>3, <2>1 DEF AssetRow, Protected, Urls
<1>4. CASE c.field = "master_prompt"
  <2>1. PatchedRow(a, c) = [asset[a] EXCEPT !.prompts = 1 - @]
    BY <1>4 DEF PatchedRow
  <2>2. 1 - asset[a].prompts \in {0, 1}
    BY DEF AssetRow
  <2> QED
    BY <1>4, <2>1, <2>2 DEF AssetRow, Protected
<1>5. c.field \in {"asset_type", "lock_status", "reference_url", "master_prompt"}
  BY DEF Changes
<1> QED
  BY <1>1, <1>2, <1>3, <1>4, <1>5

LEMMA EditStep ==
    ASSUME IInv, NEW h \in Handlers, Edit(h)
    PROVE  IInv'
<1> USE NoneAssumption DEF Generations
<1>1. ASSUME NEW a \in Assets, BeginDelete(h, a) PROVE IInv'
  BY <1>1, BeginStep DEF BeginDelete, Ops
<1>2. ASSUME NEW a \in Assets, NEW c \in Changes, BeginPatch(h, a, c) PROVE IInv'
  BY <1>2, BeginStep DEF BeginPatch, Ops
<1>3. CASE WritePatch(h)
  <2>0. PICK a, c : a = handlers[h].asset /\ c = handlers[h].on
    OBVIOUS
  <2>1. handlers[h].op = "patch" /\ Writes(h) /\ Update(a, PatchedRow(a, c))
        /\ UNCHANGED <<refs, tasks, variants>>
    BY <1>3, <2>0 DEF WritePatch
  <2>2. /\ a \in Assets /\ WellFormed(h)
        /\ handlers' \in [Handlers -> Request] /\ stale' \in SUBSET Assets
        /\ \A g \in Handlers : handlers'[g] \in {Idle, Overtaken(g, a)}
        /\ stale \subseteq stale'
        /\ a \notin stale' => ReadHolds(h, a)
        /\ a \notin stale' /\ Here(a) => MasterHolds(a) /\ OneEach(a)
    BY <2>0, <2>1, WriteFacts
  <2>3. c \in Changes
    BY <2>0, <2>1, <2>2 DEF WellFormed
  <2>4. asset[a] \in AssetRow
    BY <2>2 DEF IInv, TypeOK
  <2>5. /\ PatchedRow(a, c) \in AssetRow
        /\ PatchedRow(a, c).row = asset[a].row
        /\ PatchedRow(a, c).master = asset[a].master
        /\ c.field # "lock_status" =>
              Protected(c) /\ PatchedRow(a, c).lock = asset[a].lock
        /\ c.field = "lock_status" => c.to \in Locks /\ PatchedRow(a, c).lock = c.to
    BY <2>2, <2>3, <2>4, PatchFacts
  <2>6. /\ asset' \in [Assets -> AssetRow]
        /\ \A b \in Assets \ {a} : asset'[b] = asset[b]
        /\ asset'[a] = IF Here(a) THEN PatchedRow(a, c) ELSE asset[a]
    BY <2>1, <2>2, <2>5 DEF Update, IInv, TypeOK
  <2>7. patched' = IF c.field = "lock_status"
                   THEN IF c.to = "locked" THEN patched \cup {a} ELSE patched \ {a}
                   ELSE patched
    BY <1>3, <2>0 DEF WritePatch
  <2>8. TypeOK'
    BY <2>1, <2>2, <2>6, <2>7 DEF IInv, TypeOK
  <2>9. Touches(a)
    BY <2>1, <2>6 DEF Touches
  <2>10. RequestsHold'
    BY <2>2, <2>8, <2>9, OvertakenStep
  <2>11. asset'[a].row = asset[a].row
    BY <2>5, <2>6
  <2>12. MasterHolds(a)'
    <3>1. SUFFICES ASSUME Locked(a)', a \notin patched' \cup stale' PROVE FALSE
      BY DEF MasterHolds
    <3>2. Here(a) /\ asset'[a] = PatchedRow(a, c)
      BY <2>6, <2>11, <3>1 DEF Locked, Here
    <3>3. c.field # "lock_status"
      BY <2>5, <2>7, <3>1, <3>2 DEF Locked
    <3>4. ~Locked(a)
      BY <2>0, <2>1, <2>2, <2>5, <3>1, <3>3 DEF ReadHolds, PatchesUnprotected
    <3> QED
      BY <2>5, <3>1, <3>2, <3>3, <3>4 DEF Locked
  <2>13. OneEach(a)'
    BY <2>1, <2>2 DEF OneEach, RefersTo, IInv, RowsHold, OneReferencePerTask
  <2>14. asset'[a].row = "none" => asset'[a].lock = "draft"
    BY <2>2, <2>6, <2>11 DEF IInv, RowsHold, CreatedUnlocked, Here
  <2>15. RowsHold'
    BY <2>1, <2>2, <2>7, <2>8, <2>9, <2>12, <2>13, <2>14, RowsStep
  <2> QED
    BY <2>8, <2>10, <2>15 DEF IInv
<1>4. CASE WriteDelete(h)
  <2>0. PICK a : a = handlers[h].asset
    OBVIOUS
  <2>1. /\ handlers[h].op = "delete" /\ Writes(h)
        /\ Update(a, [asset[a] EXCEPT !.row = "deleted"])
        /\ refs' = [r \in Refs |-> IF RefersTo(r, a) THEN [refs[r] EXCEPT !.row = "deleted"]
                                   ELSE refs[r]]
        /\ variants' = variants \ {a}
        /\ UNCHANGED <<tasks, patched>>
    BY <1>4, <2>0 DEF WriteDelete
  <2>2. /\ a \in Assets /\ WellFormed(h)
        /\ handlers' \in [Handlers -> Request] /\ stale' \in SUBSET Assets
        /\ \A g \in Handlers : handlers'[g] \in {Idle, Overtaken(g, a)}
        /\ stale \subseteq stale'
    BY <2>0, <2>1, WriteFacts
  <2>3. asset[a] \in AssetRow /\ \A r \in Refs : refs[r] \in RefRow
    BY <2>2 DEF IInv, TypeOK
  <2>4. /\ asset' \in [Assets -> AssetRow]
        /\ \A b \in Assets \ {a} : asset'[b] = asset[b]
        /\ asset'[a].row # "here"
        /\ asset'[a].row = "none" => asset'[a].lock = "draft"
    BY <2>1, <2>2, <2>3 DEF Update, IInv, TypeOK, AssetRow, Presence, Here, RowsHold,
                            CreatedUnlocked
  <2>5. ASSUME NEW r \in Refs
        PROVE  /\ refs'[r] \in RefRow /\ ~RefersTo(r, a)'
               /\ refs'[r].asset = refs[r].asset /\ refs'[r].task = refs[r].task
               /\ refs'[r] # refs[r] => RefersTo(r, a) /\ refs'[r].row = "deleted"
    BY <2>1, <2>3 DEF RefRow, Presence, RefersTo
  <2>6. TypeOK'
    BY <2>1, <2>2, <2>4, <2>5 DEF IInv, TypeOK
  <2>7. Touches(a)
    BY <2>1, <2>4, <2>5 DEF Touches, RefersTo
  <2>8. RequestsHold'
    BY <2>2, <2>6, <2>7, OvertakenStep
  <2>9. MasterHolds(a)' /\ OneEach(a)'
    BY <2>4, <2>5 DEF MasterHolds, OneEach, Locked, Here
  <2>10. \A r \in Refs : refs'[r] # refs[r] => refs'[r].task \in Tasks
    BY <2>5 DEF IInv, RowsHold, OfTaskAndAsset, RefersTo
  <2>11. RowsHold'
    BY <2>1, <2>2, <2>4, <2>6, <2>7, <2>9, <2>10, RowsStep
  <2> QED
    BY <2>6, <2>8, <2>11 DEF IInv
<1> QED
  BY <1>1, <1>2, <1>3, <1>4 DEF Edit

LEMMA ReferenceStep ==
    ASSUME IInv, NEW h \in Handlers, Reference(h)
    PROVE  IInv'
<1> USE NoneAssumption DEF Generations
<1>1. ASSUME NEW a \in Assets, NEW t \in Tasks, BeginAdd(h, a, t) PROVE IInv'
  BY <1>1, BeginStep DEF BeginAdd, Ops
<1>2. ASSUME NEW r \in Refs, BeginApprove(h, r) PROVE IInv'
  BY <1>2, BeginStep DEF BeginApprove, Ops
<1>3. ASSUME NEW r \in Refs, BeginWithdraw(h, r) PROVE IInv'
  BY <1>3, BeginStep DEF BeginWithdraw, Ops
<1>4. CASE WriteAdd(h)
  <2>0. PICK a, t : a = handlers[h].asset /\ t = handlers[h].on
    OBVIOUS
  <2>1. /\ handlers[h].op = "add" /\ Writes(h) /\ UNCHANGED <<tasks, variants, patched>>
        /\ \/ /\ Here(a)
              /\ \E r \in Refs :
                 /\ refs[r].row = "none"
                 /\ refs' = [refs EXCEPT ![r] = [row |-> "here", asset |-> a,
                                                 approved |-> FALSE, task |-> t]]
                 /\ Update(a, [asset[a] EXCEPT !.lock = "review", !.shown = r])
           \/ ~Here(a) /\ UNCHANGED <<asset, refs>>
    BY <1>4, <2>0 DEF WriteAdd
  <2>2. /\ a \in Assets /\ WellFormed(h)
        /\ handlers' \in [Handlers -> Request] /\ stale' \in SUBSET Assets
        /\ \A g \in Handlers : handlers'[g] \in {Idle, Overtaken(g, a)}
        /\ stale \subseteq stale'
        /\ a \notin stale' => ReadHolds(h, a)
        /\ a \notin stale' /\ Here(a) => MasterHolds(a) /\ OneEach(a)
    BY <2>0, <2>1, WriteFacts
  <2>3. t \in Tasks
    BY <2>0, <2>1, <2>2 DEF WellFormed
  <2>4. CASE ~Here(a) /\ UNCHANGED <<asset, refs>>
    <3>1. TypeOK' /\ Touches(a)
      BY <2>1, <2>2, <2>4 DEF IInv, TypeOK, Touches
    <3>2. MasterHolds(a)'
      BY <2>4 DEF MasterHolds, Locked, Here
    <3>3. OneEach(a)'
      BY <2>2, <2>4 DEF OneEach, RefersTo, IInv, RowsHold, OneReferencePerTask
    <3>4. RequestsHold'
      BY <2>2, <3>1, OvertakenStep
    <3>5. RowsHold'
      BY <2>1, <2>2, <2>4, <3>1, <3>2, <3>3, RowsStep DEF IInv, RowsHold, CreatedUnlocked
    <3> QED
      BY <3>1, <3>4, <3>5 DEF IInv
  <2>5. CASE Here(a) /\ ~UNCHANGED <<asset, refs>>
    <3>1. PICK r \in Refs :
             /\ refs[r].row = "none"
             /\ refs' = [refs EXCEPT ![r] = [row |-> "here", asset |-> a,
                                             approved |-> FALSE, task |-> t]]
             /\ asset' = [asset EXCEPT ![a] = [asset[a] EXCEPT !.lock = "review", !.shown = r]]
      BY <2>1, <2>5 DEF Update
    <3>2. asset[a] \in AssetRow
      BY <2>2 DEF IInv, TypeOK
    <3>3. /\ asset' \in [Assets -> AssetRow] /\ asset'[a].lock = "review"
          /\ asset'[a].row = "here" /\ \A b \in Assets \ {a} : asset'[b] = asset[b]
      BY <2>2, <2>5, <3>1, <3>2 DEF AssetRow, Locks, Urls, IInv, TypeOK, Here
    <3>4. /\ refs' \in [Refs -> RefRow] /\ \A q \in Refs \ {r} : refs'[q] = refs[q]
          /\ refs'[r] = [row |-> "here", asset |-> a, approved |-> FALSE, task |-> t]
      BY <2>2, <2>3, <3>1 DEF RefRow, Presence, IInv, TypeOK
    <3>5. TypeOK' /\ Touches(a)
      BY <2>1, <2>2, <3>1, <3>3, <3>4 DEF IInv, TypeOK, Touches
    <3>6. MasterHolds(a)'
      BY <3>3 DEF MasterHolds, Locked
    <3>7. OneEach(a)'
      <4>1. SUFFICES ASSUME a \notin stale', NEW p \in Refs, NEW q \in Refs,
                            RefersTo(p, a)', RefersTo(q, a)', refs'[p].task = refs'[q].task
                     PROVE  p = q
        BY DEF OneEach
      <4>2. \A x \in Refs : RefersTo(x, a) => refs[x].task # t
        BY <2>0, <2>1, <2>2, <4>1 DEF ReadHolds, AddsNew
      <4>3. OneEach(a)
        BY <2>2, <2>5, <4>1
      <4>4. ASSUME NEW x \in Refs \ {r} PROVE RefersTo(x, a)' <=> RefersTo(x, a)
        BY <3>4 DEF RefersTo
      <4>5. refs'[r].task = t
        BY <3>4
      <4>6. CASE p # r /\ q # r
        BY <2>2, <3>4, <4>1, <4>3, <4>4, <4>6 DEF OneEach
      <4>7. CASE p = r /\ q # r
        BY <3>4, <4>1, <4>2, <4>4, <4>5, <4>7
      <4>8. CASE q = r /\ p # r
        BY <3>4, <4>1, <4>2, <4>4, <4>5, <4>8
      <4> QED
        BY <4>6, <4>7, <4>8
    <3>8. RequestsHold'
      BY <2>2, <3>5, OvertakenStep
    <3>9. \A x \in Refs : refs'[x] # refs[x] => refs'[x].task \in Tasks
      BY <2>3, <3>4
    <3>10. RowsHold'
      BY <2>1, <2>2, <3>3, <3>5, <3>6, <3>7, <3>9, RowsStep
    <3> QED
      BY <3>5, <3>8, <3>10 DEF IInv
  <2>6. CASE Here(a) /\ UNCHANGED <<asset, refs>>
    <3>1. PICK r \in Refs :
             /\ refs[r].row = "none"
             /\ refs' = [refs EXCEPT ![r] = [row |-> "here", asset |-> a,
                                             approved |-> FALSE, task |-> t]]
      BY <2>1, <2>6
    <3> QED
      BY <2>6, <3>1 DEF IInv, TypeOK
  <2> QED
    BY <2>1, <2>4, <2>5, <2>6
<1>5. CASE WriteApproval(h)
  <2>0. PICK a, r : a = handlers[h].asset /\ r = handlers[h].on
    OBVIOUS
  <2>1. /\ handlers[h].op \in {"approve", "withdraw"} /\ Writes(h)
        /\ refs' = IF refs[r].row = "here"
                   THEN [refs EXCEPT ![r] = [@ EXCEPT !.approved = (handlers[h].op = "approve")]]
                   ELSE refs
        /\ UNCHANGED <<asset, tasks, variants, patched>>
    BY <1>5, <2>0 DEF WriteApproval
  <2>2. /\ a \in Assets /\ WellFormed(h)
        /\ handlers' \in [Handlers -> Request] /\ stale' \in SUBSET Assets
        /\ \A g \in Handlers : handlers'[g] \in {Idle, Overtaken(g, a)}
        /\ stale \subseteq stale'
        /\ a \notin stale' => ReadHolds(h, a)
        /\ a \notin stale' /\ Here(a) => MasterHolds(a) /\ OneEach(a)
    BY <2>0, <2>1, WriteFacts
  <2>3. r \in Refs /\ refs[r].row # "none" /\ refs[r].asset = a /\ refs[r] \in RefRow
    BY <2>0, <2>1, <2>2 DEF WellFormed, IInv, TypeOK
  <2>4. /\ refs' \in [Refs -> RefRow] /\ \A q \in Refs \ {r} : refs'[q] = refs[q]
        /\ refs'[r].row = refs[r].row /\ refs'[r].asset = a /\ refs'[r].task = refs[r].task
        /\ handlers[h].op = "approve" => (refs[r].approved => refs'[r].approved)
    <3>1. (handlers[h].op = "approve") \in BOOLEAN
      OBVIOUS
    <3> QED
      BY <2>1, <2>3, <3>1 DEF RefRow, IInv, TypeOK
  <2>5. TypeOK' /\ Touches(a)
    BY <2>1, <2>2, <2>3, <2>4 DEF IInv, TypeOK, Touches
  <2>6. MasterHolds(a)'
    <3>1. SUFFICES ASSUME Locked(a)', a \notin patched' \cup stale'
                   PROVE  Approved(asset[a].master, a)' /\ asset'[a].shown = asset'[a].master
      BY DEF MasterHolds
    <3>2. Locked(a) /\ MasterHolds(a) /\ a \notin patched \cup stale
      BY <2>1, <2>2, <3>1 DEF Locked, Here
    <3>3. handlers[h].op = "withdraw" => asset[a].master # r
      BY <2>0, <2>2, <3>1, <3>2 DEF ReadHolds, WithdrawsNoMaster
    <3> QED
      BY <2>1, <2>4, <3>2, <3>3 DEF MasterHolds, Approved, RefersTo
  <2>7. OneEach(a)'
    <3>1. ASSUME NEW q \in Refs
          PROVE  refs'[q].task = refs[q].task /\ (RefersTo(q, a)' => RefersTo(q, a))
      BY <2>3, <2>4 DEF RefersTo
    <3>2. ASSUME a \notin stale' PROVE OneEach(a)
      BY <2>2, <3>2 DEF OneEach, RefersTo, IInv, RowsHold, OneReferencePerTask
    <3> QED
      BY <2>2, <3>1, <3>2 DEF OneEach
  <2>8. RequestsHold'
    BY <2>2, <2>5, OvertakenStep
  <2>9. \A q \in Refs : refs'[q] # refs[q] => refs'[q].task \in Tasks
    BY <2>3, <2>4 DEF IInv, RowsHold, OfTaskAndAsset
  <2>10. RowsHold'
    BY <2>1, <2>2, <2>5, <2>6, <2>7, <2>9, RowsStep DEF IInv, RowsHold, CreatedUnlocked
  <2> QED
    BY <2>5, <2>8, <2>10 DEF IInv
<1> QED
  BY <1>1, <1>2, <1>3, <1>4, <1>5 DEF Reference

LEMMA LockStep ==
    ASSUME IInv, NEW h \in Handlers, Lock(h)
    PROVE  IInv'
<1> USE NoneAssumption DEF Generations
<1>1. ASSUME NEW a \in Assets, BeginUnlock(h, a) PROVE IInv'
  BY <1>1, BeginStep DEF BeginUnlock, Ops
<1>2. ASSUME NEW a \in Assets, NEW r \in Refs, BeginLock(h, a, r) PROVE IInv'
  BY <1>2, BeginStep DEF BeginLock, Ops, Approved
<1>3. CASE WriteLock(h)
  <2>0. PICK a, r : a = handlers[h].asset /\ r = handlers[h].on
    OBVIOUS
  <2>1. /\ handlers[h].op = "lock" /\ Writes(h)
        /\ Update(a, [asset[a] EXCEPT !.lock = "locked", !.master = r, !.shown = r])
        /\ patched' = patched \ {a}
        /\ UNCHANGED <<refs, tasks, variants>>
    BY <1>3, <2>0 DEF WriteLock
  <2>2. /\ a \in Assets /\ WellFormed(h)
        /\ handlers' \in [Handlers -> Request] /\ stale' \in SUBSET Assets
        /\ \A g \in Handlers : handlers'[g] \in {Idle, Overtaken(g, a)}
        /\ stale \subseteq stale'
        /\ a \notin stale' => ReadHolds(h, a)
        /\ a \notin stale' /\ Here(a) => MasterHolds(a) /\ OneEach(a)
    BY <2>0, <2>1, WriteFacts
  <2>3. r \in Refs /\ asset[a] \in AssetRow
    BY <2>0, <2>1, <2>2 DEF WellFormed, IInv, TypeOK
  <2>4. /\ asset' \in [Assets -> AssetRow] /\ \A b \in Assets \ {a} : asset'[b] = asset[b]
        /\ asset'[a].row = asset[a].row
        /\ Here(a) => asset'[a].master = r /\ asset'[a].shown = r
        /\ ~Here(a) => asset'[a] = asset[a]
    BY <2>1, <2>2, <2>3 DEF Update, AssetRow, Locks, Urls, IInv, TypeOK
  <2>5. TypeOK' /\ Touches(a)
    BY <2>1, <2>2, <2>4 DEF IInv, TypeOK, Touches
  <2>6. MasterHolds(a)'
    <3>1. SUFFICES ASSUME Locked(a)', a \notin stale'
                   PROVE  Approved(asset[a].master, a)' /\ asset'[a].shown = asset'[a].master
      BY DEF MasterHolds
    <3>2. Approved(r, a) /\ Here(a)
      BY <2>0, <2>1, <2>2, <2>4, <3>1 DEF ReadHolds, LockIsApproved, Locked, Here
    <3> QED
      BY <2>1, <2>4, <3>2 DEF Approved, RefersTo
  <2>7. OneEach(a)'
    BY <2>1, <2>2 DEF OneEach, RefersTo, IInv, RowsHold, OneReferencePerTask
  <2>8. RequestsHold'
    BY <2>2, <2>5, OvertakenStep
  <2>9. asset'[a].row = "none" => asset'[a].lock = "draft"
    BY <2>2, <2>4 DEF IInv, RowsHold, CreatedUnlocked, Here
  <2>10. RowsHold'
    BY <2>1, <2>2, <2>5, <2>6, <2>7, <2>9, RowsStep
  <2> QED
    BY <2>5, <2>8, <2>10 DEF IInv
<1>4. CASE WriteUnlock(h)
  <2>0. PICK a : a = handlers[h].asset
    OBVIOUS
  <2>1. /\ handlers[h].op = "unlock" /\ Writes(h)
        /\ Update(a, [asset[a] EXCEPT !.lock = "review", !.master = None])
        /\ UNCHANGED <<refs, tasks, variants, patched>>
    BY <1>4, <2>0 DEF WriteUnlock
  <2>2. /\ a \in Assets /\ WellFormed(h)
        /\ handlers' \in [Handlers -> Request] /\ stale' \in SUBSET Assets
        /\ \A g \in Handlers : handlers'[g] \in {Idle, Overtaken(g, a)}
        /\ stale \subseteq stale'
        /\ a \notin stale' => ReadHolds(h, a)
        /\ a \notin stale' /\ Here(a) => MasterHolds(a) /\ OneEach(a)
    BY <2>0, <2>1, WriteFacts
  <2>3. asset[a] \in AssetRow
    BY <2>2 DEF IInv, TypeOK
  <2>4. /\ asset' \in [Assets -> AssetRow] /\ \A b \in Assets \ {a} : asset'[b] = asset[b]
        /\ asset'[a].row = asset[a].row
        /\ Here(a) => asset'[a].lock = "review"
        /\ ~Here(a) => asset'[a] = asset[a]
    BY <2>1, <2>2, <2>3 DEF Update, AssetRow, Locks, IInv, TypeOK
  <2>5. TypeOK' /\ Touches(a)
    BY <2>1, <2>2, <2>4 DEF IInv, TypeOK, Touches
  <2>6. MasterHolds(a)'
    BY <2>4 DEF MasterHolds, Locked, Here
  <2>7. OneEach(a)'
    BY <2>1, <2>2 DEF OneEach, RefersTo, IInv, RowsHold, OneReferencePerTask
  <2>8. RequestsHold'
    BY <2>2, <2>5, OvertakenStep
  <2>9. asset'[a].row = "none" => asset'[a].lock = "draft"
    BY <2>2, <2>4 DEF IInv, RowsHold, CreatedUnlocked, Here
  <2>10. RowsHold'
    BY <2>1, <2>2, <2>5, <2>6, <2>7, <2>9, RowsStep
  <2> QED
    BY <2>5, <2>8, <2>10 DEF IInv
<1> QED
  BY <1>1, <1>2, <1>3, <1>4 DEF Lock

LEMMA GenerateStep ==
    ASSUME IInv, NEW h \in Handlers, Generate(h)
    PROVE  IInv'
<1> USE NoneAssumption DEF Generations
<1>1. ASSUME NEW a \in Assets, BeginVariant(h, a) PROVE IInv'
  BY <1>1, BeginStep DEF BeginVariant, Ops
<1>2. CASE BeginGenerate(h)
  <2>1. PICK op \in Generations : Begin(h, op, None, None)
    BY <1>2 DEF BeginGenerate
  <2>2. op \in Ops \ {"idle"} /\ op \notin {"add", "approve", "withdraw", "lock", "patch", "delete"}
    BY DEF Generations, Ops
  <2> QED
    BY <1>2, <2>1, <2>2, BeginStep DEF BeginGenerate
<1>3. CASE WriteVariant(h)
  <2>0. PICK a : a = handlers[h].asset
    OBVIOUS
  <2>1. /\ handlers[h].op = "variant" /\ Writes(h)
        /\ variants' \in {variants \cup {a}, variants \ {a}, variants}
        /\ UNCHANGED <<asset, refs, tasks, patched>>
    BY <1>3, <2>0 DEF WriteVariant
  <2>2. /\ a \in Assets /\ WellFormed(h)
        /\ handlers' \in [Handlers -> Request] /\ stale' \in SUBSET Assets
        /\ \A g \in Handlers : handlers'[g] \in {Idle, Overtaken(g, a)}
        /\ stale \subseteq stale'
        /\ a \notin stale' => ReadHolds(h, a)
        /\ a \notin stale' /\ Here(a) => MasterHolds(a) /\ OneEach(a)
    BY <2>0, <2>1, WriteFacts
  <2>3. TypeOK' /\ Touches(a)
    BY <2>1, <2>2 DEF IInv, TypeOK, Touches
  <2>4. MasterHolds(a)'
    BY <2>1, <2>2 DEF MasterHolds, Locked, Here, Approved, RefersTo
  <2>5. OneEach(a)'
    BY <2>1, <2>2 DEF OneEach, RefersTo, IInv, RowsHold, OneReferencePerTask
  <2>6. RequestsHold'
    BY <2>2, <2>3, OvertakenStep
  <2>7. RowsHold'
    BY <2>1, <2>2, <2>3, <2>4, <2>5, RowsStep DEF IInv, RowsHold, CreatedUnlocked
  <2> QED
    BY <2>3, <2>6, <2>7 DEF IInv
<1>4. ASSUME NEW sent \in SUBSET Urls, SendImages(h, sent) PROVE IInv'
  <2>1. /\ handlers' = [handlers EXCEPT ![h] = Idle]
        /\ UNCHANGED <<asset, refs, tasks, variants, stale, patched>>
    BY <1>4 DEF SendImages
  <2>2. Idle \in Request
    BY DEF Idle, Request, Ops
  <2>3. TypeOK'
    BY <2>1, <2>2 DEF IInv, TypeOK
  <2>4. ASSUME NEW g \in Handlers
        PROVE handlers'[g] = Idle \/ handlers'[g] = handlers[g]
    BY <2>1 DEF IInv, TypeOK
  <2>5. ASSUME NEW g \in Handlers PROVE WellFormed(g)'
    <3>1. CASE handlers'[g] = Idle
      BY <3>1 DEF WellFormed, Idle
    <3>2. CASE handlers'[g] = handlers[g]
      BY <2>1, <3>2 DEF WellFormed, IInv, RequestsHold
    <3> QED
      BY <2>4, <3>1, <3>2
  <2>6. ASSUME NEW g \in Handlers, ~handlers'[g].overtaken
        PROVE  /\ \A b \in Assets : handlers'[g].asset = b => ReadHolds(g, b)'
               /\ GateHolds(g)'
    <3> USE DEF ReadHolds, LockIsApproved, WithdrawsNoMaster, DeletesUnlocked,
                PatchesUnprotected, AddsNew, GateHolds, Approved, RefersTo, Locked, Here,
                Protected
    <3>1. CASE handlers'[g] = Idle
      BY <3>1 DEF Idle
    <3>2. CASE handlers'[g] = handlers[g]
      <4>1. /\ \A b \in Assets : handlers[g].asset = b => ReadHolds(g, b)
            /\ GateHolds(g)
        BY <2>6, <3>2 DEF IInv, RequestsHold, FreshReadsHold
      <4>2. GateHolds(g)'
        BY <2>1, <3>2, <4>1
      <4>3. ASSUME NEW b \in Assets, handlers'[g].asset = b PROVE ReadHolds(g, b)'
        <5>1. ReadHolds(g, b)
          BY <3>2, <4>1, <4>3
        <5>2. AddsNew(g, b)' /\ LockIsApproved(g, b)'
          BY <2>1, <3>2, <5>1
        <5>3. WithdrawsNoMaster(g, b)' /\ DeletesUnlocked(g, b)' /\ PatchesUnprotected(g, b)'
          BY <2>1, <3>2, <5>1
        <5> QED
          BY <5>2, <5>3
      <4> QED
        BY <4>2, <4>3
    <3> QED
      BY <2>4, <3>1, <3>2
  <2>7. RowsHold'
    BY <2>1 DEF IInv, RowsHold, OfTaskAndAsset, CreatedUnlocked, LockedMasterApproved,
                OneReferencePerTask, Locked, Here, Approved, RefersTo
  <2> QED
    BY <2>3, <2>5, <2>6, <2>7 DEF IInv, RequestsHold, FreshReadsHold
<1> QED
  BY <1>1, <1>2, <1>3, <1>4 DEF Generate

LEMMA NewRowStep ==
    ASSUME IInv, NEW a \in Assets, CreateAsset(a) \/ \E t \in Tasks : StartTask(a, t)
    PROVE  IInv'
<1> USE NoneAssumption DEF Generations
<1>1. CASE CreateAsset(a)
  <2>1. PICK k \in Kinds, u \in {None, Pasted} :
           asset' = [asset EXCEPT ![a] = [@ EXCEPT !.row = "here", !.kind = k, !.shown = u]]
    BY <1>1 DEF CreateAsset
  <2>2. /\ asset[a].row = "none" /\ asset[a].lock = "draft" /\ asset[a] \in AssetRow
        /\ handlers' = [g \in Handlers |-> Overtaken(g, a)]
        /\ UNCHANGED <<refs, tasks, variants, stale, patched>>
    BY <1>1 DEF CreateAsset, IInv, TypeOK, RowsHold, CreatedUnlocked
  <2>3. /\ asset' \in [Assets -> AssetRow] /\ \A b \in Assets \ {a} : asset'[b] = asset[b]
        /\ asset'[a].lock = "draft"
    BY <2>1, <2>2 DEF AssetRow, Presence, Urls, IInv, TypeOK
  <2>4. ASSUME NEW g \in Handlers PROVE Overtaken(g, a) \in Request
    BY DEF Overtaken, Request, IInv, TypeOK
  <2>5. TypeOK' /\ Touches(a)
    BY <2>2, <2>3, <2>4 DEF IInv, TypeOK, Touches
  <2>6. RequestsHold'
    BY <2>2, <2>5, OvertakenStep
  <2>7. MasterHolds(a)'
    BY <2>3 DEF MasterHolds, Locked
  <2>8. OneEach(a)'
    BY <2>2 DEF OneEach, RefersTo, IInv, RowsHold, OneReferencePerTask
  <2>9. RowsHold'
    BY <2>2, <2>3, <2>5, <2>7, <2>8, RowsStep
  <2> QED
    BY <2>5, <2>6, <2>9 DEF IInv
<1>2. ASSUME NEW t \in Tasks, StartTask(a, t) PROVE IInv'
  <2>1. /\ tasks' = tasks \cup {t}
        /\ UNCHANGED <<asset, refs, variants, handlers, stale, patched>>
    BY <1>2 DEF StartTask
  <2>2. TypeOK'
    BY <2>1 DEF IInv, TypeOK
  <2>3. ASSUME NEW g \in Handlers PROVE WellFormed(g)'
    BY <2>1 DEF WellFormed, IInv, RequestsHold, TypeOK
  <2>4. FreshReadsHold'
    BY <2>1 DEF IInv, RequestsHold, FreshReadsHold, ReadHolds, LockIsApproved,
                WithdrawsNoMaster, DeletesUnlocked, PatchesUnprotected, AddsNew, GateHolds,
                Approved, RefersTo, Locked, Here, Protected
  <2>5. OfTaskAndAsset'
    BY <2>1 DEF IInv, TypeOK, RowsHold, OfTaskAndAsset
  <2>6. RowsHold'
    BY <2>1, <2>5 DEF IInv, RowsHold, CreatedUnlocked, LockedMasterApproved,
                      OneReferencePerTask, Locked, Here, Approved, RefersTo
  <2> QED
    BY <2>2, <2>3, <2>4, <2>6 DEF IInv, RequestsHold
<1> QED
  BY <1>1, <1>2

LEMMA Stuttering == IInv /\ UNCHANGED vars => IInv'
BY DEF vars, IInv, TypeOK, RequestsHold, WellFormed, FreshReadsHold, ReadHolds, LockIsApproved,
       WithdrawsNoMaster, DeletesUnlocked, PatchesUnprotected, AddsNew, GateHolds, RowsHold,
       OfTaskAndAsset, CreatedUnlocked, LockedMasterApproved, OneReferencePerTask,
       Locked, Here, Approved, RefersTo, Protected

\* What the model says of every request and row holds after every step.
THEOREM Invariance == Spec => []IInv
<1>1. IInv /\ [Next]_vars => IInv'
  BY EditStep, ReferenceStep, LockStep, GenerateStep, NewRowStep, Stuttering DEF Next
<1> QED
  BY <1>1, InitIInv, PTL DEF Spec

\* The rows and requests keep the shape that assets.py gives them.
THEOREM TypeCorrect == Spec => []TypeOK
<1>1. IInv => TypeOK
  BY DEF IInv
<1> QED
  BY <1>1, Invariance, PTL

\* lock_asset, set_reference_approval and create_reference_image keep the
\* master of a locked asset approved and shown, however requests overlap, unless
\* one of them wrote on the strength of a read another had overtaken.
THEOREM LockedAssetsHaveMasters == Spec => []LockedMasterApproved
<1>1. IInv => LockedMasterApproved
  BY DEF IInv, RowsHold
<1> QED
  BY <1>1, Invariance, PTL

\* asset_reference_task adds a task's picture to its asset once.
THEOREM TasksAddOneReference == Spec => []OneReferencePerTask
<1>1. IInv => OneReferencePerTask
  BY DEF IInv, RowsHold
<1> QED
  BY <1>1, Invariance, PTL

\* What is sent of a shot's assets is finitely many images.
LEMMA ImagesFinite ==
    ASSUME NEW some \in SUBSET Assets
    PROVE  IsFiniteSet(ImagesOf(some))
<1>1. IsFiniteSet(some)
  BY PayloadAssumption, FS_Subset
<1>2. IsFiniteSet({ImageFor(a) : a \in some})
  <2> DEFINE image == [a \in some |-> ImageFor(a)]
             images == {ImageFor(a) : a \in some}
  <2>1. image \in Surjection(some, images)
    BY DEF Surjection
  <2> QED
    BY <1>1, <2>1, FS_Surjection
<1> QED
  BY <1>2, FS_Subset DEF ImagesOf

\* A payload leaves the image of a character out only for want of room, which
\* the images of settings do not take.
LEMMA CharactersComeFirst ==
    ASSUME NEW sent \in Payloads,
           Cardinality(ImagesOf(OfKind({"other", "character"}))) <= MaxReferences
    PROVE  ImagesOf(OfKind({"character"})) \subseteq sent
<1> DEFINE all == ImagesOf(OfKind(Kinds))
           early == ImagesOf(OfKind({"other", "character"}))
           chars == ImagesOf(OfKind({"character"}))
<1>1. /\ sent \in SUBSET all
      /\ Cardinality(sent) = IF Cardinality(all) < MaxReferences THEN Cardinality(all)
                             ELSE MaxReferences
      /\ chars \subseteq sent \/ sent \subseteq early
  BY DEF Payloads
<1>2. chars \subseteq early /\ early \subseteq all
  <2>1. OfKind({"character"}) \subseteq OfKind({"other", "character"})
    BY DEF OfKind
  <2>2. OfKind({"other", "character"}) \subseteq OfKind(Kinds)
    BY DEF OfKind, Kinds
  <2> QED
    BY <2>1, <2>2 DEF ImagesOf
<1>3. IsFiniteSet(all) /\ IsFiniteSet(early)
  BY ImagesFinite DEF OfKind
<1>4. /\ Cardinality(all) \in Nat /\ Cardinality(early) \in Nat
      /\ Cardinality(early) <= Cardinality(all)
  BY <1>2, <1>3, FS_CardinalityType, FS_Subset
<1>5. Cardinality(early) <= Cardinality(sent)
  BY <1>1, <1>4, PayloadAssumption
<1>6. CASE sent \subseteq early
  <2>1. Cardinality(sent) <= Cardinality(early) /\ (Cardinality(sent) = Cardinality(early) => sent = early)
    BY <1>3, <1>6, FS_Subset
  <2>2. Cardinality(sent) \in Nat
    BY <1>1, <1>4, PayloadAssumption
  <2> QED
    BY <1>2, <1>4, <1>5, <2>1, <2>2
<1> QED
  BY <1>1, <1>6

\* The gate of the queue, the choice of references and the cut to as many as
\* Magnific takes agree: an undisturbed generation that is not a draft sends the
\* approved master of each character, if the pictures of props and characters
\* are not too many.
THEOREM GenerationsSendMasters == Spec => GatedSendsMaster
<1>1. ASSUME IInv
      PROVE  [\A h \in Handlers, sent \in SUBSET Urls :
                /\ SendImages(h, sent)
                /\ handlers[h].op = "generate" /\ ~handlers[h].overtaken
                /\ Cardinality(ImagesOf(OfKind({"other", "character"}))) <= MaxReferences
                => \A a \in OfKind({"character"}) \ (patched \cup stale) :
                      /\ Approved(asset[a].master, a)
                      /\ asset[a].master \in sent]_vars
  <2>1. SUFFICES ASSUME NEW h \in Handlers, NEW sent \in SUBSET Urls, SendImages(h, sent),
                        handlers[h].op = "generate", ~handlers[h].overtaken,
                        Cardinality(ImagesOf(OfKind({"other", "character"}))) <= MaxReferences,
                        NEW a \in OfKind({"character"}), a \notin patched \cup stale
                 PROVE  Approved(asset[a].master, a) /\ asset[a].master \in sent
    OBVIOUS
  <2>2. GateHolds(h)
    BY <1>1, <2>1 DEF IInv, RequestsHold, FreshReadsHold
  <2>3. a \in Assets /\ Here(a) /\ asset[a].kind = "character"
    BY <2>1 DEF OfKind
  <2>4. Locked(a)
    BY <2>1, <2>2, <2>3 DEF GateHolds, Generations, LOCKABLE_TYPES
  <2>5. Approved(asset[a].master, a)
    BY <1>1, <2>1, <2>3, <2>4 DEF IInv, RowsHold, LockedMasterApproved
  <2>6. ImageFor(a) = asset[a].master
    BY <2>3, <2>4, <2>5 DEF ImageFor, Approved
  <2>7. asset[a].master \in ImagesOf(OfKind({"character"}))
    BY <2>1, <2>5, <2>6, NoneAssumption DEF ImagesOf, Approved, RefersTo
  <2>8. sent \in Payloads
    BY <2>1 DEF SendImages
  <2> QED
    BY <2>1, <2>5, <2>7, <2>8, CharactersComeFirst
<1> QED
  BY <1>1, Invariance, PTL DEF GatedSendsMaster

\* A step takes a locked asset's type, prompts and picture from it, or deletes
\* it, only when the request was overtaken.
LEMMA ProtectedStep ==
    ASSUME IInv, Next, NEW a \in Assets, Locked(a), a \notin stale'
    PROVE  /\ Here(a)'
           /\ Locked(a)' => /\ asset'[a].kind = asset[a].kind
                            /\ asset'[a].prompts = asset[a].prompts
                            /\ asset'[a].shown \in {asset[a].shown, asset'[a].master}
<1> DEFINE Kept == /\ Here(a)'
                   /\ Locked(a)' => /\ asset'[a].kind = asset[a].kind
                                    /\ asset'[a].prompts = asset[a].prompts
                                    /\ asset'[a].shown \in {asset[a].shown, asset'[a].master}
<1>1. asset[a] \in AssetRow
  BY DEF IInv, TypeOK
<1>2. CASE asset'[a] = asset[a]
  BY <1>2 DEF Locked, Here
<1>3. ASSUME NEW h \in Handlers, WritePatch(h), asset'[a] # asset[a] PROVE Kept
  <2>0. PICK b, c : b = handlers[h].asset /\ c = handlers[h].on
    OBVIOUS
  <2>1. /\ handlers[h].op = "patch" /\ Writes(h) /\ Update(b, PatchedRow(b, c))
    BY <1>3, <2>0 DEF WritePatch
  <2>2. b \in Assets /\ WellFormed(h) /\ (b \notin stale' => ReadHolds(h, b))
    BY <2>0, <2>1, WriteFacts DEF Generations
  <2>3. b = a /\ c \in Changes /\ asset'[a] = PatchedRow(a, c)
    BY <1>3, <2>0, <2>1, <2>2 DEF Update, WellFormed, IInv, TypeOK
  <2>4. ~Protected(c)
    BY <2>0, <2>1, <2>2, <2>3 DEF ReadHolds, PatchesUnprotected
  <2>5. c.field = "lock_status"
    BY <2>3, <2>4 DEF Protected, Changes
  <2> QED
    BY <1>1, <2>3, <2>5, PatchFacts DEF Locked, Here
<1>4. ASSUME NEW h \in Handlers, WriteDelete(h), asset'[a] # asset[a] PROVE Kept
  <2>0. PICK b : b = handlers[h].asset
    OBVIOUS
  <2>1. handlers[h].op = "delete" /\ Writes(h) /\ Update(b, [asset[b] EXCEPT !.row = "deleted"])
    BY <1>4, <2>0 DEF WriteDelete
  <2>2. b \in Assets /\ (b \notin stale' => ReadHolds(h, b))
    BY <2>0, <2>1, WriteFacts DEF Generations
  <2>3. b = a
    BY <1>4, <2>1, <2>2 DEF Update, IInv, TypeOK
  <2> QED
    BY <2>1, <2>2, <2>3 DEF ReadHolds, DeletesUnlocked
<1>5. ASSUME NEW h \in Handlers, WriteLock(h), asset'[a] # asset[a] PROVE Kept
  <2>0. PICK b, r : b = handlers[h].asset /\ r = handlers[h].on
    OBVIOUS
  <2>1. Update(b, [asset[b] EXCEPT !.lock = "locked", !.master = r, !.shown = r])
    BY <1>5, <2>0 DEF WriteLock
  <2>2. b = a
    BY <1>5, <2>1 DEF Update, IInv, TypeOK
  <2> QED
    BY <1>1, <2>1, <2>2 DEF Update, Locked, Here, AssetRow, IInv, TypeOK
<1>6. ASSUME NEW h \in Handlers, WriteUnlock(h), asset'[a] # asset[a] PROVE Kept
  <2>0. PICK b : b = handlers[h].asset
    OBVIOUS
  <2>1. Update(b, [asset[b] EXCEPT !.lock = "review", !.master = None])
    BY <1>6, <2>0 DEF WriteUnlock
  <2>2. b = a
    BY <1>6, <2>1 DEF Update, IInv, TypeOK
  <2> QED
    BY <1>1, <2>1, <2>2 DEF Update, Locked, Here, AssetRow, IInv, TypeOK
<1>7. ASSUME NEW h \in Handlers, WriteAdd(h), asset'[a] # asset[a] PROVE Kept
  <2>0. PICK b : b = handlers[h].asset
    OBVIOUS
  <2>1. PICK r : Update(b, [asset[b] EXCEPT !.lock = "review", !.shown = r])
    BY <1>7, <2>0 DEF WriteAdd
  <2>2. b = a
    BY <1>7, <2>1 DEF Update, IInv, TypeOK
  <2> QED
    BY <1>1, <2>1, <2>2 DEF Update, Locked, Here, AssetRow, IInv, TypeOK
<1>8. ASSUME NEW b \in Assets, CreateAsset(b), asset'[a] # asset[a] PROVE Kept
  BY <1>8 DEF CreateAsset, Locked, Here, IInv, TypeOK
<1>9. \/ \E h \in Handlers : \/ WritePatch(h) \/ WriteDelete(h) \/ WriteLock(h)
                             \/ WriteUnlock(h) \/ WriteAdd(h)
      \/ \E b \in Assets : CreateAsset(b)
      \/ asset' = asset
  BY DEF Next, Edit, Reference, Lock, Generate, Begin, BeginPatch, BeginDelete, BeginAdd,
         BeginApprove, BeginWithdraw, BeginLock, BeginUnlock, BeginVariant, BeginGenerate,
         WriteApproval, WriteVariant, SendImages, StartTask
<1> QED
  BY <1>2, <1>3, <1>4, <1>5, <1>6, <1>7, <1>8, <1>9

\* update_asset and delete_asset protect a locked asset, from each state to the
\* next.
THEOREM LocksProtect == Spec => LockedIsProtected
<1>1. ASSUME IInv, [Next]_vars
      PROVE  [\A a \in Assets :
                Locked(a) /\ a \notin stale' =>
                    /\ Here(a)'
                    /\ Locked(a)' =>
                          /\ asset'[a].kind = asset[a].kind
                          /\ asset'[a].prompts = asset[a].prompts
                          /\ asset'[a].shown \in {asset[a].shown, asset'[a].master}]_vars
  BY <1>1, ProtectedStep
<1> QED
  BY <1>1, Invariance, PTL DEF Spec, LockedIsProtected
=============================================================================
