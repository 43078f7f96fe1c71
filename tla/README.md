# AI Film OS in TLA+

AI Film OS (`src/`) is a FastAPI application with a SQLite (or PostgreSQL)
database that takes a screenplay to approved images and videos: scenes and
shots, prompts, paid generation jobs at external providers, identity and
continuity checks, and a human approval of every result. This directory holds
TLA+ models of the parts of it that decide things under concurrency, the TLC
configurations that check them on small instances, and TLAPS proofs.

Everything runs from this directory: `tlc -config X.cfg M` for a run of
`PROJECT.json`, `tlapm M.tla` for a `*Proofs` module.

## 1. The system

One process serves HTTP: every synchronous endpoint runs in a thread of
Starlette's pool, each repository call opens its own database connection, and
optional background threads work in the same process
(`background_worker.py`). A separate process (`python -m app.worker`) and
scripts may work on the same database. There is no shared memory between them;
they meet in the rows. Two rules of the database code shape every model:

- `BEGIN IMMEDIATE` takes SQLite's write lock before it reads: such a function
  is **one step**.
- Otherwise Python's `sqlite3` opens the transaction only at the first INSERT,
  UPDATE or DELETE. The SELECTs before it are single autocommit reads: such a
  function is **one read step per decision, then one write step**, and what it
  read may be out of date when it writes.

### Components

| component | state | operations | correct when | model |
| --- | --- | --- | --- | --- |
| media job queue (`repositories/jobs.py`, `api/jobs.py`) | `media_jobs` rows: status, attempts, owner, task id, timestamps | enqueue, claim, complete, fail, retry, record task, reclaim stale | attempts bounded, one row per idempotency key, timestamps and owner agree with the status, no starvation | `MediaJobs`, `JobQueue` |
| media worker (`worker.py`, `background_worker.py`, `api/worker.py`) | where each run is; the provider's task; `media_results` | claim, submit or resume, poll, persist, sync lips, store, finish; sweep | one live run per job, a paid task never submitted again while its id is known, nothing completed but what the recorded task made, jobs come to rest | `MediaWorker`, `JobLifecycle` |
| video and image providers (`services/*_provider.py`, `magnific.py`, `services/providers/`) | tasks outside the process | submit, check_task | every trouble has the verdict the worker needs | `ProviderAnswers`, inside `MediaWorker` |
| video persistence (`services/video_persistence.py`, `object_storage.py`) | files, URLs | download, validate, store | failure is retryable | one step of `MediaWorker` |
| video result ingestion (`services/video_result_ingestion.py`) | `media_results` | completion callback | one result per job | inside `JobQueue` |
| identity assessments (`api/identity_assessments.py`, `services/identity_worker*.py`) | `metadata_json["identity_drift"]` of a result | list, claim, store, requeue stale | exclusive claims, judged results stay judged, pending ones are decided | `IdentityDrift` |
| shot approval (`repositories/approvals.py`, `batch_approvals.py`) | status of shot and media, `approval_events` | approve, reject, finalise, batches | one approved result per type, gates hold, a final shot keeps its media | `ShotApproval` |
| shots and media results (`repositories/shots.py`, `api/shots.py`, ...) | shots, versions, prompts | create, update, upload | see approval | parts of `ShotApproval`, `IdentityDrift` |
| continuity findings (`repositories/issues.py`, `services/continuity.py`, `director.py`) | `continuity_issues` | check, create, update, resolve | open blocking findings stop finalisation | inside `ShotApproval` |
| assets and locks (`repositories/assets.py`, `api/generation.py`, `services/reference_propagation.py`) | `assets`, `asset_reference_images`, `scene_asset_variants` | add, approve, withdraw references; lock, unlock, edit; collect the images of a generation | a locked asset has an approved master, and it is what a gated generation sends | `AssetLock` |
| screenplay import (`services/screenplay_import_service.py`, `repositories/screenplay_structure.py`, `import_runs.py`) | `import_runs`, `scenes` | preview, reparse, edit, diff, approve; persist of a breakdown beside them | one approved run, exact plans, no production work lost | `ScreenplayImport` |
| chunked upload (`services/chunked_screenplay_upload.py`, `static/screenplay-import-ui.js`) | upload sessions in memory; the page's loop | send, halve, repeat; append, join, expire | the text is the pieces, each once; the page ends | `ScreenplayUpload` |
| screenplay parser (`services/screenplay_parser.py`) | none | parse | every line in its scene, in order, with its speaker | `ScreenplayParser` |
| resumable import (`scripts/deployment_smoke.py`, `services/screenplay_breakdown.py`, `resumable_screenplay_import.py`, `api/import_runs.py`, the shot map of `api/scenes.py`) | the script's progress; the threads of the semaphore; `scenes`, `shots` | split, process the next chunk, persist, shot map | one whole breakdown per project, one shot map per scene, no thread leaked or counted twice, the script ends | `ScreenplayBreakdown` |
| projects and scenes | rows | create, update, delete | - | deletions in `JobQueue`, `create_scene` in `ScreenplayImport` |
| PostgreSQL cutover (`database/`) | two databases, a backup, the environment | verify, gate, import, start | the import is exact or nothing; the service runs on it only afterwards | `Cutover` |
| summaries, prompts, dashboards, browser client, other scripts | none of their own | read and render | - | not modelled |

Interactions: the API enqueues jobs (`JobQueue`); the worker claims them,
talks to a provider (`ProviderAnswers`) and stores a draft result and a shot
status (`MediaWorker`); a generation is gated by the locks of its assets and
sends their images (`AssetLock`); a result of a shot with a locked character is
stored with a pending assessment, which an assessment worker decides
(`IdentityDrift`); the operator approves results against that verdict and
finalises the shot against the findings (`ShotApproval`). A screenplay is
uploaded and parsed (`ScreenplayIntake`), and its import writes the scenes the
shots hang from (`ScreenplayImport`). A script does without the parser: it has a
language model break the text down chunk by chunk and keeps the progress itself
(`ScreenplayBreakdown`). `Cutover` moves all rows to another
database while the service writes.

### What is hard

The hazards are listed at their lines in `PROJECT.json`. The recurring ones:
decisions from a row read outside the transaction that writes it
(`fail_job`, `_store_identity_drift`, `decide_media`, `finalize_shot`,
`lock_asset`, `approve_import_run`, `import_scenes`); crashes between a paid
submission, the commit of its task id, the stored result and the completed
job; lost answers, of a provider and of the upload endpoint; timeouts racing
late results; calls of a model that go on after their deadline, and a script
that is run again over what an earlier run left; a sweep that tells dead workers from slow ones by time alone;
retries and attempts at their limit; work that nobody takes up; tables copied
one after the other while they are written.

## 2. Modules

| module | what it is |
| --- | --- |
| `MediaJobs` | the row of `media_jobs` and one operator per SQL update of it; shared by the next two |
| `JobQueue` | the queue under any mix of overlapping requests; `ReadForFail`/`WriteFail` and the like are the read and the write step of one function, `handlers[h]` what the request holds in between; with the completion callback and the results it stores |
| `ProviderAnswers` | pure operators: what each client makes of each trouble, and the verdict of the worker's `except` clauses on it |
| `MediaWorker` | `process_one_job` as a program counter per worker (`workers[w].at`), over the same rows, with a provider, time and crashes; the loops of both kinds of worker |
| `JobLifecycle` | the abstract promise: bounded runs, completed only with a stored result, then final. `MediaWorker` implements it under the mapping at its end (`waiting` is queued or retrying) |
| `IdentityDrift` | the assessment queue in the metadata and its workers |
| `ShotApproval` | one shot: media, verdicts, findings, status, events, and the requests that decide |
| `AssetLock` | assets, references, reference tasks, scene variants, the lock, and the generation that sends the images |
| `ScreenplayImport` | one project: import runs, scenes, shots, the plan of an approval as pure operators (`Matches`, `Plan`), and the requests |
| `ScreenplayUpload` | the page's loop, a network that filters, the sessions of the server |
| `ScreenplayParser` | `_classify_lines` as one step per line, from the kinds of the lines |
| `ScreenplayBreakdown` | the script and the endpoints it calls: chunks, threads, scenes, shot maps; `runs[c]` is what the script holds, `requests[c]` where the server is with its request |
| `ScreenplayIntake` | the composition of the three: a text comes by the page, whole or in pieces, and what was delivered is parsed; or the script takes it |
| `Cutover` | the two databases, the commands as one step per table read, the environment and the choice of the backend |
| `MC*` | values for the constants that a cfg cannot write, symmetry, a constraint |
| `JobQueueProofs`, `MediaWorkerProofs`, `ShotApprovalProofs`, `AssetLockProofs`, `ScreenplayImportProofs`, `IdentityDriftProofs`, `CutoverProofs`, `ScreenplayIntakeProofs` | lemmas, inductive invariants, theorems |

Definitions called `X_Something` next to `X` are mutants: `X` with a plausible
bug. `PROJECT.json` names for each property of each passing run a mutant that
violates it, which shows that the run's bounds reach the case.

### How state and actions correspond

- A status column is a string; Hebrew values have English names, listed where
  the sets are defined. Payloads, costs, texts and wording are left out.
- `absent` is an id with no row. Ids are handed out in order and never reused
  (`AUTOINCREMENT`); the model stops handing them out at its bound, which is why
  most cfgs turn the deadlock check off: a bounded run may exhaust ids,
  requeues or crashes with nobody left to act, as the program may be at rest.
- `updated_at` and `claimed_at` are abstracted to what the code asks of them:
  the sweep of `JobQueue` takes any of the running rows, `IdentityDrift.expired`
  is the set of claims older than the window; `MediaWorker` counts ticks,
  because there the question is whether a live run can become stale.
- Variables called history in their comment record what happened and no
  action's guard reads them: `lost`, `strays`, `unseen`, `repeated`, `forgotten`, `ready`,
  `logged` (the last `approval_events` row of a result), and those that tell a
  request that was overtaken from one that was not: `raced`, `overtaken`,
  `stale`, `patched`, `quiet`. Where the code decides from a stale read, a
  property that spoke of every request would be false, and one that left the
  overlap out of the model would say nothing: these name exactly the overtaken
  ones, and the property speaks of all others.

### Modelling decisions

- `JobQueue`: no endpoint compares the caller with `worker_id`, so complete and
  fail are enabled for every row at any time. In `MediaWorker` only the workers
  call them. The completion callback counts results by `generation_job_id`; the
  worker stores its own under `media_job_id`, which the callback does not look
  at, so `results` counts the callback's. `record_provider_task_id` touches no
  column the queue decides on and is left to `MediaWorker`.
- `MediaWorker`: each run is named by its worker. (A request to
  `process-next` uses the worker id of the background thread; nothing in the
  code compares the ids.) Provider ids suffice for all submissions: a Submit
  with none left would be an artefact of the bound, and the task sets are as
  large as the attempts allow. No tick passes while a worker is between two
  database statements. Of the lip sync the time is modelled; its URL is data, and
  its own task is not persisted, so that a run that is repeated syncs again.
- `MediaWorker` time: a tick stands for five minutes of the deployed constants:
  600 s of polling are 2, 720 s of lip sync are 2, the stale window of 900 s is 3.
  A run waits at most `PollTime + TransferTime + SyncTime` ticks without writing
  its row once the task id is in it. `MediaWorker_jobs` chooses these within
  `StaleAfter`, which is what the code needs; `MediaWorker_dialogue` takes the
  code's values and shows that they are not. The code does not bound the total
  time of a download either; that a transfer ends within the window is an
  assumption of the model.
- `ProviderAnswers`: the troubles are the branches of the four clients. The
  verdict on a task that failed does not depend on whether a retry could help:
  the id stays in the row, so every retry asks for the same dead task until the
  attempts are spent (`CompletedFromItsTask` says that none of them delivers).
  A body that is no JSON is a `ValueError` for Magnific and ComfyUI, which the
  worker takes as final. A deployment that changed its provider asks the new one
  for the old one's task: Seedance refuses the id as final, Kling retries.
- `IdentityDrift`: `Scope[w]` is the project a worker lists. The runner calls
  the endpoint function without `project_id`, whose default outside FastAPI is
  the `Query` object; binding it raises, so the runner's scope is no project.
- `ShotApproval`: free-text statuses of `POST /media` and a hand-written
  `final` are excluded by `ManualStatuses`: the operator can write anything, and
  the properties are about the gates. Only images are gated by their
  assessment, as in `_identity_drift_blocker`. A verdict does not change
  (one assessment worker); `IdentityDrift` has the general case. Superseding an
  approved result writes no event; `logged` therefore follows decisions only.
- `AssetLock`: a reference and its URL are one value. Its requests hold nothing
  but which asset and reference they are about; all their checks are at the read.
  A task of Magnific belongs to no asset: a poll of any asset adds its picture.
  The gate looks at drafts like at other generations, but a draft goes to the local
  model without any image; and Magnific is sent at most fourteen different
  images (`MaxReferences`), in the order of the Hebrew names of the types: props,
  characters, rules, wardrobe, locations, styles. So wardrobe and locations never
  crowd a character out, which `GatedSendsMaster` says, and many props may, which is
  its condition: nothing in the gate counts them. Within that order `Payloads`
  allows any selection. The key of the queued job leaves `draft_mode` out, so that a
  draft asked for after the same generation is answered with the job there is;
  every generation of the model has a job of its own.
- `ScreenplayImport`: a scene's blocks are read with its row; entities and
  Story Bible cards are abstracted, except that inserting the blocks or
  characters of a scene that is gone breaks a foreign key and rolls everything
  back. Rows with equal numbers are taken in id order. `/import-script`, the
  older one-step import, is not modelled. A text without headings is one scene
  without a heading (`NoHeading`), like a scene made by hand or persisted; such scenes
  are matched by their numbers only. Two persists at once both find an
  empty project and both write: `PlanIsExact` exempts plans that were overtaken.
- `ScreenplayUpload`: a text is the sequence of the positions of its units. A
  blocked request and a blocked answer look alike to the page.
- `ScreenplayParser`: the regular expressions decide the kind of a line, the
  model begins with the kinds; `cue` and `guess` are the two confidences. The tests
  overlap: a name with a word or two after its colon passes the test for a bare
  name too, and that test comes first (`cue inline`, `guess inline`); where nothing
  follows it is an inline dialogue again. A line in parentheses may begin with a
  name and words (`paren inline`); outside an opening it is a dialogue.
  The comment at the parser's lines 15-17, "every character … exactly one
  scene's raw_scene_text", is not literally so: what precedes the first heading
  and page noise are in no scene, and a cue that nothing answers is in no block, with whatever words it holds.
- `ScreenplayBreakdown`: lengths are counted in lines, and a chunk is a
  sequence of pieces of paragraphs. A scene is named by its chunk and its place in
  the answer, so the model's answers differ in the number of scenes. An answer is
  heard when it is given: one that is lost is one whose script gave up before,
  since what others do in between does not depend on the script. Between its
  requests the script does not change the project or its text, so the answers 404
  and 409 to a changed text do not occur, and `replace_existing` is never set.
  A second run whose scenes differ from the stored ones is refused; one whose
  scenes are the same goes on with their shots. Shots are committed before their
  prompts. The call for a shot map has no deadline of its own, unlike that for a
  chunk. Not modelled: a thread that cannot be started at all.
- `Cutover`: two tables stand for the eighteen. Foreign keys of the target are
  not deferrable, so a row whose reference was not copied is refused at once;
  `setval` does not survive a rollback here because the sequences are created in
  the same transaction. One operator runs one command at a time; two importers at
  once are not modelled. An import whose commit's answer is lost reports a
  failure though the data are there: hence `ImportNeverOverwrites`. After a
  rollback and a second switch forward the service runs on the rows of the first
  import: startup validates tables, not contents. With `DATABASE_URL` set and
  `ENABLE_POSTGRESQL` false the service does not start (`Chosen`).

## 3. Runs

| run | question | result |
| --- | --- | --- |
| `JobQueue_requests` | two overlapping requests, one worker, sweep, deletions, callbacks, two jobs, two keys | holds; with claims fair, no claimable job starves |
| `MediaWorker_jobs` | one job, an image, a draft or a dialogue, two workers (one sweeps), two attempts, two crashes, two providers | holds, implements `JobLifecycle`, settles |
| `MediaWorker_dialogue` | a slow video and its lip sync, with the code's times | `LiveRunOwnsRow` violated |
| `MediaWorker_web_only` | the deployed configuration: no worker sweeps | `JobsSettle` violated |
| `IdentityDrift_queue` | two workers, two results, two sweeps, a crash | holds |
| `IdentityDrift_runner` | the automatic runner | `EventuallyDecided` violated |
| `ShotApproval` | two overlapping requests on one shot | holds |
| `AssetLock` | two overlapping requests on one asset, with its references and a generation that another asset's picture competes in | holds |
| `ScreenplayImport_overlap` | two overlapping requests, two runs, persist, manual scenes and shots | holds |
| `ScreenplayIntake` | every text of up to three lines posted, of four without guesses and transitions, and four longer ones; three uploaded past a filter, or one broken down in two runs of the script | holds; page and script end |
| `ScreenplayIntake_words` | the words of short inline dialogues | `WordsAreKept` violated |
| `Cutover` | backup, gate, import, deploys and environment in any order beside writes | holds |

The violated ones are findings: a document, comment or docstring of the
repository says otherwise; `PROJECT.json` quotes it.

- *Lip sync.* Ten minutes of polling and twelve of lip sync exceed the
  fifteen of the stale window with no write to the row between them: the sweep
  of another process takes the job from a live worker.
- *Deployed configuration.* `render.yaml` starts only the web process; its
  thread never sweeps, so a job whose process died stays `running`.
- *Runner.* See `Scope` above: no assessment is ever taken automatically.
- *Parser.* `MARY: GO` followed by `JOHN: NO`: the first line is taken for a bare
  name, which the second does not answer, and leaves no block; Mary's word is lost.

Two more disagreements are covered by a property that passes, in the form of its
exception. A piece of an upload whose answer was blocked is sent again and
appended again, so the text has it twice, although `chunked_screenplay_upload.py:17-18`
says that the parser only ever sees the source text (`TextFollowsSource` exempts
`repeated` uploads from being whole). A run that stored its result and died before it
completed the job is run again and stores a second draft, although
`docs/SYSTEM_ARCHITECTURE.md:30` and `:539` promise no duplicate media records:
`DraftsAreAccountedFor` counts these `strays`, and says that there is no other
cause. A third is a lock without a master: `docs/NEXT_SLICE_CHARACTER_LOCK.md:9`
requires one, a PATCH of `lock_status` does not (`patched`).

### Bounds

Two of everything that competes: the races of this code are between two
requests, or a request and a worker, over one row, and every property relates
at most two rows.

- `JobQueue_requests`: two jobs and keys make a lower-id job that can starve
  and a key that can be taken; a budget of two reaches the first claim, the
  last attempt and the limit. No task id plays a part (`Tasks = {}`).
- `MediaWorker_jobs`: two attempts, so two submissions and two tasks; two crashes
  make one hit a run that resumed an earlier one. All four kinds of jobs and
  both providers with different errors are initial choices, a second provider
  also after a restart. One job is enough: runs of different jobs share nothing
  but the claim order, which `JobQueue` covers.
- `IdentityDrift_queue`: `MaxRequeues = 2` lets a claim be taken away twice, so that a
  late store meets a third claim.
- `ShotApproval`: two images and a video make one image supersede another under
  a video's gate; one finding can be opened and resolved between two reads.
- `AssetLock`: one asset with two references and two tasks: a master and a rival.
  A second asset is only there to compete: a setting with a picture of its own,
  locked before the first is created (`OtherStands`), where one image may be sent.
  Runs end at the first overtaken write (`NoneStale`): every
  property exempts overtaken assets, so nothing they could violate is cut off
  with one asset; the proofs have no such limits.
- `ScreenplayImport_overlap`: a text without headings, one with a single scene, and
  one that puts a scene before that, rewrites it and repeats its heading; the two
  short ones are not in use at once (`OneShort`). Together with scenes
  added by hand or persisted without headings they exercise all outcomes of the
  matching (by heading, by number, added, changed, removed, renumbered).
- `ScreenplayIntake`: eleven kinds of lines; within four lines there is
  room for a cue, its parenthetical, its words and what ends them. A text that is
  all blank is posted only: the page and the script stop before (`TextsAssumption`).
  The four longer texts add a second scene, noise, guesses and overlapping tests. Pieces of one and two units, one upload,
  one lost session: sizes are halved, doubled again and repeated at the floor.
  The screenplay of the script has a paragraph longer than a chunk, whose rest is
  packed with the next paragraph: two chunks. Two runs, which may overlap, meet at
  one thread and leave scenes to each other; two attempts per chunk, one or two
  scenes per answer, one restart.
- `Cutover`: two ids and versions per table, two writes (one before, one during a
  command), three commands: gate, import, repeated import.

Each mutant is found within these bounds.

### Fairness

`JobQueue`: weak fairness of claiming, because both loops claim for ever.
`MediaWorker`: weak fairness of each worker's loop, of the run it is in, of
restarting a dead process (the platform restarts it), and of time; none of the
provider: polling ends at its deadline. A broken status request
(`PollBreaks`), a crash and an operator's retry may happen or not.
`IdentityDrift`: weak fairness of each worker's steps; `requeue-stale` is called by
nobody but an operator and is not fair, which is why `EventuallyDecided` exempts
claims whose worker died. `ScreenplayIntake`: weak fairness of the page's loop,
the network, the server and the parser together, and of the script with the
server that answers it; a session is lost, an upload or a run of the script
begun, a run given up and the process restarted by chance. Of a call that missed
its deadline nothing is assumed: it may keep its thread for ever. The others have no liveness: nothing in them must happen
unless a person asks for it.

## 4. Proofs

All theorems hold for every value of the constants, under the named
assumptions of the modules.

- **`JobQueueProofs`**: `TypeCorrect`, `BoundedAttempts`, `ConsistentRows`,
  `UniqueKeys`, `CallbacksStoreOne`, `OnlyClaimsSpend`. The inductive invariant
  `IInv` is `TypeOK`, the row invariants of `MediaJobs` and `OneJobPerKey`, and
  that ids not handed out have no row. The row lemmas at its head say
  what each update keeps; because every write is an update of one row by one of
  these operators, a stale decision of `fail_job` cannot break them:
  `FailureStatus` only chooses between two statuses that are both safe for the
  row. `UniqueKeys` rests on the check in the INSERT (the UNIQUE constraint), not
  on the read before it. `CallbacksStoreOne` needs that a callback about to
  store one found none and nobody else did, unless the job is `raced`.
- **`ShotApprovalProofs`**: `TypeCorrect`, `OneApproved`, `ApprovedIsCleared`,
  `FinalizesAtGate`, `FinalKeeps`. `OneApprovedPerType` is preserved by the write
  alone, which supersedes inside its transaction. `ApprovedImageIsCleared` is not
  inductive: the verdict was read earlier. The strengthening `GateHolds` says
  that an image a handler is about to approve is cleared *now*; it is kept because
  a verdict, once there, does not change and an `unchecked` result stays
  unchecked. `FinalizesAtGate` carries the part of the gate a finalisation has
  read along its program counter as long as nothing overtakes it.
- **`AssetLockProofs`**: `TypeCorrect`, `LockedAssetsHaveMasters`,
  `TasksAddOneReference`, `GenerationsSendMasters`, `LocksProtect`. The invariant
  says of each request that nobody has overtaken that what it read still holds
  (`ReadHolds`), and of each asset that its master and its tasks are in order
  (`MasterHolds`, `OneEach`). A write keeps the requests on other assets as
  they were and marks those on its own (`OvertakenStep`); what it does to its
  own asset follows from its read, or the asset is `stale`. `CharactersComeFirst`
  counts: a payload without some character's image would consist of fewer images
  of props and characters than there are, and of as many as there is room for.
- **`ScreenplayImportProofs`**: `TypeCorrect`, `OneApproved`, `ShotsKeepScenes`,
  `UnconfirmedKeepScenes`, `PlansAreExact`, `HeadingsKeepRows`. For the runs, the
  invariant adds that handlers carry a breakdown into what they write (`IInv`): a stale
  reparse or edit can only take a run out of approved or leave it, and the
  commit supersedes every other approved run in the same transaction. For the scenes
  (`ScenesInv`), a scene an approval is to remove and has looked at has only
  unseen shots (`Looked`), an unconfirmed plan changes and removes nothing
  (`Carried`), and ids not handed out have no row. `MatchFacts` says that the two
  passes of the diff pair each new scene with at most one row and no row with two,
  `NewIds` that each insert has an id of its own; so a commit nothing overtook puts
  the scenes of the breakdown one to one into rows (`ExactRows`). It needs that
  no scene has a number below one, which the request models refuse (`NumbersAssumption`).
- **`MediaWorkerProofs`**: `TypeCorrect`; and, assuming
  `TimesFit`, `LiveRunsOwnTheirRows`, `BilledOnce`, `CompletedWithItsTask`,
  `DraftsAccounted` and `RefinesLifecycle`. `TimesFit` says that a run has the time, between two writes
  of its row, for the network calls that lie between them; the code's constants
  leave 300 of the 900 seconds for what is not polling, and the lip sync of a
  dialogue does not fit (`MediaWorker_dialogue`). Under it `IInv` bounds, at every
  point of a run, the age of its row and the time it has left together
  (`Deadline`), so that a sweep finds no row of a live run stale; a row is then
  its run's own (`OwnsRow`), so its task id, status and budget are still what the
  run read, and the task it follows is its job's (`FollowsTask`). Submissions are
  counted against `lost` and the one id that is in the row or on its way there
  (`BillOK`). Drafts are counted against `strays` in the same way (`DraftsOK`): one
  more there is only once the job is completed, or while its run is about to
  complete it (`Drafted`). The refinement follows step by step: each claim, store, completion,
  retry and failure is a step of `JobLifecycle`, a sweep is one `Release` of all
  it finds, and every other step changes nothing of it.
- **`IdentityDriftProofs`**: `TypeCorrect`, `ClaimsAreExclusive`, `ClaimsAreHeld`,
  `VerdictsStay`. The argument is about attempt numbers (`ClaimsOrdered`): a claim
  raises the row's above those of all workers still busy with claims that were
  taken away, and only the owner of the running claim passes the check of a
  store. A late store may put a smaller number back, but only together with a
  verdict, after which nobody claims again. `AttemptsBounded` ties the numbers
  to the sweeps.
- **`CutoverProofs`**: `TypeCorrect`, `UsableOnPostgres`, `GateIsKept`,
  `ImportsExactly`, `ImportsOnce`. The invariant says at each part of a command
  what it has read (`PartsOK`), that this is what SQLite and its backup hold as
  long as nothing was written since the command began (`ReadsHold`), that the
  target is empty until the import commits and its sequences are past its ids
  afterwards (`TargetOK`), and what a ready gate leaves behind until SQLite is
  written (`ReadyOK`). Exactness follows from the fingerprints, which are
  compared for both tables before a row is copied; the counts alone would not do.
- **`ScreenplayIntakeProofs`**, the parser: `ParseTypeCorrect`, `BlocksKeepToText`,
  `SpeakersKeepTheirWords`, `NothingElseIsDropped`, `ScenesAreContiguous`, over
  `ParserSpec`: a text is any sequence of kinds of lines. What the parser holds
  but has not written yet (the action paragraph, the speech it collects) comes after
  every block, with no heading in between; and each line that was read has become
  a block, a part of what is held, or one of the few things that are dropped
  (`Gone`). A name that is dropped was not answered: up to the line that ended its
  speech only blank lines follow. `ScreenplaysAreParsed` carries this over to
  `Spec`: every step of the intake is one of the parser or leaves it alone
  (`ParserIsComposed`). Its hypothesis `ContentKeepsKinds` says that `SelectSeq`
  picks lines out of lines, an induction over the text.
- the upload: `UploadTypeCorrect`, `TextArrives`. What the session has is
  within reach of the loop (`KeepsUp`): the text ends no earlier than where
  the page goes on, so a piece never leaves a gap; and for an upload that neither was
  forgotten nor had an answer blocked it ends exactly there, so the pieces are the
  whole (`UploadInv`). `LoopOK` ties what is on the wire to the place of the loop.
- the resumable import: `ThreadsConserved`, `OneBreakdown`. Threads are counted
  over the requests that are in a call (`ThreadInv`). `BreakdownInv` says of a run
  that its scenes are those of the chunks before its next one, numbered through
  (`UpTo`); of stored scenes that one run wrote them all, if no run was raced; and
  of a request between its count and its insert that it counted nothing and
  nobody else has written since, or its run is in `raced` (`CountOK`). The
  hypothesis `SplitIsWhole` says that `Split` loses no line of the texts given to the
  script: a recursively defined function, which TLC computes for the text of the
  run (the last conjunct of `HoldsScreenplayOnce`).

What only TLC checks: the liveness properties (`ClaimableIsServed`, `JobsSettle`,
`EventuallyDecided`, `IntakeEnds`), and that `Split` loses no line of the run's text
(`SplitIsWhole`, through `HoldsScreenplayOnce`). `ContentKeepsKinds`, a fact about
`SelectSeq` and texts of any length, stays a hypothesis. Every safety invariant, action
property and refinement of a passing run is a theorem, those of the worker's rows
under `TimesFit`.
Fairness, ENABLED, and induction over data are outside the prover's reach: no
liveness and nothing about recursively defined data is proved.

## 5. Not modelled, and the plan

1. `DriftVerdict`, the score arithmetic of `services/identity_drift.py`, and the
   scene manifest's choice of media, as pure operators against a reference
   definition.
2. The entities a commit of the import adds to the Story Bible, and edits of
   scenes and projects.

Left out for good: the parser's regular expressions and its canonical names,
prompt texts, workflow files, prices, dashboards, the browser's rendering,
schema text and health checks: no state of their own or pure formatting.
