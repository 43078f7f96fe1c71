------------------------ MODULE ScreenplayBreakdown ------------------------
(***************************************************************************)
(* The resumable import: a script (src/scripts/deployment_smoke.py) has a  *)
(* language model break a screenplay down chunk by chunk, stores the       *)
(* scenes and asks for the shots of each.  The endpoints keep nothing      *)
(* between two requests: the progress is in the script.                    *)
(*                                                                         *)
(* A request goes on at the server after its script has given up on it.    *)
(* A call of the model that missed its deadline goes on as well, and keeps *)
(* the thread it was given.                                                *)
(***************************************************************************)
EXTENDS Naturals, Sequences, FiniteSets, SequencesExt

CONSTANTS
    Runs,                   \* bound: runs of the script, each started once
    MAX_CHUNK_CHARACTERS,   \* in lines
    SEPARATOR,              \* what joining two paragraphs adds to the length
    MAX_CHUNK_ATTEMPTS,
    PROVIDER_THREADS,       \* capacity of _PROVIDER_SEMAPHORE
    MaxScenesPerChunk,      \* bound: scenes in an answer of the model
    MaxRestarts             \* bound: restarts of the web process

ASSUME BreakdownAssumption ==
    /\ {MAX_CHUNK_CHARACTERS, MAX_CHUNK_ATTEMPTS, PROVIDER_THREADS, MaxScenesPerChunk}
           \subseteq Nat \ {0}
    /\ SEPARATOR \in Nat /\ MaxRestarts \in Nat

VARIABLES
    screenplay,   \* the kinds of its lines, chosen once
    chunks,       \* what every request makes of it
    runs,         \* what each run of the script holds
    requests,     \* its outstanding request
    free,         \* threads left in the semaphore
    late,         \* calls that missed their deadline and still go on
    stored,       \* the scenes of the project, by id
    maps,         \* the shot maps of each scene
    restarts,
    raced         \* runs that wrote after another one, from an older count (history)

breakdownVars == <<screenplay, chunks, runs, requests, free, late, stored, maps, restarts, raced>>

-----------------------------------------------------------------------------
(* _split_screenplay. *)

Written(text, p) == p \in DOMAIN text /\ text[p] # "blank"
WrittenLines(text) == SelectSeq([p \in DOMAIN text |-> p], LAMBDA p : Written(text, p))

\* First line of the paragraph of line p.
ParagraphOf(text, p) ==
    CHOOSE q \in 1..p : (\A k \in q..p : Written(text, k)) /\ ~Written(text, q - 1)

\* The piece of a paragraph that begins at line p: one longer than a chunk is cut.
PieceFrom(text, p) ==
    SelectSeq(WrittenLines(text), LAMBDA q :
        q \in p..p + MAX_CHUNK_CHARACTERS - 1 /\ \A k \in p..q : Written(text, k))

Pieces(text) ==
    LET starts == SelectSeq(WrittenLines(text), LAMBDA p :
                      (p - ParagraphOf(text, p)) % MAX_CHUNK_CHARACTERS = 0)
    IN [i \in DOMAIN starts |-> PieceFrom(text, starts[i])]

Length(chunk) == Len(FlattenSeq(chunk)) + SEPARATOR * (Len(chunk) - 1)

\* The piece goes into the last chunk if it fits.
Pack(done, piece) ==
    IF done # <<>> /\ Length(Last(done)) + SEPARATOR + Len(piece) <= MAX_CHUNK_CHARACTERS
    THEN Front(done) \o <<Append(Last(done), piece)>>
    ELSE Append(done, <<piece>>)

\* A chunk is a sequence of pieces, a piece one of lines.
Split(text) == FoldLeft(Pack, <<>>, Pieces(text))

-----------------------------------------------------------------------------
NewScene == [number : Nat \ {0}, chunk : Nat \ {0}, part : 1..MaxScenesPerChunk]

Run == [at : {"idle", "process", "persist", "map", "done", "failed"},
        attempt : 1..MAX_CHUNK_ATTEMPTS,
        next : Nat,                \* next_chunk_index
        scenes : Seq(NewScene),
        had : SUBSET Nat,          \* existing_shot_scene_ids
        left : Seq(Nat)]           \* imported scenes not yet mapped

BreakdownTypeOK ==
    /\ runs \in [Runs -> Run]
    /\ requests \in [Runs -> {"none", "calling", "listed", "counted scenes",
                              "drawn", "counted shots", "unprompted"}]
    /\ free \in 0..PROVIDER_THREADS /\ late \in 0..PROVIDER_THREADS
    /\ stored \in Seq([scene : NewScene, by : Runs])
    /\ maps \in SUBSET [scene : DOMAIN stored, by : Runs, prompted : BOOLEAN]
    /\ restarts \in 0..MaxRestarts
    /\ raced \in SUBSET Runs

BreakdownInit ==
    /\ chunks = Split(screenplay)
    /\ runs = [c \in Runs |-> [at |-> "idle", attempt |-> 1, next |-> 0, scenes |-> <<>>,
                               had |-> {}, left |-> <<>>]]
    /\ requests = [c \in Runs |-> "none"]
    /\ free = PROVIDER_THREADS
    /\ late = 0
    /\ stored = <<>>
    /\ maps = {}
    /\ restarts = 0
    /\ raced = {}

NoThreads == UNCHANGED <<free, late>>
NoRows == UNCHANGED <<stored, maps, raced>>
Constant == UNCHANGED <<screenplay, chunks, restarts>>

-----------------------------------------------------------------------------
(* The script.  It hears an answer when it is given; an answer that gets     *)
(* lost is one the script had given up waiting for.                          *)

Waiting(c) == runs[c].at \in {"process", "persist", "map"}

\* c asks for at, and the server has not yet begun.
Asks(c, at) == runs[c].at = at /\ requests[c] = "none"

Mapped == {m.scene : m \in maps}

\* run_smoke: the snapshot taken first tells which scenes have shots.
StartRun(c) ==
    /\ runs[c].at = "idle"
    /\ screenplay # <<>>
    /\ runs' = [runs EXCEPT ![c].at = "process", ![c].had = Mapped]
    /\ UNCHANGED requests /\ NoThreads /\ NoRows /\ Constant

\* The request gets to where it is next, and the script goes on waiting.
Goes(c, at) ==
    /\ requests' = [requests EXCEPT ![c] = at]
    /\ UNCHANGED runs

\* The request is over, and the script, if it still waits, goes on as run.
Answers(c, run) ==
    /\ requests' = [requests EXCEPT ![c] = "none"]
    /\ runs' = [runs EXCEPT ![c] = IF Waiting(c) THEN run ELSE @]

\* Any error but a 502 that calls itself retryable.
Refuses(c) == Answers(c, [runs[c] EXCEPT !.at = "failed"])

\* Mutant: an attempt is not counted.
Retries_Forever(c) == Answers(c, runs[c])

\* A retryable 502: the same chunk again, but only so often.
Retries(c) ==
    Answers(c, IF runs[c].attempt < MAX_CHUNK_ATTEMPTS
               THEN [runs[c] EXCEPT !.attempt = @ + 1]
               ELSE [runs[c] EXCEPT !.at = "failed"])

\* The chunk is broken down: on to the next, or to persist.
HearScenes(c, new) ==
    Answers(c, [runs[c] EXCEPT !.next = @ + 1, !.attempt = 1, !.scenes = @ \o new,
                               !.at = IF runs[c].next + 1 >= Len(chunks) THEN "persist" ELSE @])

HearStored(c, ids) == Answers(c, [runs[c] EXCEPT !.at = "map", !.left = ids])

HearShots(c) == Answers(c, [runs[c] EXCEPT !.left = Tail(@)])

\* Scenes that had shots in the snapshot are skipped; after the last the
\* import is done.
SkipScene(c) ==
    /\ Asks(c, "map")
    /\ \/ /\ runs[c].left # <<>> /\ Head(runs[c].left) \in runs[c].had
          /\ runs' = [runs EXCEPT ![c].left = Tail(@)]
       \/ /\ runs[c].left = <<>>
          /\ runs' = [runs EXCEPT ![c].at = "done"]
    /\ UNCHANGED requests /\ NoThreads /\ NoRows /\ Constant

\* The script's own timeout, a broken connection, or an answer that is no
\* JSON: the run ends, the request does not.
GiveUp(c) ==
    /\ Waiting(c)
    /\ runs' = [runs EXCEPT ![c].at = "failed"]
    /\ UNCHANGED requests /\ NoThreads /\ NoRows /\ Constant

-----------------------------------------------------------------------------
(* process-next.  It keeps nothing: the scenes so far come with the request. *)

\* A thread for the call, or none left; without a key or a chunk there is no
\* call.
StartCall(c) ==
    /\ Asks(c, "process")
    /\ \/ chunks # <<>> /\ free > 0 /\ free' = free - 1 /\ Goes(c, "calling")
       \/ chunks # <<>> /\ free = 0 /\ Retries(c) /\ UNCHANGED free
       \/ Refuses(c) /\ UNCHANGED free
    /\ UNCHANGED late /\ NoRows /\ Constant

\* _normalize_scenes: the numbers go on from the scenes there are.
Normalized(c, n) ==
    [i \in 1..n |-> [number |-> Len(runs[c].scenes) + i, chunk |-> runs[c].next + 1, part |-> i]]

\* The model answers in time: with scenes, with what is no list of scenes or an
\* error that may pass, or with an error that will not.
\* classify_provider_failure draws the line between the two.
FinishCall(c) ==
    /\ requests[c] = "calling"
    /\ free' = free + 1
    /\ \/ \E n \in 1..MaxScenesPerChunk : HearScenes(c, Normalized(c, n))
       \/ Retries(c)
       \/ Refuses(c)
    /\ UNCHANGED late /\ NoRows /\ Constant

\* Mutant: the thread counts as free although its call goes on.
MissDeadline_Releases(c) ==
    /\ requests[c] = "calling"
    /\ late' = late + 1 /\ free' = free + 1
    /\ Retries(c)
    /\ NoRows /\ Constant

\* PROVIDER_TIMEOUT_SECONDS are over: the request is answered, the call goes on.
MissDeadline(c) ==
    /\ requests[c] = "calling"
    /\ late' = late + 1 /\ UNCHANGED free
    /\ Retries(c)
    /\ NoRows /\ Constant

\* A late call returns; its result is dropped.
EndLateCall ==
    /\ late > 0
    /\ late' = late - 1 /\ free' = free + 1
    /\ UNCHANGED <<runs, requests>> /\ NoRows /\ Constant

-----------------------------------------------------------------------------
(* persist. *)

ByNumber == SetToSortSeq(DOMAIN stored, LAMBDA i, j :
                \/ stored[i].scene.number < stored[j].scene.number
                \/ stored[i].scene.number = stored[j].scene.number /\ i < j)

\* list_scenes: the same scenes are a repeated request, others a conflict; and
\* a scene to which the model gave a blank title is refused.
ListScenes(c) ==
    /\ Asks(c, "persist")
    /\ \/ Refuses(c)
       \/ stored = <<>> /\ Goes(c, "listed")
       \/ /\ stored # <<>>
          /\ IF [i \in DOMAIN stored |-> stored[ByNumber[i]].scene] = runs[c].scenes
             THEN HearStored(c, ByNumber)
             ELSE Refuses(c)
    /\ NoThreads /\ NoRows /\ Constant

\* import_scenes counts the scenes, and then inserts its own and commits.
CountScenes(c) ==
    /\ requests[c] = "listed"
    /\ IF stored = <<>> THEN Goes(c, "counted scenes") ELSE Refuses(c)
    /\ NoThreads /\ NoRows /\ Constant

InsertScenes(c) ==
    /\ requests[c] = "counted scenes"
    /\ stored' = stored \o [i \in DOMAIN runs[c].scenes |->
                                [scene |-> runs[c].scenes[i], by |-> c]]
    /\ HearStored(c, [i \in DOMAIN runs[c].scenes |-> Len(stored) + i])
    /\ raced' = raced \cup {d \in Runs \ {c} : requests[d] = "counted scenes"}
    /\ UNCHANGED maps /\ NoThreads /\ Constant

-----------------------------------------------------------------------------
(* create_shot_map. *)

SceneOf(c) == Head(runs[c].left)

\* generate_shot_map: a call without a deadline of its own.
DrawShots(c) ==
    /\ Asks(c, "map")
    /\ runs[c].left # <<>> /\ SceneOf(c) \notin runs[c].had
    /\ Goes(c, "drawn") \/ Refuses(c)
    /\ NoThreads /\ NoRows /\ Constant

\* Mutant: shots are added to those there are.
CountShots_Ignored(c) ==
    /\ requests[c] = "drawn"
    /\ Goes(c, "counted shots")
    /\ NoThreads /\ NoRows /\ Constant

\* create_generated_shots counts the shots, and then inserts its own and commits.
CountShots(c) ==
    /\ requests[c] = "drawn"
    /\ IF SceneOf(c) \in Mapped THEN Refuses(c) ELSE Goes(c, "counted shots")
    /\ NoThreads /\ NoRows /\ Constant

InsertShots(c) ==
    /\ requests[c] = "counted shots"
    /\ maps' = maps \cup {[scene |-> SceneOf(c), by |-> c, prompted |-> FALSE]}
    /\ raced' = raced \cup {d \in Runs \ {c} : requests[d] = "counted shots" /\ SceneOf(d) = SceneOf(c)}
    /\ Goes(c, "unprompted")
    /\ UNCHANGED stored /\ NoThreads /\ Constant

\* The prompt of each shot, in transactions of their own.
PromptShots(c) ==
    /\ requests[c] = "unprompted"
    /\ maps' = {[m EXCEPT !.prompted = @ \/ (m.by = c /\ m.scene = SceneOf(c))] : m \in maps}
    /\ HearShots(c)
    /\ UNCHANGED <<stored, raced>> /\ NoThreads /\ Constant

\* The process dies with its requests and its threads.
Restart ==
    /\ restarts < MaxRestarts
    /\ restarts' = restarts + 1
    /\ runs' = [c \in Runs |-> IF requests[c] # "none" /\ Waiting(c)
                               THEN [runs[c] EXCEPT !.at = "failed"] ELSE runs[c]]
    /\ requests' = [c \in Runs |-> "none"]
    /\ free' = PROVIDER_THREADS /\ late' = 0
    /\ UNCHANGED <<screenplay, chunks>> /\ NoRows

-----------------------------------------------------------------------------
\* What happens without anybody's help: the script and the server go on.
Chunk(c) == StartCall(c) \/ FinishCall(c) \/ MissDeadline(c)
Persist(c) == ListScenes(c) \/ CountScenes(c) \/ InsertScenes(c)
ShotMap(c) == SkipScene(c) \/ DrawShots(c) \/ CountShots(c) \/ InsertShots(c) \/ PromptShots(c)

BreakdownStep == \E c \in Runs : Chunk(c) \/ Persist(c) \/ ShotMap(c)

BreakdownNext ==
    \/ BreakdownStep
    \/ \E c \in Runs : StartRun(c) \/ GiveUp(c)
    \/ EndLateCall
    \/ Restart

-----------------------------------------------------------------------------
(* Properties. *)

LinesOf(split) == FlattenSeq(FlattenSeq(split))

Fresh == {i \in DOMAIN stored : stored[i].by \notin raced}

\* However often the script is run, its answers are lost and the model answers
\* differently: the project holds one breakdown, and that is of the whole
\* screenplay, in its order and numbered; and a scene has one shot map.  Only a
\* run that counted before another one wrote can add a second.
HoldsScreenplayOnce ==
    /\ \A i, j \in Fresh : stored[i].by = stored[j].by
    /\ \A m, n \in maps : m.scene = n.scene /\ {m.by, n.by} \cap raced = {} => m = n
    /\ stored # <<>> /\ (\A i, j \in DOMAIN stored : stored[i].by = stored[j].by) =>
          LET scene(i) == stored[i].scene IN
          /\ \A i \in DOMAIN stored : scene(i).number = i
          /\ \A i \in DOMAIN stored :
                 IF i = 1 THEN scene(i).chunk = 1 /\ scene(i).part = 1
                 ELSE \/ scene(i).chunk = scene(i - 1).chunk /\ scene(i).part = scene(i - 1).part + 1
                      \/ scene(i).chunk = scene(i - 1).chunk + 1 /\ scene(i).part = 1
          /\ scene(Len(stored)).chunk = Len(chunks)
          /\ LinesOf(chunks) = WrittenLines(screenplay)

\* A thread is free, or its call goes on: abandoned calls neither leak threads
\* nor let more calls run than the semaphore allows.
ThreadsAreConserved ==
    free + late + Cardinality({c \in Runs : requests[c] = "calling"}) = PROVIDER_THREADS

\* A run ends: failed, or with shots for every scene of the project.
ImportEnds ==
    \A c \in Runs : Waiting(c) ~>
        \/ runs[c].at = "failed"
        \/ runs[c].at = "done" /\ (raced = {} => Mapped = DOMAIN stored /\ stored # <<>>)
=============================================================================
