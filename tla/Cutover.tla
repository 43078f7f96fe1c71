------------------------------- MODULE Cutover -------------------------------
(***************************************************************************)
(* The move of the service from SQLite to PostgreSQL, beside the running   *)
(* service: backup, readiness gate and import of src/app/database/, and    *)
(* the choice of a backend when the service starts (backend.py,            *)
(* startup.py, connection.py).  An operator runs the commands, one at a    *)
(* time, and sets the environment; nothing in the code enforces an order,  *)
(* and neither does the model.                                             *)
(*                                                                         *)
(* Two tables stand for the eighteen: shots, and the media that refer to   *)
(* them.  The commands read SQLite table by table with no transaction      *)
(* around the reads; what the import writes to PostgreSQL is one           *)
(* transaction, schema and sequences included.                             *)
(***************************************************************************)
EXTENDS Naturals, FiniteSets, FiniteSetsExt

CONSTANTS
    MaxId,        \* bound: ids of a table
    MaxVersion,   \* bound: versions of a shot
    MaxWrites,    \* bound: writes of the service
    MaxRuns       \* bound: runs of the commands

ASSUME BoundsAssumption ==
    /\ MaxId \in Nat \ {0} /\ MaxVersion \in Nat \ {0}
    /\ MaxWrites \in Nat /\ MaxRuns \in Nat

VARIABLES
    sqlite,    \* the database the service starts with
    backup,    \* FILM_OS_BACKUP_DB
    target,    \* the PostgreSQL database, as committed
    env,       \* DATABASE_URL and ENABLE_POSTGRESQL, as set
    service,   \* the backend the running service has chosen
    tool,      \* the command that is running, or what the last one said
    writes, runs,
    ready,     \* the last run of the gate said ready (history)
    quiet      \* commands since whose start SQLite was not written (history)

vars == <<sqlite, backup, target, env, service, tool, writes, runs, ready, quiet>>

Tables == {"shots", "media"}
Ids == 1..MaxId

\* A shot is its version, a media result the shot it belongs to; 0 is no row.
Rows == [shots : [Ids -> 0..MaxVersion], media : [Ids -> 0..MaxId]]
NoRows == [t \in Tables |-> [i \in Ids |-> 0]]

Present(rows, t) == {i \in Ids : rows[t][i] # 0}
Counts(rows) == [t \in Tables |-> Cardinality(Present(rows, t))]

\* The foreign keys: no media without its shot.
Sound(rows) == \A i \in Present(rows, "media") : rows.media[i] \in Present(rows, "shots")

\* A database: its rows, and the ids its tables give out next.
Database == [exists : BOOLEAN, rows : Rows, next : [Tables -> 1..MaxId + 1]]
Empty == [exists |-> FALSE, rows |-> NoRows, next |-> [t \in Tables |-> 1]]

Tool == [at : {"idle", "audit", "compare", "fingerprint", "preflight", "connect", "copy",
               "check", "realign", "commit"},
         mode : {"gate", "import"}, table : Tables, matches : BOOLEAN,
         evidence : [Tables -> 0..MaxId], preflight : [Tables -> 0..MaxId],
         copied : Rows, next : [Tables -> 1..MaxId + 1],
         said : {"nothing", "ready", "blocked", "refused", "failed", "imported"}]

Started(mode) ==
    [at |-> "audit", mode |-> mode, table |-> "shots", matches |-> TRUE,
     evidence |-> [t \in Tables |-> 0], preflight |-> [t \in Tables |-> 0],
     copied |-> NoRows, next |-> [t \in Tables |-> 1], said |-> "nothing"]

TypeOK ==
    /\ {sqlite, backup, target} \subseteq Database
    /\ env \in [url : BOOLEAN, flag : BOOLEAN]
    /\ service \in {"sqlite", "postgresql", "down"}
    /\ tool \in Tool
    /\ writes \in 0..MaxWrites /\ runs \in 0..MaxRuns
    /\ ready \in BOOLEAN /\ quiet \subseteq {"gate", "import"}

-----------------------------------------------------------------------------
(* Writes of the service, on whichever database it has chosen. *)

Insert(db, t, value) == [db EXCEPT !.rows[t][db.next[t]] = value, !.next[t] = @ + 1]

\* ON DELETE CASCADE
DeleteShot(db, i) ==
    LET shots == [db.rows.shots EXCEPT ![i] = 0]
        media == [j \in Ids |-> IF db.rows.media[j] = i THEN 0 ELSE db.rows.media[j]] IN
    [db EXCEPT !.rows = [shots |-> shots, media |-> media]]

Written(db) ==
    LET Shots == Present(db.rows, "shots") IN
    {Insert(db, "shots", 1) : t \in {t \in {"shots"} : db.next[t] <= MaxId}}
    \cup {Insert(db, "media", i) : i \in {i \in Shots : db.next["media"] <= MaxId}}
    \cup {[db EXCEPT !.rows.shots[i] = @ + 1] : i \in {i \in Shots : db.rows.shots[i] < MaxVersion}}
    \cup {DeleteShot(db, i) : i \in Shots}

WriteSqlite ==
    /\ service = "sqlite" /\ writes < MaxWrites
    /\ sqlite' \in Written(sqlite)
    /\ writes' = writes + 1
    /\ quiet' = {}
    /\ UNCHANGED <<backup, target, env, service, tool, runs, ready>>

WritePostgres ==
    /\ service = "postgresql" /\ writes < MaxWrites
    /\ target' \in Written(target)
    /\ writes' = writes + 1
    /\ UNCHANGED <<sqlite, backup, env, service, tool, runs, ready, quiet>>

-----------------------------------------------------------------------------
(* Starting the service. *)

\* validate_postgres_schema, before the service starts on PostgreSQL: all the
\* tables are there.  Only an import creates them.
Validated == target.exists

\* build_database_backend
Chosen ==
    IF ~env.url THEN "sqlite"
    ELSE IF env.flag /\ Validated THEN "postgresql" ELSE "down"

\* seed_database puts the first shots into a database that has none.
Seeded(db) ==
    IF Present(db.rows, "shots") = {} /\ db.next["shots"] <= MaxId
    THEN Insert(db, "shots", 1) ELSE db

\* A deploy, or the platform restarting the service.
Restart ==
    /\ service' = Chosen
    /\ IF Chosen = "sqlite"
       THEN /\ sqlite' = Seeded(sqlite)
            /\ quiet' = IF sqlite' = sqlite THEN quiet ELSE {}
       ELSE UNCHANGED <<sqlite, quiet>>
    /\ UNCHANGED <<backup, target, env, tool, writes, runs, ready>>

-----------------------------------------------------------------------------
(* The operator. *)

TakeBackup ==
    /\ backup' = sqlite
    /\ UNCHANGED <<sqlite, target, env, service, tool, writes, runs, ready, quiet>>

SetEnvironment ==
    /\ \E u, f \in BOOLEAN : env' = [url |-> u, flag |-> f]
    /\ UNCHANGED <<sqlite, backup, target, service, tool, writes, runs, ready, quiet>>

\* Mutant: the gate does not verify the backup.
Start_GateTrustsBackup(mode) ==
    /\ tool.at = "idle" /\ runs < MaxRuns
    /\ runs' = runs + 1
    /\ tool' = [Started(mode) EXCEPT !.at = IF mode = "gate" THEN "preflight" ELSE @]
    /\ ready' = (ready /\ mode # "gate")
    /\ quiet' = IF mode = "import" /\ target.exists THEN quiet ELSE quiet \cup {mode}
    /\ UNCHANGED <<sqlite, backup, target, env, service, writes>>

\* cutover_readiness (the gate) or postgres_import_commit.
Start(mode) ==
    /\ tool.at = "idle" /\ runs < MaxRuns
    /\ runs' = runs + 1
    /\ tool' = Started(mode)
    /\ ready' = (ready /\ mode # "gate")
    /\ quiet' = IF mode = "import" /\ target.exists THEN quiet ELSE quiet \cup {mode}
    /\ UNCHANGED <<sqlite, backup, target, env, service, writes>>

-----------------------------------------------------------------------------
(* The commands.  Rows, counts and fingerprints are read one table after   *)
(* the other.                                                              *)

Else == <<sqlite, backup, env, service, writes, runs, quiet>>

\* The command ends; what it had read is gone with its process.
Say(word) == tool' = [Started(tool.mode) EXCEPT !.at = "idle", !.said = word]

\* On to the next table, or to the next part.
Then(t, part) ==
    IF tool.table = "shots" THEN [t EXCEPT !.table = "media"]
    ELSE [t EXCEPT !.table = "shots", !.at = part]

\* verify_sqlite_backup: the counts of the source,
Audit ==
    /\ tool.at = "audit"
    /\ tool' = Then([tool EXCEPT !.evidence[tool.table] = Counts(sqlite.rows)[tool.table]],
                    "compare")
    /\ UNCHANGED <<Else, target, ready>>

\* those of the backup,
Compare ==
    /\ tool.at = "compare"
    /\ IF ~backup.exists THEN Say("failed")
       ELSE IF Counts(backup.rows) # tool.evidence THEN Say("blocked")
       ELSE tool' = [tool EXCEPT !.at = "fingerprint"]
    /\ UNCHANGED <<Else, target, ready>>

Verified == IF tool.mode = "gate" THEN "preflight" ELSE "connect"

\* Mutant: equal counts are taken for equal contents.
Fingerprint_Skipped ==
    /\ tool.at = "fingerprint"
    /\ tool' = Then(tool, Verified)
    /\ UNCHANGED <<Else, target, ready>>

\* and the contents of both.
Fingerprint ==
    /\ tool.at = "fingerprint"
    /\ LET t == tool.table
           same == tool.matches /\ sqlite.rows[t] = backup.rows[t] IN
       IF t = "media" /\ ~same THEN Say("blocked")
       ELSE tool' = Then([tool EXCEPT !.matches = same], Verified)
    /\ UNCHANGED <<Else, target, ready>>

\* dry_run_sqlite_to_postgres audits the source again.
Preflight ==
    /\ tool.at = "preflight"
    /\ tool' = Then([tool EXCEPT !.preflight[tool.table] = Counts(sqlite.rows)[tool.table]],
                    "connect")
    /\ UNCHANGED <<Else, target, ready>>

\* Mutant: the tables of the target are created if they do not exist.
Connect_AnyTarget ==
    /\ tool.at = "connect"
    /\ tool' = [tool EXCEPT !.at = "copy"]
    /\ UNCHANGED <<Else, target, ready>>

\* The target must have no table; the gate has a target of its own.
Connect ==
    /\ tool.at = "connect"
    /\ IF tool.mode = "import" /\ target.exists THEN Say("failed")
       ELSE tool' = [tool EXCEPT !.at = "copy"]
    /\ UNCHANGED <<Else, target, ready>>

\* PostgreSQL refuses a row whose reference is missing.
Copy ==
    /\ tool.at = "copy"
    /\ LET copied == [tool.copied EXCEPT ![tool.table] = sqlite.rows[tool.table]] IN
       IF Sound(copied) THEN tool' = Then([tool EXCEPT !.copied = copied], "check")
       ELSE Say("refused")
    /\ UNCHANGED <<Else, target, ready>>

\* The counts must be those of the audit; the gate rolls back and compares
\* its two audits.
Check ==
    /\ tool.at = "check"
    /\ LET counts == Counts(tool.copied) IN
       \/ /\ tool.mode = "gate" /\ counts = tool.preflight
          /\ Say(IF tool.evidence = tool.preflight THEN "ready" ELSE "blocked")
          /\ ready' = (tool.evidence = tool.preflight)
       \/ /\ tool.mode = "import" /\ counts = tool.evidence
          /\ tool' = [tool EXCEPT !.at = "realign"] /\ UNCHANGED ready
       \/ /\ counts # (IF tool.mode = "gate" THEN tool.preflight ELSE tool.evidence)
          /\ Say("refused") /\ UNCHANGED ready
    /\ UNCHANGED <<Else, target>>

\* Mutant: the sequences are left where they are.
Realign_Not ==
    /\ tool.at = "realign"
    /\ tool' = [tool EXCEPT !.at = "commit"]
    /\ UNCHANGED <<Else, target, ready>>

\* setval: past the largest id there is; an empty table starts with 1.
Realign ==
    /\ tool.at = "realign"
    /\ tool' = [tool EXCEPT !.at = "commit",
                            !.next = [t \in Tables |-> 1 + Max(Present(tool.copied, t) \cup {0})]]
    /\ UNCHANGED <<Else, target, ready>>

\* The answer to the commit may be lost: then it has happened, and the
\* command reports a failure.
Commit ==
    /\ tool.at = "commit"
    /\ target' = [exists |-> TRUE, rows |-> tool.copied, next |-> tool.next]
    /\ \E word \in {"imported", "failed"} : Say(word)
    /\ UNCHANGED <<Else, ready>>

\* A statement fails or the command dies: the transaction is gone, with the
\* tables and sequences it had created.
Break ==
    /\ tool.at # "idle"
    /\ Say("failed")
    /\ UNCHANGED <<Else, target, ready>>

-----------------------------------------------------------------------------
Init ==
    /\ sqlite = Insert([Empty EXCEPT !.exists = TRUE], "shots", 1)
    /\ backup = Empty /\ target = Empty
    /\ env = [url |-> FALSE, flag |-> FALSE]
    /\ service = "sqlite"
    /\ tool = [Started("gate") EXCEPT !.at = "idle"]
    /\ writes = 0 /\ runs = 0
    /\ ready = FALSE /\ quiet = {}

Step ==
    \/ Audit \/ Compare \/ Fingerprint \/ Preflight \/ Connect
    \/ Copy \/ Check \/ Realign \/ Commit \/ Break

Next ==
    \/ WriteSqlite \/ WritePostgres
    \/ Restart \/ TakeBackup \/ SetEnvironment
    \/ \E mode \in {"gate", "import"} : Start(mode)
    \/ Step

Spec == Init /\ [][Next]_vars
-----------------------------------------------------------------------------
(* Properties. *)

\* What the import commits refers to nothing that is missing, whatever the
\* service wrote meanwhile; and if it wrote nothing, it is the source and its
\* verified backup, row by row.
ImportIsExact ==
    [][~target.exists /\ target'.exists =>
         /\ Sound(target'.rows)
         /\ "import" \in quiet => target'.rows = sqlite.rows /\ backup.rows = sqlite.rows]_vars

\* The service never runs on PostgreSQL without an import, and no insert
\* there meets an id that was imported.  Whether each statement is valid in
\* PostgreSQL's dialect is no part of it.
PostgresIsUsable ==
    service = "postgresql" =>
        /\ target.exists
        /\ \A t \in Tables : \A i \in Present(target.rows, t) : i < target.next[t]

\* An import repeated after a lost answer, or begun again by mistake, changes
\* nothing: once there is data only the service writes it.
ImportNeverOverwrites ==
    [][target.exists /\ target' # target => service = "postgresql"]_vars

\* What the gate found ready the import does not turn down, unless SQLite was
\* written after the gate began.
ReadyMeansImportable ==
    ready /\ "gate" \in quiet /\ tool.mode = "import" => tool.said \notin {"blocked", "refused"}

=============================================================================
