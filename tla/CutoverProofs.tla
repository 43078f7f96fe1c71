---------------------------- MODULE CutoverProofs ----------------------------
(***************************************************************************)
(* The properties of Cutover for every size of the tables and any number   *)
(* of writes and commands: what is imported is sound and exact, it is      *)
(* never written over, the service on PostgreSQL does not hand out an id   *)
(* twice, and the import does not turn down what the gate found ready.     *)
(*                                                                         *)
(* A command knows what it has read, table by table, at the time it read   *)
(* it.  The invariant says that this is what SQLite holds now, as long as  *)
(* nothing was written since the command began (Unwritten).                *)
(***************************************************************************)
EXTENDS Cutover, TLAPS, FiniteSetTheorems, WellFoundedInduction

\* Every id in use is below the next one to be given out.
BelowNext(rows, next) == \A t \in Tables : \A i \in Present(rows, t) : i < next[t]

\* The import is going on what the last gate found ready.
Announced == ready /\ "gate" \in quiet /\ tool.mode = "import"
Unwritten == tool.mode \in quiet \/ Announced

Compared == {"preflight", "connect", "copy", "check", "realign", "commit"}
Copied == {"check", "realign", "commit"}

\* What the fields of the tool are at each part of a command.
PartsOK ==
    /\ tool.at \in {"compare", "connect"} \cup Copied => tool.table = "shots"
    /\ tool.at \in {"realign", "commit"} => tool.mode = "import"
    /\ tool.at \in {"fingerprint"} \cup Compared => backup.exists
    /\ tool.at \in {"audit", "compare", "fingerprint", "preflight", "connect"}
          => tool.copied = NoRows
    /\ tool.at \in {"audit", "compare"} => tool.matches
    /\ tool.at = "copy" /\ tool.table = "shots" => tool.copied = NoRows
    /\ tool.at \in Copied => Sound(tool.copied)
    /\ tool.at = "commit" => BelowNext(tool.copied, tool.next)

\* Evidence, fingerprints and rows are those of SQLite.
ReadsHold ==
    Unwritten =>
        /\ tool.at = "audit" /\ tool.table = "media"
              => tool.evidence["shots"] = Counts(sqlite.rows)["shots"]
        /\ tool.at \in {"compare", "fingerprint"} \cup Compared
              => tool.evidence = Counts(sqlite.rows)
        /\ tool.at = "fingerprint" /\ tool.table = "media" /\ tool.matches
              => sqlite.rows["shots"] = backup.rows["shots"]
        /\ tool.at \in Compared => backup.rows = sqlite.rows
        /\ tool.at = "copy" /\ tool.table = "media"
              => tool.copied["shots"] = sqlite.rows["shots"]
        /\ tool.at \in Copied => tool.copied = sqlite.rows

TargetOK ==
    /\ service = "postgresql" => target.exists
    /\ BelowNext(target.rows, target.next)
    /\ tool.mode = "import" /\ tool.at \in {"copy"} \cup Copied => ~target.exists

\* What the gate found lasts until SQLite is written.
ReadyOK ==
    /\ ready /\ "gate" \in quiet
          => backup.exists /\ backup.rows = sqlite.rows /\ Sound(sqlite.rows)
    /\ Announced => /\ tool.said \notin {"blocked", "refused"}
                    /\ tool.at = "fingerprint" => tool.matches

IInv ==
    /\ TypeOK /\ sqlite.exists
    /\ PartsOK /\ ReadsHold /\ TargetOK /\ ReadyOK

-----------------------------------------------------------------------------
(* Numbers, rows and databases. *)

\* A set of numbers with a bound has a largest one.
LEMMA MaxIsLargest ==
    ASSUME NEW N \in Nat, NEW S \in SUBSET (0..N), S # {}
    PROVE  Max(S) \in S /\ \A i \in S : i <= Max(S)
<1> DEFINE Below == {N - i : i \in S}
<1>1. Below \in SUBSET Nat /\ Below # {}
  <2>1. \A i \in S : N - i \in Nat
    OBVIOUS
  <2>2. PICK i \in S : TRUE
    OBVIOUS
  <2>3. N - i \in Below
    OBVIOUS
  <2>4. \A d \in Below : d \in Nat
    BY <2>1
  <2>5. QED
    BY <2>3, <2>4
<1>2. PICK d \in Below : \A e \in Below : ~(<<e, d>> \in OpToRel(<, Nat))
  BY <1>1, NatLessThanWellFounded, WFMin
<1>3. \A e \in Below : ~(e < d)
  BY <1>1, <1>2 DEF OpToRel
<1>4. PICK m \in S : d = N - m
  OBVIOUS
<1>5. \A i \in S : m >= i
  <2> TAKE i \in S
  <2>1. N - i \in Below
    OBVIOUS
  <2>2. ~(N - i < N - m)
    BY <1>3, <1>4, <2>1
  <2>3. QED
    BY <2>2
<1>6. QED
  BY <1>5 DEF Max

\* A table of MaxId ids has at most MaxId rows.
LEMMA CountsType ==
    ASSUME NEW rows \in Rows
    PROVE  Counts(rows) \in [Tables -> 0..MaxId]
<1> SUFFICES ASSUME NEW t \in Tables PROVE Cardinality(Present(rows, t)) \in 0..MaxId
  BY DEF Counts
<1>1. IsFiniteSet(1..MaxId) /\ Cardinality(1..MaxId) = MaxId
  BY FS_Interval, BoundsAssumption
<1>2. Present(rows, t) \subseteq 1..MaxId
  BY DEF Present, Ids
<1>3. Cardinality(Present(rows, t)) \in Nat /\ Cardinality(Present(rows, t)) <= MaxId
  BY <1>1, <1>2, FS_Subset, FS_CardinalityType
<1>4. QED
  BY <1>3, BoundsAssumption

LEMMA NoRowsOK == NoRows \in Rows /\ Sound(NoRows) /\ \A next : BelowNext(NoRows, next)
<1>1. NoRows["shots"] = [i \in Ids |-> 0] /\ NoRows["media"] = [i \in Ids |-> 0]
  BY DEF NoRows, Tables
<1>2. NoRows \in Rows
  BY <1>1, BoundsAssumption DEF NoRows, Rows, Tables
<1>3. \A t \in Tables : Present(NoRows, t) = {}
  BY <1>1 DEF Present, Tables
<1>4. QED
  BY <1>2, <1>3 DEF Sound, BelowNext, Tables

\* An insert takes the next id.
LEMMA InsertFacts ==
    ASSUME NEW db \in Database, NEW t \in Tables, NEW value \in Nat \ {0},
           db.next[t] <= MaxId,
           t = "shots" => value \in 1..MaxVersion,
           t = "media" => value \in Ids
    PROVE  /\ Insert(db, t, value) \in Database
           /\ Insert(db, t, value).exists = db.exists
           /\ BelowNext(db.rows, db.next)
                => BelowNext(Insert(db, t, value).rows, Insert(db, t, value).next)
<1> DEFINE new == Insert(db, t, value)
           i == db.next[t]
<1>0. i \in Ids /\ i + 1 \in 1..MaxId + 1 /\ db.rows \in Rows
  BY BoundsAssumption DEF Database, Ids
<1>1. /\ new.exists = db.exists
      /\ new.rows = [db.rows EXCEPT ![t][i] = value]
      /\ new.next = [db.next EXCEPT ![t] = @ + 1]
  BY DEF Database, Insert
<1>2. new.next \in [Tables -> 1..MaxId + 1]
  BY <1>0, <1>1 DEF Database
<1>3. new.rows \in Rows
  <2>0. /\ db.rows["shots"] \in [Ids -> 0..MaxVersion] /\ db.rows["media"] \in [Ids -> 0..MaxId]
        /\ db.rows = [shots |-> db.rows["shots"], media |-> db.rows["media"]]
    BY <1>0 DEF Rows
  <2>1. CASE t = "shots"
    <3>1. new.rows = [shots |-> [db.rows["shots"] EXCEPT ![i] = value],
                      media |-> db.rows["media"]]
      BY <1>1, <2>0, <2>1
    <3>2. [db.rows["shots"] EXCEPT ![i] = value] \in [Ids -> 0..MaxVersion]
      BY <1>0, <2>0, <2>1, BoundsAssumption
    <3>3. QED
      BY <2>0, <3>1, <3>2 DEF Rows
  <2>2. CASE t = "media"
    <3>1. new.rows = [shots |-> db.rows["shots"],
                      media |-> [db.rows["media"] EXCEPT ![i] = value]]
      BY <1>1, <2>0, <2>2
    <3>2. [db.rows["media"] EXCEPT ![i] = value] \in [Ids -> 0..MaxId]
      BY <1>0, <2>0, <2>2, BoundsAssumption DEF Ids
    <3>3. QED
      BY <2>0, <3>1, <3>2 DEF Rows
  <2>3. QED
    BY <2>1, <2>2 DEF Tables
<1>4. new \in Database
  BY <1>1, <1>2, <1>3 DEF Database, Insert
<1>5. ASSUME BelowNext(db.rows, db.next) PROVE BelowNext(new.rows, new.next)
  <2> SUFFICES ASSUME NEW u \in Tables, NEW j \in Present(new.rows, u)
               PROVE  j < new.next[u]
    BY DEF BelowNext
  <2>1. CASE u # t
    <3>1. new.rows[u] = db.rows[u] /\ new.next[u] = db.next[u]
      BY <1>0, <1>1, <2>1 DEF Rows, Tables, Database
    <3>2. QED
      BY <1>5, <3>1 DEF BelowNext, Present
  <2>2. CASE u = t
    <3>1. new.rows[t] = [db.rows[t] EXCEPT ![i] = value] /\ new.next[t] = i + 1
      BY <1>0, <1>1 DEF Rows, Tables, Database
    <3>2. j = i \/ j \in Present(db.rows, t)
      BY <2>2, <3>1 DEF Present
    <3>3. j \in Ids
      BY DEF Present
    <3>4. QED
      BY <1>0, <1>5, <2>2, <3>1, <3>2, <3>3 DEF BelowNext, Ids
  <2>3. QED
    BY <2>1, <2>2
<1>6. QED
  BY <1>1, <1>4, <1>5

\* A write that only removes and changes rows gives out no id.
LEMMA ShrinkFacts ==
    ASSUME NEW db \in Database, NEW new,
           new = [exists |-> db.exists, rows |-> new.rows, next |-> db.next],
           new.rows \in Rows,
           \A t \in Tables : Present(new.rows, t) \subseteq Present(db.rows, t)
    PROVE  /\ new \in Database
           /\ new.exists = db.exists
           /\ BelowNext(db.rows, db.next) => BelowNext(new.rows, new.next)
BY DEF Database, BelowNext

LEMMA WrittenFacts ==
    ASSUME NEW db \in Database, NEW new \in Written(db)
    PROVE  /\ new \in Database
           /\ new.exists = db.exists
           /\ BelowNext(db.rows, db.next) => BelowNext(new.rows, new.next)
<1>0. db.rows \in Rows
  BY DEF Database
<1>1. CASE new = Insert(db, "shots", 1) /\ db.next["shots"] <= MaxId
  BY <1>1, InsertFacts, BoundsAssumption DEF Tables
<1>2. CASE \E i \in Present(db.rows, "shots") :
              new = Insert(db, "media", i) /\ db.next["media"] <= MaxId
  BY <1>2, InsertFacts DEF Tables, Present, Ids
<1>3. CASE \E i \in Present(db.rows, "shots") :
              /\ db.rows.shots[i] < MaxVersion
              /\ new = [db EXCEPT !.rows.shots[i] = @ + 1]
  <2>1. PICK i \in Present(db.rows, "shots") :
              /\ db.rows.shots[i] < MaxVersion
              /\ new = [db EXCEPT !.rows.shots[i] = @ + 1]
    BY <1>3
  <2>2. /\ i \in Ids /\ db.rows.shots[i] \in 0..MaxVersion /\ db.rows.shots[i] # 0
    BY <1>0 DEF Present, Rows
  <2>3. /\ new.rows = [db.rows EXCEPT !.shots[i] = @ + 1]
        /\ new = [exists |-> db.exists, rows |-> new.rows, next |-> db.next]
    BY <2>1 DEF Database
  <2>4. /\ new.rows.shots = [db.rows.shots EXCEPT ![i] = @ + 1]
        /\ new.rows.media = db.rows.media
        /\ new.rows = [shots |-> new.rows.shots, media |-> new.rows.media]
    BY <1>0, <2>3 DEF Rows
  <2>5. db.rows.shots[i] + 1 \in 0..MaxVersion
    BY <2>1, <2>2, BoundsAssumption
  <2>6. new.rows \in Rows
    BY <1>0, <2>2, <2>4, <2>5 DEF Rows
  <2>7. \A t \in Tables : Present(new.rows, t) \subseteq Present(db.rows, t)
    BY <1>0, <2>2, <2>4 DEF Present, Tables, Rows
  <2>8. QED
    BY <2>3, <2>6, <2>7, ShrinkFacts
<1>4. CASE \E i \in Present(db.rows, "shots") : new = DeleteShot(db, i)
  <2>1. PICK i \in Present(db.rows, "shots") : new = DeleteShot(db, i)
    BY <1>4
  <2>2. i \in Ids
    BY DEF Present
  <2> DEFINE kept == [j \in Ids |-> IF db.rows.media[j] = i THEN 0 ELSE db.rows.media[j]]
             cut == [db.rows.shots EXCEPT ![i] = 0]
  <2>3. new = [exists |-> db.exists, rows |-> [shots |-> cut, media |-> kept], next |-> db.next]
    <3>1. db = [exists |-> db.exists, rows |-> db.rows, next |-> db.next]
      BY DEF Database
    <3>2. QED
      BY <2>1, <3>1 DEF DeleteShot
  <2>4. [shots |-> cut, media |-> kept] \in Rows
    <3>1. cut \in [Ids -> 0..MaxVersion]
      BY <1>0, <2>2, BoundsAssumption DEF Rows
    <3>2. \A j \in Ids : db.rows.media[j] \in 0..MaxId
      BY <1>0 DEF Rows
    <3>3. kept \in [Ids -> 0..MaxId]
      BY <3>2, BoundsAssumption
    <3>4. QED
      BY <3>1, <3>3 DEF Rows
  <2>5. \A t \in Tables : Present([shots |-> cut, media |-> kept], t) \subseteq Present(db.rows, t)
    BY <1>0, <2>2 DEF Present, Tables, Rows
  <2>6. QED
    BY <2>3, <2>4, <2>5, ShrinkFacts
<1>5. QED
  BY <1>1, <1>2, <1>3, <1>4 DEF Written

-----------------------------------------------------------------------------
(* The tool. *)

LEMMA StartedFacts ==
    ASSUME NEW mode \in {"gate", "import"}
    PROVE  /\ Started(mode) \in Tool
           /\ Started(mode).at = "audit" /\ Started(mode).mode = mode
           /\ Started(mode).table = "shots" /\ Started(mode).matches
           /\ Started(mode).copied = NoRows /\ Started(mode).said = "nothing"
<1>1. [t \in Tables |-> 0] \in [Tables -> 0..MaxId] /\ [t \in Tables |-> 1] \in [Tables -> 1..MaxId + 1]
  BY BoundsAssumption
<1>2. QED
  BY <1>1, NoRowsOK DEF Started, Tool, Tables

Words == {"nothing", "ready", "blocked", "refused", "failed", "imported"}

LEMMA SayFacts ==
    ASSUME tool \in Tool, NEW word \in Words, Say(word)
    PROVE  tool' \in Tool /\ tool'.at = "idle" /\ tool'.mode = tool.mode /\ tool'.said = word
<1>1. tool.mode \in {"gate", "import"}
  BY DEF Tool
<1>2. Started(tool.mode) \in Tool /\ Started(tool.mode).mode = tool.mode
  BY <1>1, StartedFacts
<1>3. tool' = [Started(tool.mode) EXCEPT !.at = "idle", !.said = word]
  BY DEF Say
<1>4. tool' \in Tool
  BY <1>2, <1>3 DEF Tool, Words
<1>5. tool'.at = "idle" /\ tool'.mode = tool.mode /\ tool'.said = word
  BY <1>2, <1>3 DEF Tool
<1>6. QED
  BY <1>4, <1>5

SameFields(s, t) ==
    /\ s.mode = t.mode /\ s.matches = t.matches /\ s.evidence = t.evidence
    /\ s.preflight = t.preflight /\ s.copied = t.copied /\ s.next = t.next
    /\ s.said = t.said

Parts == {"idle", "audit", "compare", "fingerprint", "preflight", "connect", "copy",
          "check", "realign", "commit"}

LEMMA ThenFacts ==
    ASSUME NEW s \in Tool, NEW part \in Parts
    PROVE  /\ Then(s, part) \in Tool
           /\ SameFields(Then(s, part), s)
           /\ tool.table = "shots" => Then(s, part).at = s.at /\ Then(s, part).table = "media"
           /\ tool.table # "shots" => Then(s, part).at = part /\ Then(s, part).table = "shots"
<1>1. CASE tool.table = "shots"
  <2>1. Then(s, part) = [s EXCEPT !.table = "media"]
    BY <1>1 DEF Then
  <2>2. [s EXCEPT !.table = "media"] \in Tool
    BY DEF Tool, Tables
  <2>3. SameFields([s EXCEPT !.table = "media"], s)
    BY DEF Tool, SameFields
  <2>4. [s EXCEPT !.table = "media"].at = s.at /\ [s EXCEPT !.table = "media"].table = "media"
    BY DEF Tool
  <2>5. QED
    BY <1>1, <2>1, <2>2, <2>3, <2>4
<1>2. CASE tool.table # "shots"
  <2>1. Then(s, part) = [s EXCEPT !.table = "shots", !.at = part]
    BY <1>2 DEF Then
  <2>2. [s EXCEPT !.table = "shots", !.at = part] \in Tool
    BY DEF Tool, Tables, Parts
  <2>3. SameFields([s EXCEPT !.table = "shots", !.at = part], s)
    BY DEF Tool, SameFields
  <2>4. /\ [s EXCEPT !.table = "shots", !.at = part].at = part
        /\ [s EXCEPT !.table = "shots", !.at = part].table = "shots"
    BY DEF Tool
  <2>5. QED
    BY <1>2, <2>1, <2>2, <2>3, <2>4
<1>3. QED
  BY <1>1, <1>2

\* A step of a command that leaves the databases and the verdict of the gate
\* alone.
LEMMA ReadStep ==
    ASSUME IInv, tool' \in Tool, tool'.mode = tool.mode,
           UNCHANGED <<Else, target, ready>>,
           PartsOK', ReadsHold',
           tool'.mode = "import" /\ tool'.at \in {"copy"} \cup Copied => ~target.exists,
           Announced => /\ tool'.said \notin {"blocked", "refused"}
                        /\ tool'.at = "fingerprint" => tool'.matches
    PROVE  IInv'
<1>1. /\ UNCHANGED <<sqlite, backup, env, service, writes, runs, quiet, target, ready>>
  BY DEF Else
<1>2. TypeOK' /\ sqlite'.exists
  BY <1>1 DEF IInv, TypeOK
<1>3. TargetOK'
  BY <1>1 DEF IInv, TargetOK
<1>4. ReadyOK'
  BY <1>1 DEF IInv, ReadyOK, Announced
<1>5. QED
  BY <1>2, <1>3, <1>4 DEF IInv

\* The command ends.
LEMMA SayStep ==
    ASSUME IInv, NEW word \in Words, Say(word), UNCHANGED <<Else, target, ready>>,
           Announced => word \notin {"blocked", "refused"}
    PROVE  IInv'
<1>1. tool' \in Tool /\ tool'.at = "idle" /\ tool'.mode = tool.mode /\ tool'.said = word
  BY SayFacts DEF IInv, TypeOK
<1>2. PartsOK' /\ ReadsHold'
  BY <1>1 DEF PartsOK, ReadsHold, Copied, Compared
<1>3. QED
  BY <1>1, <1>2, ReadStep DEF Copied

\* The parts of Unwritten do not change within a command.
LEMMA UnwrittenSame ==
    ASSUME UNCHANGED <<Else, target, ready>>, tool'.mode = tool.mode
    PROVE  (Unwritten' <=> Unwritten) /\ (Announced' <=> Announced)
BY DEF Else, Unwritten, Announced

LEMMA CountsFacts ==
    ASSUME IInv, NEW t \in Tables
    PROVE  /\ Counts(sqlite.rows) \in [Tables -> 0..MaxId]
           /\ Counts(sqlite.rows)[t] \in 0..MaxId
<1>1. sqlite.rows \in Rows
  BY DEF IInv, TypeOK, Database
<1>2. QED
  BY <1>1, CountsType

\* Two functions on the tables are equal if they agree on both.
LEMMA TablesExt ==
    ASSUME NEW S, NEW f \in [Tables -> S], NEW g \in [Tables -> S],
           f["shots"] = g["shots"], f["media"] = g["media"]
    PROVE  f = g
BY DEF Tables

LEMMA AuditStep == ASSUME IInv, Audit PROVE IInv'
<1> DEFINE counts == Counts(sqlite.rows)
           s == [tool EXCEPT !.evidence[tool.table] = counts[tool.table]]
<1>1. tool \in Tool /\ tool.table \in Tables /\ tool.evidence \in [Tables -> 0..MaxId]
  BY DEF IInv, TypeOK, Tool
<1>2. counts \in [Tables -> 0..MaxId]
  BY <1>1, CountsFacts
<1>3. s \in Tool /\ s.evidence = [tool.evidence EXCEPT ![tool.table] = counts[tool.table]]
  BY <1>1, <1>2 DEF Tool
<1>4. /\ s.at = tool.at /\ s.mode = tool.mode /\ s.matches = tool.matches
      /\ s.copied = tool.copied /\ s.said = tool.said
  BY <1>1 DEF Tool
<1>5. tool' = Then(s, "compare") /\ tool.at = "audit" /\ UNCHANGED <<Else, target, ready>>
  BY DEF Audit
<1>6. /\ tool' \in Tool /\ SameFields(tool', s)
      /\ tool.table = "shots" => tool'.at = "audit" /\ tool'.table = "media"
      /\ tool.table # "shots" => tool'.at = "compare" /\ tool'.table = "shots"
  BY <1>3, <1>4, <1>5, ThenFacts DEF Parts
<1>7. /\ tool'.copied = NoRows /\ tool'.matches
      /\ tool'.mode = tool.mode /\ tool'.evidence = s.evidence
  BY <1>4, <1>5, <1>6 DEF SameFields, IInv, PartsOK
<1>8. PartsOK'
  BY <1>6, <1>7 DEF PartsOK, Copied, Compared
<1>9. ReadsHold'
  <2> SUFFICES ASSUME Unwritten' PROVE ReadsHold'
    BY DEF ReadsHold
  <2>1. Unwritten /\ sqlite' = sqlite
    BY <1>5, <1>7, UnwrittenSame DEF Else
  <2>2. CASE tool.table = "shots"
    <3>1. tool'.evidence["shots"] = counts["shots"]
      BY <1>1, <1>3, <1>7, <2>2
    <3>2. QED
      BY <1>6, <2>1, <2>2, <3>1 DEF ReadsHold, Copied, Compared
  <2>3. CASE tool.table = "media"
    <3>1. tool.evidence["shots"] = counts["shots"]
      BY <1>5, <2>1, <2>3 DEF IInv, ReadsHold
    <3>2. tool'.evidence \in [Tables -> 0..MaxId]
      BY <1>3, <1>7 DEF Tool
    <3>3. tool'.evidence["shots"] = counts["shots"] /\ tool'.evidence["media"] = counts["media"]
      BY <1>1, <1>3, <1>7, <2>3, <3>1 DEF Tables
    <3>4. tool'.evidence = counts
      BY <1>2, <3>2, <3>3, TablesExt
    <3>5. QED
      BY <1>6, <2>1, <2>3, <3>4 DEF ReadsHold, Copied, Compared
  <2>4. QED
    BY <1>1, <2>2, <2>3 DEF Tables
<1>10. Announced => tool'.said \notin {"blocked", "refused"}
  BY <1>4, <1>6 DEF SameFields, IInv, ReadyOK
<1>11. QED
  BY <1>5, <1>6, <1>7, <1>8, <1>9, <1>10, ReadStep DEF Copied

LEMMA CompareStep == ASSUME IInv, Compare PROVE IInv'
<1>1. tool.at = "compare" /\ UNCHANGED <<Else, target, ready>> /\ tool \in Tool
  BY DEF Compare, IInv, TypeOK
<1>2. CASE ~backup.exists
  BY <1>1, <1>2, SayStep DEF Compare, Words
<1>3. CASE backup.exists /\ Counts(backup.rows) # tool.evidence
  <2>1. ~Announced
    BY <1>1, <1>3 DEF IInv, ReadyOK, ReadsHold, Announced, Unwritten
  <2>2. QED
    BY <1>1, <1>3, <2>1, SayStep DEF Compare, Words
<1>4. CASE backup.exists /\ Counts(backup.rows) = tool.evidence
  <2>1. tool' = [tool EXCEPT !.at = "fingerprint"]
    BY <1>4 DEF Compare
  <2>2. /\ tool' \in Tool /\ tool'.at = "fingerprint" /\ tool'.table = tool.table
        /\ SameFields(tool', tool)
    BY <1>1, <2>1 DEF Tool, SameFields
  <2>3. tool.table = "shots" /\ tool.copied = NoRows
    BY <1>1 DEF IInv, PartsOK
  <2>4. PartsOK'
    BY <1>1, <1>4, <2>2, <2>3 DEF PartsOK, Copied, Compared, SameFields, Else
  <2>5. ReadsHold'
    BY <1>1, <2>2, <2>3, UnwrittenSame
       DEF IInv, ReadsHold, Copied, Compared, SameFields, Else
  <2>6. Announced => tool'.said \notin {"blocked", "refused"} /\ tool'.matches
    <3>1. tool.matches
      BY <1>1 DEF IInv, PartsOK
    <3>2. QED
      BY <2>2, <3>1 DEF SameFields, IInv, ReadyOK
  <2>7. QED
    BY <1>1, <2>2, <2>4, <2>5, <2>6, ReadStep DEF SameFields, Copied
<1>5. QED
  BY <1>2, <1>3, <1>4

\* Rows are equal if they agree on both tables.
LEMMA RowsExt ==
    ASSUME NEW r \in Rows, NEW s \in Rows, r["shots"] = s["shots"], r["media"] = s["media"]
    PROVE  r = s
BY DEF Rows

LEMMA FingerprintStep == ASSUME IInv, Fingerprint PROVE IInv'
<1> DEFINE t == tool.table
           same == tool.matches /\ sqlite.rows[t] = backup.rows[t]
           s == [tool EXCEPT !.matches = same]
<1>1. /\ tool.at = "fingerprint" /\ UNCHANGED <<Else, target, ready>>
      /\ tool \in Tool /\ t \in Tables /\ tool.matches \in BOOLEAN
      /\ sqlite.rows \in Rows /\ backup.rows \in Rows
  BY DEF Fingerprint, IInv, TypeOK, Tool, Database
<1>2. CASE t = "media" /\ ~same
  <2>1. Say("blocked")
    BY <1>2 DEF Fingerprint
  <2>2. ~Announced
    BY <1>1, <1>2 DEF IInv, ReadyOK, Announced
  <2>3. QED
    BY <1>1, <2>1, <2>2, SayStep DEF Words
<1>3. CASE ~(t = "media" /\ ~same)
  <2>1. tool' = Then(s, Verified)
    BY <1>3 DEF Fingerprint
  <2>2. /\ s \in Tool /\ s.matches = same /\ s.at = tool.at /\ s.mode = tool.mode
        /\ s.evidence = tool.evidence /\ s.copied = tool.copied /\ s.said = tool.said
    BY <1>1 DEF Tool
  <2>3. Verified \in {"preflight", "connect"} /\ Verified \in Parts
    BY DEF Verified, Parts
  <2>4. /\ tool' \in Tool /\ SameFields(tool', s)
        /\ t = "shots" => tool'.at = "fingerprint" /\ tool'.table = "media"
        /\ t # "shots" => tool'.at = Verified /\ tool'.table = "shots"
    BY <1>1, <2>1, <2>2, <2>3, ThenFacts
  <2>5. /\ tool'.mode = tool.mode /\ tool'.evidence = tool.evidence
        /\ tool'.copied = tool.copied /\ tool'.said = tool.said /\ tool'.matches = same
    BY <2>2, <2>4 DEF SameFields
  <2>6. backup.exists /\ tool.copied = NoRows
    BY <1>1 DEF IInv, PartsOK
  <2>7. PartsOK'
    BY <1>1, <2>3, <2>4, <2>5, <2>6 DEF PartsOK, Copied, Compared, Else
  <2>8. ReadsHold'
    <3> SUFFICES ASSUME Unwritten' PROVE ReadsHold'
      BY DEF ReadsHold
    <3>1. Unwritten /\ sqlite' = sqlite /\ backup' = backup
      BY <1>1, <2>5, UnwrittenSame DEF Else
    <3>2. tool'.evidence = Counts(sqlite.rows)
      BY <1>1, <2>5, <3>1 DEF IInv, ReadsHold
    <3>3. CASE t = "shots"
      BY <2>4, <2>5, <3>1, <3>2, <3>3 DEF ReadsHold, Copied, Compared
    <3>4. CASE t = "media"
      <4>1. sqlite.rows["shots"] = backup.rows["shots"]
        BY <1>1, <1>3, <3>1, <3>4 DEF IInv, ReadsHold
      <4>2. backup.rows = sqlite.rows
        BY <1>1, <1>3, <3>4, <4>1, RowsExt
      <4>3. QED
        BY <2>3, <2>4, <3>1, <3>2, <3>4, <4>2 DEF ReadsHold, Copied, Compared
    <3>5. QED
      BY <1>1, <3>3, <3>4 DEF Tables
  <2>9. Announced => tool'.said \notin {"blocked", "refused"} /\ tool'.matches
    BY <1>1, <2>5 DEF IInv, ReadyOK, Announced
  <2>10. QED
    BY <1>1, <2>3, <2>4, <2>5, <2>7, <2>8, <2>9, ReadStep DEF Copied
<1>4. QED
  BY <1>2, <1>3

LEMMA PreflightStep == ASSUME IInv, Preflight PROVE IInv'
<1> DEFINE counts == Counts(sqlite.rows)
           s == [tool EXCEPT !.preflight[tool.table] = counts[tool.table]]
<1>1. /\ tool.at = "preflight" /\ UNCHANGED <<Else, target, ready>>
      /\ tool \in Tool /\ tool.table \in Tables /\ tool.preflight \in [Tables -> 0..MaxId]
  BY DEF Preflight, IInv, TypeOK, Tool
<1>2. counts \in [Tables -> 0..MaxId]
  BY <1>1, CountsFacts
<1>3. /\ s \in Tool /\ s.at = tool.at /\ s.mode = tool.mode /\ s.matches = tool.matches
      /\ s.evidence = tool.evidence /\ s.copied = tool.copied /\ s.said = tool.said
  BY <1>1, <1>2 DEF Tool
<1>4. tool' = Then(s, "connect")
  BY DEF Preflight
<1>5. /\ tool' \in Tool /\ SameFields(tool', s)
      /\ tool.table = "shots" => tool'.at = "preflight" /\ tool'.table = "media"
      /\ tool.table # "shots" => tool'.at = "connect" /\ tool'.table = "shots"
  BY <1>1, <1>3, <1>4, ThenFacts DEF Parts
<1>6. /\ tool'.mode = tool.mode /\ tool'.evidence = tool.evidence
      /\ tool'.copied = tool.copied /\ tool'.said = tool.said
  BY <1>3, <1>5 DEF SameFields
<1>7. PartsOK'
  BY <1>1, <1>5, <1>6 DEF IInv, PartsOK, Copied, Compared, Else
<1>8. ReadsHold'
  BY <1>1, <1>5, <1>6, UnwrittenSame DEF IInv, ReadsHold, Copied, Compared, Else
<1>9. Announced => tool'.said \notin {"blocked", "refused"}
  BY <1>6 DEF IInv, ReadyOK
<1>10. QED
  BY <1>1, <1>5, <1>6, <1>7, <1>8, <1>9, ReadStep DEF Copied

LEMMA ConnectStep == ASSUME IInv, Connect PROVE IInv'
<1>1. tool.at = "connect" /\ UNCHANGED <<Else, target, ready>> /\ tool \in Tool
  BY DEF Connect, IInv, TypeOK
<1>2. CASE tool.mode = "import" /\ target.exists
  BY <1>1, <1>2, SayStep DEF Connect, Words
<1>3. CASE ~(tool.mode = "import" /\ target.exists)
  <2>1. tool' = [tool EXCEPT !.at = "copy"]
    BY <1>3 DEF Connect
  <2>2. /\ tool' \in Tool /\ tool'.at = "copy" /\ tool'.table = tool.table
        /\ SameFields(tool', tool)
    BY <1>1, <2>1 DEF Tool, SameFields
  <2>3. tool.table = "shots" /\ tool.copied = NoRows /\ backup.exists
    BY <1>1 DEF IInv, PartsOK, Compared
  <2>4. PartsOK'
    BY <1>1, <2>2, <2>3 DEF PartsOK, Copied, Compared, SameFields, Else
  <2>5. ReadsHold'
    BY <1>1, <2>2, <2>3, UnwrittenSame
       DEF IInv, ReadsHold, Copied, Compared, SameFields, Else
  <2>6. Announced => tool'.said \notin {"blocked", "refused"}
    BY <2>2 DEF SameFields, IInv, ReadyOK
  <2>7. QED
    BY <1>1, <1>3, <2>2, <2>4, <2>5, <2>6, ReadStep DEF SameFields
<1>4. QED
  BY <1>2, <1>3

\* No media, no reference.
LEMMA ShotsAreSound ==
    ASSUME NEW rows, NEW shots, rows = [NoRows EXCEPT !["shots"] = shots]
    PROVE  Sound(rows)
<1>1. rows["media"] = NoRows["media"]
  BY DEF NoRows, Tables
<1>2. NoRows["media"] = [i \in Ids |-> 0]
  BY DEF NoRows, Tables
<1>3. Present(rows, "media") = {}
  BY <1>1, <1>2 DEF Present
<1>4. QED
  BY <1>3 DEF Sound

LEMMA CopyStep == ASSUME IInv, Copy PROVE IInv'
<1> DEFINE t == tool.table
           copied == [tool.copied EXCEPT ![t] = sqlite.rows[t]]
           s == [tool EXCEPT !.copied = copied]
<1>1. /\ tool.at = "copy" /\ UNCHANGED <<Else, target, ready>>
      /\ tool \in Tool /\ t \in Tables /\ tool.copied \in Rows /\ sqlite.rows \in Rows
  BY DEF Copy, IInv, TypeOK, Tool, Database
<1>2. copied \in Rows
  <2>1. CASE t = "shots"
    <3>1. copied = [shots |-> sqlite.rows["shots"], media |-> tool.copied["media"]]
      BY <1>1, <2>1 DEF Rows
    <3>2. QED
      BY <1>1, <3>1 DEF Rows
  <2>2. CASE t = "media"
    <3>1. copied = [shots |-> tool.copied["shots"], media |-> sqlite.rows["media"]]
      BY <1>1, <2>2 DEF Rows
    <3>2. QED
      BY <1>1, <3>1 DEF Rows
  <2>3. QED
    BY <1>1, <2>1, <2>2 DEF Tables
<1>3. Unwritten /\ t = "media" => copied = sqlite.rows
  <2> SUFFICES ASSUME Unwritten, t = "media" PROVE copied = sqlite.rows
    OBVIOUS
  <2>1. tool.copied["shots"] = sqlite.rows["shots"]
    BY <1>1 DEF IInv, ReadsHold
  <2>2. copied["shots"] = sqlite.rows["shots"] /\ copied["media"] = sqlite.rows["media"]
    BY <1>1, <2>1 DEF Rows
  <2>3. QED
    BY <1>1, <1>2, <2>2, RowsExt
<1>4. CASE ~Sound(copied)
  <2>1. Say("refused")
    BY <1>4 DEF Copy
  <2>2. ~Announced
    <3> SUFFICES ASSUME Announced PROVE FALSE
      OBVIOUS
    <3>1. Unwritten /\ Sound(sqlite.rows)
      BY DEF IInv, ReadyOK, Announced, Unwritten
    <3>2. CASE t = "shots"
      BY <1>1, <1>4, <3>2, ShotsAreSound DEF IInv, PartsOK
    <3>3. CASE t = "media"
      BY <1>3, <1>4, <3>1, <3>3
    <3>4. QED
      BY <1>1, <3>2, <3>3 DEF Tables
  <2>3. QED
    BY <1>1, <2>1, <2>2, SayStep DEF Words
<1>5. CASE Sound(copied)
  <2>1. tool' = Then(s, "check")
    BY <1>5 DEF Copy
  <2>2. /\ s \in Tool /\ s.copied = copied /\ s.at = tool.at /\ s.mode = tool.mode
        /\ s.evidence = tool.evidence /\ s.said = tool.said
    BY <1>1, <1>2 DEF Tool
  <2>3. /\ tool' \in Tool /\ SameFields(tool', s)
        /\ t = "shots" => tool'.at = "copy" /\ tool'.table = "media"
        /\ t # "shots" => tool'.at = "check" /\ tool'.table = "shots"
    BY <1>1, <2>1, <2>2, ThenFacts DEF Parts
  <2>4. /\ tool'.mode = tool.mode /\ tool'.evidence = tool.evidence
        /\ tool'.copied = copied /\ tool'.said = tool.said
    BY <2>2, <2>3 DEF SameFields
  <2>5. PartsOK'
    BY <1>1, <1>5, <2>3, <2>4 DEF IInv, PartsOK, Copied, Compared, Else, Tables
  <2>6. ReadsHold'
    <3> SUFFICES ASSUME Unwritten' PROVE ReadsHold'
      BY DEF ReadsHold
    <3>1. Unwritten /\ sqlite' = sqlite /\ backup' = backup
      BY <1>1, <2>4, UnwrittenSame DEF Else
    <3>2. tool'.evidence = Counts(sqlite.rows) /\ backup.rows = sqlite.rows
      BY <1>1, <2>4, <3>1 DEF IInv, ReadsHold, Compared
    <3>3. CASE t = "shots"
      <4>1. copied["shots"] = sqlite.rows["shots"]
        BY <1>1, <3>3 DEF Rows
      <4>2. QED
        BY <2>3, <2>4, <3>1, <3>2, <3>3, <4>1 DEF ReadsHold, Copied, Compared
    <3>4. CASE t = "media"
      BY <1>3, <2>3, <2>4, <3>1, <3>2, <3>4 DEF ReadsHold, Copied, Compared
    <3>5. QED
      BY <1>1, <3>3, <3>4 DEF Tables
  <2>7. Announced => tool'.said \notin {"blocked", "refused"}
    BY <2>4 DEF IInv, ReadyOK
  <2>8. tool.mode = "import" => ~target.exists
    BY <1>1 DEF IInv, TargetOK
  <2>9. QED
    BY <1>1, <2>3, <2>4, <2>5, <2>6, <2>7, <2>8, ReadStep DEF Copied, Tables
<1>6. QED
  BY <1>4, <1>5

LEMMA CheckStep == ASSUME IInv, Check PROVE IInv'
<1> DEFINE counts == Counts(tool.copied)
<1>1. /\ tool.at = "check" /\ UNCHANGED <<Else, target>> /\ tool \in Tool
      /\ tool.mode \in {"gate", "import"}
  BY DEF Check, IInv, TypeOK, Tool
<1>2. CASE /\ tool.mode = "gate" /\ counts = tool.preflight
           /\ Say(IF tool.evidence = tool.preflight THEN "ready" ELSE "blocked")
           /\ ready' = (tool.evidence = tool.preflight)
  <2> DEFINE word == IF tool.evidence = tool.preflight THEN "ready" ELSE "blocked"
  <2>1. word \in Words /\ Say(word)
    BY <1>2 DEF Words
  <2>2. tool' \in Tool /\ tool'.at = "idle" /\ tool'.mode = "gate"
    BY <1>1, <1>2, <2>1, SayFacts
  <2>3. TypeOK' /\ sqlite'.exists
    BY <1>1, <1>2, <2>2 DEF IInv, TypeOK, Else
  <2>4. PartsOK' /\ ReadsHold'
    BY <2>2 DEF PartsOK, ReadsHold, Copied, Compared
  <2>5. TargetOK'
    BY <1>1, <2>2 DEF IInv, TargetOK, Else
  <2>6. "gate" \in quiet => backup.exists /\ backup.rows = sqlite.rows /\ Sound(sqlite.rows)
    BY <1>1, <1>2 DEF IInv, PartsOK, ReadsHold, Unwritten, Copied, Compared
  <2>7. ReadyOK'
    BY <1>1, <2>2, <2>6 DEF ReadyOK, Announced, Else
  <2>8. QED
    BY <2>3, <2>4, <2>5, <2>7 DEF IInv
<1>3. CASE /\ tool.mode = "import" /\ counts = tool.evidence
           /\ tool' = [tool EXCEPT !.at = "realign"] /\ UNCHANGED ready
  <2>1. /\ tool' \in Tool /\ tool'.at = "realign" /\ tool'.table = tool.table
        /\ SameFields(tool', tool)
    BY <1>1, <1>3 DEF Tool, SameFields
  <2>2. UNCHANGED <<Else, target, ready>>
    BY <1>1, <1>3
  <2>3. tool.table = "shots" /\ Sound(tool.copied) /\ backup.exists
    BY <1>1 DEF IInv, PartsOK, Copied, Compared
  <2>4. PartsOK'
    BY <1>1, <1>3, <2>1, <2>3 DEF PartsOK, Copied, Compared, SameFields, Else
  <2>5. ReadsHold'
    BY <1>1, <2>1, <2>2, UnwrittenSame
       DEF IInv, ReadsHold, Copied, Compared, SameFields, Else
  <2>6. Announced => tool'.said \notin {"blocked", "refused"}
    BY <2>1 DEF SameFields, IInv, ReadyOK
  <2>7. tool.mode = "import" => ~target.exists
    BY <1>1 DEF IInv, TargetOK, Copied
  <2>8. QED
    BY <2>1, <2>2, <2>4, <2>5, <2>6, <2>7, ReadStep DEF SameFields
<1>4. CASE /\ counts # (IF tool.mode = "gate" THEN tool.preflight ELSE tool.evidence)
           /\ Say("refused") /\ UNCHANGED ready
  <2>1. ~Announced
    BY <1>1, <1>4 DEF IInv, ReadsHold, Announced, Unwritten, Copied, Compared
  <2>2. UNCHANGED <<Else, target, ready>>
    BY <1>1, <1>4
  <2>3. QED
    BY <1>4, <2>1, <2>2, SayStep DEF Words
<1>5. QED
  BY <1>2, <1>3, <1>4 DEF Check

\* The sequences are set past the ids that were copied.
LEMMA RealignedNext ==
    ASSUME NEW rows \in Rows, NEW next,
           next = [t \in Tables |-> 1 + Max(Present(rows, t) \cup {0})]
    PROVE  next \in [Tables -> 1..MaxId + 1] /\ BelowNext(rows, next)
<1>1. ASSUME NEW t \in Tables
      PROVE  next[t] \in 1..MaxId + 1 /\ \A i \in Present(rows, t) : i < next[t]
  <2> DEFINE ids == Present(rows, t) \cup {0}
  <2>1. ids \in SUBSET (0..MaxId) /\ ids # {}
    BY BoundsAssumption DEF Present, Ids
  <2>2. Max(ids) \in ids /\ \A i \in ids : i <= Max(ids)
    BY <2>1, MaxIsLargest, BoundsAssumption
  <2>3. next[t] = 1 + Max(ids) /\ Max(ids) \in 0..MaxId
    BY <2>1, <2>2
  <2>4. \A i \in ids : i \in 0..MaxId
    BY <2>1
  <2>5. QED
    BY <2>2, <2>3, <2>4, BoundsAssumption
<1>2. QED
  BY <1>1 DEF BelowNext

LEMMA RealignStep == ASSUME IInv, Realign PROVE IInv'
<1> DEFINE next == [t \in Tables |-> 1 + Max(Present(tool.copied, t) \cup {0})]
<1>1. /\ tool.at = "realign" /\ UNCHANGED <<Else, target, ready>>
      /\ tool \in Tool /\ tool.copied \in Rows
  BY DEF Realign, IInv, TypeOK, Tool
<1>2. next \in [Tables -> 1..MaxId + 1] /\ BelowNext(tool.copied, next)
  BY <1>1, RealignedNext
<1>3. tool' = [tool EXCEPT !.at = "commit", !.next = next]
  BY DEF Realign
<1>4. /\ tool' \in Tool /\ tool'.at = "commit" /\ tool'.next = next
      /\ tool'.table = tool.table /\ tool'.mode = tool.mode /\ tool'.copied = tool.copied
      /\ tool'.evidence = tool.evidence /\ tool'.said = tool.said
  <2> HIDE DEF next
  <2>1. QED
    BY <1>1, <1>2, <1>3 DEF Tool
<1>5. PartsOK'
  <2>1. /\ tool.table = "shots" /\ tool.mode = "import" /\ backup.exists
        /\ Sound(tool.copied)
    BY <1>1 DEF IInv, PartsOK, Copied, Compared
  <2> HIDE DEF next
  <2>2. QED
    BY <1>1, <1>2, <1>4, <2>1 DEF PartsOK, Copied, Compared, Else
<1>6. ReadsHold'
  BY <1>1, <1>4, UnwrittenSame DEF IInv, ReadsHold, Copied, Compared, Else
<1>7. Announced => tool'.said \notin {"blocked", "refused"}
  BY <1>4 DEF IInv, ReadyOK
<1>8. tool.mode = "import" => ~target.exists
  BY <1>1 DEF IInv, TargetOK, Copied
<1>9. QED
  BY <1>1, <1>4, <1>5, <1>6, <1>7, <1>8, ReadStep

LEMMA CommitStep == ASSUME IInv, Commit PROVE IInv'
<1>1. /\ tool.at = "commit" /\ UNCHANGED <<Else, ready>> /\ tool \in Tool
      /\ target' = [exists |-> TRUE, rows |-> tool.copied, next |-> tool.next]
  BY DEF Commit, IInv, TypeOK
<1>2. PICK word \in {"imported", "failed"} : Say(word)
  BY DEF Commit
<1>3. /\ tool' \in Tool /\ tool'.at = "idle" /\ tool'.mode = tool.mode
      /\ tool'.said \in {"imported", "failed"}
  BY <1>1, <1>2, SayFacts DEF Words
<1>4. target' \in Database
  BY <1>1 DEF Tool, Database
<1>5. TypeOK' /\ sqlite'.exists
  BY <1>1, <1>3, <1>4 DEF IInv, TypeOK, Else
<1>6. PartsOK' /\ ReadsHold'
  BY <1>3 DEF PartsOK, ReadsHold, Copied, Compared
<1>7. TargetOK'
  BY <1>1, <1>3 DEF IInv, PartsOK, TargetOK, Else, Copied
<1>8. ReadyOK'
  BY <1>1, <1>3 DEF IInv, ReadyOK, Announced, Else
<1>9. QED
  BY <1>5, <1>6, <1>7, <1>8 DEF IInv

LEMMA BreakStep == ASSUME IInv, Break PROVE IInv'
BY SayStep DEF Break, Words

LEMMA StartStep ==
    ASSUME IInv, NEW mode \in {"gate", "import"}, Start(mode)
    PROVE  IInv'
<1>1. /\ tool.at = "idle" /\ tool' = Started(mode) /\ runs < MaxRuns /\ runs' = runs + 1
      /\ ready' = (ready /\ mode # "gate")
      /\ quiet' = IF mode = "import" /\ target.exists THEN quiet ELSE quiet \cup {mode}
      /\ UNCHANGED <<sqlite, backup, target, env, service, writes>>
  BY DEF Start
<1>2. /\ tool' \in Tool /\ tool'.at = "audit" /\ tool'.mode = mode /\ tool'.table = "shots"
      /\ tool'.matches /\ tool'.copied = NoRows /\ tool'.said = "nothing"
  BY <1>1, StartedFacts
<1>3. TypeOK' /\ sqlite'.exists
  BY <1>1, <1>2, BoundsAssumption DEF IInv, TypeOK
<1>4. PartsOK' /\ ReadsHold'
  BY <1>2 DEF PartsOK, ReadsHold, Copied, Compared
<1>5. TargetOK'
  BY <1>1, <1>2 DEF IInv, TargetOK, Copied
<1>6. ReadyOK'
  BY <1>1, <1>2 DEF IInv, ReadyOK, Announced
<1>7. QED
  BY <1>3, <1>4, <1>5, <1>6 DEF IInv

\* A write of SQLite, by the service or by its start: nothing is quiet.
LEMMA SqliteChanges ==
    ASSUME IInv, quiet' = {}, sqlite' \in Database, sqlite'.exists,
           UNCHANGED <<backup, target, env, tool, runs, ready>>,
           service' \in {"sqlite", "postgresql", "down"},
           service' = "postgresql" => target.exists,
           writes' \in 0..MaxWrites
    PROVE  IInv'
<1>1. TypeOK'
  BY DEF IInv, TypeOK
<1>2. PartsOK'
  BY DEF IInv, PartsOK
<1>3. ReadsHold' /\ ReadyOK'
  BY DEF ReadsHold, ReadyOK, Unwritten, Announced
<1>4. TargetOK'
  BY DEF IInv, TargetOK
<1>5. QED
  BY <1>1, <1>2, <1>3, <1>4 DEF IInv

LEMMA WriteSqliteStep == ASSUME IInv, WriteSqlite PROVE IInv'
<1>1. sqlite \in Database /\ sqlite' \in Written(sqlite)
  BY DEF IInv, TypeOK, WriteSqlite
<1>2. sqlite' \in Database /\ sqlite'.exists
  BY <1>1, WrittenFacts DEF IInv
<1>3. writes' \in 0..MaxWrites
  BY BoundsAssumption DEF WriteSqlite, IInv, TypeOK
<1>4. QED
  BY <1>2, <1>3, SqliteChanges DEF WriteSqlite

LEMMA WritePostgresStep == ASSUME IInv, WritePostgres PROVE IInv'
<1>1. /\ service = "postgresql" /\ target' \in Written(target) /\ writes < MaxWrites
      /\ writes' = writes + 1
      /\ UNCHANGED <<sqlite, backup, env, service, tool, runs, ready, quiet>>
  BY DEF WritePostgres
<1>2. target \in Database /\ target.exists /\ BelowNext(target.rows, target.next)
  BY <1>1 DEF IInv, TypeOK, TargetOK
<1>3. target' \in Database /\ target'.exists /\ BelowNext(target'.rows, target'.next)
  BY <1>1, <1>2, WrittenFacts
<1>4. TypeOK' /\ sqlite'.exists
  BY <1>1, <1>3, BoundsAssumption DEF IInv, TypeOK
<1>5. PartsOK' /\ ReadsHold' /\ ReadyOK'
  BY <1>1 DEF IInv, PartsOK, ReadsHold, ReadyOK, Unwritten, Announced
<1>6. TargetOK'
  BY <1>1, <1>2, <1>3 DEF IInv, TargetOK
<1>7. QED
  BY <1>4, <1>5, <1>6 DEF IInv

LEMMA SeededFacts ==
    ASSUME NEW db \in Database
    PROVE  Seeded(db) \in Database /\ Seeded(db).exists = db.exists
<1>1. CASE Present(db.rows, "shots") = {} /\ db.next["shots"] <= MaxId
  <2>1. Insert(db, "shots", 1) \in Database /\ Insert(db, "shots", 1).exists = db.exists
    BY <1>1, InsertFacts, BoundsAssumption DEF Tables
  <2>2. QED
    BY <1>1, <2>1 DEF Seeded
<1>2. CASE ~(Present(db.rows, "shots") = {} /\ db.next["shots"] <= MaxId)
  BY <1>2 DEF Seeded
<1>3. QED
  BY <1>1, <1>2

LEMMA RestartStep == ASSUME IInv, Restart PROVE IInv'
<1>1. /\ service' = Chosen /\ UNCHANGED <<backup, target, env, tool, writes, runs, ready>>
      /\ Chosen \in {"sqlite", "postgresql", "down"}
      /\ Chosen = "postgresql" => target.exists
  BY DEF Restart, Chosen, Validated
<1>2. CASE sqlite' = sqlite
  <2>1. quiet' = quiet
    BY <1>2 DEF Restart
  <2>2. TypeOK' /\ sqlite'.exists
    BY <1>1, <1>2, <2>1 DEF IInv, TypeOK
  <2>3. PartsOK' /\ ReadsHold' /\ ReadyOK'
    BY <1>1, <1>2, <2>1 DEF IInv, PartsOK, ReadsHold, ReadyOK, Unwritten, Announced
  <2>4. TargetOK'
    BY <1>1 DEF IInv, TargetOK
  <2>5. QED
    BY <2>2, <2>3, <2>4 DEF IInv
<1>3. CASE sqlite' # sqlite
  <2>1. sqlite' = Seeded(sqlite) /\ quiet' = {}
    BY <1>3 DEF Restart
  <2>2. sqlite' \in Database /\ sqlite'.exists
    BY <2>1, SeededFacts DEF IInv, TypeOK
  <2>3. writes' \in 0..MaxWrites
    BY <1>1 DEF IInv, TypeOK
  <2>4. QED
    BY <1>1, <2>1, <2>2, <2>3, SqliteChanges
<1>4. QED
  BY <1>2, <1>3

LEMMA TakeBackupStep == ASSUME IInv, TakeBackup PROVE IInv'
<1>1. backup' = sqlite /\ UNCHANGED <<sqlite, target, env, service, tool, writes, runs, ready, quiet>>
  BY DEF TakeBackup
<1>2. TypeOK' /\ sqlite'.exists /\ TargetOK'
  BY <1>1 DEF IInv, TypeOK, TargetOK
<1>3. PartsOK' /\ ReadsHold'
  BY <1>1 DEF IInv, PartsOK, ReadsHold, Unwritten, Announced
<1>4. ReadyOK'
  BY <1>1 DEF IInv, ReadyOK, Announced
<1>5. QED
  BY <1>2, <1>3, <1>4 DEF IInv

LEMMA SetEnvironmentStep == ASSUME IInv, SetEnvironment PROVE IInv'
<1>1. UNCHANGED <<sqlite, backup, target, service, tool, writes, runs, ready, quiet>>
      /\ env' \in [url : BOOLEAN, flag : BOOLEAN]
  BY DEF SetEnvironment
<1>2. TypeOK' /\ sqlite'.exists /\ TargetOK'
  BY <1>1 DEF IInv, TypeOK, TargetOK
<1>3. PartsOK' /\ ReadsHold' /\ ReadyOK'
  BY <1>1 DEF IInv, PartsOK, ReadsHold, ReadyOK, Unwritten, Announced
<1>4. QED
  BY <1>2, <1>3 DEF IInv

LEMMA InitIInv == Init => IInv
<1> SUFFICES ASSUME Init PROVE IInv
  OBVIOUS
<1>1. [t \in Tables |-> 1] \in [Tables -> 1..MaxId + 1]
  BY BoundsAssumption
<1>2. Empty \in Database /\ Empty.rows = NoRows
  BY <1>1, NoRowsOK DEF Empty, Database
<1>3. /\ [Empty EXCEPT !.exists = TRUE] \in Database
      /\ [Empty EXCEPT !.exists = TRUE].exists
      /\ [Empty EXCEPT !.exists = TRUE].next["shots"] = 1
  BY <1>2 DEF Database, Empty, Tables
<1>4. sqlite \in Database /\ sqlite.exists
  <2>1. PICK db \in Database : db = [Empty EXCEPT !.exists = TRUE]
    BY <1>3
  <2>2. db.exists
    BY <1>3, <2>1
  <2>3. db.next["shots"] <= MaxId
    BY <1>3, <2>1, BoundsAssumption
  <2>4. Insert(db, "shots", 1) \in Database /\ Insert(db, "shots", 1).exists = db.exists
    BY <2>3, InsertFacts, BoundsAssumption DEF Tables
  <2>5. sqlite = Insert(db, "shots", 1)
    BY <2>1 DEF Init
  <2>6. QED
    BY <2>2, <2>4, <2>5
<1>5. /\ tool \in Tool /\ tool.at = "idle" /\ tool.mode = "gate"
  BY StartedFacts DEF Init, Tool
<1>6. TypeOK
  <2>1. backup \in Database /\ target \in Database
    BY <1>2 DEF Init
  <2>2. env \in [url : BOOLEAN, flag : BOOLEAN]
    BY DEF Init
  <2>3. sqlite \in Database
    BY <1>4
  <2>4. service \in {"sqlite", "postgresql", "down"} /\ ready \in BOOLEAN
    BY DEF Init
  <2>5. writes \in 0..MaxWrites /\ runs \in 0..MaxRuns /\ quiet \subseteq {"gate", "import"}
    BY BoundsAssumption DEF Init
  <2>6. QED
    BY <1>5, <2>1, <2>2, <2>3, <2>4, <2>5 DEF TypeOK
<1>7. PartsOK /\ ReadsHold /\ ReadyOK
  BY <1>5 DEF Init, PartsOK, ReadsHold, ReadyOK, Unwritten, Announced, Copied, Compared
<1>8. TargetOK
  BY <1>2, <1>5, NoRowsOK DEF Init, TargetOK
<1>9. QED
  BY <1>4, <1>6, <1>7, <1>8 DEF IInv

LEMMA StepIInv == IInv /\ [Next]_vars => IInv'
<1> SUFFICES ASSUME IInv, [Next]_vars PROVE IInv'
  OBVIOUS
<1>1. CASE UNCHANGED vars
  <2>1. TypeOK' /\ sqlite'.exists /\ PartsOK'
    BY <1>1 DEF vars, IInv, TypeOK, PartsOK
  <2>2. ReadsHold' /\ TargetOK' /\ ReadyOK'
    BY <1>1 DEF vars, IInv, ReadsHold, TargetOK, ReadyOK, Unwritten, Announced
  <2>3. QED
    BY <2>1, <2>2 DEF IInv
<1>2. CASE WriteSqlite \/ WritePostgres
  BY <1>2, WriteSqliteStep, WritePostgresStep
<1>3. CASE Restart \/ TakeBackup \/ SetEnvironment
  BY <1>3, RestartStep, TakeBackupStep, SetEnvironmentStep
<1>4. CASE \E mode \in {"gate", "import"} : Start(mode)
  BY <1>4, StartStep
<1>5. CASE Step
  <2>1. CASE Audit \/ Compare \/ Fingerprint \/ Preflight \/ Connect
    BY <2>1, AuditStep, CompareStep, FingerprintStep, PreflightStep, ConnectStep
  <2>2. CASE Copy \/ Check \/ Realign \/ Commit \/ Break
    BY <2>2, CopyStep, CheckStep, RealignStep, CommitStep, BreakStep
  <2>3. QED
    BY <1>5, <2>1, <2>2 DEF Step
<1>6. QED
  BY <1>1, <1>2, <1>3, <1>4, <1>5 DEF Next

-----------------------------------------------------------------------------
(* The theorems. *)

\* The invariant holds in every state the commands, the service and the
\* operator can reach.
THEOREM Invariance == Spec => []IInv
BY InitIInv, StepIInv, PTL DEF Spec

\* The databases, the commands and what they remember keep their form.
THEOREM TypeCorrect == Spec => []TypeOK
<1>1. IInv => TypeOK
  BY DEF IInv
<1>2. QED
  BY <1>1, Invariance, PTL

\* build_database_backend and realign_postgres_sequences: the service runs on
\* PostgreSQL only after an import, and no id it gives out is taken.
THEOREM UsableOnPostgres == Spec => []PostgresIsUsable
<1>1. IInv => PostgresIsUsable
  BY DEF IInv, TargetOK, PostgresIsUsable, BelowNext
<1>2. QED
  BY <1>1, Invariance, PTL

\* cutover_readiness and postgres_import_commit: with SQLite at rest the
\* import accepts what the gate accepted.
THEOREM GateIsKept == Spec => []ReadyMeansImportable
<1>1. IInv => ReadyMeansImportable
  BY DEF IInv, ReadyOK, Announced, ReadyMeansImportable
<1>2. QED
  BY <1>1, Invariance, PTL

\* Only a commit and the service change the target.
LEMMA TargetSteps ==
    ASSUME [Next]_vars, target' # target
    PROVE  Commit \/ WritePostgres
<1>1. ~UNCHANGED vars
  BY DEF vars
<1>2. Next
  BY <1>1
<1>3. ~(WriteSqlite \/ Restart \/ TakeBackup \/ SetEnvironment)
  BY DEF WriteSqlite, Restart, TakeBackup, SetEnvironment
<1>4. ~(\E mode \in {"gate", "import"} : Start(mode))
  BY DEF Start
<1>5. ~(Audit \/ Compare \/ Fingerprint \/ Preflight \/ Connect)
  BY DEF Audit, Compare, Fingerprint, Preflight, Connect
<1>6. ~(Copy \/ Check \/ Realign \/ Break)
  BY DEF Copy, Check, Realign, Break
<1>7. QED
  BY <1>2, <1>3, <1>4, <1>5, <1>6 DEF Next, Step

\* commit_verified_import after a lost answer, or a second time by mistake:
\* what is in PostgreSQL stays.
THEOREM ImportsOnce == Spec => ImportNeverOverwrites
<1>1. IInv /\ [Next]_vars => [target.exists /\ target' # target => service = "postgresql"]_vars
  <2> SUFFICES ASSUME IInv, [Next]_vars, target.exists, target' # target
               PROVE  service = "postgresql"
    OBVIOUS
  <2>1. ~Commit
    BY DEF Commit, IInv, PartsOK, TargetOK, Copied
  <2>2. QED
    BY <2>1, TargetSteps DEF WritePostgres
<1>2. QED
  BY <1>1, Invariance, PTL DEF Spec, ImportNeverOverwrites

\* commit_verified_import: what it commits is sound, and it is the verified
\* source if nobody wrote there since it began.
THEOREM ImportsExactly == Spec => ImportIsExact
<1>1. IInv /\ [Next]_vars =>
        [~target.exists /\ target'.exists =>
           /\ Sound(target'.rows)
           /\ "import" \in quiet => target'.rows = sqlite.rows /\ backup.rows = sqlite.rows]_vars
  <2> SUFFICES ASSUME IInv, [Next]_vars, ~target.exists, target'.exists
               PROVE  /\ Sound(target'.rows)
                      /\ "import" \in quiet
                           => target'.rows = sqlite.rows /\ backup.rows = sqlite.rows
    OBVIOUS
  <2>1. target' # target
    OBVIOUS
  <2>2. ~WritePostgres
    BY DEF WritePostgres, IInv, TargetOK
  <2>3. tool.at = "commit" /\ tool.mode = "import" /\ target'.rows = tool.copied
    BY <2>1, <2>2, TargetSteps DEF Commit, IInv, PartsOK
  <2>4. QED
    BY <2>3 DEF IInv, PartsOK, ReadsHold, Unwritten, Copied, Compared
<1>2. QED
  BY <1>1, Invariance, PTL DEF Spec, ImportIsExact

=============================================================================
