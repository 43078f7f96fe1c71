----------------------- MODULE ScreenplayImportProofs -----------------------
(* The theorems about ScreenplayImport.  IInv is about the runs, and needs   *)
(* of the handlers only what they write into one; ScenesInv is about the     *)
(* scenes, the shots and what an approval has looked at.                     *)
EXTENDS ScreenplayImport, TLAPS, FiniteSetTheorems, WellFoundedInduction

Carries(next) ==
    /\ next.at = "edit" => next.breakdown \in Texts
    /\ next.at = "reparse" => next.text \in Texts

HandlersOK ==
    /\ handlers = [h \in Handlers |-> handlers[h]]
    /\ \A h \in Handlers : Carries(handlers[h])

\* OneApprovedRun is inductive once the runs are rows.
IInv ==
    /\ runs \in Seq(Run)
    /\ HandlersOK
    /\ OneApprovedRun

\* A handler goes on to a state that carries what it should.
LEMMA GotoKeepsHandlers ==
    ASSUME HandlersOK, NEW h \in Handlers, NEW next, Carries(next), Goto(h, next)
    PROVE  HandlersOK'
  BY DEF HandlersOK, Goto

\* A run that is not made approved adds no approved run.
LEMMA UpdateKeepsOne ==
    ASSUME runs \in Seq(Run), OneApprovedRun, NEW r, NEW row \in Run,
           \/ row.status # "approved"
           \/ r \in DOMAIN runs /\ row.status = runs[r].status,
           runs' = [runs EXCEPT ![r] = row]
    PROVE  runs' \in Seq(Run) /\ OneApprovedRun'
  <1>1. /\ DOMAIN runs' = DOMAIN runs
        /\ \A q \in DOMAIN runs : runs'[q] = IF q = r THEN row ELSE runs[q]
    OBVIOUS
  <1>2. runs' \in Seq(Run)
    <2>1. DOMAIN runs = 1..Len(runs) /\ Len(runs) \in Nat
      OBVIOUS
    <2>2. \A q \in DOMAIN runs : runs[q] \in Run
      OBVIOUS
    <2>3. runs' \in [1..Len(runs) -> Run]
      BY <1>1, <2>1, <2>2
    <2> QED BY <2>1, <2>3
  <1>3. OneApprovedRun'
    BY <1>1 DEF OneApprovedRun
  <1> QED BY <1>2, <1>3

\* The rows an approval writes are rows.
LEMMA ApproveIsRuns ==
    ASSUME runs \in Seq(Run), NEW r
    PROVE  /\ Approve(r) \in Seq(Run)
           /\ DOMAIN Approve(r) = DOMAIN runs
           /\ \A q \in DOMAIN runs : Approve(r)[q].status = "approved" => q = r
  <1>1. ASSUME NEW q \in DOMAIN runs
        PROVE  /\ [runs[q] EXCEPT !.status = "approved"] \in Run
               /\ [runs[q] EXCEPT !.status = "superseded"] \in Run
               /\ [runs[q] EXCEPT !.status = "superseded"].status = "superseded"
               /\ runs[q] \in Run
    <2>1. runs[q] \in Run
      OBVIOUS
    <2> QED BY <2>1 DEF Run
  <1>2. DOMAIN Approve(r) = DOMAIN runs
    BY DEF Approve
  <1>3. \A q \in DOMAIN runs : Approve(r)[q] \in Run
    BY <1>1 DEF Approve
  <1>4. \A q \in DOMAIN runs : Approve(r)[q].status = "approved" => q = r
    BY <1>1 DEF Approve
  <1>5. DOMAIN runs = 1..Len(runs) /\ Len(runs) \in Nat
    OBVIOUS
  <1>6. Approve(r) \in [1..Len(runs) -> Run]
    BY <1>2, <1>3, <1>5 DEF Approve
  <1> QED BY <1>2, <1>4, <1>5, <1>6

\* The runs and what the handlers carry are right at first.
LEMMA InitEstablishes == Init => IInv
  BY DEF Init, IInv, HandlersOK, Carries, Idle, OneApprovedRun, Run

\* Only Create, the two writes of a preview and the commit write a run.
LEMMA NextPreserves == IInv /\ [Next]_vars => IInv'
  <1> SUFFICES ASSUME IInv, [Next]_vars PROVE IInv'
    OBVIOUS
  <1> USE DEF IInv
  <1>1. CASE UNCHANGED vars
    BY <1>1 DEF vars, HandlersOK, OneApprovedRun
  <1>2. ASSUME NEW h \in Handlers, Preview(h) PROVE IInv'
    <2>1. ASSUME NEW t \in Texts, Create(h, t) PROVE IInv'
      <3> DEFINE row == [status |-> "review_required", breakdown |-> t]
      <3>1. row \in Run /\ row.status # "approved"
        BY DEF Run
      <3>2. /\ runs' \in Seq(Run)
            /\ \A q \in DOMAIN runs' : runs'[q] = row \/ (q \in DOMAIN runs /\ runs'[q] = runs[q])
        BY <2>1, <3>1 DEF Create
      <3>3. OneApprovedRun'
        BY <3>1, <3>2 DEF OneApprovedRun
      <3>4. HandlersOK'
        BY <2>1 DEF Create, HandlersOK
      <3> QED BY <3>2, <3>3, <3>4
    <2>2. ASSUME NEW r \in DOMAIN runs, ReadForEdit(h, r) PROVE IInv'
      <3>1. runs[r].breakdown \in Texts
        <4>1. runs[r] \in Run
          OBVIOUS
        <4> QED BY <4>1 DEF Run
      <3>2. UNCHANGED runs /\ HandlersOK'
        BY <2>2, <3>1, GotoKeepsHandlers DEF ReadForEdit, NoRows, Carries
      <3> QED BY <3>2 DEF OneApprovedRun
    <2>3. ASSUME NEW r \in DOMAIN runs, NEW t \in Texts, ReadForReparse(h, r, t) PROVE IInv'
      <3>1. UNCHANGED runs /\ HandlersOK'
        BY <2>3, GotoKeepsHandlers DEF ReadForReparse, NoRows, Carries
      <3> QED BY <3>1 DEF OneApprovedRun
    <2>4. CASE WriteReparse(h)
      <3> DEFINE row == [status |-> "review_required", breakdown |-> handlers[h].text]
      <3>1. row \in Run /\ row.status # "approved"
        BY <2>4 DEF WriteReparse, HandlersOK, Carries, Run
      <3>2. runs' \in Seq(Run) /\ OneApprovedRun'
        BY <2>4, <3>1, UpdateKeepsOne DEF WriteReparse
      <3>3. HandlersOK'
        BY <2>4, GotoKeepsHandlers DEF WriteReparse, Idle, Carries
      <3> QED BY <3>2, <3>3
    <2>5. CASE WriteEdit(h)
      <3> DEFINE r == handlers[h].run
                 row == [runs[r] EXCEPT !.breakdown = handlers[h].breakdown]
      <3>1. handlers[h].breakdown \in Texts
        BY <2>5 DEF WriteEdit, HandlersOK, Carries
      <3>2. runs' = [runs EXCEPT ![r] = row]
        BY <2>5 DEF WriteEdit
      <3>3. HandlersOK'
        BY <2>5, GotoKeepsHandlers DEF WriteEdit, Idle, Carries
      <3>4. CASE r \in DOMAIN runs
        <4>1. runs[r] \in Run
          BY <3>4
        <4>2. row \in Run /\ row.status = runs[r].status
          BY <3>1, <4>1 DEF Run
        <4>3. runs' \in Seq(Run) /\ OneApprovedRun'
          BY <3>2, <3>4, <4>2, UpdateKeepsOne
        <4> QED BY <3>3, <4>3
      <3>5. CASE r \notin DOMAIN runs
        <4>1. runs' = runs
          BY <3>2, <3>5
        <4> QED BY <3>3, <4>1 DEF OneApprovedRun
      <3> QED BY <3>4, <3>5
    <2> QED BY <1>2, <2>1, <2>2, <2>3, <2>4, <2>5 DEF Preview
  <1>3. ASSUME NEW h \in Handlers, Approval(h) PROVE IInv'
    <2>1. ASSUME NEW r \in DOMAIN runs, NEW confirm \in BOOLEAN, ReadRun(h, r, confirm)
          PROVE  IInv'
      <3>1. UNCHANGED runs /\ HandlersOK'
        BY <2>1, GotoKeepsHandlers DEF ReadRun, NoRows, Carries
      <3> QED BY <3>1 DEF OneApprovedRun
    <2>2. CASE ReadScenes(h)
      <3>1. Carries(Planned(h)) /\ Carries(Idle)
        BY DEF Carries, Planned, Idle
      <3>2. UNCHANGED runs /\ (Goto(h, Planned(h)) \/ Goto(h, Idle))
        BY <2>2 DEF ReadScenes, NoRows
      <3>3. HandlersOK'
        BY <3>1, <3>2, GotoKeepsHandlers
      <3> QED BY <3>2, <3>3 DEF OneApprovedRun
    <2>3. ASSUME NEW s \in SceneIds, CheckShots(h, s) PROVE IInv'
      <3> DEFINE next == [handlers[h] EXCEPT !.left = @ \ {s}]
      <3>1. next.at = handlers[h].at /\ handlers[h].at = "approve"
        BY <2>3 DEF CheckShots
      <3>2. Carries(next) /\ Carries(Idle)
        BY <3>1 DEF Carries, Idle
      <3>3. UNCHANGED runs /\ (Goto(h, next) \/ Goto(h, Idle))
        BY <2>3 DEF CheckShots, NoRows
      <3>4. HandlersOK'
        BY <3>2, <3>3, GotoKeepsHandlers
      <3> QED BY <3>3, <3>4 DEF OneApprovedRun
    <2>4. CASE Commit(h)
      <3>1. HandlersOK'
        BY <2>4, GotoKeepsHandlers DEF Commit, Idle, Carries
      <3>2. runs' = Approve(handlers[h].run) \/ runs' = runs
        BY <2>4 DEF Commit
      <3>3. runs' \in Seq(Run) /\ OneApprovedRun'
        BY <3>2, ApproveIsRuns DEF OneApprovedRun
      <3> QED BY <3>1, <3>3
    <2> QED BY <1>3, <2>1, <2>2, <2>3, <2>4 DEF Approval
  <1>4. ASSUME NEW h \in Handlers, Persist(h) PROVE IInv'
    <2>1. ASSUME NEW t \in Texts, ReadForPersist(h, t) PROVE IInv'
      <3>1. UNCHANGED runs /\ HandlersOK'
        BY <2>1, GotoKeepsHandlers DEF ReadForPersist, NoRows, Carries
      <3> QED BY <3>1 DEF OneApprovedRun
    <2>2. CASE WritePersist(h)
      <3>1. UNCHANGED runs /\ HandlersOK'
        BY <2>2, GotoKeepsHandlers DEF WritePersist, Idle, Carries
      <3> QED BY <3>1 DEF OneApprovedRun
    <2> QED BY <1>4, <2>1, <2>2 DEF Persist
  <1>5. ASSUME NEW h \in Handlers, Manual(h) PROVE IInv'
    <2>1. UNCHANGED <<runs, handlers>>
      BY <1>5 DEF Manual, AddScene, AddShot
    <2> QED BY <2>1 DEF HandlersOK, OneApprovedRun
  <1> QED BY <1>1, <1>2, <1>3, <1>4, <1>5 DEF Next

\* However the approvals, reparses and edits of a project overlap, it never has
\* two approved import runs (commit_breakdown, update_import_run).
THEOREM OneApproved == Spec => []OneApprovedRun
  <1>1. IInv => OneApprovedRun
    BY DEF IInv
  <1> QED BY <1>1, InitEstablishes, NextPreserves, PTL DEF Spec

-----------------------------------------------------------------------------
(* Plans.  A plan pairs each new scene with at most one row, and no row with *)
(* two.                                                                      *)

\* A breakdown is a sequence of scenes with a heading.
LEMMA BreakdownFacts ==
    ASSUME NEW t \in Texts
    PROVE  /\ Len(Breakdown[t]) \in Nat
           /\ DOMAIN Breakdown[t] = 1..Len(Breakdown[t])
           /\ IsFiniteSet(DOMAIN Breakdown[t])
           /\ Cardinality(DOMAIN Breakdown[t]) = Len(Breakdown[t])
  <1>1. /\ Len(Breakdown[t]) \in Nat
        /\ DOMAIN Breakdown[t] = 1..Len(Breakdown[t])
    BY BreakdownAssumption
  <1> QED BY <1>1, FS_Interval

\* What SceneRow is, without its sets of sets.
LEMMA SceneRowIs ==
    ASSUME NEW row
    PROVE  row \in SceneRow <=>
           \/ row = Absent
           \/ \E n \in ManualNumbers : row = Untitled(n)
           \/ \E t \in Texts : \E i \in DOMAIN Breakdown[t] : row = Parsed(t, i)
           \/ \E t \in Texts : \E i \in DOMAIN Breakdown[t] : row = Untitled(i)
  <1> DEFINE parsed(t) == {Parsed(t, i) : i \in DOMAIN Breakdown[t]}
             untitled(t) == {Untitled(i) : i \in DOMAIN Breakdown[t]}
             manual == {Untitled(n) : n \in ManualNumbers}
             allParsed == UNION {parsed(t) : t \in Texts}
             allUntitled == UNION {untitled(t) : t \in Texts}
  <1>1. /\ \A t : row \in parsed(t) <=> \E i \in DOMAIN Breakdown[t] : row = Parsed(t, i)
        /\ \A t : row \in untitled(t) <=> \E i \in DOMAIN Breakdown[t] : row = Untitled(i)
        /\ row \in manual <=> \E n \in ManualNumbers : row = Untitled(n)
    OBVIOUS
  <1>2. SceneRow = {Absent} \cup manual \cup allParsed \cup allUntitled
    BY DEF SceneRow
  <1> HIDE DEF parsed, untitled, manual
  <1>3. /\ row \in allParsed <=> \E t \in Texts : row \in parsed(t)
        /\ row \in allUntitled <=> \E t \in Texts : row \in untitled(t)
    OBVIOUS
  <1> HIDE DEF allParsed, allUntitled
  <1>4. row \in SceneRow <=> \/ row = Absent \/ row \in manual
                             \/ \E t \in Texts : row \in parsed(t)
                             \/ \E t \in Texts : row \in untitled(t)
    BY <1>2, <1>3
  <1> QED BY <1>1, <1>4

\* Every scene of a breakdown makes a row, and rows have numbers.
LEMMA Rows ==
    /\ Absent \in SceneRow
    /\ \A row \in SceneRow : row.number \in Nat
    /\ \A t \in Texts : \A i \in DOMAIN Breakdown[t] :
          /\ Parsed(t, i) \in SceneRow /\ Untitled(i) \in SceneRow
          /\ Parsed(t, i) # Absent /\ Untitled(i) # Absent
          /\ Parsed(t, i).number = i /\ Parsed(t, i).heading = Breakdown[t][i].heading
    /\ \A n \in ManualNumbers : Untitled(n) \in SceneRow /\ Untitled(n) # Absent
  <1>1. /\ \A t \in Texts : \A i \in DOMAIN Breakdown[t] : i \in Nat /\ i # 0
        /\ \A n \in ManualNumbers : n \in Nat /\ n # 0
    <2>1. ASSUME NEW t \in Texts, NEW i \in DOMAIN Breakdown[t] PROVE i \in Nat /\ i # 0
      <3>1. Len(Breakdown[t]) \in Nat /\ i \in 1..Len(Breakdown[t])
        BY BreakdownFacts
      <3> QED BY <3>1
    <2> QED BY <2>1, NumbersAssumption
  <1>2. /\ Absent.number = 0
        /\ \A n : Untitled(n).number = n
        /\ \A t, i : Parsed(t, i).number = i /\ Parsed(t, i).heading = Breakdown[t][i].heading
    BY DEF Absent, Untitled, Parsed
  <1>3. \A row \in SceneRow : row.number \in Nat
    BY <1>1, <1>2, SceneRowIs
  <1>4. /\ \A t \in Texts : \A i \in DOMAIN Breakdown[t] :
               Parsed(t, i) # Absent /\ Untitled(i) # Absent
        /\ \A n \in ManualNumbers : Untitled(n) # Absent
    BY <1>1, <1>2
  <1> QED BY <1>2, <1>3, <1>4, SceneRowIs

\* A set of numbers has a least one.
LEMMA LeastElement ==
    ASSUME NEW S \in SUBSET Nat, S # {}
    PROVE  \E i \in S : \A j \in S : i <= j
  <1>1. PICK d \in S : \A e \in S : ~(<<e, d>> \in OpToRel(<, Nat))
    BY NatLessThanWellFounded, WFMin
  <1>2. \A e \in S : ~(e < d)
    BY <1>1 DEF OpToRel
  <1> QED BY <1>2

\* The lookups of the diff return a row they were made of.
LEMMA FirstIsIn ==
    ASSUME NEW existing \in Snapshot, NEW S \in SUBSET DOMAIN existing, S # {}
    PROVE  First(existing, S) \in S
  <1>1. /\ DOMAIN existing \subseteq Nat
        /\ \A s \in DOMAIN existing : existing[s].number \in Nat
    BY Rows DEF Snapshot, SceneIds
  <1> DEFINE numbers == {existing[s].number : s \in S}
  <1>2. PICK n \in numbers : \A m \in numbers : n <= m
    <2>1. numbers \in SUBSET Nat /\ numbers # {}
      BY <1>1
    <2> QED BY <2>1, LeastElement
  <1> DEFINE lowest == {s \in S : existing[s].number = n}
  <1>3. PICK d \in lowest : \A e \in lowest : d <= e
    <2>1. lowest \in SUBSET Nat /\ lowest # {}
      BY <1>1, <1>2
    <2> QED BY <2>1, LeastElement
  <1>4. \A o \in S \ {d} : \/ existing[d].number < existing[o].number
                           \/ existing[d].number = existing[o].number /\ d < o
    <2> TAKE o \in S \ {d}
    <2>1. existing[d].number = n /\ n <= existing[o].number
      BY <1>2
    <2>2. CASE existing[o].number = n
      BY <1>1, <1>3, <2>1, <2>2
    <2>3. CASE existing[o].number # n
      BY <1>1, <2>1, <2>3
    <2> QED BY <2>2, <2>3
  <1> QED BY <1>4 DEF First

\* A new scene is matched with a row there was, and no two with the same.
LEMMA MatchFacts ==
    ASSUME NEW existing \in Snapshot, NEW t \in Texts
    PROVE  LET match == Matches(existing, Breakdown[t]) IN
           /\ DOMAIN match \subseteq DOMAIN Breakdown[t]
           /\ \A i \in DOMAIN match : match[i] \in DOMAIN existing
           /\ \A i, k \in DOMAIN match : match[i] = match[k] => i = k
  <1> DEFINE new == Breakdown[t]
             byHeading == HeadingMatches(existing, new)
             byNumber == {i \in DOMAIN new \ DOMAIN byHeading :
                            /\ WithNumber(existing, i) # {}
                            /\ First(existing, WithNumber(existing, i)) \notin Range(byHeading)}
             match == Matches(existing, new)
  <1>1. /\ DOMAIN byHeading \subseteq DOMAIN new
        /\ \A i \in DOMAIN byHeading :
              /\ byHeading[i] \in WithHeading(existing, new[i].heading)
              /\ \A j \in 1..i - 1 : new[j].heading # new[i].heading
    <2>1. \A heading : WithHeading(existing, heading) \in SUBSET DOMAIN existing
      BY DEF WithHeading
    <2>2. \A i \in DOMAIN byHeading :
              /\ byHeading[i] = First(existing, WithHeading(existing, new[i].heading))
              /\ WithHeading(existing, new[i].heading) # {}
              /\ \A j \in 1..i - 1 : new[j].heading # new[i].heading
      BY DEF HeadingMatches
    <2>3. DOMAIN byHeading \subseteq DOMAIN new
      BY DEF HeadingMatches
    <2> QED BY <2>1, <2>2, <2>3, FirstIsIn
  <1>2. \A i, k \in DOMAIN byHeading : byHeading[i] = byHeading[k] => i = k
    <2> TAKE i, k \in DOMAIN byHeading
    <2> HAVE byHeading[i] = byHeading[k]
    <2>1. new[i].heading = new[k].heading
      BY <1>1 DEF WithHeading
    <2>2. i \in Nat \ {0} /\ k \in Nat \ {0}
      BY <1>1, BreakdownFacts
    <2>3. ~(i < k) /\ ~(k < i)
      BY <1>1, <2>1, <2>2
    <2> QED BY <2>2, <2>3
  <1>3. \A i \in byNumber : First(existing, WithNumber(existing, i)) \in WithNumber(existing, i)
    <2>1. \A n : WithNumber(existing, n) \in SUBSET DOMAIN existing
      BY DEF WithNumber
    <2> QED BY <2>1, FirstIsIn
  <1>4. /\ DOMAIN match = DOMAIN byHeading \cup byNumber
        /\ \A i \in byNumber : match[i] = First(existing, WithNumber(existing, i))
        /\ \A i \in DOMAIN byHeading : match[i] = byHeading[i]
    BY DEF Matches
  <1>5. \A i, k \in byNumber : match[i] = match[k] => i = k
    <2> TAKE i, k \in byNumber
    <2> HAVE match[i] = match[k]
    <2>1. match[i] \in WithNumber(existing, i) /\ match[k] \in WithNumber(existing, k)
      BY <1>3, <1>4
    <2> HIDE DEF match, byNumber
    <2> QED BY <2>1 DEF WithNumber
  <1>6. \A i \in DOMAIN byHeading, k \in byNumber : match[i] # match[k]
    BY <1>4 DEF Range
  <1>7. \A i \in DOMAIN match : match[i] \in DOMAIN existing
    BY <1>1, <1>3, <1>4 DEF WithHeading, WithNumber
  <1>8. \A i, k \in DOMAIN match : match[i] = match[k] => i = k
    BY <1>2, <1>4, <1>5, <1>6
  <1>9. DOMAIN match \subseteq DOMAIN new
    BY <1>1, <1>4
  <1> QED BY <1>7, <1>8, <1>9

-----------------------------------------------------------------------------
(* What a plan makes of the scenes there are. *)

RowsOK ==
    /\ scenes \in [SceneIds -> SceneRow]
    /\ nextScene \in 1..(MaxScenes + 1)
    /\ \A s \in SceneIds : s >= nextScene => scenes[s] = Absent

\* The rows there are were handed out, and are a snapshot.
LEMMA PresentFacts ==
    ASSUME RowsOK
    PROVE  /\ Present \in SUBSET SceneIds
           /\ \A s \in Present : s \in Nat \ {0} /\ s < nextScene
           /\ Current \in Snapshot
  <1>1. Present \in SUBSET SceneIds /\ \A s \in Present : s \in Nat \ {0} /\ s < nextScene
    BY BoundsAssumption DEF RowsOK, Present, SceneIds
  <1>2. Current \in [Present -> SceneRow]
    BY <1>1 DEF Current, RowsOK
  <1> QED BY <1>1, <1>2 DEF Snapshot

\* The ids of the inserts are new, and each insert has its own.
LEMMA NewIds ==
    ASSUME NEW t \in Texts, NEW A \in SUBSET DOMAIN Breakdown[t], nextScene \in Nat
    PROVE  /\ IsFiniteSet(A) /\ Cardinality(A) \in Nat
           /\ \A i \in A : NewId(A, i) \in nextScene..(nextScene + Cardinality(A) - 1)
           /\ \A i, k \in A : NewId(A, i) = NewId(A, k) => i = k
  <1> DEFINE before(i) == {j \in A : j < i}
  <1>1. IsFiniteSet(A) /\ Cardinality(A) \in Nat /\ A \subseteq Nat
    BY BreakdownFacts, FS_Subset, FS_CardinalityType
  <1>2. \A i \in A : IsFiniteSet(before(i)) /\ Cardinality(before(i)) \in Nat
    BY <1>1, FS_Subset, FS_CardinalityType
  <1>3. ASSUME NEW i \in A PROVE Cardinality(before(i)) < Cardinality(A)
    <2>1. before(i) \in SUBSET A /\ i \notin before(i)
      BY <1>1
    <2>2. Cardinality(before(i)) <= Cardinality(A) /\ Cardinality(A) # Cardinality(before(i))
      BY <1>1, <2>1, FS_Subset
    <2> QED BY <1>1, <1>2, <2>2
  <1>4. ASSUME NEW i \in A, NEW k \in A, i < k
        PROVE  Cardinality(before(i)) < Cardinality(before(k))
    <2>1. before(i) \in SUBSET before(k) /\ i \in before(k) /\ i \notin before(i)
      <3>1. \A j \in A : j < i => j < k
        BY <1>1, <1>4
      <3> QED BY <1>1, <1>4, <3>1
    <2>2. /\ Cardinality(before(i)) <= Cardinality(before(k))
          /\ Cardinality(before(k)) # Cardinality(before(i))
      BY <1>2, <2>1, FS_Subset
    <2>3. Cardinality(before(i)) \in Nat /\ Cardinality(before(k)) \in Nat
      BY <1>2
    <2> HIDE DEF before
    <2> QED BY <2>2, <2>3
  <1>5. \A i \in A : NewId(A, i) = nextScene + Cardinality(before(i))
    BY DEF NewId
  <1> HIDE DEF before
  <1>6. \A i \in A : NewId(A, i) \in nextScene..(nextScene + Cardinality(A) - 1)
    BY <1>1, <1>2, <1>3, <1>5
  <1>7. ASSUME NEW i \in A, NEW k \in A, NewId(A, i) = NewId(A, k) PROVE i = k
    <2>1. Cardinality(before(i)) = Cardinality(before(k))
      BY <1>2, <1>5, <1>7
    <2>2. ~(i < k) /\ ~(k < i)
      BY <1>2, <1>4, <2>1
    <2> QED BY <1>1, <2>2
  <1> QED BY <1>1, <1>6, <1>7

\* The parts of a plan.
LEMMA PlanFacts ==
    ASSUME NEW existing \in Snapshot, NEW t \in Texts
    PROVE  LET plan == Plan(existing, t) IN
           /\ DOMAIN plan.match \subseteq DOMAIN Breakdown[t]
           /\ plan.added = DOMAIN Breakdown[t] \ DOMAIN plan.match
           /\ \A i, k \in DOMAIN plan.match : plan.match[i] = plan.match[k] => i = k
           /\ \A i \in DOMAIN plan.match :
                 /\ plan.match[i] \in DOMAIN existing \ plan.removed
                 /\ plan.match[i] \notin plan.changed => existing[plan.match[i]] = Parsed(t, i)
           /\ plan.removed \subseteq DOMAIN existing
           /\ \A s \in DOMAIN existing : s \in plan.removed \/ \E i \in DOMAIN plan.match : plan.match[i] = s
           /\ \A s \in plan.changed : \E i \in DOMAIN plan.match : plan.match[i] = s
           /\ DOMAIN existing \subseteq SceneIds
  <1> DEFINE new == Breakdown[t]
             match == Matches(existing, new)
             same == {i \in DOMAIN match : SceneContentEqual(existing[match[i]], Parsed(t, i))}
             plan == Plan(existing, t)
  <1>1. /\ plan.match = match
        /\ plan.added = DOMAIN new \ DOMAIN match
        /\ plan.changed = {match[i] : i \in DOMAIN match \ same}
        /\ plan.removed = DOMAIN existing \ Range(match)
    BY DEF Plan
  <1>2. \A i \in DOMAIN match : i \in same => existing[match[i]] = Parsed(t, i)
    BY DEF SceneContentEqual
  <1>3. /\ DOMAIN match \subseteq DOMAIN new
        /\ \A i \in DOMAIN match : match[i] \in DOMAIN existing
        /\ \A i, k \in DOMAIN match : match[i] = match[k] => i = k
    BY MatchFacts
  <1>4. DOMAIN existing \subseteq SceneIds
    BY DEF Snapshot
  <1> HIDE DEF match, same, plan
  <1>5. \A i \in DOMAIN match : match[i] \in Range(match)
    BY DEF Range
  <1>6. \A s \in Range(match) : \E i \in DOMAIN match : match[i] = s
    BY DEF Range
  <1>7. \A i \in DOMAIN plan.match :
            /\ plan.match[i] \in DOMAIN existing \ plan.removed
            /\ plan.match[i] \notin plan.changed => existing[plan.match[i]] = Parsed(t, i)
    BY <1>1, <1>2, <1>3, <1>5
  <1>8. \A s \in DOMAIN existing : s \in plan.removed \/ \E i \in DOMAIN plan.match : plan.match[i] = s
    BY <1>1, <1>6
  <1>9. \A s \in plan.changed : \E i \in DOMAIN plan.match : plan.match[i] = s
    BY <1>1
  <1> QED BY <1>1, <1>3, <1>4, <1>7, <1>8, <1>9 DEF plan

\* Inserts fill new ids, deletes and updates change their rows, and nothing else
\* is touched.
LEMMA AppliedFacts ==
    ASSUME RowsOK, NEW existing \in Snapshot, NEW t \in Texts,
           nextScene + Cardinality(Plan(existing, t).added) <= MaxScenes + 1
    PROVE  LET plan == Plan(existing, t)
               next == Applied(plan, t) IN
           /\ next \in [SceneIds -> SceneRow]
           /\ \A i \in plan.added :
                 /\ NewId(plan.added, i) \in SceneIds \ Present
                 /\ next[NewId(plan.added, i)] = Parsed(t, i)
           /\ \A s \in Present : s \notin plan.removed \cup plan.changed => next[s] = scenes[s]
           /\ \A i \in DOMAIN plan.match :
                 plan.match[i] \in Present \cap plan.changed => next[plan.match[i]] = Parsed(t, i)
           /\ \A s \in SceneIds : next[s] # Absent =>
                 \/ \E i \in plan.added : s = NewId(plan.added, i)
                 \/ s \in Present \ plan.removed
           /\ \A s \in Present \ plan.removed : next[s] # Absent
           /\ \A s \in SceneIds : s >= nextScene + Cardinality(plan.added) => next[s] = Absent
  <1> DEFINE plan == Plan(existing, t)
             next == Applied(plan, t)
             inserted(s) == \E i \in plan.added : s = NewId(plan.added, i)
             matched(s) == CHOOSE i \in DOMAIN plan.match : plan.match[i] = s
  <1>1. /\ DOMAIN next = SceneIds
        /\ \A s \in SceneIds : inserted(s) =>
              next[s] = Parsed(t, CHOOSE i \in plan.added : s = NewId(plan.added, i))
        /\ \A s \in SceneIds : ~inserted(s) =>
              next[s] = IF s \in plan.removed THEN Absent
                        ELSE IF s \in plan.changed \cap Present THEN Parsed(t, matched(s))
                        ELSE scenes[s]
    BY DEF Applied
  <1>2. /\ plan.added \in SUBSET DOMAIN Breakdown[t]
        /\ DOMAIN plan.match \subseteq DOMAIN Breakdown[t]
        /\ \A i, k \in DOMAIN plan.match : plan.match[i] = plan.match[k] => i = k
        /\ \A i \in DOMAIN plan.match : plan.match[i] \notin plan.removed
        /\ \A s \in plan.changed : \E i \in DOMAIN plan.match : plan.match[i] = s
    BY PlanFacts
  <1>3. nextScene \in Nat /\ nextScene > 0 /\ MaxScenes \in Nat
    BY BoundsAssumption DEF RowsOK
  <1>4. /\ Cardinality(plan.added) \in Nat
        /\ \A i \in plan.added :
               NewId(plan.added, i) \in nextScene..(nextScene + Cardinality(plan.added) - 1)
        /\ \A i, k \in plan.added : NewId(plan.added, i) = NewId(plan.added, k) => i = k
    BY <1>2, <1>3, NewIds
  <1>5. /\ Present \in SUBSET SceneIds /\ \A s \in Present : s \in Nat \ {0} /\ s < nextScene
        /\ \A s \in SceneIds \ Present : scenes[s] = Absent
    BY PresentFacts DEF Present
  <1>6. nextScene + Cardinality(plan.added) <= MaxScenes + 1
    OBVIOUS
  <1>7. \A i \in DOMAIN Breakdown[t] : Parsed(t, i) \in SceneRow /\ Parsed(t, i) # Absent
    BY Rows
  <1>8. \A s \in SceneIds : scenes[s] \in SceneRow
    BY DEF RowsOK
  <1>9. \A i \in DOMAIN plan.match : matched(plan.match[i]) = i
    BY <1>2
  <1> HIDE DEF plan, next, inserted, matched
  <1>10. ASSUME NEW i \in plan.added
         PROVE  /\ NewId(plan.added, i) \in SceneIds \ Present
                /\ next[NewId(plan.added, i)] = Parsed(t, i)
    <2>1. NewId(plan.added, i) \in SceneIds /\ NewId(plan.added, i) >= nextScene
      BY <1>3, <1>4, <1>6 DEF SceneIds
    <2>2. inserted(NewId(plan.added, i))
      BY DEF inserted
    <2>3. (CHOOSE k \in plan.added : NewId(plan.added, i) = NewId(plan.added, k)) = i
      BY <1>4
    <2>4. next[NewId(plan.added, i)] = Parsed(t, i)
      BY <1>1, <2>1, <2>2, <2>3
    <2> QED BY <1>3, <1>5, <2>1, <2>4
  <1>11. \A s \in SceneIds : inserted(s) => s \notin Present
    BY <1>10 DEF inserted
  <1>12. \A s \in Present : s \in plan.changed =>
             \E i \in DOMAIN plan.match : plan.match[i] = s /\ matched(s) = i
    BY <1>2, <1>9
  <1>13. \A i \in DOMAIN plan.match :
             plan.match[i] \in Present \cap plan.changed => next[plan.match[i]] = Parsed(t, i)
    BY <1>1, <1>2, <1>5, <1>9, <1>11
  <1>14. \A s \in Present : s \notin plan.removed \cup plan.changed => next[s] = scenes[s]
    BY <1>1, <1>5, <1>11
  <1>15. ASSUME NEW s \in SceneIds
         PROVE  /\ next[s] \in SceneRow
                /\ next[s] # Absent => inserted(s) \/ s \in Present \ plan.removed
                /\ s \in Present \ plan.removed => next[s] # Absent
    <2>1. CASE inserted(s)
      <3>1. PICK i \in plan.added : s = NewId(plan.added, i)
        BY <2>1 DEF inserted
      <3> QED BY <1>2, <1>7, <1>10, <1>11, <2>1, <3>1
    <2>2. CASE ~inserted(s) /\ s \in plan.removed
      BY <1>1, <2>2, Rows
    <2>3. CASE ~inserted(s) /\ s \notin plan.removed /\ s \in plan.changed \cap Present
      <3>1. PICK i \in DOMAIN plan.match : plan.match[i] = s /\ matched(s) = i
        BY <1>12, <2>3
      <3>2. next[s] = Parsed(t, i)
        BY <1>1, <2>3, <3>1
      <3> QED BY <1>2, <1>7, <2>3, <3>2
    <2>4. CASE ~inserted(s) /\ s \notin plan.removed /\ s \notin plan.changed \cap Present
      <3>1. next[s] = scenes[s]
        BY <1>1, <2>4
      <3> QED BY <1>5, <1>8, <2>4, <3>1 DEF Present
    <2> QED BY <2>1, <2>2, <2>3, <2>4
  <1>16. ASSUME NEW s \in SceneIds, s >= nextScene + Cardinality(plan.added)
         PROVE  next[s] = Absent
    <2>1. s \in Nat
      BY <1>3 DEF SceneIds
    <2>2. s \notin Present
      BY <1>3, <1>4, <1>5, <1>16, <2>1
    <2>3. ~inserted(s)
      BY <1>3, <1>4, <1>16, <2>1 DEF inserted
    <2> QED BY <1>15, <2>2, <2>3
  <1>17. next \in [SceneIds -> SceneRow]
    <2>1. next = [s \in SceneIds |-> next[s]]
      BY DEF next, Applied
    <2> QED BY <1>15, <2>1
  <1>18. \A s \in SceneIds : next[s] # Absent =>
             (\E i \in plan.added : s = NewId(plan.added, i)) \/ s \in Present \ plan.removed
    BY <1>15 DEF inserted
  <1>19. \A s \in Present \ plan.removed : next[s] # Absent
    BY <1>5, <1>15
  <1> QED BY <1>10, <1>13, <1>14, <1>16, <1>17, <1>18, <1>19 DEF next, plan

-----------------------------------------------------------------------------
(* The invariant about scenes, shots and what an approval has looked at.     *)

PlanOf(next) == Plan(next.existing, next.breakdown)

\* Without a confirmation there is nothing but inserts in the plan.
Carried(next) ==
    /\ next \in Handler
    /\ next.at = "approve" =>
          /\ next.left \subseteq PlanOf(next).removed
          /\ next.confirm \/ PlanOf(next).changed \cup PlanOf(next).removed = {}

\* A scene that was looked at has only shots that were made later.
Looked(next) ==
    next.at = "approve" =>
        \A s \in PlanOf(next).removed \ next.left : ShotsOf(s) \subseteq unseen

ShotsOK ==
    /\ DOMAIN shots \subseteq Shots
    /\ \A x \in DOMAIN shots : shots[x] \in Present \cup {NoScene}
    /\ unseen \subseteq DOMAIN shots
    /\ OnlyUnseenShotsAreOrphaned

ScenesInv ==
    /\ runs \in Seq(Run) /\ Len(runs) <= MaxRuns
    /\ RowsOK
    /\ ShotsOK
    /\ handlers = [h \in Handlers |-> handlers[h]]
    /\ \A h \in Handlers : Carried(handlers[h]) /\ Looked(handlers[h])

\* What a handler may be, by where it is.
LEMMA HandlerForms ==
    /\ Idle \in Handler
    /\ \A r \in 1..MaxRuns, t \in Texts :
          /\ [at |-> "edit", run |-> r, breakdown |-> t] \in Handler
          /\ [at |-> "reparse", run |-> r, text |-> t] \in Handler
          /\ \A confirm \in BOOLEAN :
                /\ [at |-> "diff", run |-> r, breakdown |-> t, confirm |-> confirm] \in Handler
                /\ \A existing \in Snapshot, left \in SUBSET SceneIds :
                      [at |-> "approve", run |-> r, breakdown |-> t, confirm |-> confirm,
                       existing |-> existing, left |-> left] \in Handler
    /\ \A t \in Texts : [at |-> "persist", text |-> t] \in Handler
  BY DEF Handler

LEMMA HandlerParts ==
    ASSUME NEW next \in Handler
    PROVE  /\ next.at \in {"edit", "reparse"} => next.run \in 1..MaxRuns
           /\ next.at = "edit" => next.breakdown \in Texts
           /\ next.at \in {"reparse", "persist"} => next.text \in Texts
           /\ next.at \in {"diff", "approve"} =>
                 /\ next.run \in 1..MaxRuns /\ next.breakdown \in Texts
                 /\ next.confirm \in BOOLEAN
           /\ next.at = "approve" =>
                 /\ next.existing \in Snapshot /\ next.left \in SUBSET SceneIds
                 /\ next = [at |-> "approve", run |-> next.run, breakdown |-> next.breakdown,
                            confirm |-> next.confirm, existing |-> next.existing,
                            left |-> next.left]
  <1>1. CASE next = Idle
    BY <1>1 DEF Idle
  <1>2. CASE next \in [at : {"edit"}, run : 1..MaxRuns, breakdown : Texts]
    BY <1>2
  <1>3. CASE next \in [at : {"reparse"}, run : 1..MaxRuns, text : Texts]
    BY <1>3
  <1>4. CASE next \in [at : {"diff"}, run : 1..MaxRuns, breakdown : Texts, confirm : BOOLEAN]
    BY <1>4
  <1>5. CASE next \in [at : {"approve"}, run : 1..MaxRuns, breakdown : Texts, confirm : BOOLEAN,
                       existing : Snapshot, left : SUBSET SceneIds]
    BY <1>5
  <1>6. CASE next \in [at : {"persist"}, text : Texts]
    BY <1>6
  <1> QED BY <1>1, <1>2, <1>3, <1>4, <1>5, <1>6 DEF Handler

\* Steps that leave scenes and shots alone.
LEMMA QuietStep ==
    ASSUME ScenesInv, OnlyRuns, runs' \in Seq(Run), Len(runs') <= MaxRuns,
           NEW h \in Handlers, NEW next, Goto(h, next), Carried(next), Looked(next)
    PROVE  ScenesInv'
  <1>1. RowsOK' /\ ShotsOK'
    BY DEF ScenesInv, OnlyRuns, RowsOK, ShotsOK, Present, OnlyUnseenShotsAreOrphaned
  <1>2. /\ handlers' = [k \in Handlers |-> handlers'[k]]
        /\ \A k \in Handlers : handlers'[k] = next \/ handlers'[k] = handlers[k]
    BY DEF ScenesInv, Goto
  <1>3. \A k \in Handlers : Carried(handlers'[k]) /\ Looked(handlers'[k])
    BY <1>2 DEF ScenesInv
  <1>4. \A k \in Handlers : Carried(handlers[k])' /\ Looked(handlers[k])'
    BY <1>3 DEF OnlyRuns, Carried, Looked, ShotsOf
  <1> QED BY <1>1, <1>2, <1>4 DEF ScenesInv

\* Idle handlers have nothing to answer for.
LEMMA IdleHolds == Carried(Idle) /\ Looked(Idle)
  BY HandlerForms DEF Carried, Looked, Idle

\* The writes of scenes and shots keep what the handlers hold.
LEMMA HandlersStay ==
    ASSUME ScenesInv, NEW h \in Handlers, Goto(h, Idle) \/ UNCHANGED handlers,
           \A k \in Handlers : Looked(handlers[k]) => Looked(handlers[k])'
    PROVE  /\ handlers' = [k \in Handlers |-> handlers'[k]]
           /\ \A k \in Handlers : Carried(handlers[k])' /\ Looked(handlers[k])'
  <1>1. /\ handlers' = [k \in Handlers |-> handlers'[k]]
        /\ \A k \in Handlers : handlers'[k] = Idle \/ handlers'[k] = handlers[k]
    BY DEF ScenesInv, Goto
  <1>2. \A k \in Handlers : Carried(handlers'[k])
    BY <1>1, IdleHolds DEF ScenesInv
  <1>3. \A k \in Handlers : Looked(handlers[k])'
    BY DEF ScenesInv
  <1> QED BY <1>1, <1>2, <1>3 DEF Carried

-----------------------------------------------------------------------------
(* Each step. *)

LEMMA SameLength ==
    ASSUME NEW q \in Seq(Run), NEW r \in Seq(Run), DOMAIN q = DOMAIN r
    PROVE  Len(q) = Len(r)
  <1>1. /\ DOMAIN q = 1..Len(q) /\ Len(q) \in Nat
        /\ DOMAIN r = 1..Len(r) /\ Len(r) \in Nat
    OBVIOUS
  <1>2. \A m, n \in Nat : 1..m = 1..n => m = n
    <2> TAKE m, n \in Nat
    <2> HAVE 1..m = 1..n
    <2>1. (m > 0 => m \in 1..n) /\ (n > 0 => n \in 1..m)
      OBVIOUS
    <2> QED BY <2>1
  <1> QED BY <1>1, <1>2

\* The previews.
LEMMA PreviewStep ==
    ASSUME ScenesInv, runs' \in Seq(Run), NEW h \in Handlers, Preview(h)
    PROVE  ScenesInv'
  <1>1. DOMAIN runs = 1..Len(runs) /\ Len(runs) \in Nat /\ Len(runs) <= MaxRuns
    BY DEF ScenesInv
  <1>2. DOMAIN runs \subseteq 1..MaxRuns
    BY <1>1, BoundsAssumption
  <1>3. \A r \in DOMAIN runs : runs[r].breakdown \in Texts
    <2>1. \A r \in DOMAIN runs : runs[r] \in Run
      BY DEF ScenesInv
    <2> QED BY <2>1 DEF Run
  <1>4. ASSUME NEW t \in Texts, Create(h, t) PROVE ScenesInv'
    <2>1. Len(runs') = Len(runs) + 1
      BY <1>4 DEF Create, ScenesInv
    <2>2. Len(runs') <= MaxRuns
      BY <1>1, <1>4, <2>1, BoundsAssumption DEF Create
    <2>3. RowsOK' /\ ShotsOK'
      BY <1>4 DEF Create, ScenesInv, OnlyRuns, RowsOK, ShotsOK, Present,
                  OnlyUnseenShotsAreOrphaned
    <2>4. \A k \in Handlers : Carried(handlers[k])' /\ Looked(handlers[k])'
      BY <1>4 DEF Create, ScenesInv, OnlyRuns, Carried, Looked, ShotsOf
    <2> QED BY <1>4, <2>2, <2>3, <2>4 DEF Create, ScenesInv
  <1>5. ASSUME NEW r \in DOMAIN runs, ReadForEdit(h, r) PROVE ScenesInv'
    <2> DEFINE next == [at |-> "edit", run |-> r, breakdown |-> runs[r].breakdown]
    <2>1. Carried(next) /\ Looked(next)
      BY <1>2, <1>3, HandlerForms DEF Carried, Looked
    <2> QED BY <1>1, <1>5, <2>1, QuietStep DEF ReadForEdit, NoRows
  <1>6. ASSUME NEW r \in DOMAIN runs, NEW t \in Texts, ReadForReparse(h, r, t)
        PROVE  ScenesInv'
    <2> DEFINE next == [at |-> "reparse", run |-> r, text |-> t]
    <2>1. Carried(next) /\ Looked(next)
      BY <1>2, HandlerForms DEF Carried, Looked
    <2> QED BY <1>1, <1>6, <2>1, QuietStep DEF ReadForReparse, NoRows
  <1>7. CASE WriteReparse(h) \/ WriteEdit(h)
    <2>1. DOMAIN runs' = DOMAIN runs
      BY <1>7 DEF WriteReparse, WriteEdit
    <2>2. Len(runs') = Len(runs)
      BY <2>1, SameLength DEF ScenesInv
    <2> QED BY <1>1, <1>7, <2>2, IdleHolds, QuietStep DEF WriteReparse, WriteEdit
  <1> QED BY <1>4, <1>5, <1>6, <1>7 DEF Preview

LEMMA ReadRunStep ==
    ASSUME ScenesInv, NEW h \in Handlers, NEW r \in DOMAIN runs, NEW confirm \in BOOLEAN,
           ReadRun(h, r, confirm)
    PROVE  ScenesInv'
  <1> DEFINE next == [at |-> "diff", run |-> r, breakdown |-> runs[r].breakdown,
                      confirm |-> confirm]
  <1>1. runs \in Seq(Run) /\ Len(runs) <= MaxRuns
    BY DEF ScenesInv
  <1>2. r \in 1..MaxRuns /\ runs[r].breakdown \in Texts
    <2>1. Len(runs) \in Nat /\ r \in 1..Len(runs) /\ runs[r] \in Run
      BY <1>1
    <2> QED BY <1>1, <2>1, BoundsAssumption DEF Run
  <1>3. Carried(next) /\ Looked(next)
    BY <1>2, HandlerForms DEF Carried, Looked
  <1> QED BY <1>1, <1>3, QuietStep DEF ReadRun, NoRows

\* A plan that is made has looked at nothing, and is confirmed or only adds.
LEMMA ReadScenesStep ==
    ASSUME ScenesInv, NEW h \in Handlers, ReadScenes(h)
    PROVE  ScenesInv'
  <1> DEFINE t == handlers[h].breakdown
             plan == Plan(Current, t)
  <1>1. runs \in Seq(Run) /\ Len(runs) <= MaxRuns /\ UNCHANGED runs
    BY DEF ScenesInv, ReadScenes, NoRows
  <1>2. /\ handlers[h].run \in 1..MaxRuns /\ t \in Texts /\ handlers[h].confirm \in BOOLEAN
        /\ Current \in Snapshot
    BY HandlerParts, PresentFacts DEF ScenesInv, Carried, ReadScenes
  <1>3. plan.removed \in SUBSET SceneIds
    BY <1>2, PlanFacts
  <1>4. /\ Planned(h).at = "approve" /\ Planned(h).left = plan.removed
        /\ Planned(h).confirm = handlers[h].confirm
        /\ PlanOf(Planned(h)) = plan
    BY DEF Planned, PlanOf
  <1>5. Planned(h) \in Handler
    BY <1>2, <1>3, HandlerForms DEF Planned
  <1>6. Looked(Planned(h))
    BY <1>4 DEF Looked
  <1>7. CASE handlers[h].confirm \/ plan.changed \cup plan.removed = {}
    <2>1. Carried(Planned(h))
      BY <1>4, <1>5, <1>7 DEF Carried
    <2>2. Goto(h, Planned(h))
      BY <1>7 DEF ReadScenes
    <2> QED BY <1>1, <1>6, <2>1, <2>2, QuietStep DEF ReadScenes, NoRows
  <1>8. CASE ~(handlers[h].confirm \/ plan.changed \cup plan.removed = {})
    <2>1. Goto(h, Idle)
      BY <1>8 DEF ReadScenes
    <2> QED BY <1>1, <2>1, IdleHolds, QuietStep DEF ReadScenes, NoRows
  <1> QED BY <1>7, <1>8

\* A scene that is looked at and let pass has no shots.
LEMMA CheckShotsStep ==
    ASSUME ScenesInv, NEW h \in Handlers, NEW s \in SceneIds, CheckShots(h, s)
    PROVE  ScenesInv'
  <1> DEFINE next == [handlers[h] EXCEPT !.left = @ \ {s}]
  <1>1. runs \in Seq(Run) /\ Len(runs) <= MaxRuns /\ UNCHANGED runs
    BY DEF ScenesInv, CheckShots, NoRows
  <1>2. CASE ShotsOf(s) # {}
    BY <1>1, <1>2, IdleHolds, QuietStep DEF CheckShots, NoRows
  <1>3. CASE ShotsOf(s) = {}
    <2>1. handlers[h].at = "approve" /\ Carried(handlers[h]) /\ Looked(handlers[h])
      BY DEF ScenesInv, CheckShots
    <2>2. /\ handlers[h].run \in 1..MaxRuns /\ handlers[h].breakdown \in Texts
          /\ handlers[h].confirm \in BOOLEAN
          /\ handlers[h].existing \in Snapshot /\ handlers[h].left \in SUBSET SceneIds
          /\ handlers[h] = [at |-> "approve", run |-> handlers[h].run,
                            breakdown |-> handlers[h].breakdown,
                            confirm |-> handlers[h].confirm, existing |-> handlers[h].existing,
                            left |-> handlers[h].left]
      BY <2>1, HandlerParts DEF Carried
    <2>3. next = [at |-> "approve", run |-> handlers[h].run,
                  breakdown |-> handlers[h].breakdown,
                  confirm |-> handlers[h].confirm, existing |-> handlers[h].existing,
                  left |-> handlers[h].left \ {s}]
      BY <2>2
    <2>4. next \in Handler
      <3>1. handlers[h].left \ {s} \in SUBSET SceneIds
        BY <2>2
      <3> HIDE DEF next
      <3> QED BY <2>2, <2>3, <3>1, HandlerForms
    <2>5. /\ next.at = "approve" /\ next.left = handlers[h].left \ {s}
          /\ next.confirm = handlers[h].confirm /\ PlanOf(next) = PlanOf(handlers[h])
      BY <2>3 DEF PlanOf
    <2>6. Carried(next)
      BY <2>1, <2>4, <2>5 DEF Carried
    <2>7. Looked(next)
      BY <1>3, <2>1, <2>5 DEF Looked
    <2>8. Goto(h, next)
      BY <1>3 DEF CheckShots
    <2> QED BY <1>1, <2>6, <2>7, <2>8, QuietStep DEF CheckShots, NoRows
  <1> QED BY <1>2, <1>3

\* The commit deletes only scenes that were looked at.
LEMMA CommitStep ==
    ASSUME ScenesInv, runs' \in Seq(Run), NEW h \in Handlers, Commit(h)
    PROVE  ScenesInv'
  <1> DEFINE t == handlers[h].breakdown
             plan == Plan(handlers[h].existing, t)
  <1>1. runs \in Seq(Run) /\ Len(runs) <= MaxRuns
    BY DEF ScenesInv
  <1>2. CASE UNCHANGED <<scenes, nextScene, shots, runs>>
    BY <1>1, <1>2, IdleHolds, QuietStep DEF Commit, OnlyRuns
  <1>3. CASE /\ nextScene + Cardinality(plan.added) <= MaxScenes + 1
             /\ scenes' = Applied(plan, t)
             /\ nextScene' = nextScene + Cardinality(plan.added)
             /\ shots' = Detached(plan)
             /\ runs' = Approve(handlers[h].run)
    <2>1. t \in Texts /\ handlers[h].existing \in Snapshot
      BY HandlerParts DEF ScenesInv, Carried, Commit
    <2>2. RowsOK /\ nextScene \in Nat /\ MaxScenes \in Nat
      BY BoundsAssumption DEF ScenesInv, RowsOK
    <2>3. plan.added \in SUBSET DOMAIN Breakdown[t] /\ plan.removed \subseteq SceneIds
      BY <2>1, PlanFacts
    <2>4. Cardinality(plan.added) \in Nat
      BY <2>1, <2>2, <2>3, NewIds
    <2>5. /\ scenes' \in [SceneIds -> SceneRow]
          /\ \A s \in Present \ plan.removed : scenes'[s] # Absent
          /\ \A s \in SceneIds : s >= nextScene + Cardinality(plan.added) => scenes'[s] = Absent
      BY <1>3, <2>1, <2>2, AppliedFacts
    <2>6. RowsOK'
      BY <1>3, <2>2, <2>4, <2>5 DEF RowsOK
    <2>7. Len(runs') = Len(runs)
      <3>1. DOMAIN runs' = DOMAIN runs
        BY <1>3 DEF Approve
      <3> QED BY <1>1, <3>1, SameLength
    <2>8. \A s \in plan.removed : ShotsOf(s) \subseteq unseen
      BY DEF Commit, ScenesInv, Looked, PlanOf
    <2>9. /\ UNCHANGED unseen /\ DOMAIN shots' = DOMAIN shots
          /\ \A x \in DOMAIN shots :
                shots'[x] = IF shots[x] \in plan.removed THEN NoScene ELSE shots[x]
      BY <1>3 DEF Commit, Detached
    <2>10. Present \ plan.removed \subseteq Present'
      BY <2>5 DEF Present
    <2>11. ShotsOK'
      <3>1. \A x \in DOMAIN shots : shots'[x] \in Present' \cup {NoScene}
        BY <2>9, <2>10 DEF ScenesInv, ShotsOK
      <3>2. ASSUME NEW x \in DOMAIN shots, shots'[x] = NoScene PROVE x \in unseen
        <4>1. CASE shots[x] \in plan.removed
          BY <2>8, <4>1 DEF ShotsOf
        <4>2. CASE shots[x] \notin plan.removed
          BY <2>9, <3>2, <4>2 DEF ScenesInv, ShotsOK, OnlyUnseenShotsAreOrphaned
        <4> QED BY <4>1, <4>2
      <3> QED BY <2>9, <3>1, <3>2 DEF ScenesInv, ShotsOK, OnlyUnseenShotsAreOrphaned
    <2>12. ASSUME NEW k \in Handlers, Looked(handlers[k]) PROVE Looked(handlers[k])'
      <3>1. CASE handlers'[k] = Idle
        BY <3>1 DEF Looked, Idle
      <3>2. CASE handlers'[k] = handlers[k] /\ handlers[k].at = "approve"
        <4> DEFINE next == handlers[k]
        <4>1. next.existing \in Snapshot /\ next.breakdown \in Texts
          BY <3>2, HandlerParts DEF ScenesInv, Carried
        <4>2. PlanOf(next).removed \subseteq SceneIds
          BY <4>1, PlanFacts DEF PlanOf
        <4>3. NoScene \notin SceneIds
          BY DEF NoScene, SceneIds
        <4>4. \A s \in SceneIds : ShotsOf(s)' \subseteq ShotsOf(s)
          BY <2>9, <4>3 DEF ShotsOf
        <4>5. \A s \in PlanOf(next).removed \ next.left : ShotsOf(s) \subseteq unseen
          BY <2>12, <3>2 DEF Looked
        <4>6. \A s \in PlanOf(next).removed \ next.left : ShotsOf(s)' \subseteq unseen'
          BY <2>9, <4>2, <4>4, <4>5
        <4> QED BY <3>2, <4>6 DEF Looked
      <3>3. CASE handlers'[k] = handlers[k] /\ handlers[k].at # "approve"
        BY <3>3 DEF Looked
      <3> QED BY <3>1, <3>2, <3>3 DEF Commit, Goto, ScenesInv
    <2>13. /\ handlers' = [k \in Handlers |-> handlers'[k]]
           /\ \A k \in Handlers : Carried(handlers[k])' /\ Looked(handlers[k])'
      BY <2>12, HandlersStay DEF Commit
    <2> QED BY <1>1, <2>6, <2>7, <2>11, <2>13 DEF ScenesInv
  <1> QED BY <1>2, <1>3 DEF Commit

\* Rows that are added take no shot from its scene.
LEMMA MoreRows ==
    ASSUME ScenesInv, UNCHANGED <<runs, shots, unseen>>, RowsOK',
           Present \subseteq Present',
           NEW h \in Handlers, Goto(h, Idle) \/ UNCHANGED handlers
    PROVE  ScenesInv'
  <1>1. ShotsOK'
    BY DEF ScenesInv, ShotsOK, OnlyUnseenShotsAreOrphaned
  <1>2. ASSUME NEW k \in Handlers, Looked(handlers[k]) PROVE Looked(handlers[k])'
    <2>1. handlers'[k] = Idle \/ handlers'[k] = handlers[k]
      BY DEF Goto, ScenesInv
    <2>2. Looked(handlers'[k])
      BY <1>2, <2>1, IdleHolds
    <2> QED BY <2>2 DEF Looked, ShotsOf
  <1>3. /\ handlers' = [k \in Handlers |-> handlers'[k]]
        /\ \A k \in Handlers : Carried(handlers[k])' /\ Looked(handlers[k])'
    BY <1>2, HandlersStay
  <1> QED BY <1>1, <1>3 DEF ScenesInv

LEMMA PersistStep ==
    ASSUME ScenesInv, NEW h \in Handlers, Persist(h)
    PROVE  ScenesInv'
  <1>1. ASSUME NEW t \in Texts, ReadForPersist(h, t) PROVE ScenesInv'
    <2> DEFINE next == [at |-> "persist", text |-> t]
    <2>1. Carried(next) /\ Looked(next)
      BY HandlerForms DEF Carried, Looked
    <2>2. runs' \in Seq(Run) /\ Len(runs') <= MaxRuns
      BY <1>1 DEF ReadForPersist, NoRows, ScenesInv
    <2> QED BY <1>1, <2>1, <2>2, QuietStep DEF ReadForPersist, NoRows
  <1>2. CASE WritePersist(h)
    <2> DEFINE t == handlers[h].text
               n == Len(Breakdown[t])
    <2>1. t \in Texts
      BY <1>2, HandlerParts DEF WritePersist, ScenesInv, Carried
    <2>2. /\ n \in Nat /\ DOMAIN Breakdown[t] = 1..n
          /\ nextScene \in Nat \ {0} /\ MaxScenes \in Nat
          /\ nextScene + n <= MaxScenes + 1
      BY <1>2, <2>1, BreakdownFacts, BoundsAssumption DEF WritePersist, ScenesInv, RowsOK
    <2>3. /\ nextScene' = nextScene + n
          /\ scenes' = [s \in SceneIds |->
                           IF s \in nextScene..(nextScene + n - 1)
                           THEN Untitled(s - nextScene + 1) ELSE scenes[s]]
      BY <1>2 DEF WritePersist
    <2>4. \A s \in SceneIds : s \in Nat \ {0}
      BY <2>2 DEF SceneIds
    <2>5. ASSUME NEW s \in SceneIds
          PROVE  /\ scenes'[s] \in SceneRow
                 /\ s >= nextScene + n => scenes'[s] = Absent
                 /\ scenes[s] # Absent => scenes'[s] # Absent
      <3>1. CASE s \in nextScene..(nextScene + n - 1)
        <4>1. s - nextScene + 1 \in DOMAIN Breakdown[t]
          BY <2>2, <2>4, <3>1
        <4>2. scenes'[s] = Untitled(s - nextScene + 1)
          BY <2>3, <3>1
        <4>3. ~(s >= nextScene + n)
          BY <2>2, <2>4, <3>1
        <4> QED BY <2>1, <4>1, <4>2, <4>3, Rows
      <3>2. CASE s \notin nextScene..(nextScene + n - 1)
        <4>1. scenes'[s] = scenes[s]
          BY <2>3, <3>2
        <4>2. s >= nextScene + n => s >= nextScene
          BY <2>2, <2>4
        <4> QED BY <4>1, <4>2 DEF ScenesInv, RowsOK
      <3> QED BY <3>1, <3>2
    <2>6. nextScene' \in 1..(MaxScenes + 1)
      BY <2>2, <2>3
    <2>7. RowsOK'
      BY <2>3, <2>5, <2>6 DEF RowsOK
    <2>8. Present \subseteq Present'
      BY <2>5 DEF Present
    <2> QED BY <1>2, <2>7, <2>8, MoreRows DEF WritePersist
  <1> QED BY <1>1, <1>2 DEF Persist

\* A shot made in a scene an approval has looked at is unseen.
LEMMA ManualStep ==
    ASSUME ScenesInv, NEW h \in Handlers, Manual(h)
    PROVE  ScenesInv'
  <1>1. ASSUME NEW n \in ManualNumbers, AddScene(h, n) PROVE ScenesInv'
    <2>1. nextScene \in Nat \ {0} /\ MaxScenes \in Nat /\ nextScene <= MaxScenes
      BY <1>1, BoundsAssumption DEF AddScene, SceneIds
    <2>2. Untitled(n) \in SceneRow /\ Untitled(n) # Absent
      BY Rows
    <2>3. /\ scenes' \in [SceneIds -> SceneRow]
          /\ \A s \in SceneIds : scenes[s] # Absent => scenes'[s] # Absent
      BY <1>1, <2>2 DEF AddScene, ScenesInv, RowsOK
    <2>4. \A s \in SceneIds : s >= nextScene + 1 => scenes'[s] = Absent
      <3> TAKE s \in SceneIds
      <3> HAVE s >= nextScene + 1
      <3>1. s \in Nat /\ s # nextScene /\ s >= nextScene
        BY <2>1 DEF SceneIds
      <3> QED BY <1>1, <3>1 DEF AddScene, ScenesInv, RowsOK
    <2>5. nextScene' = nextScene + 1 /\ nextScene' \in 1..(MaxScenes + 1)
      BY <1>1, <2>1 DEF AddScene
    <2>6. RowsOK'
      BY <2>3, <2>4, <2>5 DEF RowsOK
    <2>7. Present \subseteq Present'
      BY <2>3 DEF Present
    <2> QED BY <1>1, <2>6, <2>7, MoreRows DEF AddScene
  <1>2. ASSUME NEW x \in Shots, NEW s \in SceneIds, AddShot(h, x, s) PROVE ScenesInv'
    <2>1. /\ s \in Present /\ x \notin DOMAIN shots
          /\ shots' = [y \in DOMAIN shots \cup {x} |-> IF y = x THEN s ELSE shots[y]]
          /\ unseen' = IF \E k \in Handlers : handlers[k].at = "approve"
                                              /\ s \notin handlers[k].left
                       THEN unseen \cup {x} ELSE unseen
          /\ UNCHANGED <<runs, scenes, nextScene, handlers>>
      BY <1>2 DEF AddShot
    <2>2. RowsOK' /\ Present' = Present
      BY <2>1 DEF ScenesInv, RowsOK, Present
    <2>3. s # NoScene
      BY BoundsAssumption DEF SceneIds, NoScene
    <2>4. /\ DOMAIN shots' = DOMAIN shots \cup {x}
          /\ shots'[x] = s /\ \A y \in DOMAIN shots : shots'[y] = shots[y]
          /\ unseen \subseteq unseen' /\ unseen' \subseteq unseen \cup {x}
      BY <2>1
    <2>5. ShotsOK'
      BY <2>1, <2>2, <2>3, <2>4 DEF ScenesInv, ShotsOK, OnlyUnseenShotsAreOrphaned
    <2>6. ASSUME NEW k \in Handlers, handlers[k].at = "approve", Looked(handlers[k]),
                 NEW o \in PlanOf(handlers[k]).removed \ handlers[k].left
          PROVE  ShotsOf(o)' \subseteq unseen'
      <3>1. ShotsOf(o) \subseteq unseen
        BY <2>6 DEF Looked
      <3>2. CASE o = s
        <4>1. x \in unseen'
          BY <2>1, <2>6, <3>2
        <4> QED BY <2>4, <3>1, <4>1 DEF ShotsOf
      <3>3. CASE o # s
        BY <2>4, <3>1, <3>3 DEF ShotsOf
      <3> QED BY <3>2, <3>3
    <2>7. \A k \in Handlers : Looked(handlers[k]) => Looked(handlers[k])'
      BY <2>1, <2>6 DEF Looked
    <2>8. /\ handlers' = [k \in Handlers |-> handlers'[k]]
          /\ \A k \in Handlers : Carried(handlers[k])' /\ Looked(handlers[k])'
      BY <2>1, <2>7, HandlersStay
    <2> QED BY <2>1, <2>2, <2>5, <2>8 DEF ScenesInv
  <1> QED BY <1>1, <1>2 DEF Manual

LEMMA ScenesStart == Init => ScenesInv
  <1> SUFFICES ASSUME Init PROVE ScenesInv
    OBVIOUS
  <1>1. runs \in Seq(Run) /\ Len(runs) <= MaxRuns
    BY BoundsAssumption DEF Init
  <1>2. RowsOK
    BY Rows, BoundsAssumption DEF Init, RowsOK
  <1>3. DOMAIN shots = {}
    BY DEF Init
  <1>4. ShotsOK
    BY <1>3 DEF Init, ShotsOK, OnlyUnseenShotsAreOrphaned
  <1>5. handlers = [h \in Handlers |-> Idle]
    BY DEF Init
  <1> QED BY <1>1, <1>2, <1>4, <1>5, IdleHolds DEF ScenesInv

LEMMA ScenesKeep == ScenesInv /\ IInv' /\ [Next]_vars => ScenesInv'
  <1> SUFFICES ASSUME ScenesInv, IInv', [Next]_vars PROVE ScenesInv'
    OBVIOUS
  <1>1. runs' \in Seq(Run)
    BY DEF IInv
  <1>2. CASE UNCHANGED vars
    BY <1>2 DEF vars, ScenesInv, RowsOK, ShotsOK, Present, OnlyUnseenShotsAreOrphaned,
                Carried, Looked, ShotsOf
  <1>3. ASSUME NEW h \in Handlers, Preview(h) \/ Approval(h) \/ Persist(h) \/ Manual(h)
        PROVE  ScenesInv'
    BY <1>1, <1>3, PreviewStep, ReadRunStep, ReadScenesStep, CheckShotsStep, CommitStep,
       PersistStep, ManualStep DEF Approval
  <1> QED BY <1>2, <1>3 DEF Next

\* The invariant of everything the module says of states.
LEMMA Invariance == Spec => [](IInv /\ ScenesInv)
  BY InitEstablishes, NextPreserves, ScenesStart, ScenesKeep, PTL DEF Spec

\* Runs, scenes, shots and requests keep their form, whatever overlaps.
THEOREM TypeCorrect == Spec => []TypeOK
  <1>1. ScenesInv => TypeOK
    <2> SUFFICES ASSUME ScenesInv PROVE TypeOK
      OBVIOUS
    <2>1. \A r \in DOMAIN runs : runs[r] \in Run
      BY DEF ScenesInv
    <2>2. handlers \in [Handlers -> Handler]
      BY DEF ScenesInv, Carried
    <2> QED BY <2>1, <2>2 DEF TypeOK, ScenesInv, RowsOK, ShotsOK
  <1> QED BY <1>1, Invariance, PTL

\* approve_import_run refuses to remove a scene that has shots: a shot that
\* lost its scene was made after its approval had looked.
THEOREM ShotsKeepScenes == Spec => []OnlyUnseenShotsAreOrphaned
  <1>1. ScenesInv => OnlyUnseenShotsAreOrphaned
    BY DEF ScenesInv, ShotsOK
  <1> QED BY <1>1, Invariance, PTL

-----------------------------------------------------------------------------
(* What a commit does. *)

\* Nothing but the commit of a handler commits for it.
LEMMA CommitsIsCommit ==
    ASSUME ScenesInv, [Next]_vars, NEW h \in Handlers, Commits(h)
    PROVE  LET t == handlers[h].breakdown
               plan == PlanOf(handlers[h]) IN
           /\ t \in Texts /\ handlers[h].existing \in Snapshot
           /\ handlers[h].confirm \/ plan.changed \cup plan.removed = {}
           /\ nextScene + Cardinality(plan.added) <= MaxScenes + 1
           /\ scenes' = Applied(plan, t)
  <1>1. handlers[h].at = "approve" /\ handlers[h] # Idle /\ handlers'[h] = Idle
    BY DEF Commits, Idle
  <1>2. Next
    BY <1>1 DEF vars
  <1>3. Commit(h)
    <2>1. PICK k \in Handlers : Preview(k) \/ Approval(k) \/ Persist(k) \/ Manual(k)
      BY <1>2 DEF Next
    <2>2. \A next : Goto(k, next) => k = h
      BY <1>1 DEF Goto, ScenesInv
    <2>3. ~Preview(k)
      BY <1>1, <2>2 DEF Preview, Create, ReadForEdit, ReadForReparse, WriteReparse, WriteEdit
    <2>4. ~Persist(k)
      BY <1>1, <2>2 DEF Persist, ReadForPersist, WritePersist
    <2>5. ~Manual(k)
      BY <1>1 DEF Manual, AddScene, AddShot
    <2>6. ~ReadScenes(k) /\ ~\E r \in DOMAIN runs, confirm \in BOOLEAN : ReadRun(k, r, confirm)
      BY <1>1, <2>2 DEF ReadScenes, ReadRun
    <2>7. ~\E s \in SceneIds : CheckShots(k, s)
      BY <2>2 DEF CheckShots, NoRows, OnlyRuns, Commits
    <2>8. Commit(k)
      BY <2>1, <2>3, <2>4, <2>5, <2>6, <2>7 DEF Approval
    <2> QED BY <2>2, <2>8 DEF Commit
  <1>4. ~UNCHANGED <<scenes, nextScene, shots, runs>>
    BY DEF Commits
  <1>5. /\ nextScene + Cardinality(PlanOf(handlers[h]).added) <= MaxScenes + 1
        /\ scenes' = Applied(PlanOf(handlers[h]), handlers[h].breakdown)
    BY <1>3, <1>4 DEF Commit, PlanOf
  <1>6. Carried(handlers[h])
    BY DEF ScenesInv
  <1>7. handlers[h].breakdown \in Texts /\ handlers[h].existing \in Snapshot
    BY <1>1, <1>6, HandlerParts DEF Carried
  <1> QED BY <1>1, <1>5, <1>6, <1>7 DEF Carried

\* The row of each scene of the breakdown after a commit nothing has overtaken.
RowOf(plan, i) == IF i \in DOMAIN plan.match THEN plan.match[i] ELSE NewId(plan.added, i)

LEMMA ExactRows ==
    ASSUME ScenesInv, [Next]_vars, NEW h \in Handlers, Commits(h), handlers[h].existing = Current
    PROVE  LET t == handlers[h].breakdown
               plan == PlanOf(handlers[h]) IN
           /\ t \in Texts
           /\ \A i \in DOMAIN Breakdown[t] :
                 RowOf(plan, i) \in Present' /\ scenes'[RowOf(plan, i)] = Parsed(t, i)
           /\ \A i, k \in DOMAIN Breakdown[t] : RowOf(plan, i) = RowOf(plan, k) => i = k
           /\ \A s \in Present' : \E i \in DOMAIN Breakdown[t] : RowOf(plan, i) = s
  <1> DEFINE t == handlers[h].breakdown
             plan == Plan(Current, t)
             new == Breakdown[t]
  <1>1. /\ t \in Texts /\ Current \in Snapshot /\ PlanOf(handlers[h]) = plan
        /\ nextScene + Cardinality(plan.added) <= MaxScenes + 1
        /\ scenes' = Applied(plan, t)
    BY CommitsIsCommit DEF PlanOf
  <1>2. RowsOK /\ nextScene \in Nat
    BY BoundsAssumption DEF ScenesInv, RowsOK
  <1>3. /\ DOMAIN Current = Present /\ \A s \in Present : Current[s] = scenes[s]
        /\ Present \subseteq SceneIds
    BY DEF Current, Present
  <1>4. /\ DOMAIN plan.match \subseteq DOMAIN new
        /\ plan.added = DOMAIN new \ DOMAIN plan.match
        /\ \A i, k \in DOMAIN plan.match : plan.match[i] = plan.match[k] => i = k
        /\ \A i \in DOMAIN plan.match :
              /\ plan.match[i] \in Present \ plan.removed
              /\ plan.match[i] \notin plan.changed => scenes[plan.match[i]] = Parsed(t, i)
        /\ \A s \in Present : s \in plan.removed \/ \E i \in DOMAIN plan.match : plan.match[i] = s
    BY <1>1, <1>3, PlanFacts
  <1>5. \A i, k \in plan.added : NewId(plan.added, i) = NewId(plan.added, k) => i = k
    BY <1>1, <1>2, <1>4, NewIds
  <1>6. /\ \A i \in plan.added :
              /\ NewId(plan.added, i) \in SceneIds \ Present
              /\ scenes'[NewId(plan.added, i)] = Parsed(t, i)
        /\ \A s \in Present : s \notin plan.removed \cup plan.changed => scenes'[s] = scenes[s]
        /\ \A i \in DOMAIN plan.match :
              plan.match[i] \in Present \cap plan.changed => scenes'[plan.match[i]] = Parsed(t, i)
        /\ \A s \in SceneIds : scenes'[s] # Absent =>
              \/ \E i \in plan.added : s = NewId(plan.added, i)
              \/ s \in Present \ plan.removed
    BY <1>1, <1>2, AppliedFacts
  <1>7. \A i \in DOMAIN new : Parsed(t, i) # Absent
    BY <1>1, Rows
  <1> HIDE DEF plan, t
  <1>8. ASSUME NEW i \in DOMAIN new
        PROVE  RowOf(plan, i) \in Present' /\ scenes'[RowOf(plan, i)] = Parsed(t, i)
    <2>1. CASE i \in DOMAIN plan.match
      <3>1. RowOf(plan, i) = plan.match[i] /\ plan.match[i] \in Present \ plan.removed
        BY <1>4, <2>1 DEF RowOf
      <3>2. scenes'[plan.match[i]] = Parsed(t, i)
        BY <1>4, <1>6, <2>1, <3>1
      <3> QED BY <1>3, <1>7, <3>1, <3>2 DEF Present
    <2>2. CASE i \notin DOMAIN plan.match
      <3>1. i \in plan.added /\ RowOf(plan, i) = NewId(plan.added, i)
        BY <1>4, <2>2 DEF RowOf
      <3> QED BY <1>6, <1>7, <3>1 DEF Present
    <2> QED BY <2>1, <2>2
  <1>9. ASSUME NEW i \in DOMAIN new, NEW k \in DOMAIN new, RowOf(plan, i) = RowOf(plan, k)
        PROVE  i = k
    <2>1. CASE i \in DOMAIN plan.match /\ k \in DOMAIN plan.match
      BY <1>4, <1>9, <2>1 DEF RowOf
    <2>2. CASE i \notin DOMAIN plan.match /\ k \notin DOMAIN plan.match
      BY <1>4, <1>5, <1>9, <2>2 DEF RowOf
    <2>3. \A m \in DOMAIN new : m \in DOMAIN plan.match <=> RowOf(plan, m) \in Present
      <3> TAKE m \in DOMAIN new
      <3>1. CASE m \in DOMAIN plan.match
        BY <1>4, <3>1 DEF RowOf
      <3>2. CASE m \notin DOMAIN plan.match
        BY <1>4, <1>6, <3>2 DEF RowOf
      <3> QED BY <3>1, <3>2
    <2> QED BY <1>9, <2>1, <2>2, <2>3
  <1>10. ASSUME NEW s \in Present' PROVE \E i \in DOMAIN new : RowOf(plan, i) = s
    <2>1. s \in SceneIds /\ scenes'[s] # Absent
      BY DEF Present
    <2>2. ASSUME NEW i \in plan.added, s = NewId(plan.added, i)
          PROVE  \E k \in DOMAIN new : RowOf(plan, k) = s
      BY <1>4, <2>2 DEF RowOf
    <2>3. ASSUME s \in Present \ plan.removed PROVE \E k \in DOMAIN new : RowOf(plan, k) = s
      BY <1>4, <2>3 DEF RowOf
    <2> QED BY <1>6, <2>1, <2>2, <2>3
  <1> QED BY <1>1, <1>8, <1>9, <1>10 DEF t

\* approve_import_run: "pure additions never require confirmation", and nothing
\* else goes without one, however old the plan is.
THEOREM UnconfirmedKeepScenes == Spec => UnconfirmedOnlyAdds
  <1>1. ASSUME ScenesInv, [Next]_vars, NEW h \in Handlers, Commits(h), ~handlers[h].confirm,
               NEW s \in Present
        PROVE  scenes'[s] = scenes[s]
    <2> DEFINE t == handlers[h].breakdown
               plan == PlanOf(handlers[h])
    <2>1. /\ t \in Texts /\ handlers[h].existing \in Snapshot
          /\ plan.changed \cup plan.removed = {}
          /\ nextScene + Cardinality(plan.added) <= MaxScenes + 1
          /\ scenes' = Applied(plan, t)
      BY <1>1, CommitsIsCommit
    <2>2. RowsOK /\ plan = Plan(handlers[h].existing, t)
      BY <1>1 DEF ScenesInv, PlanOf
    <2>3. \A o \in Present : o \notin plan.removed \cup plan.changed => scenes'[o] = scenes[o]
      BY <2>1, <2>2, AppliedFacts
    <2> QED BY <2>1, <2>3
  <1>2. ScenesInv /\ [Next]_vars =>
            [\A h \in Handlers : Commits(h) /\ ~handlers[h].confirm =>
                \A s \in Present : scenes'[s] = scenes[s]]_vars
    BY <1>1
  <1> QED BY <1>2, Invariance, PTL DEF Spec, UnconfirmedOnlyAdds

\* commit_breakdown applies a plan that nothing has overtaken exactly: the
\* project has the scenes of the breakdown, each of them once.
THEOREM PlansAreExact == Spec => PlanIsExact
  <1>1. ASSUME ScenesInv, [Next]_vars, NEW h \in Handlers, Commits(h),
               handlers[h].existing = Current
        PROVE  LET t == handlers[h].breakdown IN
               /\ {scenes'[s] : s \in Present'} = {Parsed(t, i) : i \in DOMAIN Breakdown[t]}
               /\ Cardinality(Present') = Len(Breakdown[t])
    <2> DEFINE t == handlers[h].breakdown
               plan == PlanOf(handlers[h])
               new == Breakdown[t]
               row == [i \in DOMAIN new |-> RowOf(plan, i)]
               now == Present'
    <2>1. /\ t \in Texts
          /\ \A i \in DOMAIN new : row[i] \in now /\ scenes'[row[i]] = Parsed(t, i)
          /\ \A i, k \in DOMAIN new : row[i] = row[k] => i = k
          /\ \A s \in now : \E i \in DOMAIN new : row[i] = s
      BY <1>1, ExactRows
    <2>2. IsFiniteSet(DOMAIN new) /\ Cardinality(DOMAIN new) = Len(new)
      BY <2>1, BreakdownFacts
    <2>3. row \in [DOMAIN new -> now]
      BY <2>1
    <2> HIDE DEF row, now, new
    <2>4. row \in Bijection(DOMAIN new, now)
      BY <2>1, <2>3 DEF Bijection, Injection, Surjection, IsInjective
    <2>5. Cardinality(now) = Len(new)
      BY <2>2, <2>4, FS_Bijection DEF ExistsBijection
    <2>6. {scenes'[s] : s \in now} = {Parsed(t, i) : i \in DOMAIN new}
      BY <2>1
    <2> QED BY <2>5, <2>6 DEF now, new
  <1>2. ScenesInv /\ [Next]_vars =>
            [\A h \in Handlers : Commits(h) /\ handlers[h].existing = Current =>
                LET t == handlers[h].breakdown IN
                /\ {scenes'[s] : s \in Present'} = {Parsed(t, i) : i \in DOMAIN Breakdown[t]}
                /\ Cardinality(Present') = Len(Breakdown[t])]_vars
    BY <1>1
  <1> QED BY <1>2, Invariance, PTL DEF Spec, PlanIsExact

\* compute_diff knows a scene by its heading: where it has one that is unique on
\* both sides the scene keeps its row, and with it its shots.
THEOREM HeadingsKeepRows == Spec => HeadingKeepsRow
  <1>1. ASSUME ScenesInv, [Next]_vars, NEW h \in Handlers, Commits(h),
               handlers[h].existing = Current, NEW s \in Present,
               NEW i \in DOMAIN Breakdown[handlers[h].breakdown],
               scenes[s].heading # NoHeading,
               WithHeading(Current, scenes[s].heading) = {s},
               {j \in DOMAIN Breakdown[handlers[h].breakdown] :
                   Breakdown[handlers[h].breakdown][j].heading = scenes[s].heading} = {i}
        PROVE  scenes'[s] = Parsed(handlers[h].breakdown, i)
    <2> DEFINE t == handlers[h].breakdown
               new == Breakdown[t]
               plan == PlanOf(handlers[h])
               byHeading == HeadingMatches(Current, new)
    <2>1. t \in Texts /\ Current \in Snapshot
      BY <1>1, CommitsIsCommit
    <2>2. new[i].heading = scenes[s].heading
      BY <1>1
    <2>3. \A j \in 1..i - 1 : new[j].heading # new[i].heading
      <3>1. Len(new) \in Nat /\ DOMAIN new = 1..Len(new)
        BY <2>1, BreakdownFacts
      <3>2. \A j \in 1..i - 1 : j \in DOMAIN new /\ j # i
        BY <3>1
      <3> QED BY <1>1, <2>2, <3>2
    <2>4. First(Current, {s}) = s
      <3>1. {s} \in SUBSET DOMAIN Current
        BY DEF Current
      <3> QED BY <2>1, <3>1, FirstIsIn
    <2>5. i \in DOMAIN byHeading /\ byHeading[i] = s
      BY <1>1, <2>2, <2>3, <2>4 DEF HeadingMatches
    <2>6. i \in DOMAIN plan.match /\ plan.match[i] = s
      <3>1. plan.match = Matches(Current, new)
        BY <1>1 DEF PlanOf, Plan
      <3> QED BY <2>5, <3>1 DEF Matches
    <2>7. RowOf(plan, i) = s
      BY <2>6 DEF RowOf
    <2> QED BY <1>1, <2>7, ExactRows
  <1>2. ScenesInv /\ [Next]_vars =>
            [\A h \in Handlers : Commits(h) /\ handlers[h].existing = Current =>
                \A s \in Present : \A i \in DOMAIN Breakdown[handlers[h].breakdown] :
                    LET new == Breakdown[handlers[h].breakdown]
                        heading == scenes[s].heading IN
                    /\ heading # NoHeading
                    /\ WithHeading(Current, heading) = {s}
                    /\ {j \in DOMAIN new : new[j].heading = heading} = {i}
                    => scenes'[s] = Parsed(handlers[h].breakdown, i)]_vars
    BY <1>1
  <1> QED BY <1>2, Invariance, PTL DEF Spec, HeadingKeepsRow
=============================================================================
