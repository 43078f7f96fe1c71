----------------------- MODULE ScreenplayIntakeProofs -----------------------
(***************************************************************************)
(* What ScreenplayIntake promises, for texts of every length, every size   *)
(* of a piece, and any number of uploads, threads and runs of the script.  *)
(*                                                                         *)
(* The parser, on its own:  The lines before index are settled but for     *)
(* those the parser holds: the action not yet flushed, or the speech being *)
(* collected.  What it holds comes after every block, and no heading after *)
(* that.                                                                   *)
(*                                                                         *)
(* The upload:  The loop of the page never runs ahead of the text that the *)
(* process holds of its upload, so that a piece never leaves a gap.        *)
(*                                                                         *)
(* The breakdown:  A run holds the scenes of the chunks before its next,   *)
(* and what it has counted is still so when it inserts, unless another run *)
(* has written in between.                                                 *)
(***************************************************************************)
EXTENDS ScreenplayIntake, TLAPS, SequenceTheorems, FiniteSetTheorems,
        WellFoundedInduction

-----------------------------------------------------------------------------
(* THE PARSER. *)

Speaking == {"opening", "speech"}

\* What the parser holds comes before line i, and no heading between.
HeldAt(held, i) == \A x \in held : x < i /\ \A k \in x..i - 1 : lines[k] # "heading"

\* The speech being collected is one speaker's.
SpeechAt(p, t, i) ==
    p \in Speaking =>
        /\ t.speaker # 0
        /\ t.sure <=> lines[t.speaker] \notin Guesses \/ t.speaker \in t.words
        /\ \A x \in t.words \ {t.speaker} : t.speaker < x
        /\ \A k \in t.speaker + 1..i - 1 : k = t.aside \/ ~OtherTurn(k)

\* Before its first word there is only a cue, perhaps a parenthetical, and
\* blank lines.
CueAt(p, t, i) ==
    /\ p = "opening" => t.words = {}
    /\ p \in Speaking /\ t.words = {} =>
           /\ IsCue(t.speaker)
           /\ t.aside = 0 => \A k \in t.speaker + 1..i - 1 : lines[k] = "blank"
           /\ p = "speech" /\ InScene(i) => lines[i] # "blank"

\* What the properties ask of one block.
BlockOK(b) ==
    /\ \A x, y \in Of(b) : \A k \in x..y : lines[k] # "heading"
    /\ b.type = "dialogue" =>
          /\ b.sure <=> lines[b.speaker] \notin Guesses \/ b.speaker \in b.words
          /\ \A x \in b.words \ {b.speaker} :
                /\ b.speaker < x
                /\ \A k \in b.speaker + 1..x : k = b.aside \/ ~OtherTurn(k)

Good(bs) ==
    /\ bs \in Seq(Block)
    /\ \A i \in DOMAIN bs : BlockOK(bs[i])
    /\ \A i, j \in DOMAIN bs : i < j => \A x \in Of(bs[i]), y \in Of(bs[j]) : x < y

\* The lines of the blocks come before those of S.
Before(bs, S) == \A i \in DOMAIN bs : \A x \in Of(bs[i]), y \in S : x < y

In(bs, x) == \E i \in DOMAIN bs : x \in Of(bs[i])

\* Where each line before i has gone.
Gone(x, bs, held) ==
    lines[x] \in {"blank", "heading"} \/ In(bs, x) \/ x \in held \/ Unanswered(x)

CoverAt(p, bs, held, i) ==
    p \notin {"idle", "failed"} => \A x \in Start..i - 1 : Gone(x, bs, held)

\* The state of the parse, in a text that stays as it is.
Settled(p, i, bs, pend, t) ==
    /\ p # "scan" => pend = {}
    /\ p \notin Speaking => t = NoTurn
    /\ p = "done" => i = Len(lines) + 1
    /\ HeldAt(pend \cup Of(t), i)
    /\ SpeechAt(p, t, i)
    /\ CueAt(p, t, i)
    /\ Good(bs) /\ Before(bs, pend \cup Of(t) \cup {i})
    /\ CoverAt(p, bs, pend \cup Of(t), i)

ScenesOK ==
    /\ ScenesCoverScript
    /\ phase \in {"scan"} \cup Speaking =>
           first = IF scenes = <<>> THEN Start ELSE scenes[Len(scenes)].last + 1

ParseInv ==
    /\ ParserTypeOK
    /\ Settled(phase, index, blocks, pending, turn)
    /\ ScenesOK

-----------------------------------------------------------------------------
(* Blocks. *)

LEMMA TurnLines == Of(NoTurn) = {}
BY DEF Of, NoTurn

LEMMA BlockLines == \A b \in Block : Of(b) \in SUBSET (Nat \ {0})
BY DEF Block, Of

LEMMA NarrationFacts ==
    ASSUME NEW type \in Types, NEW words \in SUBSET (Nat \ {0})
    PROVE  /\ Narration(type, words) \in Block
           /\ Narration(type, words).type = type
           /\ Of(Narration(type, words)) = words
BY DEF Narration, Block, Of

\* One more block, after those there are.
LEMMA AppendFacts ==
    ASSUME NEW bs, Good(bs), NEW b \in Block, BlockOK(b), Before(bs, Of(b))
    PROVE  /\ Good(Append(bs, b))
           /\ \A x : In(Append(bs, b), x) <=> In(bs, x) \/ x \in Of(b)
           /\ \A S : Before(bs, S) /\ (\A x \in Of(b), y \in S : x < y)
                       => Before(Append(bs, b), S)
<1> DEFINE new == Append(bs, b)
<1>1. bs \in Seq(Block)
  BY DEF Good
<1>2. /\ new \in Seq(Block) /\ Len(new) = Len(bs) + 1 /\ Len(bs) \in Nat
      /\ DOMAIN new = 1..Len(bs) + 1 /\ DOMAIN bs = 1..Len(bs)
      /\ \A i \in DOMAIN bs : new[i] = bs[i]
      /\ new[Len(bs) + 1] = b
  BY <1>1, AppendProperties
<1> HIDE DEF new
<1>3. \A i \in DOMAIN new : i \in DOMAIN bs \/ i = Len(bs) + 1
  BY <1>2
<1>4. \A i \in DOMAIN new : BlockOK(new[i])
  BY <1>2, <1>3 DEF Good
<1>5. ASSUME NEW i \in DOMAIN new, NEW j \in DOMAIN new, i < j
      PROVE  \A x \in Of(new[i]), y \in Of(new[j]) : x < y
  <2>1. i \in DOMAIN bs
    BY <1>2, <1>5
  <2>2. CASE j \in DOMAIN bs
    BY <1>2, <1>5, <2>1, <2>2 DEF Good
  <2>3. CASE j = Len(bs) + 1
    BY <1>2, <2>1, <2>3 DEF Before
  <2>4. QED
    BY <1>3, <2>2, <2>3
<1>6. Good(new)
  BY <1>2, <1>4, <1>5 DEF Good
<1>7. \A x : In(new, x) <=> In(bs, x) \/ x \in Of(b)
  BY <1>2, <1>3 DEF In
<1>8. ASSUME NEW S, Before(bs, S), \A x \in Of(b), y \in S : x < y
      PROVE  Before(new, S)
  BY <1>2, <1>3, <1>8 DEF Before
<1>9. QED
  BY <1>6, <1>7, <1>8 DEF new

\* Adding what is one block, or nothing.
LEMMA EmptyEnd == \A bs \in Seq(Block) : bs \o <<>> = bs
BY ConcatEmptySeq

LEMMA BlockEnd == \A bs \in Seq(Block), b \in Block : bs \o <<b>> = Append(bs, b)
OBVIOUS

\* What flush_action leaves.
LEMMA FlushFacts ==
    ASSUME ParseInv, phase = "scan"
    PROVE  /\ Good(Flushed) /\ Before(Flushed, {index})
           /\ \A x : In(Flushed, x) <=> In(blocks, x) \/ x \in pending
<1>1. CASE pending = {}
  BY <1>1 DEF Flushed, ParseInv, Settled, Before
<1>2. CASE pending # {}
  <2> DEFINE b == Narration("action", pending)
  <2>1. pending \in SUBSET (Nat \ {0}) /\ Good(blocks) /\ index \in Nat
    BY DEF ParseInv, ParserTypeOK, Settled
  <2>2. b \in Block /\ Of(b) = pending /\ b.type # "dialogue"
    BY <2>1, NarrationFacts DEF Types
  <2>3. \A x \in pending : x < index /\ \A k \in x..index - 1 : lines[k] # "heading"
    BY DEF ParseInv, Settled, HeldAt
  <2>4. \A x, y \in pending : x..y \subseteq x..index - 1
    BY <2>1, <2>3
  <2>5. BlockOK(b)
    BY <2>2, <2>3, <2>4 DEF BlockOK
  <2>6. Before(blocks, pending) /\ Before(blocks, {index})
    BY DEF ParseInv, Settled, Before
  <2>7. Flushed = Append(blocks, b)
    BY <1>2 DEF Flushed
  <2> HIDE DEF b
  <2>8. QED
    BY <2>1, <2>2, <2>3, <2>5, <2>6, <2>7, AppendFacts
<1>3. QED
  BY <1>1, <1>2

-----------------------------------------------------------------------------
(* Lines. *)

\* A set of numbers has a least one.
LEMMA LeastElement ==
    ASSUME NEW S \in SUBSET Nat, S # {}
    PROVE  (CHOOSE i \in S : \A j \in S : i <= j) \in S
<1>1. PICK d \in S : \A e \in S : ~(<<e, d>> \in OpToRel(<, Nat))
  BY NatLessThanWellFounded, WFMin
<1>2. \A e \in S : ~(e < d)
  BY <1>1 DEF OpToRel
<1>3. \A e \in S : d <= e
  BY <1>2
<1>4. QED
  BY <1>3

\* The first heading is one, or there is none.
LEMMA FirstHeading ==
    ASSUME lines \in Seq(Kinds)
    PROVE  Start \in 1..Len(lines) + 1
<1>1. CASE Headings = {}
  BY <1>1 DEF Start
<1>2. CASE Headings # {}
  <2>1. Headings \in SUBSET (1..Len(lines)) /\ Headings \in SUBSET Nat
    BY DEF Headings
  <2>2. (CHOOSE i \in Headings : \A j \in Headings : i <= j) \in Headings
    BY <1>2, <2>1, LeastElement
  <2>3. Start \in Headings
    BY <1>2, <2>2 DEF Start
  <2>4. QED
    BY <2>1, <2>3
<1>3. QED
  BY <1>1, <1>2

\* A state that is settled in the same text is settled in the next.
LEMMA SettledNext ==
    ASSUME lines' = lines, Settled(phase', index', blocks', pending', turn')
    PROVE  Settled(phase, index, blocks, pending, turn)'
<1>1. Start' = Start
  BY DEF Start, Headings
<1>2. QED
  BY <1>1 DEF Settled, HeldAt, SpeechAt, CueAt, Good, BlockOK, Before, CoverAt, Gone, In,
              Unanswered, OtherTurn, IsCue, HasMore, InScene

\* A step within a scene.
LEMMA SceneStep ==
    ASSUME ParseInv, UNCHANGED <<lines, first, scenes>>, ParserTypeOK',
           Settled(phase', index', blocks', pending', turn'),
           phase \in {"scan"} \cup Speaking, phase' \in {"scan"} \cup Speaking
    PROVE  ParseInv'
<1>1. Start' = Start
  BY DEF Start, Headings
<1>2. ScenesOK'
  BY <1>1 DEF ParseInv, ScenesOK, ScenesCoverScript, Speaking
<1>3. QED
  BY <1>2, SettledNext DEF ParseInv

\* What each step begins with.
LEMMA Reading ==
    ASSUME ParseInv, InScene(index)
    PROVE  /\ index \in 1..Len(lines) /\ index + 1 \in 1..Len(lines) + 1
           /\ lines[index] # "heading"
           /\ Start \in Nat
           /\ \A x \in Start..index : x \in Start..index - 1 \/ x = index
BY FirstHeading DEF ParseInv, ParserTypeOK, InScene

\* One line of a scene is flushed, with what was held, into the blocks.
LEMMA FlushingStep ==
    ASSUME ParseInv, phase = "scan", InScene(index),
           NEW emitted, ReadFlushing(emitted, "scan", NoTurn),
           \/ emitted = <<>> /\ lines[index] = "blank"
           \/ \E type \in Types \ {"dialogue"} : emitted = Emit(type)
    PROVE  ParseInv'
<1>1. /\ blocks' = Flushed \o emitted /\ pending' = {} /\ index' = index + 1
      /\ phase' = "scan" /\ turn' = NoTurn /\ UNCHANGED <<lines, first, scenes>>
  BY DEF ReadFlushing
<1>2. /\ Good(Flushed) /\ Before(Flushed, {index}) /\ Flushed \in Seq(Block)
      /\ \A x : In(Flushed, x) <=> In(blocks, x) \/ x \in pending
  BY FlushFacts DEF Good
<1>3. index \in 1..Len(lines) /\ index \in Nat \ {0}
  BY Reading
<1>4. /\ Good(blocks') /\ Before(blocks', {index + 1})
      /\ \A x : In(blocks, x) \/ x \in pending => In(blocks', x)
      /\ lines[index] = "blank" \/ In(blocks', index)
  <2>1. CASE emitted = <<>> /\ lines[index] = "blank"
    <3>1. blocks' = Flushed
      BY <1>1, <1>2, <2>1, EmptyEnd
    <3>2. \A x \in Nat : x < index => x < index + 1
      BY <1>3
    <3>3. Before(Flushed, {index + 1})
      <4>1. \A i \in DOMAIN Flushed : Of(Flushed[i]) \in SUBSET Nat
        BY <1>2, BlockLines
      <4>2. QED
        BY <1>2, <3>2, <4>1 DEF Before
    <3>4. QED
      BY <1>2, <2>1, <3>1, <3>3
  <2>2. CASE \E type \in Types \ {"dialogue"} : emitted = Emit(type)
    <3>1. PICK type \in Types \ {"dialogue"} : emitted = Emit(type)
      BY <2>2
    <3> DEFINE b == Narration(type, {index})
    <3>2. b \in Block /\ b.type # "dialogue" /\ Of(b) = {index}
      BY <1>3, NarrationFacts
    <3>3. blocks' = Append(Flushed, b)
      BY <1>1, <1>2, <3>1, <3>2, BlockEnd DEF Emit
    <3>4. \A k \in index..index : lines[k] # "heading"
      BY <1>3, Reading
    <3>5. BlockOK(b)
      BY <3>2, <3>4 DEF BlockOK
    <3> HIDE DEF b
    <3>6. Before(Flushed, {index + 1})
      <4>1. \A i \in DOMAIN Flushed : Of(Flushed[i]) \in SUBSET Nat
        BY <1>2, BlockLines
      <4>2. \A x \in Nat : x < index => x < index + 1
        BY <1>3
      <4>3. QED
        BY <1>2, <4>1, <4>2 DEF Before
    <3>7. \A x \in Of(b), y \in {index + 1} : x < y
      BY <1>3, <3>2
    <3>8. QED
      BY <1>2, <3>2, <3>3, <3>5, <3>6, <3>7, AppendFacts
  <2>3. QED
    BY <2>1, <2>2
<1>5. ParserTypeOK'
  <2>1. blocks' \in Seq(Block) /\ NoTurn \in Turn
    BY <1>4 DEF Good, Turn, NoTurn
  <2>2. QED
    BY <1>1, <2>1, Reading DEF ParseInv, ParserTypeOK, Phases
<1>6. turn = NoTurn
  BY DEF ParseInv, Settled, Speaking
<1>7. CoverAt("scan", blocks', {}, index + 1)
  <2> SUFFICES ASSUME NEW x \in Start..index PROVE Gone(x, blocks', {})
    BY <1>3 DEF CoverAt
  <2>1. CASE x = index
    BY <1>4, <2>1 DEF Gone
  <2>2. CASE x \in Start..index - 1
    BY <1>4, <1>6, <2>2, TurnLines DEF ParseInv, Settled, CoverAt, Gone
  <2>3. QED
    BY <2>1, <2>2, Reading
<1>8. Settled(phase', index', blocks', pending', turn')
  BY <1>1, <1>4, <1>7, TurnLines DEF Settled, HeldAt, SpeechAt, CueAt, Speaking
<1>9. QED
  BY <1>1, <1>5, <1>8, SceneStep

\* A name is met: what was held is flushed, and the speech begins.
LEMMA NameStep ==
    ASSUME ParseInv, phase = "scan", InScene(index),
           NEW next \in Speaking, NEW t \in Turn, ReadFlushing(<<>>, next, t),
           t.speaker = index, t.aside = 0, t.words \subseteq {index},
           t.sure <=> lines[index] \notin Guesses \/ index \in t.words,
           next = "opening" <=> t.words = {},
           t.words = {} => IsCue(index)
    PROVE  ParseInv'
<1>1. /\ blocks' = Flushed \o <<>> /\ pending' = {} /\ index' = index + 1
      /\ phase' = next /\ turn' = t /\ UNCHANGED <<lines, first, scenes>>
  BY DEF ReadFlushing
<1>2. /\ Good(Flushed) /\ Before(Flushed, {index}) /\ Flushed \in Seq(Block)
      /\ \A x : In(Flushed, x) <=> In(blocks, x) \/ x \in pending
  BY FlushFacts DEF Good
<1>3. index \in 1..Len(lines) /\ index \in Nat \ {0}
  BY Reading
<1>4. blocks' = Flushed /\ Of(t) = {index}
  BY <1>1, <1>2, <1>3, EmptyEnd DEF Of
<1>5. Before(Flushed, {index, index + 1})
  <2>1. \A i \in DOMAIN Flushed : Of(Flushed[i]) \in SUBSET Nat
    BY <1>2, BlockLines
  <2>2. \A x \in Nat : x < index => x < index + 1
    BY <1>3
  <2>3. QED
    BY <1>2, <2>1, <2>2 DEF Before
<1>6. ParserTypeOK'
  BY <1>1, <1>2, <1>4, Reading DEF ParseInv, ParserTypeOK, Phases, Speaking
<1>7. turn = NoTurn
  BY DEF ParseInv, Settled, Speaking
<1>8. CoverAt(next, Flushed, Of(t), index + 1)
  <2> SUFFICES ASSUME NEW x \in Start..index PROVE Gone(x, Flushed, Of(t))
    BY <1>3 DEF CoverAt
  <2>1. CASE x = index
    BY <1>4, <2>1 DEF Gone
  <2>2. CASE x \in Start..index - 1
    BY <1>2, <1>7, <2>2, TurnLines DEF ParseInv, Settled, CoverAt, Gone
  <2>3. QED
    BY <2>1, <2>2, Reading
<1>9. HeldAt({index}, index + 1)
  BY <1>3, Reading DEF HeldAt
<1>10. SpeechAt(next, t, index + 1) /\ CueAt(next, t, index + 1)
  BY <1>3 DEF SpeechAt, CueAt, Speaking
<1>11. Settled(phase', index', blocks', pending', turn')
  BY <1>1, <1>2, <1>4, <1>5, <1>8, <1>9, <1>10 DEF Settled, Speaking
<1>12. QED
  BY <1>1, <1>6, <1>11, SceneStep

\* A line is kept for the action of the scene.
LEMMA ActionStep == ASSUME ParseInv, ReadAction PROVE ParseInv'
<1>1. /\ phase = "scan" /\ InScene(index) /\ pending' = pending \cup {index}
      /\ index' = index + 1
      /\ UNCHANGED <<phase, lines, first, scenes, blocks, turn>>
  BY DEF ReadAction
<1>2. /\ index \in 1..Len(lines) /\ index \in Nat \ {0} /\ lines[index] # "heading"
  BY <1>1, Reading
<1>3. turn = NoTurn /\ pending \in SUBSET (Nat \ {0}) /\ Good(blocks)
  BY <1>1 DEF ParseInv, Settled, Speaking, ParserTypeOK
<1>4. ParserTypeOK'
  BY <1>1, <1>2, <1>3 DEF ParseInv, ParserTypeOK
<1>5. HeldAt(pending', index + 1)
  <2>1. HeldAt(pending, index)
    BY <1>3, TurnLines DEF ParseInv, Settled
  <2> SUFFICES ASSUME NEW x \in pending \cup {index}
               PROVE  x < index + 1 /\ \A k \in x..index : lines[k] # "heading"
    BY <1>1, <1>2 DEF HeldAt
  <2>2. x \in Nat /\ (x = index \/ x < index)
    BY <1>2, <1>3, <2>1 DEF HeldAt
  <2>3. \A k \in x..index : k = index \/ k \in x..index - 1
    BY <1>2, <2>2
  <2>4. QED
    BY <1>2, <2>1, <2>2, <2>3 DEF HeldAt
<1>6. Before(blocks, pending' \cup {index + 1})
  <2>1. Before(blocks, pending \cup {index})
    BY <1>3, TurnLines DEF ParseInv, Settled, Before
  <2>2. \A i \in DOMAIN blocks : Of(blocks[i]) \in SUBSET Nat
    BY <1>3, BlockLines DEF Good
  <2>3. \A x \in Nat : x < index => x < index + 1
    BY <1>2
  <2>4. QED
    BY <1>1, <2>1, <2>2, <2>3 DEF Before
<1>7. CoverAt(phase, blocks, pending', index + 1)
  <2> SUFFICES ASSUME NEW x \in Start..index PROVE Gone(x, blocks, pending')
    BY <1>2 DEF CoverAt
  <2>1. CASE x = index
    BY <1>1, <2>1 DEF Gone
  <2>2. CASE x \in Start..index - 1
    BY <1>1, <1>3, <2>2, TurnLines DEF ParseInv, Settled, CoverAt, Gone
  <2>3. QED
    BY <1>1, <2>1, <2>2, Reading
<1>8. Settled(phase', index', blocks', pending', turn')
  BY <1>1, <1>3, <1>5, <1>6, <1>7, TurnLines DEF Settled, SpeechAt, CueAt, Speaking
<1>9. QED
  BY <1>1, <1>4, <1>8, SceneStep

LEMMA ReadLineStep == ASSUME ParseInv, ReadLine PROVE ParseInv'
<1>1. CASE ReadBlank
  BY <1>1, FlushingStep DEF ReadBlank
<1>2. CASE ReadTransition
  BY <1>2, FlushingStep DEF ReadTransition, Types
<1>3. CASE ReadParenthetical
  BY <1>3, FlushingStep DEF ReadParenthetical, Types
<1>4. CASE ReadCue
  <2> DEFINE t == [NoTurn EXCEPT !.speaker = index, !.sure = (lines[index] \notin Guesses)]
  <2>1. phase = "scan" /\ InScene(index) /\ IsCue(index) /\ ReadFlushing(<<>>, "opening", t)
    BY <1>4 DEF ReadCue
  <2>2. index \in Nat
    BY <2>1, Reading
  <2>3. /\ t \in Turn /\ t.speaker = index /\ t.aside = 0 /\ t.words = {}
        /\ t.sure <=> lines[index] \notin Guesses
    BY <2>2 DEF NoTurn, Turn
  <2> HIDE DEF t
  <2>4. QED
    BY <2>1, <2>3, NameStep DEF Speaking
<1>5. CASE ReadInlineCue
  <2> DEFINE t == [NoTurn EXCEPT !.speaker = index, !.words = {index}]
  <2>1. phase = "scan" /\ InScene(index) /\ ReadFlushing(<<>>, "speech", t)
    BY <1>5 DEF ReadInlineCue
  <2>2. index \in Nat \ {0}
    BY <2>1, Reading
  <2>3. t \in Turn /\ t.speaker = index /\ t.aside = 0 /\ t.words = {index} /\ t.sure
    BY <2>2 DEF NoTurn, Turn
  <2> HIDE DEF t
  <2>4. QED
    BY <2>1, <2>3, NameStep DEF Speaking
<1>6. CASE ReadAction
  BY <1>6, ActionStep
<1>7. QED
  BY <1>1, <1>2, <1>3, <1>4, <1>5, <1>6 DEF ReadLine

\* A line after the name that goes to the speech, or is blank.
LEMMA TurnStep ==
    ASSUME ParseInv, phase \in Speaking, InScene(index), NEW t \in Turn,
           turn' = t, index' = index + 1,
           UNCHANGED <<phase, lines, first, scenes, blocks, pending>>,
           t.speaker = turn.speaker, t.sure = turn.sure,
           index = t.aside \/ ~OtherTurn(index),
           \/ lines[index] = "blank" /\ phase = "opening" /\ t = turn
           \/ /\ phase = "opening" /\ turn.aside = 0 /\ t.aside = index
              /\ t.words = turn.words
           \/ phase = "speech" /\ t.words = turn.words \cup {index} /\ t.aside = turn.aside
    PROVE  ParseInv'
<1>1. /\ index \in 1..Len(lines) /\ index \in Nat \ {0} /\ lines[index] # "heading"
  BY Reading
<1>2. /\ turn \in Turn /\ pending = {} /\ Good(blocks)
      /\ SpeechAt(phase, turn, index) /\ CueAt(phase, turn, index)
      /\ HeldAt(Of(turn), index) /\ Before(blocks, Of(turn) \cup {index})
      /\ phase \notin {"idle", "scan", "done", "failed"}
  BY DEF ParseInv, Settled, ParserTypeOK, Speaking
<1>3. turn.speaker \in Nat \ {0} /\ turn.speaker < index
  BY <1>2 DEF SpeechAt, HeldAt, Of, Turn
<1>4. /\ Of(turn) \in SUBSET (Nat \ {0})
      /\ Of(t) = Of(turn) \/ Of(t) = Of(turn) \cup {index}
      /\ lines[index] = "blank" \/ index \in Of(t)
  BY <1>1, <1>2 DEF Of, Turn
<1>5. ParserTypeOK'
  BY <1>1, Reading DEF ParseInv, ParserTypeOK
<1>6. HeldAt(Of(t), index + 1)
  <2> SUFFICES ASSUME NEW x \in Of(t)
               PROVE  x < index + 1 /\ \A k \in x..index : lines[k] # "heading"
    BY <1>1 DEF HeldAt
  <2>1. x \in Nat /\ (x = index \/ (x \in Of(turn) /\ x < index))
    BY <1>1, <1>2, <1>4 DEF HeldAt
  <2>2. \A k \in x..index : k = index \/ k \in x..index - 1
    BY <1>1, <2>1
  <2>3. QED
    BY <1>1, <1>2, <2>1, <2>2 DEF HeldAt
<1>7. Before(blocks, Of(t) \cup {index + 1})
  <2>1. \A i \in DOMAIN blocks : Of(blocks[i]) \in SUBSET Nat
    BY <1>2, BlockLines DEF Good
  <2>2. \A x \in Nat : x < index => x < index + 1
    BY <1>1
  <2>3. QED
    BY <1>2, <1>4, <2>1, <2>2 DEF Before
<1>8. \A k \in turn.speaker + 1..index : k = index \/ k \in turn.speaker + 1..index - 1
  BY <1>1, <1>3
<1>9. SpeechAt(phase, t, index + 1)
  <2>1. \A x \in t.words \ {turn.speaker} : turn.speaker < x
    BY <1>2, <1>3 DEF SpeechAt
  <2>2. ASSUME NEW k \in turn.speaker + 1..index PROVE k = t.aside \/ ~OtherTurn(k)
    <3>1. k # 0
      BY <1>3, <2>2
    <3>2. k \in turn.speaker + 1..index - 1 => k = turn.aside \/ ~OtherTurn(k)
      BY <1>2 DEF SpeechAt
    <3>3. QED
      BY <1>8, <2>2, <3>1, <3>2
  <2>3. /\ turn.speaker # 0
        /\ turn.sure <=> lines[turn.speaker] \notin Guesses \/ turn.speaker \in t.words
    BY <1>1, <1>2, <1>3 DEF SpeechAt
  <2>4. QED
    BY <1>1, <2>1, <2>2, <2>3 DEF SpeechAt
<1>10. CueAt(phase, t, index + 1)
  <2>1. phase = "opening" => t.words = {}
    BY <1>2 DEF CueAt
  <2>2. phase = "speech" => t.words # {}
    BY DEF Speaking
  <2>3. phase = "opening" => IsCue(t.speaker)
    BY <1>2 DEF CueAt, Speaking
  <2>4. phase = "opening" /\ t.aside = 0
           => \A k \in turn.speaker + 1..index : lines[k] = "blank"
    BY <1>1, <1>2, <1>8 DEF CueAt, Speaking
  <2>5. QED
    BY <1>1, <2>1, <2>2, <2>3, <2>4 DEF CueAt, Speaking
<1>11. CoverAt(phase, blocks, Of(t), index + 1)
  <2> SUFFICES ASSUME NEW x \in Start..index PROVE Gone(x, blocks, Of(t))
    BY <1>1 DEF CoverAt
  <2>1. CASE x = index
    BY <1>4, <2>1 DEF Gone
  <2>2. CASE x \in Start..index - 1
    BY <1>2, <1>4, <2>2 DEF ParseInv, Settled, CoverAt, Gone
  <2>3. QED
    BY <2>1, <2>2, Reading
<1>12. Settled(phase', index', blocks', pending', turn')
  BY <1>2, <1>6, <1>7, <1>9, <1>10, <1>11 DEF Settled, Speaking
<1>13. QED
  BY <1>5, <1>12, SceneStep DEF Speaking

LEMMA BeginSpeechStep == ASSUME ParseInv, BeginSpeech PROVE ParseInv'
<1>1. /\ phase = "opening" /\ phase' = "speech"
      /\ InScene(index) => lines[index] # "blank"
      /\ UNCHANGED <<lines, index, first, scenes, blocks, pending, turn>>
  BY DEF BeginSpeech
<1>2. ParserTypeOK'
  BY <1>1 DEF ParseInv, ParserTypeOK, Phases
<1>3. SpeechAt("speech", turn, index) /\ CueAt("speech", turn, index)
  BY <1>1 DEF ParseInv, Settled, SpeechAt, CueAt, Speaking
<1>4. CoverAt("speech", blocks, pending \cup Of(turn), index)
  BY <1>1 DEF ParseInv, Settled, CoverAt
<1>5. Settled(phase', index', blocks', pending', turn')
  BY <1>1, <1>3, <1>4 DEF ParseInv, Settled, Speaking
<1>6. QED
  BY <1>1, <1>2, <1>5, SceneStep DEF Speaking

\* A name with nothing after it but blank lines, where the speech ends, is
\* one that nobody answers.
LEMMA NothingSaid ==
    ASSUME ParseInv, phase = "speech", turn.words = {}, turn.aside = 0,
           InScene(index) => EndsSpeech(index)
    PROVE  Unanswered(turn.speaker)
<1> DEFINE s == turn.speaker
<1>1. /\ IsCue(s) /\ \A k \in s + 1..index - 1 : lines[k] = "blank"
      /\ InScene(index) => lines[index] # "blank"
  BY DEF ParseInv, Settled, CueAt, Speaking
<1>2. s \in Nat \ {0} /\ s < index /\ index \in 1..Len(lines) + 1 /\ Len(lines) \in Nat
  BY DEF ParseInv, Settled, SpeechAt, HeldAt, Of, ParserTypeOK, Turn, Speaking
<1> HIDE DEF s
<1>3. PICK j \in DOMAIN lines :
         j > s /\ lines[j] # "blank" /\ \A k \in s + 1..j : lines[k] # "heading"
  BY <1>1 DEF IsCue, HasMore
<1>4. j \in 1..Len(lines)
  BY DEF ParseInv, ParserTypeOK
<1>5. j >= index
  <2>1. ~(j \in s + 1..index - 1)
    BY <1>1, <1>3
  <2>2. QED
    BY <1>2, <1>3, <1>4, <2>1
<1>6. index \in s + 1..j /\ index \in s + 1..Len(lines)
  BY <1>2, <1>4, <1>5
<1>7. InScene(index)
  BY <1>3, <1>6, <1>4, <1>2 DEF InScene, ParseInv, ParserTypeOK
<1>8. OtherTurn(index)
  BY <1>1, <1>7 DEF EndsSpeech, OtherTurn
<1>9. QED
  BY <1>1, <1>6, <1>8 DEF Unanswered, IsCue, s

LEMMA EndSpeechStep == ASSUME ParseInv, EndSpeech PROVE ParseInv'
<1>1. /\ phase = "speech" /\ (InScene(index) => EndsSpeech(index))
      /\ blocks' = blocks \o Speech /\ phase' = "scan" /\ turn' = NoTurn
      /\ UNCHANGED <<lines, index, first, scenes, pending>>
  BY DEF EndSpeech
<1>2. /\ turn \in Turn /\ pending = {} /\ Good(blocks) /\ blocks \in Seq(Block)
      /\ SpeechAt("speech", turn, index) /\ HeldAt(Of(turn), index)
      /\ Before(blocks, Of(turn)) /\ Before(blocks, {index})
      /\ index \in Nat
  <2>1. turn \in Turn /\ pending = {} /\ blocks \in Seq(Block) /\ index \in Nat
    BY <1>1 DEF ParseInv, Settled, ParserTypeOK
  <2>2. SpeechAt("speech", turn, index) /\ Good(blocks)
    BY <1>1 DEF ParseInv, Settled
  <2>3. HeldAt(Of(turn), index) /\ Before(blocks, Of(turn) \cup {index})
    BY <2>1 DEF ParseInv, Settled
  <2>4. QED
    BY <2>1, <2>2, <2>3 DEF Before
<1>3. /\ Of(turn) \in SUBSET (Nat \ {0}) /\ turn.speaker \in Nat \ {0}
      /\ turn.aside \in Nat /\ turn.words \in SUBSET (Nat \ {0}) /\ turn.sure \in BOOLEAN
  BY <1>2 DEF Of, Turn, SpeechAt, Speaking
<1>4. \A x, y \in Of(turn) : \A k \in x..y : lines[k] # "heading"
  <2>1. \A x, y \in Of(turn) : x..y \subseteq x..index - 1
    BY <1>2, <1>3 DEF HeldAt
  <2>2. QED
    BY <1>2, <2>1 DEF HeldAt
<1>5. ASSUME NEW b \in Block, BlockOK(b), Of(b) = Of(turn), Speech = <<b>>
      PROVE  /\ Good(blocks') /\ Before(blocks', {index})
             /\ \A x : In(blocks, x) \/ x \in Of(turn) => In(blocks', x)
  <2>1. blocks' = Append(blocks, b)
    BY <1>1, <1>2, <1>5, BlockEnd
  <2>2. \A x \in Of(b), y \in {index} : x < y
    BY <1>2, <1>5 DEF HeldAt
  <2>3. QED
    BY <1>2, <1>5, <2>1, <2>2, AppendFacts
<1>6. /\ Good(blocks') /\ Before(blocks', {index})
      /\ \A x : In(blocks, x) => In(blocks', x)
      /\ \A x \in Of(turn) : In(blocks', x) \/ Unanswered(x)
  <2>1. CASE turn.words # {}
    <3> DEFINE b == [type |-> "dialogue", words |-> turn.words, speaker |-> turn.speaker,
                     aside |-> turn.aside, sure |-> turn.sure]
    <3>1. /\ b \in Block /\ Of(b) = Of(turn) /\ b.words = turn.words
          /\ b.speaker = turn.speaker /\ b.aside = turn.aside /\ b.sure = turn.sure
      BY <1>3 DEF Block, Types, Of
    <3>2. Speech = <<b>>
      BY <2>1 DEF Speech
    <3> HIDE DEF b
    <3>3. /\ turn.sure <=> lines[turn.speaker] \notin Guesses \/ turn.speaker \in turn.words
          /\ \A x \in turn.words \ {turn.speaker} : turn.speaker < x
          /\ \A k \in turn.speaker + 1..index - 1 : k = turn.aside \/ ~OtherTurn(k)
      BY <1>2 DEF SpeechAt, Speaking
    <3>4. \A x \in turn.words : turn.speaker + 1..x \subseteq turn.speaker + 1..index - 1
      <4>1. \A x \in turn.words : x \in Nat /\ x < index
        BY <1>2, <1>3 DEF HeldAt, Of
      <4>2. QED
        BY <1>2, <1>3, <4>1
    <3>5. BlockOK(b)
      BY <1>4, <3>1, <3>3, <3>4 DEF BlockOK
    <3>6. QED
      BY <1>5, <3>1, <3>2, <3>5
  <2>2. CASE turn.words = {} /\ turn.aside # 0
    <3> DEFINE b == [type |-> "parenthetical", words |-> {turn.aside},
                     speaker |-> turn.speaker, aside |-> 0, sure |-> turn.sure]
    <3>1. b \in Block /\ Of(b) = Of(turn) /\ b.type # "dialogue"
      BY <1>3, <2>2 DEF Block, Types, Of
    <3>2. Speech = <<b>>
      BY <2>2 DEF Speech
    <3> HIDE DEF b
    <3>3. BlockOK(b)
      BY <1>4, <3>1 DEF BlockOK
    <3>4. QED
      BY <1>5, <3>1, <3>2, <3>3
  <2>3. CASE turn.words = {} /\ turn.aside = 0
    <3>1. blocks' = blocks
      BY <1>1, <1>2, <2>3, EmptyEnd DEF Speech
    <3>2. Of(turn) \subseteq {turn.speaker}
      BY <2>3 DEF Of
    <3>3. Unanswered(turn.speaker)
      BY <1>1, <2>3, NothingSaid
    <3>4. QED
      BY <1>2, <3>1, <3>2, <3>3
  <2>4. QED
    BY <2>1, <2>2, <2>3
<1>7. ParserTypeOK'
  <2>1. blocks' \in Seq(Block) /\ NoTurn \in Turn
    BY <1>6 DEF Good, Turn, NoTurn
  <2>2. QED
    BY <1>1, <2>1 DEF ParseInv, ParserTypeOK, Phases
<1>8. CoverAt("scan", blocks', {}, index)
  BY <1>1, <1>2, <1>6 DEF ParseInv, Settled, CoverAt, Gone
<1>9. Settled(phase', index', blocks', pending', turn')
  BY <1>1, <1>2, <1>6, <1>8, TurnLines DEF Settled, HeldAt, SpeechAt, CueAt, Speaking
<1>10. QED
  BY <1>1, <1>7, <1>9, SceneStep DEF Speaking

LEMMA ReadSpeechStep == ASSUME ParseInv, ReadSpeech PROVE ParseInv'
<1>1. CASE SkipBlank
  <2>1. /\ phase \in Speaking /\ turn \in Turn /\ ~IsCue(index)
    BY <1>1 DEF SkipBlank, Speaking, ParseInv, ParserTypeOK, IsCue, CueForms
  <2>2. ~OtherTurn(index)
    BY <1>1, <2>1 DEF SkipBlank, OtherTurn, InlineForms
  <2>3. QED
    BY <1>1, <2>1, <2>2, TurnStep DEF SkipBlank
<1>2. CASE ReadAside
  <2> DEFINE t == [turn EXCEPT !.aside = index]
  <2>1. phase \in Speaking /\ turn \in Turn /\ InScene(index)
    BY <1>2 DEF ReadAside, Speaking, ParseInv, ParserTypeOK
  <2>2. index \in Nat
    BY <2>1, Reading
  <2>3. /\ t \in Turn /\ t.speaker = turn.speaker /\ t.sure = turn.sure
        /\ t.aside = index /\ t.words = turn.words
    BY <2>1, <2>2 DEF Turn
  <2>4. turn' = t
    BY <1>2 DEF ReadAside
  <2> HIDE DEF t
  <2>5. QED
    BY <1>2, <2>1, <2>3, <2>4, TurnStep DEF ReadAside
<1>3. CASE BeginSpeech
  BY <1>3, BeginSpeechStep
<1>4. CASE ReadWords
  <2> DEFINE t == [turn EXCEPT !.words = @ \cup {index}]
  <2>1. phase \in Speaking /\ turn \in Turn /\ InScene(index) /\ ~OtherTurn(index)
    BY <1>4 DEF ReadWords, Speaking, ParseInv, ParserTypeOK, EndsSpeech, OtherTurn
  <2>2. index \in Nat \ {0}
    BY <2>1, Reading
  <2>3. /\ t \in Turn /\ t.speaker = turn.speaker /\ t.sure = turn.sure
        /\ t.aside = turn.aside /\ t.words = turn.words \cup {index}
    BY <2>1, <2>2 DEF Turn
  <2>4. turn' = t
    BY <1>4 DEF ReadWords
  <2> HIDE DEF t
  <2>5. QED
    BY <1>4, <2>1, <2>3, <2>4, TurnStep DEF ReadWords
<1>5. CASE EndSpeech
  BY <1>5, EndSpeechStep
<1>6. QED
  BY <1>1, <1>2, <1>3, <1>4, <1>5 DEF ReadSpeech

\* The end of a scene flushes what was held; the next begins where it ended.
LEMMA EndSceneStep == ASSUME ParseInv, EndScene PROVE ParseInv'
<1> DEFINE new == [first |-> first, last |-> index - 1]
<1>1. /\ phase = "scan" /\ ~InScene(index) /\ blocks' = Flushed /\ pending' = {}
      /\ scenes' = Append(scenes, new) /\ UNCHANGED <<lines, turn>>
  BY DEF EndScene
<1>2. /\ turn = NoTurn /\ scenes \in Seq(Scene) /\ first \in Nat \ {0} /\ index \in Nat \ {0}
      /\ index \in 1..Len(lines) + 1 /\ Len(lines) \in Nat /\ DOMAIN lines = 1..Len(lines)
      /\ Start \in Nat
  BY <1>1, FirstHeading DEF ParseInv, Settled, ParserTypeOK, Speaking
<1>3. /\ Good(Flushed) /\ Before(Flushed, {index}) /\ Flushed \in Seq(Block)
      /\ \A x : In(Flushed, x) <=> In(blocks, x) \/ x \in pending
  BY <1>1, FlushFacts DEF Good
<1>4. Before(Flushed, {index + 1})
  <2>1. \A i \in DOMAIN Flushed : Of(Flushed[i]) \in SUBSET Nat
    BY <1>3, BlockLines
  <2>2. \A x \in Nat : x < index => x < index + 1
    BY <1>2
  <2>3. QED
    BY <1>3, <2>1, <2>2 DEF Before
<1>5. \A x \in Start..index - 1 : Gone(x, Flushed, {})
  BY <1>1, <1>2, <1>3, TurnLines DEF ParseInv, Settled, CoverAt, Gone
<1>6. new \in Scene /\ new.first = first /\ new.last = index - 1 /\ new.last + 1 = index
  BY <1>2 DEF Scene
<1> HIDE DEF new
<1>7. /\ scenes' \in Seq(Scene) /\ Len(scenes') = Len(scenes) + 1 /\ Len(scenes) \in Nat
      /\ DOMAIN scenes' = 1..Len(scenes) + 1 /\ DOMAIN scenes = 1..Len(scenes)
      /\ \A i \in 1..Len(scenes) : scenes'[i] = scenes[i]
      /\ scenes'[Len(scenes) + 1] = new /\ scenes' # <<>>
      /\ scenes = <<>> <=> Len(scenes) = 0
  BY <1>1, <1>2, <1>6, AppendProperties
<1>8. Start' = Start
  BY <1>1 DEF Start, Headings
<1>9. ASSUME NEW i \in DOMAIN scenes'
      PROVE  scenes'[i].first = IF i = 1 THEN Start ELSE scenes'[i - 1].last + 1
  <2>1. CASE i \in 1..Len(scenes)
    <3>1. i = 1 \/ i - 1 \in 1..Len(scenes)
      BY <1>7, <2>1
    <3>2. QED
      BY <1>7, <2>1, <3>1 DEF ParseInv, ScenesOK, ScenesCoverScript
  <2>2. CASE i = Len(scenes) + 1
    <3>1. first = IF scenes = <<>> THEN Start ELSE scenes[Len(scenes)].last + 1
      BY <1>1 DEF ParseInv, ScenesOK
    <3>2. i = 1 \/ (i - 1 = Len(scenes) /\ Len(scenes) \in 1..Len(scenes))
      BY <1>7, <2>2
    <3>3. QED
      BY <1>6, <1>7, <2>2, <3>1, <3>2
  <2>3. QED
    BY <1>7, <2>1, <2>2
<1>10. CASE index \in DOMAIN lines
  <2>1. first' = index /\ index' = index + 1 /\ phase' = "scan"
    BY <1>1, <1>10 DEF EndScene
  <2>2. lines[index] = "heading"
    BY <1>1, <1>10 DEF InScene
  <2>3. CoverAt("scan", Flushed, {}, index + 1)
    <3> SUFFICES ASSUME NEW x \in Start..index PROVE Gone(x, Flushed, {})
      BY <1>2 DEF CoverAt
    <3>1. x = index \/ x \in Start..index - 1
      BY <1>2
    <3>2. QED
      BY <1>5, <2>2, <3>1 DEF Gone
  <2>4. Settled(phase', index', blocks', pending', turn')
    BY <1>1, <1>2, <1>3, <1>4, <2>1, <2>3, TurnLines
       DEF Settled, HeldAt, SpeechAt, CueAt, Speaking
  <2>5. ParserTypeOK'
    BY <1>1, <1>2, <1>3, <1>7, <1>10, <2>1 DEF ParseInv, ParserTypeOK
  <2>6. ScenesOK'
    BY <1>6, <1>7, <1>8, <1>9, <2>1 DEF ScenesOK, ScenesCoverScript
  <2>7. QED
    BY <1>1, <2>4, <2>5, <2>6, SettledNext DEF ParseInv
<1>11. CASE index \notin DOMAIN lines
  <2>1. phase' = "done" /\ index' = index /\ first' = first
    BY <1>1, <1>11 DEF EndScene
  <2>2. index = Len(lines) + 1 /\ new.last = Len(lines)
    BY <1>2, <1>6, <1>11
  <2>3. CoverAt("done", Flushed, {}, index)
    BY <1>5 DEF CoverAt
  <2>4. Settled(phase', index', blocks', pending', turn')
    BY <1>1, <1>2, <1>3, <2>1, <2>2, <2>3, TurnLines
       DEF Settled, HeldAt, SpeechAt, CueAt, Speaking
  <2>5. ParserTypeOK'
    BY <1>1, <1>3, <1>7, <2>1 DEF ParseInv, ParserTypeOK, Phases
  <2>6. ScenesOK'
    BY <1>1, <1>7, <1>8, <1>9, <2>1, <2>2 DEF ScenesOK, ScenesCoverScript, Speaking
  <2>7. QED
    BY <1>1, <2>4, <2>5, <2>6, SettledNext DEF ParseInv
<1>12. QED
  BY <1>10, <1>11

-----------------------------------------------------------------------------
(* A text begins. *)

\* A parse that begins has settled what it leaves out.
LEMMA FreshParse ==
    ASSUME scenes' = <<>>, blocks' = <<>>, pending' = {}, turn' = NoTurn,
           lines' \in Seq(Kinds), index' \in 1..Len(lines') + 1, first' \in 1..Len(lines') + 1,
           \/ phase' = "failed"
           \/ phase' = "scan" /\ first' = Start' /\ \A x \in Start'..index' - 1 : lines'[x] = "heading"
    PROVE  ParseInv'
<1>1. ParserTypeOK'
  <2>1. NoTurn \in Turn
    BY DEF Turn, NoTurn
  <2>2. <<>> \in Seq(Scene) /\ <<>> \in Seq(Block)
    OBVIOUS
  <2>3. phase' \in Phases
    BY DEF Phases
  <2>4. QED
    BY <2>1, <2>2, <2>3 DEF ParserTypeOK
<1>2. ScenesOK'
  <2>1. phase' # "done" /\ phase' \notin Speaking
    BY DEF Speaking
  <2>2. ScenesCoverScript'
    BY <2>1 DEF ScenesCoverScript
  <2>3. phase' = "scan" => first' = Start'
    OBVIOUS
  <2>4. QED
    BY <2>1, <2>2, <2>3 DEF ScenesOK
<1>3. Good(blocks)' /\ Before(blocks, pending \cup Of(turn) \cup {index})'
  BY DEF Good, Before
<1>4. HeldAt(pending \cup Of(turn), index)'
  BY TurnLines DEF HeldAt
<1>5. SpeechAt(phase, turn, index)' /\ CueAt(phase, turn, index)'
  BY DEF SpeechAt, CueAt, Speaking
<1>6. CoverAt(phase, blocks, pending \cup Of(turn), index)'
  BY DEF CoverAt, Gone
<1>7. Settled(phase, index, blocks, pending, turn)'
  BY <1>3, <1>4, <1>5, <1>6 DEF Settled
<1>8. QED
  BY <1>1, <1>2, <1>7 DEF ParseInv

LEMMA RefuseStep == ASSUME ParseInv, RefuseText PROVE ParseInv'
<1>1. /\ phase' = "failed" /\ lines' = <<>> /\ index' = 1 /\ first' = 1
      /\ scenes' = <<>> /\ blocks' = <<>> /\ pending' = {} /\ turn' = NoTurn
  BY DEF RefuseText
<1>2. lines' \in Seq(Kinds) /\ Len(lines') = 0
  BY <1>1
<1>3. index' \in 1..Len(lines') + 1 /\ first' \in 1..Len(lines') + 1
  BY <1>1, <1>2
<1>4. QED
  BY <1>1, <1>2, <1>3, FreshParse

LEMMA BeginStep ==
    ASSUME ParseInv, NEW content \in Seq(Kinds), BeginParse(content)
    PROVE  ParseInv'
<1>1. /\ phase' = "scan" /\ lines' = content /\ first' = Start'
      /\ index' = (IF Headings' = {} THEN 1 ELSE Start' + 1)
      /\ scenes' = <<>> /\ blocks' = <<>> /\ pending' = {} /\ turn' = NoTurn
  BY DEF BeginParse
<1>2. lines' \in Seq(Kinds) /\ Len(lines') \in Nat /\ DOMAIN lines' = 1..Len(lines')
  BY <1>1
<1>3. CASE Headings' = {}
  <2>1. Start' = 1 /\ index' = 1
    BY <1>1, <1>3 DEF Start
  <2>2. QED
    BY <1>1, <1>2, <2>1, FreshParse
<1>4. CASE Headings' # {}
  <2>1. Headings' \in SUBSET Nat /\ \A i \in Headings' : i \in DOMAIN lines' /\ lines'[i] = "heading"
    BY <1>2 DEF Headings
  <2>2. (CHOOSE i \in Headings' : \A j \in Headings' : i <= j) \in Headings'
    BY <1>4, <2>1, LeastElement
  <2>3. Start' \in Headings'
    BY <1>4, <2>2 DEF Start
  <2>4. PICK s \in 1..Len(lines') : s = Start' /\ lines'[s] = "heading"
    BY <1>2, <2>1, <2>3
  <2>5. index' = s + 1 /\ first' = s
    BY <1>1, <1>4, <2>4
  <2>6. s \in Nat /\ index' \in 1..Len(lines') + 1 /\ first' \in 1..Len(lines') + 1
    BY <1>2, <2>5
  <2>7. \A x \in s..index' - 1 : x = s
    BY <2>5, <2>6
  <2>8. QED
    BY <1>1, <1>2, <2>4, <2>6, <2>7, FreshParse
<1>5. QED
  BY <1>3, <1>4

LEMMA ParseStarts == ParserInit => ParseInv
<1> SUFFICES ASSUME ParserInit PROVE ParseInv
  OBVIOUS
<1>1. /\ phase = "idle" /\ lines = <<>> /\ index = 1 /\ first = 1
      /\ scenes = <<>> /\ blocks = <<>> /\ pending = {} /\ turn = NoTurn
  BY DEF ParserInit
<1>2. /\ lines \in Seq(Kinds) /\ scenes \in Seq(Scene) /\ blocks \in Seq(Block)
      /\ Len(lines) = 0 /\ NoTurn \in Turn
  BY <1>1 DEF Turn, NoTurn
<1>3. ParserTypeOK
  BY <1>1, <1>2 DEF ParserTypeOK, Phases
<1>4. Good(blocks) /\ Before(blocks, pending \cup Of(turn) \cup {index})
  BY <1>1, <1>2 DEF Good, Before
<1>5. Settled(phase, index, blocks, pending, turn)
  BY <1>1, <1>4, TurnLines DEF Settled, HeldAt, SpeechAt, CueAt, CoverAt, Speaking
<1>6. ScenesOK
  BY <1>1 DEF ScenesOK, ScenesCoverScript, Speaking
<1>7. QED
  BY <1>3, <1>5, <1>6 DEF ParseInv

LEMMA ParseKeeps == ParseInv /\ [ParserNext]_parserVars => ParseInv'
<1> SUFFICES ASSUME ParseInv, [ParserNext]_parserVars PROVE ParseInv'
  OBVIOUS
<1>1. CASE UNCHANGED parserVars
  <2>1. UNCHANGED <<phase, lines, index, first, scenes, blocks, pending, turn>>
    BY <1>1 DEF parserVars
  <2>2. ParserTypeOK' /\ Start' = Start
    BY <2>1 DEF ParseInv, ParserTypeOK, Start, Headings
  <2>3. ScenesOK'
    BY <2>1, <2>2 DEF ParseInv, ScenesOK, ScenesCoverScript
  <2>4. QED
    BY <2>1, <2>2, <2>3, SettledNext DEF ParseInv
<1>2. CASE ParserStep
  BY <1>2, ReadLineStep, ReadSpeechStep, EndSceneStep DEF ParserStep
<1>3. CASE RefuseText
  BY <1>3, RefuseStep
<1>4. CASE \E content \in Seq(Kinds) : BeginParse(content)
  BY <1>4, BeginStep
<1>5. QED
  BY <1>1, <1>2, <1>3, <1>4 DEF ParserNext

-----------------------------------------------------------------------------
(* The theorems. *)

\* The invariant holds while texts of any length are parsed, one after another.
THEOREM ParseInvariance == ParserSpec => []ParseInv
BY ParseStarts, ParseKeeps, PTL DEF ParserSpec

\* The state of the parse stays well formed: no index leaves the text.
THEOREM ParseTypeCorrect == ParserSpec => []ParserTypeOK
<1>1. ParseInv => ParserTypeOK
  BY DEF ParseInv
<1>2. QED
  BY <1>1, ParseInvariance, PTL

\* _classify_lines emits blocks in the order of the text and no line twice, and
\* flush_action leaves nothing to be carried over a heading.
THEOREM BlocksKeepToText == ParserSpec => []BlocksFollowText
<1>1. ParseInv => BlocksInOrder
  BY DEF ParseInv, Settled, Good, BlocksInOrder
<1>2. ParseInv => BlocksStayInScene
  BY DEF ParseInv, Settled, Good, BlockOK, BlocksStayInScene
<1>3. ParseInv => BlocksFollowText
  BY <1>1, <1>2 DEF BlocksFollowText
<1>4. QED
  BY <1>3, ParseInvariance, PTL

\* The speech loop of _classify_lines ends before the next name.
THEOREM SpeakersKeepTheirWords == ParserSpec => []SpeechIsTheSpeakers
<1>1. ParseInv => SpeechIsTheSpeakers
  BY DEF ParseInv, Settled, Good, BlockOK, SpeechIsTheSpeakers
<1>2. QED
  BY <1>1, ParseInvariance, PTL

\* The loop of _classify_lines loses blank lines, headings and unanswered cues,
\* the last with whatever words their line holds, and keeps every other line.
THEOREM NothingElseIsDropped == ParserSpec => []OnlyUnansweredCuesAreDropped
<1>1. ParseInv => OnlyUnansweredCuesAreDropped
  <2> SUFFICES ASSUME ParseInv, phase = "done", NEW x \in Start..Len(lines)
               PROVE  \/ lines[x] \in {"blank", "heading"}
                      \/ \E i \in DOMAIN blocks : x \in Of(blocks[i])
                      \/ Unanswered(x)
    BY DEF OnlyUnansweredCuesAreDropped
  <2>1. index - 1 = Len(lines) /\ pending = {} /\ turn = NoTurn
    BY DEF ParseInv, Settled, ParserTypeOK, Speaking
  <2>2. Gone(x, blocks, {})
    BY <2>1, TurnLines DEF ParseInv, Settled, CoverAt
  <2>3. QED
    BY <2>2 DEF Gone, In
<1>2. QED
  BY <1>1, ParseInvariance, PTL

\* split_into_scenes: from the first heading to the end, one scene after the
\* other.
THEOREM ScenesAreContiguous == ParserSpec => []ScenesCoverScript
<1>1. ParseInv => ScenesCoverScript
  BY DEF ParseInv, ScenesOK
<1>2. QED
  BY <1>1, ParseInvariance, PTL

-----------------------------------------------------------------------------
(* THE UPLOAD. *)

SourceOK == source \in Seq(Kinds \cup {"noise"})

Prefix(m) == [i \in 1..m |-> i]

Was(u) == \E i \in DOMAIN delivered : delivered[i].upload = u
Disturbed == repeated \cup forgotten

\* What follows a unit is the next one, or one that was sent before.
Follows(text) == \A k \in 1..Len(text) - 1 : text[k + 1] <= text[k] + 1

FromSource(text) == \A k \in DOMAIN text : text[k] \in Positions

\* The loop has one piece outstanding, of what is left at its offset.
LoopOK ==
    /\ IF client.at = "sending"
       THEN client.upload \in Uploads /\ client.offset < Len(source)
       ELSE wire = Quiet
    /\ wire.at # "none" =>
          /\ wire.from = client.offset
          /\ wire.size > 0 /\ client.offset + wire.size <= Len(source)

\* What the loop has got over of its text.
Passed == IF wire.at = "answer" THEN client.offset + wire.size ELSE client.offset

\* What the process holds of upload u.
HeldOK(u, text) ==
    /\ Follows(text) /\ FromSource(text)
    /\ text # <<>> => text[1] = 1 \/ u \in forgotten \/ Was(u)

\* The loop does not run ahead of what the process holds of its upload.
KeepsUp(u, text) ==
    /\ IF text # <<>> THEN Passed <= text[Len(text)]
                      ELSE Passed = 0 \/ u \in forgotten \/ Was(u)
    /\ u \notin Disturbed /\ ~(wire.at = "answer" /\ Final) => text = Prefix(Passed)

LoopKeepsUp ==
    client.at = "sending" /\ wire.at \notin {"refused", "broken"} =>
        KeepsUp(client.upload, sessions[client.upload].text)

DeliveredOK(i) ==
    LET text == delivered[i].text
        upload == delivered[i].upload IN
    /\ upload \notin Disturbed => text = Whole
    /\ text # <<>> /\ text[Len(text)] = Len(source)
    /\ Follows(text)
    /\ text[1] = 1 \/ upload \in forgotten \/ \E j \in 1..i - 1 : delivered[j].upload = upload

UploadInv ==
    /\ SourceOK
    /\ UploadTypeOK
    /\ LoopOK
    /\ \A u \in Uploads : HeldOK(u, sessions[u].text)
    /\ LoopKeepsUp
    /\ \A i \in DOMAIN delivered : DeliveredOK(i)

\* A piece added to a text that reaches to it, at least.
LEMMA ReceivedFacts ==
    ASSUME NEW text \in Seq(Nat), NEW from \in Nat, NEW size \in Nat \ {0},
           Follows(text), text # <<>> => from <= text[Len(text)],
           FromSource(text), Len(source) \in Nat, from + size <= Len(source)
    PROVE  LET all == text \o Piece(from, size) IN
           /\ all \in Seq(Nat) /\ all # <<>>
           /\ Follows(all) /\ FromSource(all)
           /\ all[Len(all)] = from + size
           /\ all[1] = IF text = <<>> THEN from + 1 ELSE text[1]
           /\ text = Prefix(from) => all = Prefix(from + size)
<1> DEFINE piece == Piece(from, size)
           all == text \o piece
<1>1. /\ piece \in Seq(Nat) /\ Len(piece) = size
      /\ \A i \in 1..size : piece[i] = from + i
  BY DEF Piece
<1> HIDE DEF piece
<1>2. /\ all \in Seq(Nat) /\ Len(all) = Len(text) + size /\ Len(text) \in Nat
      /\ \A i \in 1..Len(text) : all[i] = text[i]
      /\ \A i \in Len(text) + 1..Len(text) + size : all[i] = piece[i - Len(text)]
  <2>1. /\ all \in Seq(Nat) /\ Len(all) = Len(text) + Len(piece)
        /\ \A i \in 1..Len(text) + Len(piece) :
              all[i] = IF i <= Len(text) THEN text[i] ELSE piece[i - Len(text)]
    BY <1>1, ConcatProperties
  <2> HIDE DEF all
  <2>2. Len(text) \in Nat
    OBVIOUS
  <2>3. ASSUME NEW i \in 1..Len(text) PROVE all[i] = text[i]
    <3>1. i \in 1..Len(text) + Len(piece) /\ i <= Len(text)
      BY <1>1, <2>2
    <3>2. QED
      BY <2>1, <3>1
  <2>4. ASSUME NEW i \in Len(text) + 1..Len(text) + size PROVE all[i] = piece[i - Len(text)]
    <3>1. i \in 1..Len(text) + size /\ ~(i <= Len(text))
      BY <1>1, <2>2
    <3>2. QED
      BY <1>1, <2>1, <3>1
  <2>5. QED
    BY <1>1, <2>1, <2>2, <2>3, <2>4
<1> HIDE DEF all
<1>3. \A i \in 1..size : all[Len(text) + i] = from + i
  <2> TAKE i \in 1..size
  <2>1. Len(text) + i \in Len(text) + 1..Len(text) + size /\ (Len(text) + i) - Len(text) = i
    BY <1>2
  <2>2. QED
    BY <1>1, <1>2, <2>1
<1>4. all[Len(all)] = from + size /\ all # <<>>
  BY <1>2, <1>3
<1>5. all[1] = IF text = <<>> THEN from + 1 ELSE text[1]
  <2>1. CASE text = <<>>
    BY <1>2, <1>3, <2>1
  <2>2. CASE text # <<>>
    BY <1>2, <2>2
  <2>3. QED
    BY <2>1, <2>2
<1>6. Follows(all)
  <2> SUFFICES ASSUME NEW k \in 1..Len(all) - 1 PROVE all[k + 1] <= all[k] + 1
    BY DEF Follows
  <2>1. CASE k < Len(text)
    <3>0. k \in Nat /\ k >= 1 /\ Len(text) \in Nat
      BY <1>2
    <3>1. k \in 1..Len(text) - 1 /\ k \in 1..Len(text) /\ k + 1 \in 1..Len(text)
      BY <2>1, <3>0
    <3>2. QED
      BY <1>2, <3>1 DEF Follows
  <2>2. CASE k = Len(text)
    BY <1>2, <1>3, <2>2
  <2>3. CASE k > Len(text)
    <3>1. PICK i \in 1..size - 1 : k = Len(text) + i
      <4>1. k \in Nat /\ k - Len(text) \in 1..size - 1 /\ k = Len(text) + (k - Len(text))
        BY <1>2, <2>3
      <4>2. QED
        BY <4>1
    <3>2. all[k] = from + i /\ all[k + 1] = from + (i + 1)
      <4>1. i \in 1..size /\ i + 1 \in 1..size /\ k + 1 = Len(text) + (i + 1)
        BY <1>2, <3>1
      <4>2. QED
        BY <1>3, <3>1, <4>1
    <3>3. QED
      BY <3>1, <3>2
  <2>4. QED
    BY <1>2, <2>1, <2>2, <2>3
<1>7. ASSUME text = Prefix(from) PROVE all = Prefix(from + size)
  <2>1. Len(text) = from /\ \A i \in 1..from : text[i] = i
    BY <1>7 DEF Prefix
  <2>2. Len(all) = from + size
    BY <1>2, <2>1
  <2>3. \A i \in 1..from + size : all[i] = i
    <3> TAKE i \in 1..from + size
    <3>1. CASE i <= from
      BY <1>2, <2>1, <3>1
    <3>2. CASE i > from
      <4>1. i - from \in 1..size /\ i = Len(text) + (i - from)
        BY <2>1, <3>2
      <4>2. QED
        BY <1>3, <4>1, <2>1
    <3>3. QED
      BY <3>1, <3>2
  <2>4. QED
    BY <1>2, <2>2, <2>3 DEF Prefix
<1>8. FromSource(all)
  <2> SUFFICES ASSUME NEW k \in 1..Len(all) PROVE all[k] \in 1..Len(source)
    BY <1>2 DEF FromSource, Positions
  <2>1. CASE k <= Len(text)
    <3>1. k \in DOMAIN text /\ all[k] = text[k]
      BY <1>2, <2>1
    <3>2. QED
      BY <3>1 DEF FromSource, Positions
  <2>2. CASE k > Len(text)
    <3>1. k - Len(text) \in 1..size /\ k = Len(text) + (k - Len(text))
      BY <1>2, <2>2
    <3>2. all[k] = from + (k - Len(text))
      BY <1>3, <3>1
    <3>3. QED
      BY <3>1, <3>2
  <2>3. QED
    BY <1>2, <2>1, <2>2
<1>9. QED
  BY <1>2, <1>4, <1>5, <1>6, <1>7, <1>8 DEF all, piece

\* A step of the page or the network: the sessions stay as they are.
LEMMA UploadKept ==
    ASSUME UploadInv, UNCHANGED <<source, sessions, delivered>>,
           repeated \subseteq repeated', forgotten \subseteq forgotten',
           UploadTypeOK', LoopOK', LoopKeepsUp'
    PROVE  UploadInv'
<1>1. \A u \in Uploads : HeldOK(u, sessions[u].text)'
  BY DEF UploadInv, HeldOK, Follows, FromSource, Positions, Was
<1>2. \A i \in DOMAIN delivered' : DeliveredOK(i)'
  BY DEF UploadInv, DeliveredOK, Follows, Whole, Positions, Disturbed
<1>3. QED
  BY <1>1, <1>2 DEF UploadInv, SourceOK

LEMMA StartUploadStep ==
    ASSUME UploadInv, NEW u \in Uploads, StartUpload(u), Len(source) > 0
    PROVE  UploadInv'
<1>1. /\ client.at \in {"idle", "failed"} /\ sessions[u] = NoSession
      /\ client' = [at |-> "sending", upload |-> u, offset |-> 0, size |-> START_CHARS,
                    floorRetries |-> 0, streak |-> 0]
      /\ UNCHANGED <<source, wire, sessions, delivered, drops, repeated, forgotten>>
  BY DEF StartUpload
<1>2. wire = Quiet /\ wire.at = "none" /\ wire'.at = "none"
  BY <1>1 DEF UploadInv, LoopOK, Quiet
<1>3. client' \in Client
  BY <1>1, SizesAssumption DEF Client
<1>4. UploadTypeOK'
  BY <1>1, <1>3 DEF UploadInv, UploadTypeOK
<1>5. LoopOK'
  BY <1>1, <1>2 DEF LoopOK
<1>6. sessions[u].text = <<>> /\ Prefix(0) = <<>> /\ Passed' = 0
  BY <1>1, <1>2 DEF NoSession, Prefix, Passed
<1>7. LoopKeepsUp'
  BY <1>1, <1>6 DEF LoopKeepsUp, KeepsUp
<1>8. QED
  BY <1>1, <1>4, <1>5, <1>7, UploadKept

LEMMA SendStep == ASSUME UploadInv, Send PROVE UploadInv'
<1>1. /\ client.at = "sending" /\ wire = Quiet /\ wire.at = "none"
      /\ wire' = [at |-> "request", from |-> client.offset,
                  size |-> Least(client.size, Len(source) - client.offset)]
      /\ UNCHANGED <<source, client, sessions, delivered, drops, repeated, forgotten>>
  BY DEF Send, Quiet
<1>2. /\ client.upload \in Uploads /\ client.offset \in Nat /\ client.size \in Nat \ {0}
      /\ client.offset < Len(source) /\ Len(source) \in Nat
  BY <1>1, SizesAssumption DEF UploadInv, UploadTypeOK, LoopOK, Client, SourceOK
<1>3. /\ wire'.at = "request" /\ wire'.from = client.offset
      /\ wire'.size \in Nat /\ wire'.size > 0 /\ client.offset + wire'.size <= Len(source)
      /\ wire' \in Wire
  <2> DEFINE size == Least(client.size, Len(source) - client.offset)
  <2>1. size \in Nat /\ size > 0 /\ client.offset + size <= Len(source)
    BY <1>2 DEF Least
  <2> HIDE DEF size
  <2>2. wire' = [at |-> "request", from |-> client.offset, size |-> size]
    BY <1>1 DEF size
  <2>3. QED
    BY <1>2, <2>1, <2>2 DEF Wire
<1>4. UploadTypeOK' /\ LoopOK'
  BY <1>1, <1>2, <1>3 DEF UploadInv, UploadTypeOK, LoopOK
<1>5. Passed' = Passed
  BY <1>1, <1>3 DEF Passed
<1>6. LoopKeepsUp'
  BY <1>1, <1>3, <1>5 DEF UploadInv, LoopKeepsUp, KeepsUp, Was, Disturbed
<1>7. QED
  BY <1>1, <1>4, <1>6, UploadKept

\* What the loop knows when it waits for a piece.
LEMMA Outstanding ==
    ASSUME UploadInv, wire.at # "none"
    PROVE  /\ client.at = "sending" /\ client.upload \in Uploads
           /\ client.offset \in Nat /\ client.offset < Len(source) /\ Len(source) \in Nat
           /\ wire.from = client.offset /\ wire.size \in Nat \ {0}
           /\ client.offset + wire.size <= Len(source)
           /\ client \in Client /\ wire \in Wire
           /\ sessions[client.upload].text \in Seq(Nat)
           /\ Quiet \in Wire /\ Quiet.at = "none"
<1>1. client \in Client /\ wire \in Wire /\ sessions \in [Uploads -> Session]
  BY DEF UploadInv, UploadTypeOK
<1>2. client.at = "sending"
  BY DEF UploadInv, LoopOK, Quiet
<1>3. QED
  BY <1>1, <1>2 DEF UploadInv, LoopOK, Client, Wire, Session, SourceOK, Quiet

LEMMA HearAnswerStep == ASSUME UploadInv, HearAnswer PROVE UploadInv'
<1> DEFINE grows == client.size < START_CHARS /\ client.streak + 1 >= GROWTH_STREAK
           size == IF grows THEN Least(START_CHARS, 2 * client.size) ELSE client.size
           streak == IF grows THEN 0 ELSE Least(client.streak + 1, GROWTH_STREAK)
           at == IF Final THEN "done" ELSE client.at
<1>1. /\ wire.at = "answer" /\ wire' = Quiet
      /\ client' = [client EXCEPT !.offset = @ + wire.size, !.floorRetries = 0,
                                  !.size = size, !.streak = streak, !.at = at]
      /\ UNCHANGED <<source, sessions, delivered, drops, repeated, forgotten>>
  BY DEF HearAnswer
<1>2. /\ client.at = "sending" /\ client.upload \in Uploads
      /\ client.offset \in Nat /\ client.offset < Len(source) /\ Len(source) \in Nat
      /\ wire.from = client.offset /\ wire.size \in Nat \ {0}
      /\ client.offset + wire.size <= Len(source)
      /\ client \in Client /\ Quiet \in Wire /\ Quiet.at = "none"
  BY <1>1, Outstanding
<1>3. size \in MIN_CHARS..START_CHARS /\ streak \in 0..GROWTH_STREAK
      /\ at \in {"done", "sending"} /\ (at = "sending" <=> ~Final)
  <2>1. client.size \in MIN_CHARS..START_CHARS /\ client.streak \in 0..GROWTH_STREAK
    BY <1>2 DEF Client
  <2>2. size \in MIN_CHARS..START_CHARS
    BY <2>1, SizesAssumption DEF Least
  <2>3. streak \in 0..GROWTH_STREAK
    BY <2>1, SizesAssumption DEF Least
  <2>4. QED
    BY <1>2, <2>2, <2>3
<1> HIDE DEF size, streak, at
<1>4. /\ client'.at = at /\ client'.upload = client.upload
      /\ client'.offset = client.offset + wire.size
  BY <1>1, <1>2 DEF Client
<1>5. client' \in Client
  <2>1. /\ at \in {"idle", "sending", "done", "failed"} /\ client.offset + wire.size \in Nat
        /\ 0 \in 0..MAX_FLOOR_RETRIES
    BY <1>2, <1>3, SizesAssumption
  <2>2. QED
    BY <1>1, <1>2, <1>3, <2>1 DEF Client
<1>6. UploadTypeOK'
  BY <1>1, <1>2, <1>5 DEF UploadInv, UploadTypeOK
<1>7. LoopOK'
  BY <1>1, <1>2, <1>3, <1>4 DEF LoopOK, Final
<1>8. ASSUME at = "sending"
      PROVE  KeepsUp(client.upload, sessions[client.upload].text)'
  <2>1. KeepsUp(client.upload, sessions[client.upload].text)
    BY <1>1, <1>2 DEF UploadInv, LoopKeepsUp
  <2>2. Passed' = Passed /\ ~Final
    BY <1>1, <1>2, <1>3, <1>4, <1>8 DEF Passed
  <2>3. QED
    BY <1>1, <1>4, <2>1, <2>2 DEF KeepsUp, Was, Disturbed
<1>9. LoopKeepsUp'
  BY <1>4, <1>8 DEF LoopKeepsUp
<1>10. QED
  BY <1>1, <1>6, <1>7, <1>9, UploadKept

LEMMA HearBlockPageStep == ASSUME UploadInv, HearBlockPage PROVE UploadInv'
<1>1. /\ wire.at = "filtered" /\ wire' = Quiet
      /\ UNCHANGED <<source, sessions, delivered, drops, repeated, forgotten>>
  BY DEF HearBlockPage
<1>2. /\ client.at = "sending" /\ client.upload \in Uploads
      /\ client.offset \in Nat /\ client.offset < Len(source)
      /\ client \in Client /\ Quiet \in Wire /\ Quiet.at = "none"
  BY <1>1, Outstanding
<1>3. /\ client' \in Client /\ client'.at \in {"sending", "failed"}
      /\ client'.upload = client.upload /\ client'.offset = client.offset
  <2>0. /\ client.size \in MIN_CHARS..START_CHARS
        /\ client.floorRetries \in 0..MAX_FLOOR_RETRIES
    BY <1>2 DEF Client
  <2>1. CASE client' = [client EXCEPT !.size = Most(MIN_CHARS, @ \div 2), !.streak = 0]
    <3>1. Most(MIN_CHARS, client.size \div 2) \in MIN_CHARS..START_CHARS /\ 0 \in 0..GROWTH_STREAK
      BY <2>0, SizesAssumption DEF Most
    <3>2. QED
      BY <1>2, <2>1, <3>1 DEF Client
  <2>2. CASE /\ client' = [client EXCEPT !.floorRetries = @ + 1]
             /\ client.floorRetries < MAX_FLOOR_RETRIES
    <3>1. client.floorRetries + 1 \in 0..MAX_FLOOR_RETRIES
      BY <2>0, <2>2, SizesAssumption
    <3>2. QED
      BY <1>2, <2>2, <3>1 DEF Client
  <2>3. CASE client' = [client EXCEPT !.at = "failed"]
    BY <1>2, <2>3 DEF Client
  <2>4. QED
    BY <2>1, <2>2, <2>3 DEF HearBlockPage
<1>4. UploadTypeOK'
  BY <1>1, <1>2, <1>3 DEF UploadInv, UploadTypeOK
<1>5. LoopOK'
  BY <1>1, <1>2, <1>3 DEF LoopOK
<1>6. Passed' = Passed
  BY <1>1, <1>2, <1>3 DEF Passed
<1>7. LoopKeepsUp'
  <2>1. KeepsUp(client.upload, sessions[client.upload].text)
    BY <1>1, <1>2 DEF UploadInv, LoopKeepsUp
  <2>2. QED
    BY <1>1, <1>3, <1>6, <2>1 DEF LoopKeepsUp, KeepsUp, Was, Disturbed
<1>8. QED
  BY <1>1, <1>4, <1>5, <1>7, UploadKept

LEMMA HearErrorStep == ASSUME UploadInv, HearError PROVE UploadInv'
<1>1. /\ wire.at # "none" /\ wire' = Quiet /\ client' = [client EXCEPT !.at = "failed"]
      /\ UNCHANGED <<source, sessions, delivered, drops, repeated, forgotten>>
  BY DEF HearError
<1>2. client \in Client /\ Quiet \in Wire /\ Quiet.at = "none"
  BY <1>1, Outstanding
<1>3. client' \in Client /\ client'.at = "failed"
  BY <1>1, <1>2 DEF Client
<1>4. UploadTypeOK' /\ LoopOK' /\ LoopKeepsUp'
  BY <1>1, <1>2, <1>3 DEF UploadInv, UploadTypeOK, LoopOK, LoopKeepsUp
<1>5. QED
  BY <1>1, <1>4, UploadKept

\* The network, and a server that refuses, only change what becomes of the piece.
LEMMA WireStep ==
    ASSUME UploadInv, wire.at \in {"request", "answer"},
           NEW at \in {"filtered", "broken", "refused"}, wire' = [wire EXCEPT !.at = at],
           at = "filtered" => wire.at = "request" \/ client.upload \in repeated',
           repeated' \in {repeated, repeated \cup {client.upload}},
           UNCHANGED <<source, client, sessions, delivered, drops, forgotten>>
    PROVE  UploadInv'
<1>1. /\ client.at = "sending" /\ client.upload \in Uploads
      /\ client.offset \in Nat
      /\ wire.from = client.offset /\ wire.size \in Nat \ {0}
      /\ client.offset + wire.size <= Len(source)
      /\ wire \in Wire /\ sessions[client.upload].text \in Seq(Nat)
  BY Outstanding
<1>2. /\ wire' \in Wire /\ wire'.at = at /\ wire'.from = wire.from /\ wire'.size = wire.size
  BY <1>1 DEF Wire
<1>3. repeated' \in SUBSET Uploads
  BY <1>1 DEF UploadInv, UploadTypeOK
<1>4. UploadTypeOK'
  BY <1>2, <1>3 DEF UploadInv, UploadTypeOK
<1>5. LoopOK'
  BY <1>1, <1>2 DEF UploadInv, LoopOK
<1>6. LoopKeepsUp'
  <2>1. SUFFICES ASSUME at = "filtered"
                 PROVE  KeepsUp(client.upload, sessions[client.upload].text)'
    BY <1>2 DEF LoopKeepsUp
  <2> DEFINE text == sessions[client.upload].text
  <2>2. KeepsUp(client.upload, text)
    BY <1>1, <2>1 DEF UploadInv, LoopKeepsUp
  <2>3. Passed' = client.offset /\ Passed \in Nat /\ Passed' <= Passed /\ wire'.at # "answer"
    BY <1>1, <1>2, <2>1 DEF Passed
  <2>4. text # <<>> => text[Len(text)] \in Nat
    BY <1>1
  <2>5. wire.at = "request" => Passed' = Passed
    BY <2>3 DEF Passed
  <2>6. Passed = 0 => Passed' = 0
    BY <1>1, <2>3
  <2>7. text' = text /\ client'.upload = client.upload
    OBVIOUS
  <2> HIDE DEF text
  <2>8. IF text # <<>> THEN Passed' <= text[Len(text)]
                       ELSE Passed' = 0 \/ client.upload \in forgotten' \/ Was(client.upload)'
    <3>1. Was(client.upload)' <=> Was(client.upload)
      BY DEF Was
    <3>2. QED
      BY <1>1, <2>2, <2>3, <2>4, <2>6, <3>1 DEF KeepsUp
  <2>9. client.upload \notin Disturbed' => text = Prefix(Passed')
    <3>1. client.upload \notin Disturbed' => wire.at = "request" /\ client.upload \notin Disturbed
      BY <2>1 DEF Disturbed
    <3>2. QED
      BY <2>2, <2>5, <3>1 DEF KeepsUp
  <2>10. QED
    BY <2>3, <2>7, <2>8, <2>9 DEF KeepsUp, text
<1>7. QED
  BY <1>4, <1>5, <1>6, UploadKept

LEMMA NetworkStep == ASSUME UploadInv, Network \/ Refuse PROVE UploadInv'
<1>1. CASE BlockRequest
  BY <1>1, WireStep DEF BlockRequest
<1>2. CASE BlockAnswer
  BY <1>2, WireStep DEF BlockAnswer
<1>3. CASE BreakConnection
  BY <1>3, WireStep DEF BreakConnection
<1>4. CASE Refuse
  BY <1>4, WireStep DEF Refuse
<1>5. QED
  BY <1>1, <1>2, <1>3, <1>4 DEF Network

\* A session is lost, and its upload is marked so.
LEMMA DropSessionStep ==
    ASSUME UploadInv, NEW v \in Uploads, DropSession(v)
    PROVE  UploadInv'
<1>1. /\ drops < MaxDrops /\ drops' = drops + 1
      /\ sessions' = [sessions EXCEPT ![v] = NoSession]
      /\ forgotten' = forgotten \cup {v}
      /\ UNCHANGED <<source, client, wire, delivered, repeated>>
  BY DEF DropSession
<1>2. /\ sessions \in [Uploads -> Session] /\ drops \in 0..MaxDrops
      /\ forgotten \in SUBSET Uploads
  BY DEF UploadInv, UploadTypeOK
<1>3. NoSession \in Session /\ NoSession.text = <<>>
  BY SizesAssumption DEF Session, NoSession
<1>4. /\ sessions' \in [Uploads -> Session] /\ sessions'[v] = NoSession
      /\ \A u \in Uploads \ {v} : sessions'[u] = sessions[u]
  BY <1>1, <1>2, <1>3
<1>5. UploadTypeOK'
  <2>1. drops' \in 0..MaxDrops
    BY <1>1, <1>2, SizesAssumption
  <2>2. forgotten' \in SUBSET Uploads
    BY <1>1, <1>2
  <2>3. QED
    BY <1>1, <1>4, <2>1, <2>2 DEF UploadInv, UploadTypeOK
<1>6. LoopOK'
  BY <1>1 DEF UploadInv, LoopOK
<1>7. \A u \in Uploads : HeldOK(u, sessions[u].text)'
  <2> TAKE u \in Uploads
  <2>1. CASE u = v
    <3>1. sessions'[u].text = <<>>
      BY <1>3, <1>4, <2>1
    <3>2. QED
      BY <3>1 DEF HeldOK, Follows, FromSource, Positions
  <2>2. CASE u # v
    BY <1>1, <1>4, <2>2 DEF UploadInv, HeldOK, Follows, FromSource, Positions, Was
  <2>3. QED
    BY <2>1, <2>2
<1>8. LoopKeepsUp'
  <2> SUFFICES ASSUME client.at = "sending", wire.at \notin {"refused", "broken"}
               PROVE  KeepsUp(client.upload, sessions[client.upload].text)'
    BY <1>1 DEF LoopKeepsUp
  <2>1. Passed' = Passed /\ (Was(client.upload)' <=> Was(client.upload)) /\ (Final' <=> Final)
    BY <1>1 DEF Passed, Was, Final
  <2>2. client.upload \in Uploads /\ KeepsUp(client.upload, sessions[client.upload].text)
    BY DEF UploadInv, LoopOK, LoopKeepsUp
  <2>3. CASE client.upload = v
    <3>1. sessions'[client.upload].text = <<>> /\ client.upload \in forgotten'
      BY <1>1, <1>3, <1>4, <2>3
    <3>2. QED
      BY <1>1, <3>1 DEF KeepsUp, Disturbed
  <2>4. CASE client.upload # v
    <3>1. sessions'[client.upload] = sessions[client.upload]
      BY <1>4, <2>2, <2>4
    <3>2. QED
      BY <1>1, <2>1, <2>2, <3>1 DEF KeepsUp, Disturbed
  <2>5. QED
    BY <2>3, <2>4
<1>9. \A i \in DOMAIN delivered' : DeliveredOK(i)'
  BY <1>1 DEF UploadInv, DeliveredOK, Follows, Whole, Positions, Disturbed
<1>10. QED
  BY <1>1, <1>5, <1>6, <1>7, <1>8, <1>9 DEF UploadInv, SourceOK

\* What arrives with a piece.
LEMMA Arrival ==
    ASSUME UploadInv, wire.at = "request"
    PROVE  LET u == client.upload
               all == Received(u) IN
           /\ all \in Seq(Nat) /\ all # <<>>
           /\ Follows(all) /\ FromSource(all)
           /\ all[Len(all)] = client.offset + wire.size
           /\ all[1] = 1 \/ u \in forgotten \/ Was(u)
           /\ u \notin Disturbed => all = Prefix(client.offset + wire.size)
<1> DEFINE u == client.upload
           text == sessions[u].text
           all == text \o Piece(client.offset, wire.size)
<1>1. /\ client.at = "sending" /\ u \in Uploads /\ client.offset \in Nat
      /\ wire.from = client.offset /\ wire.size \in Nat \ {0}
      /\ text \in Seq(Nat)
      /\ Len(source) \in Nat /\ client.offset + wire.size <= Len(source)
  BY Outstanding
<1>2. Passed = client.offset /\ Received(u) = all
  BY <1>1 DEF Passed, Received
<1>3. KeepsUp(u, text) /\ HeldOK(u, text)
  BY <1>1 DEF UploadInv, LoopKeepsUp
<1>4. /\ Follows(text) /\ FromSource(text) /\ (text # <<>> => client.offset <= text[Len(text)])
      /\ text # <<>> => text[1] = 1 \/ u \in forgotten \/ Was(u)
      /\ text = <<>> => client.offset = 0 \/ u \in forgotten \/ Was(u)
      /\ u \notin Disturbed => text = Prefix(client.offset)
  BY <1>2, <1>3 DEF KeepsUp, HeldOK
<1> HIDE DEF text
<1>5. /\ all \in Seq(Nat) /\ all # <<>>
      /\ Follows(all) /\ FromSource(all)
      /\ all[Len(all)] = client.offset + wire.size
      /\ all[1] = IF text = <<>> THEN client.offset + 1 ELSE text[1]
      /\ text = Prefix(client.offset) => all = Prefix(client.offset + wire.size)
  BY <1>1, <1>4, ReceivedFacts
<1> HIDE DEF all
<1>6. all[1] = 1 \/ u \in forgotten \/ Was(u)
  BY <1>1, <1>4, <1>5
<1>7. QED
  BY <1>2, <1>4, <1>5, <1>6

LEMMA AppendPieceStep ==
    ASSUME UploadInv, NEW u \in Uploads, AppendPiece(u)
    PROVE  UploadInv'
<1> DEFINE all == Received(u)
<1>1. /\ wire.at = "request" /\ u = client.upload /\ ~Full(u) /\ ~Final
      /\ sessions' = [sessions EXCEPT ![u] = [open |-> TRUE, parts |-> sessions[u].parts + 1,
                                              text |-> all]]
      /\ wire' = [wire EXCEPT !.at = "answer"]
      /\ UNCHANGED <<source, client, delivered, drops, repeated, forgotten>>
  BY DEF AppendPiece
<1>2. /\ all \in Seq(Nat) /\ all # <<>> /\ Follows(all) /\ FromSource(all)
      /\ all[Len(all)] = client.offset + wire.size
      /\ all[1] = 1 \/ u \in forgotten \/ Was(u)
      /\ u \notin Disturbed => all = Prefix(client.offset + wire.size)
  BY <1>1, Arrival
<1> HIDE DEF all
<1>3. /\ client.at = "sending" /\ client.offset \in Nat
      /\ wire.from = client.offset /\ wire.size \in Nat \ {0}
      /\ client.offset + wire.size <= Len(source) /\ wire \in Wire
  BY <1>1, Outstanding
<1>4. /\ wire' \in Wire /\ wire'.at = "answer" /\ wire'.from = wire.from
      /\ wire'.size = wire.size
  BY <1>1, <1>3 DEF Wire
<1>5. sessions \in [Uploads -> Session] /\ sessions[u].parts + 1 \in 0..MAX_PARTS
  <2>1. sessions \in [Uploads -> Session]
    BY DEF UploadInv, UploadTypeOK
  <2>2. sessions[u].parts \in 0..MAX_PARTS
    BY <2>1 DEF Session
  <2>3. QED
    BY <1>1, <2>1, <2>2, SizesAssumption DEF Full
<1>6. /\ sessions' \in [Uploads -> Session] /\ sessions'[u].text = all
      /\ \A v \in Uploads \ {u} : sessions'[v] = sessions[v]
  <2>1. [open |-> TRUE, parts |-> sessions[u].parts + 1, text |-> all] \in Session
    BY <1>2, <1>5 DEF Session
  <2>2. QED
    BY <1>1, <1>5, <2>1
<1>7. UploadTypeOK'
  BY <1>1, <1>4, <1>6 DEF UploadInv, UploadTypeOK
<1>8. LoopOK'
  BY <1>1, <1>3, <1>4 DEF UploadInv, LoopOK
<1>9. ASSUME NEW v \in Uploads PROVE HeldOK(v, sessions[v].text)'
  <2>1. Was(v)' <=> Was(v)
    BY <1>1 DEF Was
  <2>2. CASE v = u
    BY <1>1, <1>2, <1>6, <2>1, <2>2 DEF HeldOK, Follows, FromSource, Positions
  <2>3. CASE v # u
    BY <1>1, <1>6, <2>1, <2>3 DEF UploadInv, HeldOK, Follows, FromSource, Positions
  <2>4. QED
    BY <2>2, <2>3
<1>10. LoopKeepsUp'
  <2>1. Passed' = client.offset + wire.size /\ Passed' \in Nat
    BY <1>1, <1>3, <1>4 DEF Passed
  <2>2. QED
    BY <1>1, <1>2, <1>6, <2>1 DEF LoopKeepsUp, KeepsUp, Disturbed
<1>11. \A i \in DOMAIN delivered' : DeliveredOK(i)'
  BY <1>1 DEF UploadInv, DeliveredOK, Follows, Whole, Positions, Disturbed
<1>12. QED
  BY <1>1, <1>7, <1>8, <1>9, <1>10, <1>11 DEF UploadInv, SourceOK

\* The final piece makes the text whole.
LEMMA DeliverStep ==
    ASSUME UploadInv, NEW u \in Uploads, Deliver(u)
    PROVE  UploadInv'
<1> DEFINE all == Received(u)
           new == [upload |-> u, text |-> all]
<1>1. /\ wire.at = "request" /\ u = client.upload /\ Final
      /\ sessions' = [sessions EXCEPT ![u] = NoSession]
      /\ delivered' = Append(delivered, new)
      /\ UNCHANGED <<source, client, drops, repeated, forgotten>>
  BY DEF Deliver
<1>2. /\ all \in Seq(Nat) /\ all # <<>> /\ Follows(all) /\ FromSource(all)
      /\ all[Len(all)] = client.offset + wire.size
      /\ all[1] = 1 \/ u \in forgotten \/ Was(u)
      /\ u \notin Disturbed => all = Prefix(client.offset + wire.size)
  BY <1>1, Arrival
<1> HIDE DEF all
<1>3. /\ client.at = "sending" /\ client.offset \in Nat /\ Len(source) \in Nat
      /\ wire.from = client.offset /\ wire.size \in Nat \ {0}
      /\ client.offset + wire.size <= Len(source) /\ wire \in Wire
      /\ sessions \in [Uploads -> Session]
  BY <1>1, Outstanding DEF UploadInv, UploadTypeOK
<1>4. /\ wire' \in Wire /\ wire'.at \in {"answer", "refused"} /\ wire'.from = wire.from
      /\ wire'.size = wire.size
  <2>1. PICK at \in {"answer", "refused"} : wire' = [wire EXCEPT !.at = at]
    BY DEF Deliver
  <2>2. QED
    BY <1>3, <2>1 DEF Wire
<1>5. client.offset + wire.size = Len(source)
  BY <1>1, <1>3 DEF Final
<1>6. /\ sessions' \in [Uploads -> Session] /\ sessions'[u].text = <<>>
      /\ \A v \in Uploads \ {u} : sessions'[v] = sessions[v]
  <2>1. NoSession \in Session /\ NoSession.text = <<>>
    BY SizesAssumption DEF Session, NoSession
  <2>2. QED
    BY <1>1, <1>3, <2>1
<1>7. /\ delivered \in Seq([upload : Uploads, text : Seq(Nat)])
      /\ delivered' \in Seq([upload : Uploads, text : Seq(Nat)])
      /\ Len(delivered) \in Nat /\ DOMAIN delivered = 1..Len(delivered)
      /\ DOMAIN delivered' = 1..Len(delivered) + 1
      /\ \A i \in DOMAIN delivered : delivered'[i] = delivered[i]
      /\ delivered'[Len(delivered) + 1] = new
  <2>1. new \in [upload : Uploads, text : Seq(Nat)]
    BY <1>2
  <2> HIDE DEF new
  <2>2. QED
    BY <1>1, <2>1, AppendProperties DEF UploadInv, UploadTypeOK
<1>8. new.upload = u /\ new.text = all
  OBVIOUS
<1> HIDE DEF new
<1>9. Was(u)' /\ \A v : Was(v) => Was(v)'
  <2>1. Len(delivered) + 1 \in DOMAIN delivered' /\ DOMAIN delivered \subseteq DOMAIN delivered'
    BY <1>7
  <2>2. QED
    BY <1>7, <1>8, <2>1 DEF Was
<1>10. UploadTypeOK'
  BY <1>1, <1>4, <1>6, <1>7 DEF UploadInv, UploadTypeOK
<1>11. LoopOK'
  BY <1>1, <1>3, <1>4 DEF UploadInv, LoopOK
<1>12. ASSUME NEW v \in Uploads PROVE HeldOK(v, sessions[v].text)'
  <2>1. CASE v = u
    <3>1. sessions'[v].text = <<>>
      BY <1>6, <2>1
    <3>2. QED
      BY <3>1 DEF HeldOK, Follows, FromSource, Positions
  <2>2. CASE v # u
    BY <1>1, <1>6, <1>9, <2>2 DEF UploadInv, HeldOK, Follows, FromSource, Positions
  <2>3. QED
    BY <2>1, <2>2
<1>13. LoopKeepsUp'
  <2>1. client'.upload = u /\ sessions'[u].text = <<>> /\ Was(u)' /\ Final'
    BY <1>1, <1>4, <1>6, <1>9 DEF Final
  <2>2. wire'.at \notin {"refused", "broken"} => wire'.at = "answer"
    BY <1>4
  <2>3. QED
    BY <2>1, <2>2 DEF LoopKeepsUp, KeepsUp
<1>14. ASSUME NEW i \in DOMAIN delivered' PROVE DeliveredOK(i)'
  <2>1. CASE i \in DOMAIN delivered
    <3>1. \A j \in 1..i - 1 : j \in DOMAIN delivered /\ delivered'[j] = delivered[j]
      BY <1>7, <2>1
    <3>2. delivered'[i] = delivered[i] /\ DeliveredOK(i)
      BY <1>7, <2>1 DEF UploadInv
    <3>3. QED
      BY <1>1, <3>1, <3>2 DEF DeliveredOK, Follows, Whole, Positions, Disturbed
  <2>2. CASE i = Len(delivered) + 1
    <3>1. delivered'[i].upload = u /\ delivered'[i].text = all
      BY <1>7, <1>8, <2>2
    <3>2. u \notin Disturbed => all = Whole
      BY <1>2, <1>5 DEF Whole, Positions, Prefix
    <3>3. Was(u) => \E j \in 1..i - 1 : delivered'[j].upload = u
      BY <1>7, <2>2 DEF Was
    <3>4. QED
      BY <1>1, <1>2, <1>5, <3>1, <3>2, <3>3 DEF DeliveredOK, Follows, Whole, Positions, Disturbed
  <2>3. QED
    BY <1>7, <2>1, <2>2
<1>15. QED
  BY <1>1, <1>10, <1>11, <1>12, <1>13, <1>14 DEF UploadInv, SourceOK

LEMMA UploadStarts == Init => UploadInv
<1> SUFFICES ASSUME Init PROVE UploadInv
  OBVIOUS
<1>1. SourceOK
  <2>1. source \in Uploaded \cup Pasted \/ source = <<>>
    BY DEF Init
  <2>2. <<>> \in Seq(Kinds \cup {"noise"})
    OBVIOUS
  <2>3. QED
    BY <2>1, <2>2, TextsAssumption DEF SourceOK
<1>2. /\ client = [at |-> "idle", upload |-> NoUpload, offset |-> 0, size |-> START_CHARS,
                   floorRetries |-> 0, streak |-> 0]
      /\ wire = Quiet /\ sessions = [u \in Uploads |-> NoSession] /\ delivered = <<>>
      /\ drops = 0 /\ repeated = {} /\ forgotten = {}
  BY DEF Init, UploadInit
<1>3. client \in Client /\ wire \in Wire /\ wire.at = "none"
  BY <1>2, SizesAssumption DEF Client, Wire, Quiet
<1>4. sessions \in [Uploads -> Session] /\ \A u \in Uploads : sessions[u].text = <<>>
  <2>1. NoSession \in Session /\ NoSession.text = <<>>
    BY SizesAssumption DEF Session, NoSession
  <2>2. QED
    BY <1>2, <2>1
<1>5. UploadTypeOK
  BY <1>2, <1>3, <1>4, SizesAssumption DEF UploadTypeOK
<1>6. LoopOK /\ LoopKeepsUp
  BY <1>2, <1>3 DEF LoopOK, LoopKeepsUp
<1>7. \A u \in Uploads : HeldOK(u, sessions[u].text)
  <2>1. Follows(<<>>) /\ FromSource(<<>>)
    BY DEF Follows, FromSource
  <2>2. QED
    BY <1>4, <2>1 DEF HeldOK
<1>8. QED
  BY <1>1, <1>2, <1>5, <1>6, <1>7 DEF UploadInv

LEMMA UploadKeeps == UploadInv /\ [Next]_vars => UploadInv'
<1> SUFFICES ASSUME UploadInv, [Next]_vars PROVE UploadInv'
  OBVIOUS
<1>1. CASE UNCHANGED uploadVars
  BY <1>1 DEF uploadVars, UploadInv, SourceOK, UploadTypeOK, LoopOK, HeldOK, Follows, FromSource,
              Positions, Was, LoopKeepsUp, KeepsUp, Passed, Final, Disturbed, DeliveredOK, Whole
<1>2. CASE source \in Uploaded /\ Page
  <2>1. Len(source) > 0
    <3>1. source \in Seq(Kinds \cup {"noise"}) /\ \E i \in DOMAIN source : source[i] # "blank"
      BY <1>2, TextsAssumption
    <3>2. QED
      BY <3>1
  <2>2. CASE \E u \in Uploads : StartUpload(u)
    BY <2>1, <2>2, StartUploadStep
  <2>3. QED
    BY <1>2, <2>2, SendStep, HearAnswerStep, HearBlockPageStep, HearErrorStep DEF Page
<1>3. CASE Network \/ Server
  <2>1. CASE \E u \in Uploads : AppendPiece(u)
    BY <2>1, AppendPieceStep
  <2>2. QED
    BY <1>3, <2>1, NetworkStep DEF Server
<1>4. CASE \E u \in Uploads : DropSession(u)
  BY <1>4, DropSessionStep
<1>5. CASE \E u \in Uploads : DeliverAndParse(u)
  BY <1>5, DeliverStep DEF DeliverAndParse
<1>6. CASE PostWhole \/ (ParserStep /\ UNCHANGED uploadVars)
  BY <1>1, <1>6 DEF PostWhole
<1>7. CASE BreakdownNext /\ UNCHANGED pageVars
  BY <1>1, <1>7 DEF pageVars
<1>8. CASE UNCHANGED vars
  BY <1>1, <1>8 DEF vars
<1>9. CASE ByPage
  <2>1. \/ source \in Uploaded /\ Page
        \/ Network \/ Server
        \/ \E u \in Uploads : DropSession(u)
        \/ \E u \in Uploads : DeliverAndParse(u)
        \/ PostWhole \/ (ParserStep /\ UNCHANGED uploadVars)
    BY <1>9 DEF ByPage
  <2>2. QED
    BY <2>1, <1>2, <1>3, <1>4, <1>5, <1>6
<1>10. QED
  BY <1>7, <1>8, <1>9 DEF Next

\* The loop and the sessions stay well formed: no offset passes the end of the
\* text, no size leaves its bounds, no session takes more than MAX_PARTS.
THEOREM UploadTypeCorrect == Spec => []UploadTypeOK
<1>1. UploadInv => UploadTypeOK
  BY DEF UploadInv
<1>2. QED
  BY <1>1, UploadStarts, UploadKeeps, PTL DEF Spec

\* receive_chunk hands over the text that was sent, whatever is blocked: only
\* an answer lost after the piece was taken repeats some of it, and only a lost
\* session or a second delivery lacks the beginning.
THEOREM TextArrives == Spec => []TextFollowsSource
<1>1. UploadInv => TextFollowsSource
  BY DEF UploadInv, DeliveredOK, Disturbed, Follows, TextFollowsSource
<1>2. QED
  BY <1>1, UploadStarts, UploadKeeps, PTL DEF Spec

-----------------------------------------------------------------------------
(* The upload and the parser together. *)

\* _split_lines turns lines into lines: what SelectSeq returns for a text of any
\* length takes an induction over the text, and is a hypothesis.
ContentKeepsKinds ==
    \A text \in Seq(Kinds \cup {"noise"}) : Content(text) \in Seq(Kinds)

\* What is parsed is a text.
LEMMA ParsesText ==
    ASSUME ContentKeepsKinds, NEW text \in Seq(Kinds \cup {"noise"}), Parse(text)
    PROVE  ParserNext
<1>1. CASE RefuseText
  BY <1>1 DEF ParserNext
<1>2. CASE BeginParse(Content(text))
  BY <1>2 DEF ParserNext, ContentKeepsKinds
<1>3. QED
  BY <1>1, <1>2 DEF Parse

\* Whatever is posted or put together, the parser is given a text.
THEOREM ParserIsComposed == ContentKeepsKinds => (Spec => ParserSpec)
<1> SUFFICES ASSUME ContentKeepsKinds PROVE Spec => ParserSpec
  OBVIOUS
<1>1. Init => ParserInit
  BY DEF Init
<1>2. UploadInv /\ [Next]_vars => [ParserNext]_parserVars
  <2> SUFFICES ASSUME UploadInv, Next PROVE ParserNext \/ UNCHANGED parserVars
    BY DEF vars
  <2>1. CASE BreakdownNext /\ UNCHANGED pageVars
    BY <2>1 DEF pageVars
  <2>2. CASE PostWhole
    BY <2>2, ParsesText, TextsAssumption DEF PostWhole
  <2>3. ASSUME NEW u \in Uploads, DeliverAndParse(u) PROVE ParserNext
    <3> DEFINE text == Received(u)
    <3>1. wire.at = "request" /\ u = client.upload /\ Parse(Line(text))
      BY <2>3 DEF DeliverAndParse, Deliver
    <3>2. text \in Seq(Nat) /\ FromSource(text) /\ SourceOK
      BY <3>1, Arrival DEF UploadInv
    <3> HIDE DEF text
    <3>3. \A k \in DOMAIN text : source[text[k]] \in Kinds \cup {"noise"}
      BY <3>2 DEF FromSource, Positions, SourceOK
    <3>4. Line(text) \in Seq(Kinds \cup {"noise"})
      BY <3>2, <3>3 DEF Line
    <3>5. QED
      BY <3>1, <3>4, ParsesText
  <2>4. CASE ParserStep
    BY <2>4 DEF ParserNext
  <2>5. QED
    BY <2>1, <2>2, <2>3, <2>4 DEF Next, ByPage
<1>3. QED
  BY <1>1, <1>2, UploadStarts, UploadKeeps, PTL DEF Spec, ParserSpec

\* What the parser promises of a text holds of every screenplay that is posted
\* or put together from its pieces.
THEOREM ScreenplaysAreParsed ==
    ContentKeepsKinds =>
        (Spec => [](BlocksFollowText /\ SpeechIsTheSpeakers /\ OnlyUnansweredCuesAreDropped))
<1> SUFFICES ASSUME ContentKeepsKinds
             PROVE  Spec => [](BlocksFollowText /\ SpeechIsTheSpeakers /\ OnlyUnansweredCuesAreDropped)
  OBVIOUS
<1>1. Spec => ParserSpec
  BY ParserIsComposed
<1>2. QED
  BY <1>1, BlocksKeepToText, SpeakersKeepTheirWords, NothingElseIsDropped, PTL

-----------------------------------------------------------------------------
(* THE BREAKDOWN: the threads of the model's calls. *)

Stages == {"none", "calling", "listed", "counted scenes", "drawn", "counted shots", "unprompted"}
Calling == {c \in Runs : requests[c] = "calling"}

ThreadInv ==
    /\ requests \in [Runs -> Stages]
    /\ free \in Nat /\ late \in Nat /\ IsFiniteSet(Calling)
    /\ ThreadsAreConserved

\* A request that is no call, and does not become one.
LEMMA NoCall ==
    ASSUME ThreadInv, NEW c \in Runs, NEW at \in Stages \ {"calling"},
           requests[c] # "calling", requests' = [requests EXCEPT ![c] = at],
           UNCHANGED <<free, late>>
    PROVE  ThreadInv'
<1>1. requests' \in [Runs -> Stages] /\ Calling' = Calling
  BY DEF ThreadInv, Calling
<1>2. QED
  BY <1>1 DEF ThreadInv, ThreadsAreConserved, Calling

\* A call ends.
LEMMA CallOver ==
    ASSUME ThreadInv, NEW c \in Runs,
           requests[c] = "calling", requests' = [requests EXCEPT ![c] = "none"],
           \/ free' = free + 1 /\ late' = late
           \/ free' = free /\ late' = late + 1
    PROVE  ThreadInv'
<1>1. requests' \in [Runs -> Stages] /\ Calling' = Calling \ {c} /\ c \in Calling
  BY DEF ThreadInv, Calling, Stages
<1>2. IsFiniteSet(Calling') /\ Cardinality(Calling') = Cardinality(Calling) - 1
  BY <1>1, FS_RemoveElement DEF ThreadInv
<1>3. /\ free \in Nat /\ late \in Nat /\ Cardinality(Calling) \in Nat
      /\ free + late + Cardinality(Calling) = PROVIDER_THREADS
  BY FS_CardinalityType DEF ThreadInv, ThreadsAreConserved, Calling
<1>4. free' \in Nat /\ late' \in Nat /\ free' + late' + Cardinality(Calling') = PROVIDER_THREADS
  BY <1>2, <1>3
<1>5. QED
  BY <1>1, <1>2, <1>4 DEF ThreadInv, ThreadsAreConserved, Calling

LEMMA ThreadsStart == Init => ThreadInv
<1> SUFFICES ASSUME Init PROVE ThreadInv
  OBVIOUS
<1>1. /\ requests = [c \in Runs |-> "none"] /\ free = PROVIDER_THREADS /\ late = 0
      /\ PROVIDER_THREADS \in Nat
  BY BreakdownAssumption DEF Init, BreakdownInit
<1>2. requests \in [Runs -> Stages] /\ Calling = {}
  BY <1>1 DEF Calling, Stages
<1>3. IsFiniteSet(Calling) /\ Cardinality(Calling) = 0
  BY <1>2, FS_EmptySet
<1>4. QED
  BY <1>1, <1>2, <1>3 DEF ThreadInv, ThreadsAreConserved, Calling

LEMMA ThreadsKeep == ThreadInv /\ [Next]_vars => ThreadInv'
<1> SUFFICES ASSUME ThreadInv, [Next]_vars PROVE ThreadInv'
  OBVIOUS
<1> USE DEF Stages
<1>1. CASE UNCHANGED <<requests, free, late>>
  BY <1>1 DEF ThreadInv, ThreadsAreConserved, Calling
<1>2. ASSUME NEW c \in Runs, Chunk(c) PROVE ThreadInv'
  <2>1. CASE StartCall(c)
    <3>1. CASE /\ requests[c] = "none" /\ free > 0 /\ free' = free - 1 /\ late' = late
               /\ requests' = [requests EXCEPT ![c] = "calling"]
      <4>1. /\ requests' \in [Runs -> Stages] /\ Calling' = Calling \cup {c}
            /\ c \notin Calling
        BY <3>1 DEF ThreadInv, Calling
      <4>2. IsFiniteSet(Calling') /\ Cardinality(Calling') = Cardinality(Calling) + 1
        BY <4>1, FS_AddElement DEF ThreadInv
      <4>3. /\ free \in Nat /\ late \in Nat /\ Cardinality(Calling) \in Nat
            /\ free + late + Cardinality(Calling) = PROVIDER_THREADS
        BY FS_CardinalityType DEF ThreadInv, ThreadsAreConserved, Calling
      <4>4. free' \in Nat /\ late' \in Nat
            /\ free' + late' + Cardinality(Calling') = PROVIDER_THREADS
        BY <3>1, <4>2, <4>3
      <4>5. QED
        BY <4>1, <4>2, <4>4 DEF ThreadInv, ThreadsAreConserved, Calling
    <3>2. CASE /\ requests[c] = "none" /\ UNCHANGED <<free, late>>
               /\ requests' = [requests EXCEPT ![c] = "none"]
      BY <3>2, NoCall
    <3>3. QED
      BY <2>1, <3>1, <3>2 DEF StartCall, Asks, Goes, Retries, Refuses, Answers
  <2>2. CASE FinishCall(c)
    BY <2>2, CallOver DEF FinishCall, HearScenes, Retries, Refuses, Answers
  <2>3. CASE MissDeadline(c)
    BY <2>3, CallOver DEF MissDeadline, Retries, Answers
  <2>4. QED
    BY <1>2, <2>1, <2>2, <2>3 DEF Chunk
<1>3. ASSUME NEW c \in Runs, Persist(c) PROVE ThreadInv'
  <2>1. /\ UNCHANGED <<free, late>> /\ requests[c] # "calling"
        /\ \E at \in Stages \ {"calling"} : requests' = [requests EXCEPT ![c] = at]
    BY <1>3 DEF Persist, ListScenes, CountScenes, InsertScenes, Asks, Goes, Refuses, HearStored,
                Answers, NoThreads
  <2>2. QED
    BY <2>1, NoCall
<1>4. ASSUME NEW c \in Runs, ShotMap(c) PROVE ThreadInv'
  <2>1. CASE SkipScene(c)
    BY <1>1, <2>1 DEF SkipScene, NoThreads
  <2>2. CASE ~SkipScene(c)
    <3>1. /\ UNCHANGED <<free, late>> /\ requests[c] # "calling"
          /\ \E at \in Stages \ {"calling"} : requests' = [requests EXCEPT ![c] = at]
      BY <1>4, <2>2 DEF ShotMap, DrawShots, CountShots, InsertShots, PromptShots, Asks, Goes,
                        Refuses, HearShots, Answers, NoThreads
    <3>2. QED
      BY <3>1, NoCall
  <2>3. QED
    BY <2>1, <2>2
<1>5. CASE EndLateCall
  <2>1. late > 0 /\ late' = late - 1 /\ free' = free + 1 /\ requests' = requests
    BY <1>5 DEF EndLateCall
  <2>2. /\ free \in Nat /\ late \in Nat /\ Cardinality(Calling) \in Nat
        /\ free + late + Cardinality(Calling) = PROVIDER_THREADS /\ Calling' = Calling
    BY <2>1, FS_CardinalityType DEF ThreadInv, ThreadsAreConserved, Calling
  <2>3. free' \in Nat /\ late' \in Nat /\ free' + late' + Cardinality(Calling') = PROVIDER_THREADS
    BY <2>1, <2>2
  <2>4. QED
    BY <2>1, <2>2, <2>3 DEF ThreadInv, ThreadsAreConserved, Calling
<1>6. CASE Restart
  <2>1. /\ requests' = [c \in Runs |-> "none"] /\ free' = PROVIDER_THREADS /\ late' = 0
        /\ PROVIDER_THREADS \in Nat
    BY <1>6, BreakdownAssumption DEF Restart
  <2>2. requests' \in [Runs -> Stages] /\ Calling' = {}
    BY <2>1 DEF Calling
  <2>3. IsFiniteSet(Calling') /\ Cardinality(Calling') = 0
    BY <2>2, FS_EmptySet
  <2>4. free' + late' + Cardinality(Calling') = PROVIDER_THREADS
    BY <2>1, <2>3
  <2>5. QED
    BY <2>1, <2>2, <2>3, <2>4 DEF ThreadInv, ThreadsAreConserved, Calling
<1>7. ASSUME NEW c \in Runs, StartRun(c) \/ GiveUp(c) PROVE ThreadInv'
  BY <1>1, <1>7 DEF StartRun, GiveUp, NoThreads
<1>8. CASE BreakdownNext
  BY <1>2, <1>3, <1>4, <1>5, <1>6, <1>7, <1>8 DEF BreakdownNext, BreakdownStep
<1>9. CASE UNCHANGED breakdownVars
  BY <1>1, <1>9 DEF breakdownVars
<1>10. CASE UNCHANGED vars
  BY <1>9, <1>10 DEF vars
<1>11. QED
  BY <1>8, <1>9, <1>10 DEF Next

\* resumable_screenplay_import: a call that misses its deadline keeps its thread
\* until it returns, and gives it back once.
THEOREM ThreadsConserved == Spec => []ThreadsAreConserved
<1>1. ThreadInv => ThreadsAreConserved
  BY DEF ThreadInv
<1>2. QED
  BY <1>1, ThreadsStart, ThreadsKeep, PTL DEF Spec

-----------------------------------------------------------------------------
(* The breakdown: what the script stores. *)

\* Split loses no line of the screenplays the script is run on.
SplitIsWhole ==
    \A text \in Scripted :
        /\ Split(text) \in Seq(Seq(Seq(Nat)))
        /\ LinesOf(Split(text)) = WrittenLines(text)

IsRun(r) ==
    r \in [at : {"idle", "process", "persist", "map", "done", "failed"}, attempt : {r.attempt},
           next : Nat, scenes : Seq(NewScene), had : {r.had}, left : {r.left}]

\* Scenes are numbered, chunk after chunk and within a chunk.
Ordered(scene) ==
    \A i \in DOMAIN scene :
        /\ scene[i].number = i
        /\ IF i = 1 THEN scene[i].chunk = 1 /\ scene[i].part = 1
           ELSE \/ scene[i].chunk = scene[i - 1].chunk /\ scene[i].part = scene[i - 1].part + 1
                \/ scene[i].chunk = scene[i - 1].chunk + 1 /\ scene[i].part = 1

\* They are those of the chunks before the next.
UpTo(scene, next) ==
    IF next = 0 THEN scene = <<>> ELSE scene # <<>> /\ scene[Len(scene)].chunk = next

\* What a run holds fits with what it asks for.
RunOK(r, request) ==
    /\ IsRun(r)
    /\ Ordered(r.scenes) /\ UpTo(r.scenes, r.next)
    /\ r.at = "idle" => request = "none" /\ r.next = 0
    /\ r.at # "idle" => screenplay \in Scripted
    /\ r.at = "process" => r.next = 0 \/ r.next < Len(chunks)
    /\ request = "calling" => chunks # <<>> /\ r.at \in {"process", "failed"}
    /\ request \in {"listed", "counted scenes"} => r.at \in {"persist", "failed"}
    /\ r.at \in {"persist", "map", "done"} \/ request \in {"listed", "counted scenes"} =>
           r.next = Len(chunks)

\* What it has counted is still so, unless another has written.
CountOK(c, r, request) ==
    c \notin raced =>
        /\ request = "counted scenes" => stored = <<>>
        /\ request = "counted shots" => Head(r.left) \notin Mapped

\* A run that has stored its scenes brings no others.
Writer(r, request) ==
    /\ r.at \in {"map", "done", "failed"}
    /\ request \notin {"calling", "listed", "counted scenes"}
    /\ r.next = Len(chunks)

Wrote(c) == \E i \in DOMAIN stored : stored[i].by = c

RunsOK ==
    /\ runs = [c \in Runs |-> runs[c]] /\ requests \in [Runs -> Stages]
    /\ screenplay \in Scripted \cup {<<>>} /\ chunks = Split(screenplay)
    /\ \A c \in Runs : /\ RunOK(runs[c], requests[c])
                       /\ CountOK(c, runs[c], requests[c])
                       /\ Wrote(c) => Writer(runs[c], requests[c])

Entry == [scene : NewScene, by : Runs]

StoredOK ==
    /\ stored \in Seq(Entry)
    /\ \A i, j \in Fresh : stored[i].by = stored[j].by
    /\ \A c \in Runs : stored # <<>> /\ (\A i \in DOMAIN stored : stored[i].by = c) =>
          /\ Len(stored) = Len(runs[c].scenes)
          /\ \A i \in DOMAIN stored : stored[i].scene = runs[c].scenes[i]

MapsOK ==
    /\ \A m \in maps : m \in [scene : {m.scene}, by : Runs, prompted : BOOLEAN]
    /\ \A m, n \in maps : m.scene = n.scene /\ {m.by, n.by} \cap raced = {} => m = n

BreakdownInv == RunsOK /\ StoredOK /\ MapsOK

-----------------------------------------------------------------------------
\* The scenes of one more chunk.
LEMMA NewScenes ==
    ASSUME NEW c \in Runs, RunOK(runs[c], requests[c]), NEW n \in 1..MaxScenesPerChunk
    PROVE  LET all == runs[c].scenes \o Normalized(c, n) IN
           all \in Seq(NewScene) /\ Ordered(all) /\ UpTo(all, runs[c].next + 1)
<1> DEFINE old == runs[c].scenes
           next == runs[c].next
           new == Normalized(c, n)
           all == old \o new
<1>1. /\ old \in Seq(NewScene) /\ next \in Nat /\ Ordered(old) /\ UpTo(old, next)
      /\ Len(old) \in Nat
  <2>1. runs[c] \in [at : {"idle", "process", "persist", "map", "done", "failed"},
                     attempt : {runs[c].attempt}, next : Nat, scenes : Seq(NewScene),
                     had : {runs[c].had}, left : {runs[c].left}]
    BY DEF RunOK, IsRun
  <2>2. old \in Seq(NewScene) /\ next \in Nat
    BY <2>1
  <2>3. Ordered(old) /\ UpTo(old, next)
    BY DEF RunOK
  <2>4. QED
    BY <2>2, <2>3
<1>2. /\ n \in Nat \ {0} /\ n <= MaxScenesPerChunk /\ MaxScenesPerChunk \in Nat
  BY BreakdownAssumption
<1>3. /\ new \in Seq(NewScene) /\ Len(new) = n
      /\ \A i \in 1..n : new[i].number = Len(old) + i /\ new[i].chunk = next + 1 /\ new[i].part = i
  <2>1. \A i \in 1..n : /\ Len(old) + i \in Nat \ {0} /\ next + 1 \in Nat \ {0}
                        /\ i \in 1..MaxScenesPerChunk
    BY <1>1, <1>2
  <2>2. new = [i \in 1..n |-> [number |-> Len(old) + i, chunk |-> next + 1, part |-> i]]
    BY DEF Normalized
  <2> HIDE DEF old, next, new
  <2>3. \A i \in 1..n : new[i] \in NewScene
    BY <2>1, <2>2 DEF NewScene
  <2>4. new \in Seq(NewScene) /\ Len(new) = n
    BY <1>2, <2>2, <2>3
  <2>5. QED
    BY <2>2, <2>4
<1> HIDE DEF old, next, new
<1>4. /\ all \in Seq(NewScene) /\ Len(all) = Len(old) + n
      /\ \A i \in 1..Len(old) + n : all[i] = IF i <= Len(old) THEN old[i] ELSE new[i - Len(old)]
  BY <1>1, <1>3, ConcatProperties
<1> HIDE DEF all
<1>5. \A i \in 1..Len(old) : all[i] = old[i]
  <2> TAKE i \in 1..Len(old)
  <2>1. i \in 1..Len(old) + n /\ i <= Len(old)
    BY <1>1, <1>2
  <2>2. QED
    BY <1>4, <2>1
<1>6. \A i \in 1..n : /\ all[Len(old) + i].number = Len(old) + i
                      /\ all[Len(old) + i].chunk = next + 1 /\ all[Len(old) + i].part = i
  <2> TAKE i \in 1..n
  <2>1. /\ Len(old) + i \in 1..Len(old) + n /\ ~(Len(old) + i <= Len(old))
        /\ (Len(old) + i) - Len(old) = i
    BY <1>1, <1>2
  <2>2. all[Len(old) + i] = new[i]
    BY <1>4, <2>1
  <2>3. QED
    BY <1>3, <2>2
<1>7. Ordered(all)
  <2> SUFFICES ASSUME NEW i \in 1..Len(old) + n
               PROVE  /\ all[i].number = i
                      /\ IF i = 1 THEN all[i].chunk = 1 /\ all[i].part = 1
                         ELSE \/ all[i].chunk = all[i - 1].chunk /\ all[i].part = all[i - 1].part + 1
                              \/ all[i].chunk = all[i - 1].chunk + 1 /\ all[i].part = 1
    BY <1>4 DEF Ordered
  <2>1. CASE i <= Len(old)
    <3>1. i \in 1..Len(old) /\ (i # 1 => i - 1 \in 1..Len(old))
      BY <1>1, <1>2, <2>1
    <3>2. all[i] = old[i] /\ (i # 1 => all[i - 1] = old[i - 1])
      BY <1>5, <3>1
    <3>3. QED
      BY <1>1, <3>1, <3>2 DEF Ordered
  <2>2. CASE i > Len(old)
    <3> DEFINE k == i - Len(old)
    <3>1. k \in 1..n /\ i = Len(old) + k
      BY <1>1, <1>2, <2>2
    <3>2. all[i].number = i /\ all[i].chunk = next + 1 /\ all[i].part = k
      BY <1>6, <3>1
    <3>3. CASE k > 1
      <4>1. k - 1 \in 1..n /\ i - 1 = Len(old) + (k - 1) /\ i # 1
        BY <1>1, <1>2, <3>1, <3>3
      <4>2. all[i - 1].chunk = next + 1 /\ all[i - 1].part = k - 1
        BY <1>6, <4>1
      <4>3. QED
        BY <3>1, <3>2, <4>1, <4>2
    <3>4. CASE k = 1 /\ old # <<>>
      <4>1. Len(old) \in 1..Len(old) /\ i - 1 = Len(old) /\ i # 1
        <5>1. Len(old) >= 1
          BY <1>1, <3>4
        <5>2. QED
          BY <1>1, <3>1, <3>4, <5>1
      <4>2. next # 0 /\ old[Len(old)].chunk = next
        BY <1>1, <3>4 DEF UpTo
      <4>3. all[i - 1].chunk = next
        BY <1>5, <4>1, <4>2
      <4>4. QED
        BY <3>2, <3>4, <4>1, <4>3
    <3>5. CASE k = 1 /\ old = <<>>
      <4>1. i = 1 /\ next = 0
        BY <1>1, <3>1, <3>5 DEF UpTo
      <4>2. QED
        BY <3>2, <3>5, <4>1
    <3>6. QED
      BY <3>1, <3>3, <3>4, <3>5
  <2>3. QED
    BY <1>1, <1>2, <2>1, <2>2
<1>8. UpTo(all, next + 1)
  <2>1. all # <<>> /\ Len(all) = Len(old) + n /\ n \in 1..n /\ next + 1 # 0
    BY <1>1, <1>2, <1>4
  <2>2. all[Len(all)].chunk = next + 1
    BY <1>6, <2>1
  <2>3. QED
    BY <2>1, <2>2 DEF UpTo
<1>9. QED
  BY <1>4, <1>7, <1>8 DEF all, old, new, next

\* A step of one run that writes nothing.
LEMMA ByOne ==
    ASSUME BreakdownInv, NEW c \in Runs, NEW r, NEW q \in Stages,
           runs' = [runs EXCEPT ![c] = r], requests' = [requests EXCEPT ![c] = q],
           UNCHANGED <<screenplay, chunks, stored, maps, raced>>,
           RunOK(r, q), CountOK(c, r, q),
           Wrote(c) => Writer(r, q) /\ r.scenes = runs[c].scenes
    PROVE  BreakdownInv'
<1>1. /\ runs' = [d \in Runs |-> runs'[d]] /\ requests' \in [Runs -> Stages]
      /\ runs'[c] = r /\ requests'[c] = q
      /\ \A d \in Runs \ {c} : runs'[d] = runs[d] /\ requests'[d] = requests[d]
  BY DEF BreakdownInv, RunsOK
<1>2. ASSUME NEW d \in Runs
      PROVE  /\ RunOK(runs[d], requests[d])'
             /\ CountOK(d, runs[d], requests[d])'
             /\ Wrote(d)' => Writer(runs[d], requests[d])'
  <2>1. CASE d = c
    <3>1. RunOK(runs[d], requests[d])'
      BY <1>1, <2>1 DEF RunOK
    <3>2. CountOK(d, runs[d], requests[d])'
      BY <1>1, <2>1 DEF CountOK, Mapped
    <3>3. Wrote(d)' => Writer(runs[d], requests[d])'
      BY <1>1, <2>1 DEF Writer, Wrote
    <3>4. QED
      BY <3>1, <3>2, <3>3
  <2>2. CASE d # c
    <3>0. /\ RunOK(runs[d], requests[d]) /\ CountOK(d, runs[d], requests[d])
          /\ Wrote(d) => Writer(runs[d], requests[d])
          /\ runs'[d] = runs[d] /\ requests'[d] = requests[d]
      BY <1>1, <2>2 DEF BreakdownInv, RunsOK
    <3>1. RunOK(runs[d], requests[d])'
      BY <3>0 DEF RunOK
    <3>2. CountOK(d, runs[d], requests[d])'
      BY <3>0 DEF CountOK, Mapped
    <3>3. Wrote(d)' => Writer(runs[d], requests[d])'
      BY <3>0 DEF Writer, Wrote
    <3>4. QED
      BY <3>1, <3>2, <3>3
  <2>3. QED
    BY <2>1, <2>2
<1>3. RunsOK'
  BY <1>1, <1>2 DEF BreakdownInv, RunsOK
<1>4. StoredOK'
  <2>1. ASSUME NEW d \in Runs, stored # <<>>, \A i \in DOMAIN stored : stored[i].by = d
        PROVE  runs'[d].scenes = runs[d].scenes
    <3>1. Wrote(d)
      <4>1. 1 \in DOMAIN stored
        BY <2>1 DEF BreakdownInv, StoredOK
      <4>2. QED
        BY <2>1, <4>1 DEF Wrote
    <3>2. QED
      BY <1>1, <3>1
  <2>2. Fresh' = Fresh
    BY DEF Fresh
  <2>3. QED
    BY <2>1, <2>2 DEF BreakdownInv, StoredOK
<1>5. MapsOK'
  BY DEF BreakdownInv, MapsOK
<1>6. QED
  BY <1>3, <1>4, <1>5 DEF BreakdownInv

At == {"idle", "process", "persist", "map", "done", "failed"}

\* One run's record, and the fields a step leaves alone.
LEMMA RunFields ==
    ASSUME NEW r, IsRun(r), NEW new,
           \/ \E at \in At : new = [r EXCEPT !.at = at]
           \/ \E at \in At : \E left : new = [r EXCEPT !.at = at, !.left = left]
           \/ \E at \in At : \E had : new = [r EXCEPT !.at = at, !.had = had]
           \/ \E left : new = [r EXCEPT !.left = left]
           \/ \E attempt : new = [r EXCEPT !.attempt = attempt]
           \/ new = r
    PROVE  IsRun(new) /\ new.next = r.next /\ new.scenes = r.scenes
<1>1. r \in [at : At, attempt : {r.attempt}, next : Nat, scenes : Seq(NewScene),
             had : {r.had}, left : {r.left}]
  BY DEF IsRun, At
<1> DEFINE Kept == /\ new \in [at : At, attempt : {new.attempt}, next : Nat, scenes : Seq(NewScene),
                               had : {new.had}, left : {new.left}]
                   /\ new.next = r.next /\ new.scenes = r.scenes
<1>2. Kept
  <2>1. ASSUME NEW at \in At, new = [r EXCEPT !.at = at] PROVE Kept
    BY <1>1, <2>1
  <2>2. ASSUME NEW at \in At, NEW left, new = [r EXCEPT !.at = at, !.left = left] PROVE Kept
    BY <1>1, <2>2
  <2>3. ASSUME NEW at \in At, NEW had, new = [r EXCEPT !.at = at, !.had = had] PROVE Kept
    BY <1>1, <2>3
  <2>4. ASSUME NEW left, new = [r EXCEPT !.left = left] PROVE Kept
    BY <1>1, <2>4
  <2>5. ASSUME NEW attempt, new = [r EXCEPT !.attempt = attempt] PROVE Kept
    BY <1>1, <2>5
  <2>6. CASE new = r
    BY <1>1, <2>6
  <2>7. QED
    BY <2>1, <2>2, <2>3, <2>4, <2>5, <2>6
<1>3. QED
  BY <1>2 DEF IsRun, At

LEMMA SameRequest ==
    ASSUME BreakdownInv, NEW c \in Runs, UNCHANGED requests
    PROVE  requests' = [requests EXCEPT ![c] = requests[c]] /\ requests[c] \in Stages
BY DEF BreakdownInv, RunsOK

\* What the invariant says of one run.
LEMMA RunFacts ==
    ASSUME BreakdownInv, NEW c \in Runs
    PROVE  /\ RunOK(runs[c], requests[c]) /\ IsRun(runs[c])
           /\ CountOK(c, runs[c], requests[c])
           /\ Wrote(c) => Writer(runs[c], requests[c])
           /\ runs[c].next \in Nat /\ requests[c] \in Stages
           /\ runs[c].at \in At
<1>1. RunOK(runs[c], requests[c])
  BY DEF BreakdownInv, RunsOK
<1>2. IsRun(runs[c])
  BY <1>1 DEF RunOK
<1>3. runs[c].next \in Nat /\ runs[c].at \in At
  BY <1>2 DEF IsRun, At
<1>4. QED
  BY <1>1, <1>2, <1>3 DEF BreakdownInv, RunsOK

Unwritten == UNCHANGED <<screenplay, chunks, stored, maps, raced>>

\* A run fails, tries again or is no longer there to hear.
LEMMA StopStep ==
    ASSUME BreakdownInv, NEW c \in Runs, runs[c].at # "idle", Unwritten,
           NEW r \in {runs[c], [runs[c] EXCEPT !.at = "failed"],
                      [runs[c] EXCEPT !.attempt = @ + 1]},
           NEW q \in {"none", requests[c]},
           runs' = [runs EXCEPT ![c] = r], requests' = [requests EXCEPT ![c] = q]
    PROVE  BreakdownInv'
<1>1. /\ RunOK(runs[c], requests[c]) /\ IsRun(runs[c]) /\ CountOK(c, runs[c], requests[c])
      /\ Wrote(c) => Writer(runs[c], requests[c])
      /\ requests[c] \in Stages
  BY RunFacts
<1>2. IsRun(r) /\ r.next = runs[c].next /\ r.scenes = runs[c].scenes
  <2>1. \/ r = runs[c]
        \/ \E at \in At : r = [runs[c] EXCEPT !.at = at]
        \/ \E attempt : r = [runs[c] EXCEPT !.attempt = attempt]
    BY DEF At
  <2>2. QED
    BY <1>1, <2>1, RunFields
<1>3. r.at \in {runs[c].at, "failed"} /\ r.left = runs[c].left
  BY <1>1 DEF IsRun
<1>4. q \in Stages
  BY <1>1 DEF Stages
<1>5. RunOK(r, q)
  <2>1. Ordered(r.scenes) /\ UpTo(r.scenes, r.next)
    BY <1>1, <1>2 DEF RunOK
  <2>2. q = "none" \/ q = requests[c]
    OBVIOUS
  <2>3. r.at # "idle" /\ screenplay \in Scripted
    BY <1>1, <1>3 DEF RunOK
  <2>4. r.at = "process" => r.next = 0 \/ r.next < Len(chunks)
    BY <1>1, <1>2, <1>3 DEF RunOK
  <2>5. q = "calling" => chunks # <<>> /\ r.at \in {"process", "failed"}
    BY <1>1, <1>3, <2>2 DEF RunOK
  <2>6. q \in {"listed", "counted scenes"} => r.at \in {"persist", "failed"}
    BY <1>1, <1>3, <2>2 DEF RunOK
  <2>7. r.at \in {"persist", "map", "done"} \/ q \in {"listed", "counted scenes"} =>
               r.next = Len(chunks)
    BY <1>1, <1>2, <1>3, <2>2 DEF RunOK
  <2>8. QED
    BY <1>2, <2>1, <2>3, <2>4, <2>5, <2>6, <2>7 DEF RunOK
<1>6. CountOK(c, r, q)
  BY <1>1, <1>3 DEF CountOK
<1>7. Wrote(c) => Writer(r, q) /\ r.scenes = runs[c].scenes
  BY <1>1, <1>2, <1>3 DEF Writer
<1>8. QED
  BY <1>4, <1>5, <1>6, <1>7, ByOne DEF Unwritten

LEMMA RefuseRun ==
    ASSUME BreakdownInv, NEW c \in Runs, runs[c].at # "idle", Unwritten, Refuses(c) \/ Retries(c)
    PROVE  BreakdownInv'
BY StopStep DEF Refuses, Retries, Answers

LEMMA GiveUpStep ==
    ASSUME BreakdownInv, NEW c \in Runs, GiveUp(c)
    PROVE  BreakdownInv'
<1>1. /\ runs' = [runs EXCEPT ![c] = [runs[c] EXCEPT !.at = "failed"]]
      /\ UNCHANGED requests /\ Unwritten /\ runs[c].at # "idle"
  BY DEF GiveUp, Waiting, NoRows, Constant, Unwritten
<1>2. QED
  BY <1>1, SameRequest, StopStep

LEMMA StartRunStep ==
    ASSUME BreakdownInv, NEW c \in Runs, StartRun(c)
    PROVE  BreakdownInv'
<1> DEFINE r == [runs[c] EXCEPT !.at = "process", !.had = Mapped]
<1>1. /\ runs[c].at = "idle" /\ screenplay # <<>> /\ Unwritten /\ UNCHANGED requests
      /\ runs' = [runs EXCEPT ![c] = r]
  BY DEF StartRun, NoRows, Constant, Unwritten
<1>2. /\ RunOK(runs[c], requests[c]) /\ IsRun(runs[c]) /\ (Wrote(c) => Writer(runs[c], requests[c]))
      /\ requests[c] = "none"
  BY <1>1, RunFacts DEF RunOK
<1>3. IsRun(r) /\ r.next = runs[c].next /\ r.scenes = runs[c].scenes
  BY <1>2, RunFields DEF At
<1>4. r.at = "process"
  BY <1>2 DEF IsRun
<1>5. screenplay \in Scripted
  BY <1>1 DEF BreakdownInv, RunsOK
<1>6. ~Wrote(c)
  BY <1>1, <1>2 DEF Writer
<1>7. RunOK(r, "none")
  <2>1. Ordered(r.scenes) /\ UpTo(r.scenes, r.next) /\ r.next = 0
    BY <1>1, <1>2, <1>3 DEF RunOK
  <2> HIDE DEF r
  <2>2. QED
    BY <1>3, <1>4, <1>5, <2>1 DEF RunOK
<1>8. requests' = [requests EXCEPT ![c] = "none"] /\ "none" \in Stages
  BY <1>1, <1>2, SameRequest
<1> HIDE DEF r
<1>9. CountOK(c, r, "none")
  BY DEF CountOK
<1>10. QED
  BY <1>1, <1>6, <1>7, <1>8, <1>9, ByOne DEF Unwritten

LEMMA StartCallStep ==
    ASSUME BreakdownInv, NEW c \in Runs, StartCall(c)
    PROVE  BreakdownInv'
<1>1. runs[c].at = "process" /\ requests[c] = "none" /\ Unwritten
  BY DEF StartCall, Asks, NoRows, Constant, Unwritten
<1>2. CASE Refuses(c) \/ Retries(c)
  BY <1>1, <1>2, RefuseRun
<1>3. CASE chunks # <<>> /\ Goes(c, "calling")
  <2>1. /\ RunOK(runs[c], requests[c]) /\ (Wrote(c) => Writer(runs[c], requests[c]))
    BY RunFacts
  <2>2. runs' = [runs EXCEPT ![c] = runs[c]] /\ requests' = [requests EXCEPT ![c] = "calling"]
    BY <1>3 DEF Goes, BreakdownInv, RunsOK
  <2>3. RunOK(runs[c], "calling")
    BY <1>1, <1>3, <2>1 DEF RunOK
  <2>4. CountOK(c, runs[c], "calling") /\ ~Wrote(c) /\ "calling" \in Stages
    BY <1>1, <2>1 DEF CountOK, Writer, Stages
  <2>5. QED
    BY <1>1, <2>2, <2>3, <2>4, ByOne DEF Unwritten
<1>4. QED
  BY <1>2, <1>3 DEF StartCall

\* A chunk is broken down; the script may have given up on it.
LEMMA HearScenesStep ==
    ASSUME SplitIsWhole, BreakdownInv, NEW c \in Runs, requests[c] = "calling", Unwritten,
           NEW n \in 1..MaxScenesPerChunk, HearScenes(c, Normalized(c, n))
    PROVE  BreakdownInv'
<1> DEFINE all == runs[c].scenes \o Normalized(c, n)
           next == runs[c].next + 1
           at == IF next >= Len(chunks) THEN "persist" ELSE runs[c].at
           r == [runs[c] EXCEPT !.next = next, !.attempt = 1, !.scenes = all, !.at = at]
<1>1. /\ requests' = [requests EXCEPT ![c] = "none"]
      /\ runs' = [runs EXCEPT ![c] = IF Waiting(c) THEN r ELSE runs[c]]
  BY DEF HearScenes, Answers
<1>2. /\ RunOK(runs[c], requests[c]) /\ IsRun(runs[c]) /\ runs[c].next \in Nat
      /\ Wrote(c) => Writer(runs[c], requests[c])
  BY RunFacts
<1>3. runs[c].at \in {"process", "failed"} /\ chunks # <<>> /\ screenplay \in Scripted
  BY <1>2 DEF RunOK
<1>4. CASE runs[c].at = "failed"
  BY <1>1, <1>4, StopStep DEF Waiting
<1>5. CASE runs[c].at = "process"
  <2>1. runs' = [runs EXCEPT ![c] = r]
    BY <1>1, <1>5 DEF Waiting
  <2>2. Len(chunks) \in Nat /\ Len(chunks) > 0
    <3>1. chunks \in Seq(Seq(Seq(Nat)))
      BY <1>3 DEF BreakdownInv, RunsOK, SplitIsWhole
    <3>2. QED
      BY <1>3, <3>1
  <2>3. runs[c].next < Len(chunks)
    BY <1>2, <1>5, <2>2 DEF RunOK
  <2>4. all \in Seq(NewScene) /\ Ordered(all) /\ UpTo(all, next)
    BY <1>2, NewScenes
  <2>5. IF next = Len(chunks) THEN at = "persist" ELSE next < Len(chunks) /\ at = "process"
    BY <1>2, <1>5, <2>2, <2>3
  <2>6. next \in Nat /\ at \in {"process", "persist"}
    BY <1>2, <2>5
  <2> HIDE DEF all, next, at
  <2>7. IsRun(r) /\ r.scenes = all /\ r.next = next /\ r.at = at
    BY <1>2, <2>4, <2>6 DEF IsRun
  <2> HIDE DEF r
  <2>8. RunOK(r, "none")
    BY <1>3, <2>4, <2>5, <2>6, <2>7 DEF RunOK
  <2>9. CountOK(c, r, "none") /\ "none" \in Stages /\ ~Wrote(c)
    BY <1>2, <1>5 DEF CountOK, Stages, Writer
  <2>10. QED
    BY <1>1, <2>1, <2>8, <2>9, ByOne DEF Unwritten
<1>6. QED
  BY <1>3, <1>4, <1>5

LEMMA CallStep ==
    ASSUME SplitIsWhole, BreakdownInv, NEW c \in Runs, Chunk(c)
    PROVE  BreakdownInv'
<1>1. CASE StartCall(c)
  BY <1>1, StartCallStep
<1>2. CASE FinishCall(c) \/ MissDeadline(c)
  <2>1. requests[c] = "calling" /\ Unwritten
    BY <1>2 DEF FinishCall, MissDeadline, NoRows, Constant, Unwritten
  <2>2. runs[c].at # "idle"
    BY <2>1, RunFacts DEF RunOK
  <2>3. CASE Refuses(c) \/ Retries(c)
    BY <2>1, <2>2, <2>3, RefuseRun
  <2>4. CASE \E n \in 1..MaxScenesPerChunk : HearScenes(c, Normalized(c, n))
    BY <2>1, <2>4, HearScenesStep
  <2>5. QED
    BY <1>2, <2>3, <2>4 DEF FinishCall, MissDeadline
<1>3. QED
  BY <1>1, <1>2 DEF Chunk

\* The request gets to where it next is.
LEMMA GoesStep ==
    ASSUME BreakdownInv, NEW c \in Runs, NEW q \in Stages \ {"none", "calling"}, Goes(c, q), Unwritten,
           CountOK(c, runs[c], q), runs[c].at # "idle",
           q \in {"listed", "counted scenes"} =>
               runs[c].at = "persist" \/ requests[c] \in {"listed", "counted scenes"}
    PROVE  BreakdownInv'
<1>1. /\ RunOK(runs[c], requests[c]) /\ (Wrote(c) => Writer(runs[c], requests[c]))
  BY RunFacts
<1>2. runs' = [runs EXCEPT ![c] = runs[c]] /\ requests' = [requests EXCEPT ![c] = q]
  BY DEF Goes, BreakdownInv, RunsOK
<1>3. q \in {"listed", "counted scenes"} => runs[c].at \in {"persist", "failed"} /\ runs[c].next = Len(chunks)
  BY <1>1 DEF RunOK
<1>4. RunOK(runs[c], q)
  BY <1>1, <1>3 DEF RunOK
<1>5. Wrote(c) => Writer(runs[c], q)
  BY <1>1 DEF Writer
<1>6. QED
  BY <1>2, <1>4, <1>5, ByOne DEF Unwritten

LEMMA ListStep ==
    ASSUME BreakdownInv, NEW c \in Runs, ListScenes(c) \/ CountScenes(c)
    PROVE  BreakdownInv'
<1>1. /\ Unwritten
      /\ \/ runs[c].at = "persist" /\ requests[c] = "none"
         \/ requests[c] = "listed"
  BY DEF ListScenes, CountScenes, Asks, NoRows, Constant, Unwritten
<1>2. runs[c].at # "idle"
  BY <1>1, RunFacts DEF RunOK
<1>3. CASE Refuses(c)
  BY <1>1, <1>2, <1>3, RefuseRun
<1>4. CASE runs[c].at = "persist" /\ Goes(c, "listed")
  BY <1>1, <1>2, <1>4, GoesStep DEF CountOK, Stages
<1>5. CASE requests[c] = "listed" /\ stored = <<>> /\ Goes(c, "counted scenes")
  BY <1>1, <1>2, <1>5, GoesStep DEF CountOK, Stages
<1>6. CASE runs[c].at = "persist" /\ requests[c] = "none" /\ HearStored(c, ByNumber)
  <2> DEFINE r == [runs[c] EXCEPT !.at = "map", !.left = ByNumber]
  <2>1. runs' = [runs EXCEPT ![c] = r] /\ requests' = [requests EXCEPT ![c] = "none"]
    BY <1>6 DEF HearStored, Answers, Waiting
  <2>2. /\ RunOK(runs[c], requests[c]) /\ IsRun(runs[c])
        /\ Wrote(c) => Writer(runs[c], requests[c])
    BY RunFacts
  <2>3. IsRun(r) /\ r.next = runs[c].next /\ r.scenes = runs[c].scenes
    BY <2>2, RunFields DEF At
  <2>4. r.at = "map"
    BY <2>2 DEF IsRun
  <2> HIDE DEF r
  <2>5. RunOK(r, "none")
    <3>1. Ordered(r.scenes) /\ UpTo(r.scenes, r.next) /\ r.next = Len(chunks) /\ screenplay \in Scripted
      BY <1>6, <2>2, <2>3 DEF RunOK
    <3>2. QED
      BY <2>3, <2>4, <3>1 DEF RunOK
  <2>6. CountOK(c, r, "none") /\ ~Wrote(c) /\ "none" \in Stages
    BY <1>6, <2>2 DEF CountOK, Writer, Stages
  <2>7. QED
    BY <1>1, <2>1, <2>5, <2>6, ByOne DEF Unwritten
<1>7. QED
  BY <1>3, <1>4, <1>5, <1>6 DEF ListScenes, CountScenes, Asks

LEMMA SkipSceneStep ==
    ASSUME BreakdownInv, NEW c \in Runs, SkipScene(c)
    PROVE  BreakdownInv'
<1>1. /\ runs[c].at = "map" /\ requests[c] = "none" /\ Unwritten /\ UNCHANGED requests
  BY DEF SkipScene, Asks, NoRows, Constant, Unwritten
<1>2. /\ RunOK(runs[c], requests[c]) /\ IsRun(runs[c])
      /\ Wrote(c) => Writer(runs[c], requests[c])
  BY RunFacts
<1>3. PICK r \in {[runs[c] EXCEPT !.left = Tail(runs[c].left)], [runs[c] EXCEPT !.at = "done"]} :
          runs' = [runs EXCEPT ![c] = r]
  BY DEF SkipScene
<1>4. IsRun(r) /\ r.next = runs[c].next /\ r.scenes = runs[c].scenes
  <2>1. \/ \E at \in At : r = [runs[c] EXCEPT !.at = at]
        \/ \E left : r = [runs[c] EXCEPT !.left = left]
    BY DEF At
  <2>2. QED
    BY <1>2, <2>1, RunFields
<1>5. r.at \in {"map", "done"}
  BY <1>1, <1>2 DEF IsRun
<1>6. RunOK(r, "none")
  <2>1. Ordered(r.scenes) /\ UpTo(r.scenes, r.next) /\ r.next = Len(chunks) /\ screenplay \in Scripted
    BY <1>1, <1>2, <1>4 DEF RunOK
  <2>2. QED
    BY <1>4, <1>5, <2>1 DEF RunOK
<1>7. CountOK(c, r, "none") /\ (Wrote(c) => Writer(r, "none")) /\ "none" \in Stages
  BY <1>1, <1>2, <1>4, <1>5 DEF CountOK, Writer, Stages
<1>8. requests' = [requests EXCEPT ![c] = "none"]
  BY <1>1, SameRequest
<1>9. QED
  BY <1>1, <1>3, <1>4, <1>6, <1>7, <1>8, ByOne DEF Unwritten

LEMMA DrawStep ==
    ASSUME BreakdownInv, NEW c \in Runs, DrawShots(c) \/ CountShots(c)
    PROVE  BreakdownInv'
<1>1. Unwritten /\ ((runs[c].at = "map" /\ requests[c] = "none") \/ requests[c] = "drawn")
  BY DEF DrawShots, CountShots, Asks, NoRows, Constant, Unwritten
<1>2. runs[c].at # "idle"
  BY <1>1, RunFacts DEF RunOK
<1>3. CASE Refuses(c)
  BY <1>1, <1>2, <1>3, RefuseRun
<1>4. CASE Goes(c, "drawn")
  BY <1>1, <1>2, <1>4, GoesStep DEF CountOK, Stages
<1>5. CASE SceneOf(c) \notin Mapped /\ Goes(c, "counted shots")
  BY <1>1, <1>2, <1>5, GoesStep DEF CountOK, Stages, SceneOf
<1>6. QED
  BY <1>3, <1>4, <1>5 DEF DrawShots, CountShots

\* The scenes of a run come after those there are, of which a run that was not
\* raced has found none.
LEMMA InsertScenesStep ==
    ASSUME SplitIsWhole, BreakdownInv, NEW c \in Runs, InsertScenes(c)
    PROVE  BreakdownInv'
<1> DEFINE scene == runs[c].scenes
           new == [i \in DOMAIN scene |-> [scene |-> scene[i], by |-> c]]
           left == [i \in DOMAIN scene |-> Len(stored) + i]
           r == [runs[c] EXCEPT !.at = "map", !.left = left]
           s == IF Waiting(c) THEN r ELSE runs[c]
<1>1. /\ requests[c] = "counted scenes"
      /\ stored' = stored \o new
      /\ requests' = [requests EXCEPT ![c] = "none"] /\ runs' = [runs EXCEPT ![c] = s]
      /\ raced' = raced \cup {d \in Runs \ {c} : requests[d] = "counted scenes"}
      /\ UNCHANGED <<screenplay, chunks, maps>>
  BY DEF InsertScenes, HearStored, Answers, Constant
<1>2. /\ RunOK(runs[c], requests[c]) /\ IsRun(runs[c]) /\ CountOK(c, runs[c], requests[c])
      /\ Wrote(c) => Writer(runs[c], requests[c])
      /\ runs[c].at \in {"persist", "failed"} /\ runs[c].next = Len(chunks)
      /\ screenplay \in Scripted
  BY <1>1, RunFacts DEF RunOK
<1>3. ~Wrote(c)
  BY <1>1, <1>2 DEF Writer
<1>4. IsRun(s) /\ s.next = runs[c].next /\ s.scenes = scene
  BY <1>2, RunFields DEF At
<1>5. s.at \in {"map", "failed"}
  BY <1>2 DEF IsRun, Waiting
<1>6. RunOK(s, "none")
  <2>1. Ordered(s.scenes) /\ UpTo(s.scenes, s.next) /\ s.next = Len(chunks)
    BY <1>2, <1>4 DEF RunOK
  <2> HIDE DEF s
  <2>2. QED
    BY <1>2, <1>4, <1>5, <2>1 DEF RunOK
<1>7. scene \in Seq(NewScene)
  BY <1>2 DEF IsRun
<1>8. /\ new \in Seq(Entry) /\ Len(new) = Len(scene)
      /\ \A i \in 1..Len(scene) : new[i].scene = scene[i] /\ new[i].by = c
  <2>1. new = [i \in 1..Len(scene) |-> [scene |-> scene[i], by |-> c]] /\ Len(scene) \in Nat
    BY <1>7
  <2> HIDE DEF scene, new
  <2>2. \A i \in 1..Len(scene) : new[i].scene = scene[i] /\ new[i].by = c
    BY <2>1
  <2>3. ASSUME NEW i \in 1..Len(scene) PROVE new[i] \in Entry
    <3>1. scene[i] \in NewScene
      BY <1>7
    <3>2. QED
      BY <2>1, <3>1 DEF Entry
  <2>4. new \in Seq(Entry) /\ Len(new) = Len(scene)
    BY <2>1, <2>3
  <2>5. QED
    BY <2>2, <2>4
<1> HIDE DEF scene, new, s
<1>9. /\ stored \in Seq(Entry) /\ Len(stored) \in Nat
      /\ Len(scene) \in Nat
  BY <1>7 DEF BreakdownInv, StoredOK
<1>10. /\ stored' \in Seq(Entry)
       /\ Len(stored') = Len(stored) + Len(scene)
       /\ \A i \in 1..Len(stored) + Len(scene) :
             stored'[i] = IF i <= Len(stored) THEN stored[i] ELSE new[i - Len(stored)]
  <2> DEFINE both == stored \o new
  <2>1. /\ both \in Seq(Entry) /\ Len(both) = Len(stored) + Len(new)
        /\ \A i \in 1..Len(stored) + Len(new) :
              both[i] = IF i <= Len(stored) THEN stored[i] ELSE new[i - Len(stored)]
    <3>1. stored \in Seq(Entry) /\ new \in Seq(Entry)
      BY <1>8, <1>9
    <3>2. QED
      BY <3>1, ConcatProperties
  <2>2. stored' = both
    BY <1>1
  <2> HIDE DEF both
  <2>3. QED
    BY <1>8, <2>1, <2>2
<1>11. /\ DOMAIN stored' = 1..Len(stored) + Len(scene)
       /\ \A i \in DOMAIN stored : i \in DOMAIN stored' /\ stored'[i] = stored[i]
       /\ \A i \in DOMAIN stored' \ DOMAIN stored :
             /\ i - Len(stored) \in 1..Len(scene)
             /\ stored'[i].scene = scene[i - Len(stored)] /\ stored'[i].by = c
  <2>1. DOMAIN stored' = 1..Len(stored) + Len(scene) /\ DOMAIN stored = 1..Len(stored)
    BY <1>9, <1>10
  <2>2. ASSUME NEW i \in DOMAIN stored PROVE i \in DOMAIN stored' /\ stored'[i] = stored[i]
    BY <1>9, <1>10, <2>1
  <2>3. ASSUME NEW i \in DOMAIN stored' \ DOMAIN stored
        PROVE  /\ i - Len(stored) \in 1..Len(scene)
               /\ stored'[i].scene = scene[i - Len(stored)] /\ stored'[i].by = c
    <3>1. i \in 1..Len(stored) + Len(scene) /\ ~(i <= Len(stored)) /\ i - Len(stored) \in 1..Len(scene)
      BY <1>9, <2>1
    <3>2. stored'[i] = new[i - Len(stored)]
      BY <1>10, <3>1
    <3>3. QED
      BY <1>8, <3>1, <3>2
  <2>4. QED
    BY <2>1, <2>2, <2>3
<1>12. /\ runs' = [d \in Runs |-> runs'[d]] /\ requests' \in [Runs -> Stages]
       /\ runs'[c] = s /\ requests'[c] = "none"
       /\ \A d \in Runs \ {c} : runs'[d] = runs[d] /\ requests'[d] = requests[d]
  BY <1>1 DEF BreakdownInv, RunsOK, Stages
<1>13. \A d \in Runs \ {c} : Wrote(d)' => Wrote(d)
  BY <1>11 DEF Wrote
<1>14. ASSUME NEW d \in Runs
       PROVE  /\ RunOK(runs[d], requests[d])'
              /\ CountOK(d, runs[d], requests[d])'
              /\ Wrote(d)' => Writer(runs[d], requests[d])'
  <2>1. CASE d = c
    <3>1. RunOK(runs[d], requests[d])'
      BY <1>1, <1>6, <1>12, <2>1 DEF RunOK
    <3>2. CountOK(d, runs[d], requests[d])'
      BY <1>12, <2>1 DEF CountOK
    <3>3. Writer(runs[d], requests[d])'
      BY <1>1, <1>2, <1>4, <1>5, <1>12, <2>1 DEF Writer
    <3>4. QED
      BY <3>1, <3>2, <3>3
  <2>2. CASE d # c
    <3>0. /\ RunOK(runs[d], requests[d]) /\ CountOK(d, runs[d], requests[d])
          /\ Wrote(d) => Writer(runs[d], requests[d])
          /\ runs'[d] = runs[d] /\ requests'[d] = requests[d]
      BY <1>12, <2>2 DEF BreakdownInv, RunsOK
    <3>1. RunOK(runs[d], requests[d])'
      BY <1>1, <3>0 DEF RunOK
    <3>2. CountOK(d, runs[d], requests[d])'
      <4>1. d \notin raced' => d \notin raced /\ requests[d] # "counted scenes"
        BY <1>1, <2>2
      <4>2. QED
        BY <1>1, <3>0, <4>1 DEF CountOK, Mapped
    <3>3. Wrote(d)' => Writer(runs[d], requests[d])'
      BY <1>1, <1>13, <2>2, <3>0 DEF Writer
    <3>4. QED
      BY <3>1, <3>2, <3>3
  <2>3. QED
    BY <2>1, <2>2
<1>15. RunsOK'
  BY <1>1, <1>12, <1>14 DEF BreakdownInv, RunsOK
<1>16. ASSUME NEW i \in Fresh', NEW j \in Fresh' PROVE stored'[i].by = stored'[j].by
  <2>1. CASE c \in raced
    <3>1. i \in Fresh /\ j \in Fresh
      BY <1>1, <1>11, <1>16, <2>1 DEF Fresh
    <3>2. i \in DOMAIN stored /\ j \in DOMAIN stored
      BY <3>1 DEF Fresh
    <3>3. QED
      BY <1>11, <3>1, <3>2 DEF BreakdownInv, StoredOK
  <2>2. CASE c \notin raced
    <3>1. DOMAIN stored = {}
      <4>1. stored = <<>>
        BY <1>1, <1>2, <2>2 DEF CountOK
      <4>2. QED
        BY <4>1
    <3>2. \A k \in DOMAIN stored' : stored'[k].by = c
      BY <1>11, <3>1
    <3>3. QED
      BY <1>16, <3>2 DEF Fresh
  <2>3. QED
    BY <2>1, <2>2
<1>17. ASSUME NEW d \in Runs, stored' # <<>>, \A i \in DOMAIN stored' : stored'[i].by = d
       PROVE  /\ Len(stored') = Len(runs'[d].scenes)
              /\ \A i \in DOMAIN stored' : stored'[i].scene = runs'[d].scenes[i]
  <2>1. CASE scene = <<>>
    <3>1. Len(scene) = 0 /\ DOMAIN stored' = DOMAIN stored /\ Len(stored') = Len(stored)
      BY <1>9, <1>10, <1>11, <2>1
    <3>2. stored # <<>> /\ \A i \in DOMAIN stored : stored[i].by = d
      BY <1>9, <1>10, <1>11, <1>17, <3>1
    <3>3. 1 \in DOMAIN stored
      BY <1>9, <3>2
    <3>4. d # c
      BY <1>3, <3>2, <3>3 DEF Wrote
    <3>5. /\ Len(stored) = Len(runs[d].scenes)
          /\ \A i \in DOMAIN stored : stored[i].scene = runs[d].scenes[i]
      BY <3>2 DEF BreakdownInv, StoredOK
    <3>6. QED
      BY <1>11, <1>12, <3>1, <3>4, <3>5
  <2>2. CASE scene # <<>>
    <3>1. Len(stored) + 1 \in DOMAIN stored' \ DOMAIN stored
      <4>1. Len(scene) >= 1 /\ DOMAIN stored = 1..Len(stored)
        BY <1>7, <1>9, <2>2
      <4>2. QED
        BY <1>9, <1>11, <4>1
    <3>2. d = c
      BY <1>11, <1>17, <3>1
    <3>3. DOMAIN stored = {}
      BY <1>3, <1>11, <1>17, <3>2 DEF Wrote
    <3>4. Len(stored) = 0
      BY <1>9, <3>3
    <3>5. runs'[d].scenes = scene
      BY <1>4, <1>12, <3>2
    <3>6. QED
      BY <1>9, <1>10, <1>11, <3>3, <3>4, <3>5
  <2>3. QED
    BY <2>1, <2>2
<1>18. StoredOK'
  BY <1>10, <1>16, <1>17 DEF StoredOK
<1>19. MapsOK'
  <2>1. ASSUME NEW m \in maps, NEW n \in maps, m.scene = n.scene, {m.by, n.by} \cap raced' = {}
        PROVE  m = n
    <3>1. {m.by, n.by} \cap raced = {}
      BY <1>1, <2>1
    <3>2. QED
      BY <2>1, <3>1 DEF BreakdownInv, MapsOK
  <2>2. \A m \in maps : m \in [scene : {m.scene}, by : Runs, prompted : BOOLEAN]
    BY DEF BreakdownInv, MapsOK
  <2>3. maps' = maps
    BY <1>1
  <2>4. QED
    BY <2>1, <2>2, <2>3 DEF MapsOK
<1>20. QED
  BY <1>15, <1>18, <1>19 DEF BreakdownInv

\* What another step leaves of a run.
LEMMA OthersStay ==
    ASSUME BreakdownInv, NEW c \in Runs, NEW q \in Stages,
           UNCHANGED <<screenplay, chunks, stored>>, raced \subseteq raced',
           requests' = [requests EXCEPT ![c] = q],
           NEW r, runs' = [runs EXCEPT ![c] = r],
           RunOK(r, q), CountOK(c, runs[c], requests[c])',
           r.scenes = runs[c].scenes, Wrote(c) => Writer(r, q),
           \A d \in Runs \ {c} : d \notin raced' /\ requests[d] = "counted shots" =>
               Head(runs[d].left) \notin Mapped'
    PROVE  RunsOK' /\ StoredOK'
<1>1. /\ runs' = [d \in Runs |-> runs'[d]] /\ requests' \in [Runs -> Stages]
      /\ runs'[c] = r /\ requests'[c] = q
      /\ \A d \in Runs \ {c} : runs'[d] = runs[d] /\ requests'[d] = requests[d]
  BY DEF BreakdownInv, RunsOK
<1>2. ASSUME NEW d \in Runs
      PROVE  /\ RunOK(runs[d], requests[d])'
             /\ CountOK(d, runs[d], requests[d])'
             /\ Wrote(d)' => Writer(runs[d], requests[d])'
  <2>1. CASE d = c
    <3>1. RunOK(runs[d], requests[d])'
      BY <1>1, <2>1 DEF RunOK
    <3>2. Wrote(d)' => Writer(runs[d], requests[d])'
      BY <1>1, <2>1 DEF Writer, Wrote
    <3>3. QED
      BY <2>1, <3>1, <3>2
  <2>2. CASE d # c
    <3>1. /\ RunOK(runs[d], requests[d]) /\ CountOK(d, runs[d], requests[d])
          /\ Wrote(d) => Writer(runs[d], requests[d])
          /\ runs'[d] = runs[d] /\ requests'[d] = requests[d]
      BY <1>1, <2>2 DEF BreakdownInv, RunsOK
    <3>2. RunOK(runs[d], requests[d])'
      BY <3>1 DEF RunOK
    <3>3. CountOK(d, runs[d], requests[d])'
      BY <2>2, <3>1 DEF CountOK
    <3>4. Wrote(d)' => Writer(runs[d], requests[d])'
      BY <3>1 DEF Writer, Wrote
    <3>5. QED
      BY <3>2, <3>3, <3>4
  <2>3. QED
    BY <2>1, <2>2
<1>3. RunsOK'
  BY <1>1, <1>2 DEF BreakdownInv, RunsOK
<1>4. \A d \in Runs : runs'[d].scenes = runs[d].scenes
  BY <1>1
<1>5. \A i \in Fresh' : i \in Fresh
  BY DEF Fresh
<1>6. StoredOK'
  BY <1>4, <1>5 DEF BreakdownInv, StoredOK
<1>7. QED
  BY <1>3, <1>6

\* A scene is given shots; who has counted none by now is raced.
LEMMA InsertShotsStep ==
    ASSUME BreakdownInv, NEW c \in Runs, InsertShots(c)
    PROVE  BreakdownInv'
<1> DEFINE scene == SceneOf(c)
           new == [scene |-> scene, by |-> c, prompted |-> FALSE]
<1>1. /\ requests[c] = "counted shots"
      /\ maps' = maps \cup {new}
      /\ raced' = raced \cup {d \in Runs \ {c} : requests[d] = "counted shots" /\ SceneOf(d) = scene}
      /\ requests' = [requests EXCEPT ![c] = "unprompted"] /\ UNCHANGED runs
      /\ UNCHANGED <<screenplay, chunks, stored>>
  BY DEF InsertShots, Goes, Constant
<1>2. /\ RunOK(runs[c], requests[c]) /\ CountOK(c, runs[c], requests[c])
      /\ Wrote(c) => Writer(runs[c], requests[c])
  BY RunFacts
<1>3. runs' = [runs EXCEPT ![c] = runs[c]] /\ "unprompted" \in Stages
  BY <1>1 DEF BreakdownInv, RunsOK, Stages
<1>4. RunOK(runs[c], "unprompted")
  <2>1. runs[c].at # "idle"
    BY <1>1, <1>2 DEF RunOK
  <2>2. QED
    BY <1>2, <2>1 DEF RunOK
<1>5. Wrote(c) => Writer(runs[c], "unprompted")
  BY <1>2 DEF Writer
<1>6. requests'[c] = "unprompted"
  BY <1>1 DEF BreakdownInv, RunsOK
<1>7. CountOK(c, runs[c], requests[c])'
  BY <1>6 DEF CountOK
<1>8. new.scene = scene /\ new.by = c
  OBVIOUS
<1>9. new \in [scene : {new.scene}, by : Runs, prompted : BOOLEAN]
  OBVIOUS
<1> HIDE DEF new
<1>10. Mapped' = Mapped \cup {scene}
  BY <1>1, <1>8 DEF Mapped
<1>11. ASSUME NEW d \in Runs \ {c}, d \notin raced', requests[d] = "counted shots"
       PROVE  Head(runs[d].left) \notin Mapped'
  <2>1. d \notin raced /\ SceneOf(d) # scene
    BY <1>1, <1>11
  <2>2. Head(runs[d].left) \notin Mapped
    BY <1>11, <2>1 DEF BreakdownInv, RunsOK, CountOK
  <2> HIDE DEF scene
  <2>3. QED
    BY <1>10, <2>1, <2>2 DEF SceneOf
<1>12. RunsOK' /\ StoredOK'
  BY <1>1, <1>3, <1>4, <1>5, <1>7, <1>11, OthersStay
<1>13. c \notin raced => scene \notin Mapped
  BY <1>1, <1>2 DEF CountOK, SceneOf
<1>14. ASSUME NEW m \in maps', NEW n \in maps', m.scene = n.scene, {m.by, n.by} \cap raced' = {}
       PROVE  m = n
  <2>1. m.by \notin raced /\ n.by \notin raced
    BY <1>1, <1>14
  <2>2. CASE m \in maps /\ n \in maps
    BY <1>14, <2>1, <2>2 DEF BreakdownInv, MapsOK
  <2>3. \A k \in maps : k.scene \in Mapped
    BY DEF Mapped
  <2>4. ASSUME NEW k \in maps, k.scene = new.scene, new.by \notin raced PROVE FALSE
    BY <1>8, <1>13, <2>3, <2>4
  <2>5. QED
    BY <1>1, <1>14, <2>1, <2>2, <2>4
<1>15. MapsOK'
  BY <1>1, <1>9, <1>14 DEF BreakdownInv, MapsOK
<1>16. QED
  BY <1>12, <1>15 DEF BreakdownInv

LEMMA PromptShotsStep ==
    ASSUME BreakdownInv, NEW c \in Runs, PromptShots(c)
    PROVE  BreakdownInv'
<1> DEFINE After(m) == [m EXCEPT !.prompted = @ \/ (m.by = c /\ m.scene = SceneOf(c))]
           r == IF Waiting(c) THEN [runs[c] EXCEPT !.left = Tail(runs[c].left)] ELSE runs[c]
<1>1. /\ requests[c] = "unprompted"
      /\ maps' = {After(m) : m \in maps}
      /\ requests' = [requests EXCEPT ![c] = "none"] /\ runs' = [runs EXCEPT ![c] = r]
      /\ UNCHANGED <<screenplay, chunks, stored, raced>>
  BY DEF PromptShots, HearShots, Answers, Constant
<1>2. /\ RunOK(runs[c], requests[c]) /\ IsRun(runs[c])
      /\ Wrote(c) => Writer(runs[c], requests[c])
  BY RunFacts
<1>3. IsRun(r) /\ r.next = runs[c].next /\ r.scenes = runs[c].scenes
  BY <1>2, RunFields
<1>4. r.at = runs[c].at /\ "none" \in Stages
  BY <1>2 DEF IsRun, Stages
<1> HIDE DEF r
<1>5. RunOK(r, "none")
  <2>1. r.at # "idle" /\ Ordered(r.scenes) /\ UpTo(r.scenes, r.next)
    BY <1>1, <1>2, <1>3, <1>4 DEF RunOK
  <2>2. QED
    BY <1>2, <1>3, <1>4, <2>1 DEF RunOK
<1>6. Wrote(c) => Writer(r, "none")
  BY <1>2, <1>3, <1>4 DEF Writer
<1>7. requests'[c] = "none"
  BY <1>1 DEF BreakdownInv, RunsOK
<1>8. CountOK(c, runs[c], requests[c])'
  BY <1>7 DEF CountOK
<1>9. \A m \in maps : /\ After(m).scene = m.scene /\ After(m).by = m.by
                      /\ After(m) \in [scene : {m.scene}, by : Runs, prompted : BOOLEAN]
  BY DEF BreakdownInv, MapsOK
<1> HIDE DEF After
<1>10. Mapped' = Mapped
  BY <1>1, <1>9 DEF Mapped
<1>11. \A d \in Runs \ {c} : d \notin raced' /\ requests[d] = "counted shots" =>
               Head(runs[d].left) \notin Mapped'
  BY <1>1, <1>10 DEF BreakdownInv, RunsOK, CountOK
<1>12. RunsOK' /\ StoredOK'
  BY <1>1, <1>3, <1>4, <1>5, <1>6, <1>8, <1>11, OthersStay
<1>13. ASSUME NEW m \in maps', NEW n \in maps', m.scene = n.scene, {m.by, n.by} \cap raced' = {}
       PROVE  m = n
  <2>1. PICK k \in maps : m = After(k)
    BY <1>1
  <2>2. PICK l \in maps : n = After(l)
    BY <1>1
  <2>3. k = l
    BY <1>1, <1>9, <1>13, <2>1, <2>2 DEF BreakdownInv, MapsOK
  <2>4. QED
    BY <2>1, <2>2, <2>3
<1>14. \A m \in maps' : m \in [scene : {m.scene}, by : Runs, prompted : BOOLEAN]
  BY <1>1, <1>9
<1>15. MapsOK'
  BY <1>13, <1>14 DEF MapsOK
<1>16. QED
  BY <1>12, <1>15 DEF BreakdownInv

LEMMA RestartStep == ASSUME BreakdownInv, Restart PROVE BreakdownInv'
<1> DEFINE After(c) == IF requests[c] # "none" /\ Waiting(c)
                       THEN [runs[c] EXCEPT !.at = "failed"] ELSE runs[c]
<1>1. /\ runs' = [c \in Runs |-> After(c)] /\ requests' = [c \in Runs |-> "none"]
      /\ UNCHANGED <<screenplay, chunks, stored, maps, raced>>
  BY DEF Restart, NoRows
<1>2. ASSUME NEW c \in Runs
      PROVE  /\ RunOK(After(c), "none")
             /\ Wrote(c) => Writer(After(c), "none")
             /\ After(c).scenes = runs[c].scenes
  <2> DEFINE r == After(c)
  <2>1. /\ RunOK(runs[c], requests[c]) /\ IsRun(runs[c])
        /\ Wrote(c) => Writer(runs[c], requests[c])
    BY RunFacts
  <2>2. IsRun(r) /\ r.next = runs[c].next /\ r.scenes = runs[c].scenes
    BY <2>1, RunFields DEF At
  <2>3. \/ r.at = runs[c].at
        \/ r.at = "failed" /\ runs[c].at # "idle"
    BY <2>1 DEF IsRun, Waiting
  <2> HIDE DEF r
  <2>4. RunOK(r, "none")
    <3>1. Ordered(r.scenes) /\ UpTo(r.scenes, r.next)
      BY <2>1, <2>2 DEF RunOK
    <3>2. r.at # "idle" => screenplay \in Scripted
      BY <2>1, <2>3 DEF RunOK
    <3>3. r.at = "idle" => r.next = 0
      BY <2>1, <2>2, <2>3 DEF RunOK
    <3>4. r.at = "process" => r.next = 0 \/ r.next < Len(chunks)
      BY <2>1, <2>2, <2>3 DEF RunOK
    <3>5. r.at \in {"persist", "map", "done"} => r.next = Len(chunks)
      BY <2>1, <2>2, <2>3 DEF RunOK
    <3>6. QED
      BY <2>2, <3>1, <3>2, <3>3, <3>4, <3>5 DEF RunOK
  <2>5. Wrote(c) => Writer(r, "none")
    BY <2>1, <2>2, <2>3 DEF Writer
  <2>6. QED
    BY <2>2, <2>4, <2>5 DEF r
<1> HIDE DEF After
<1>3. \A c \in Runs : runs'[c] = After(c) /\ requests'[c] = "none"
  BY <1>1
<1>4. ASSUME NEW c \in Runs
      PROVE  /\ RunOK(runs[c], requests[c])'
             /\ CountOK(c, runs[c], requests[c])'
             /\ Wrote(c)' => Writer(runs[c], requests[c])'
  <2>1. RunOK(runs[c], requests[c])'
    BY <1>1, <1>2, <1>3 DEF RunOK
  <2>2. CountOK(c, runs[c], requests[c])'
    BY <1>3 DEF CountOK
  <2>3. Wrote(c)' => Writer(runs[c], requests[c])'
    BY <1>1, <1>2, <1>3 DEF Wrote, Writer
  <2>4. QED
    BY <2>1, <2>2, <2>3
<1>5. RunsOK'
  <2>1. runs' = [c \in Runs |-> runs'[c]] /\ requests' \in [Runs -> Stages]
    BY <1>1 DEF Stages
  <2>2. QED
    BY <1>1, <1>4, <2>1 DEF BreakdownInv, RunsOK
<1>6. StoredOK'
  <2>1. Fresh' = Fresh /\ \A c \in Runs : runs'[c].scenes = runs[c].scenes
    BY <1>1, <1>2, <1>3 DEF Fresh
  <2>2. QED
    BY <1>1, <2>1 DEF BreakdownInv, StoredOK
<1>7. MapsOK'
  BY <1>1 DEF BreakdownInv, MapsOK
<1>8. QED
  BY <1>5, <1>6, <1>7 DEF BreakdownInv

LEMMA BreakdownStarts == Init => BreakdownInv
<1> SUFFICES ASSUME Init PROVE BreakdownInv
  OBVIOUS
<1>1. /\ chunks = Split(screenplay) /\ screenplay \in Scripted \cup {<<>>}
      /\ runs = [c \in Runs |-> [at |-> "idle", attempt |-> 1, next |-> 0, scenes |-> <<>>,
                                 had |-> {}, left |-> <<>>]]
      /\ requests = [c \in Runs |-> "none"] /\ stored = <<>> /\ maps = {} /\ raced = {}
  BY DEF Init, BreakdownInit
<1>2. ASSUME NEW c \in Runs
      PROVE  /\ IsRun(runs[c]) /\ runs[c].at = "idle" /\ runs[c].next = 0
             /\ runs[c].scenes = <<>> /\ requests[c] = "none"
  BY <1>1 DEF IsRun
<1>3. Ordered(<<>>) /\ UpTo(<<>>, 0) /\ \A c \in Runs : ~Wrote(c)
  BY <1>1 DEF Ordered, UpTo, Wrote
<1>4. ASSUME NEW c \in Runs
      PROVE RunOK(runs[c], requests[c]) /\ CountOK(c, runs[c], requests[c])
  BY <1>2, <1>3 DEF RunOK, CountOK
<1>5. RunsOK
  <2>1. runs = [c \in Runs |-> runs[c]] /\ requests \in [Runs -> Stages]
    BY <1>1 DEF Stages
  <2>2. QED
    BY <1>1, <1>3, <1>4, <2>1 DEF RunsOK
<1>6. StoredOK /\ MapsOK
  <2>1. DOMAIN stored = {} /\ stored \in Seq(Entry)
    BY <1>1
  <2>2. QED
    BY <1>1, <2>1 DEF StoredOK, MapsOK, Fresh
<1>7. QED
  BY <1>5, <1>6 DEF BreakdownInv

LEMMA BreakdownKeeps == ASSUME SplitIsWhole PROVE BreakdownInv /\ [Next]_vars => BreakdownInv'
<1> SUFFICES ASSUME BreakdownInv, [Next]_vars PROVE BreakdownInv'
  OBVIOUS
<1>1. CASE UNCHANGED <<screenplay, chunks, runs, requests, stored, maps, raced>>
  BY <1>1 DEF BreakdownInv, RunsOK, RunOK, CountOK, Writer, Wrote, Mapped, StoredOK, Fresh, MapsOK
<1>2. ASSUME NEW c \in Runs, Chunk(c) \/ Persist(c) \/ ShotMap(c) PROVE BreakdownInv'
  BY <1>2, CallStep, ListStep, InsertScenesStep, SkipSceneStep, DrawStep, InsertShotsStep,
     PromptShotsStep DEF Persist, ShotMap
<1>3. ASSUME NEW c \in Runs, StartRun(c) \/ GiveUp(c) PROVE BreakdownInv'
  BY <1>3, StartRunStep, GiveUpStep
<1>4. CASE EndLateCall
  BY <1>1, <1>4 DEF EndLateCall, NoRows, Constant
<1>5. CASE BreakdownNext
  BY <1>2, <1>3, <1>4, <1>5, RestartStep DEF BreakdownNext, BreakdownStep
<1>6. CASE UNCHANGED breakdownVars
  BY <1>1, <1>6 DEF breakdownVars
<1>7. CASE UNCHANGED vars
  BY <1>6, <1>7 DEF vars
<1>8. QED
  BY <1>5, <1>6, <1>7 DEF Next

\* The invariant is strong enough.
LEMMA BreakdownIsOnce ==
    ASSUME SplitIsWhole, BreakdownInv
    PROVE  HoldsScreenplayOnce
<1>1. ASSUME NEW i \in Fresh, NEW j \in Fresh PROVE stored[i].by = stored[j].by
  BY DEF BreakdownInv, StoredOK
<1>2. ASSUME NEW m \in maps, NEW n \in maps, m.scene = n.scene, {m.by, n.by} \cap raced = {}
      PROVE  m = n
  BY <1>2 DEF BreakdownInv, MapsOK
<1> DEFINE scene(i) == stored[i].scene
<1>3. ASSUME stored # <<>>, \A i, j \in DOMAIN stored : stored[i].by = stored[j].by
      PROVE  /\ \A i \in DOMAIN stored : scene(i).number = i
             /\ \A i \in DOMAIN stored :
                    IF i = 1 THEN scene(i).chunk = 1 /\ scene(i).part = 1
                    ELSE \/ scene(i).chunk = scene(i - 1).chunk /\ scene(i).part = scene(i - 1).part + 1
                         \/ scene(i).chunk = scene(i - 1).chunk + 1 /\ scene(i).part = 1
             /\ scene(Len(stored)).chunk = Len(chunks)
             /\ LinesOf(chunks) = WrittenLines(screenplay)
  <2>1. stored \in Seq(Entry) /\ 1 \in DOMAIN stored /\ Len(stored) \in DOMAIN stored
        /\ DOMAIN stored = 1..Len(stored) /\ Len(stored) \in Nat
    BY <1>3 DEF BreakdownInv, StoredOK
  <2>2. PICK c \in Runs : c = stored[1].by
    <3>1. stored[1] \in Entry
      BY <2>1
    <3>2. QED
      BY <3>1 DEF Entry
  <2>3. \A i \in DOMAIN stored : stored[i].by = c
    BY <1>3, <2>1, <2>2
  <2>4. /\ Len(stored) = Len(runs[c].scenes)
        /\ \A i \in DOMAIN stored : scene(i) = runs[c].scenes[i]
    BY <1>3, <2>3 DEF BreakdownInv, StoredOK
  <2>5. Wrote(c)
    BY <2>1, <2>3 DEF Wrote
  <2>6. /\ RunOK(runs[c], requests[c]) /\ Writer(runs[c], requests[c]) /\ IsRun(runs[c])
    BY <2>5, RunFacts
  <2>7. runs[c].scenes \in Seq(NewScene) /\ Ordered(runs[c].scenes) /\ UpTo(runs[c].scenes, Len(chunks))
        /\ screenplay \in Scripted
    BY <2>6 DEF RunOK, Writer, IsRun
  <2>8. DOMAIN runs[c].scenes = DOMAIN stored /\ \A i \in DOMAIN stored \ {1} : i - 1 \in DOMAIN stored
    BY <2>1, <2>4, <2>7
  <2> HIDE DEF scene
  <2>9. scene(Len(stored)).chunk = Len(chunks)
    <3>1. runs[c].scenes # <<>>
      BY <2>1, <2>4, <2>7
    <3>2. runs[c].scenes[Len(runs[c].scenes)].chunk = Len(chunks)
      BY <2>7, <3>1 DEF UpTo
    <3>3. QED
      BY <2>1, <2>4, <3>2
  <2>10. LinesOf(chunks) = WrittenLines(screenplay)
    BY <2>7 DEF SplitIsWhole, BreakdownInv, RunsOK
  <2>11. QED
    BY <2>4, <2>7, <2>8, <2>9, <2>10 DEF Ordered
<1>4. QED
  BY <1>1, <1>2, <1>3 DEF HoldsScreenplayOnce

\* However the answers of the script's requests are lost, the project is given
\* one breakdown.
THEOREM OneBreakdown == SplitIsWhole => (Spec => []HoldsScreenplayOnce)
<1> SUFFICES ASSUME SplitIsWhole PROVE Spec => []HoldsScreenplayOnce
  OBVIOUS
<1>1. BreakdownInv /\ [Next]_vars => BreakdownInv'
  BY BreakdownKeeps
<1>2. BreakdownInv => HoldsScreenplayOnce
  BY BreakdownIsOnce
<1>3. QED
  BY <1>1, <1>2, BreakdownStarts, PTL DEF Spec
=============================================================================
