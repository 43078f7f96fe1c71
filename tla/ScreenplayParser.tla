--------------------------- MODULE ScreenplayParser ---------------------------
(***************************************************************************)
(* parse_screenplay of src/app/services/screenplay_parser.py: the lines of *)
(* a screenplay become scenes, and the lines of a scene blocks.            *)
(*                                                                         *)
(* A line is what the tests of the parser make of it, without its words:   *)
(*   blank       nothing but white space                                   *)
(*   noise       a page number or a page break, dropped before the parse   *)
(*   heading     INT./EXT. at its start                                    *)
(*   transition  CUT TO: and the like                                      *)
(*   cue, guess  could be a speaker's name: by its form, or only perhaps   *)
(*   inline      a speaker's name and the words on one line                *)
(*   paren       a line in parentheses                                     *)
(*   text        none of these                                             *)
(* and the two tests that overlap with others:                             *)
(*   cue inline, guess inline  a name with words so few that the whole     *)
(*               line passes for a name too (MARY: GO)                     *)
(*   paren inline  a line in parentheses that begins with a name and words *)
(* One step reads one line, as the loops of _classify_lines do.            *)
(***************************************************************************)
EXTENDS Naturals, Sequences

VARIABLES
    phase,    \* of the parse: idle, scanning, opening or in a speech, done, failed
    lines,    \* the lines of the text, noise taken out
    index,    \* the line to be read
    first,    \* first line of the scene being read
    scenes,   \* scenes closed so far: first and last line of their raw text
    blocks,   \* blocks emitted so far
    pending,  \* action lines not yet flushed
    turn      \* the speech being collected

parserVars == <<phase, lines, index, first, scenes, blocks, pending, turn>>

CueForms == {"cue", "guess", "cue inline", "guess inline"}
Guesses == {"guess", "guess inline"}
InlineForms == {"inline", "cue inline", "guess inline", "paren inline"}
Asides == {"paren", "paren inline"}
Kinds == {"blank", "heading", "transition", "text"} \cup CueForms \cup InlineForms \cup Asides
Phases == {"idle", "scan", "opening", "speech", "done", "failed"}
Types == {"action", "dialogue", "parenthetical", "transition"}

\* speaker and aside are the lines of the cue and of the parenthetical after
\* it, 0 if there is none; sure is confidence "high".
Block == [type : Types, words : SUBSET (Nat \ {0}), speaker : Nat, aside : Nat, sure : BOOLEAN]
Turn == [words : SUBSET (Nat \ {0}), speaker : Nat, aside : Nat, sure : BOOLEAN]
NoTurn == [words |-> {}, speaker |-> 0, aside |-> 0, sure |-> TRUE]
Scene == [first : Nat \ {0}, last : Nat]

ParserTypeOK ==
    /\ phase \in Phases
    /\ lines \in Seq(Kinds)
    /\ index \in 1..Len(lines) + 1 /\ first \in 1..Len(lines) + 1
    /\ scenes \in Seq(Scene)
    /\ blocks \in Seq(Block)
    /\ pending \in SUBSET (Nat \ {0})
    /\ turn \in Turn

ParserInit ==
    /\ phase = "idle"
    /\ lines = <<>> /\ index = 1 /\ first = 1
    /\ scenes = <<>> /\ blocks = <<>>
    /\ pending = {} /\ turn = NoTurn

-----------------------------------------------------------------------------
(* Tests on a line. *)

\* _split_lines
Content(text) == SelectSeq(text, LAMBDA kind : kind # "noise")

Headings == {i \in DOMAIN lines : lines[i] = "heading"}

\* Where the first scene begins: before its heading nothing is kept; without
\* any heading the whole text is one scene.
Start == IF Headings = {} THEN 1
         ELSE CHOOSE i \in Headings : \A j \in Headings : i <= j

InScene(i) == i \in DOMAIN lines /\ lines[i] # "heading"

\* _has_more_content, among the lines of the scene.
HasMore(i) ==
    \E j \in DOMAIN lines :
        /\ j > i
        /\ lines[j] # "blank"
        /\ \A k \in i + 1..j : lines[k] # "heading"

\* _looks_like_character_cue, which asks for content after the line and looks
\* for no words in it: it comes before the test for an inline dialogue.
IsCue(i) == lines[i] \in CueForms /\ HasMore(i)

\* Mutant: a cue does not end the speech before it.
EndsSpeech_NotAtCue(i) == lines[i] \in {"blank", "transition"}

\* What ends a speech, beside the end of the scene.
EndsSpeech(i) == lines[i] \in {"blank", "transition"} \cup InlineForms \/ IsCue(i)

-----------------------------------------------------------------------------
(* Emitting blocks. *)

Narration(type, words) ==
    [type |-> type, words |-> words, speaker |-> 0, aside |-> 0, sure |-> TRUE]

\* flush_action
Flushed == IF pending = {} THEN blocks ELSE Append(blocks, Narration("action", pending))

\* A step that reads the line at index and flushes the action before it.
ReadFlushing(emitted, next, speech) ==
    /\ blocks' = Flushed \o emitted
    /\ pending' = {}
    /\ index' = index + 1
    /\ phase' = next
    /\ turn' = speech
    /\ UNCHANGED <<lines, first, scenes>>

Emit(type) == <<Narration(type, {index})>>

Idle == phase \in {"idle", "done", "failed"}

\* The lines before the first heading are left out.
BeginParse(content) ==
    /\ Idle
    /\ phase' = "scan"
    /\ lines' = content
    /\ first' = Start'
    /\ index' = IF Headings' = {} THEN 1 ELSE Start' + 1
    /\ scenes' = <<>> /\ blocks' = <<>>
    /\ pending' = {} /\ turn' = NoTurn

\* A text without a word: ScreenplayParseError.
RefuseText ==
    /\ Idle
    /\ phase' = "failed"
    /\ lines' = <<>> /\ index' = 1 /\ first' = 1
    /\ scenes' = <<>> /\ blocks' = <<>>
    /\ pending' = {} /\ turn' = NoTurn

\* parse_screenplay of a text, given as the kinds of its lines.
Parse(text) ==
    IF \A i \in DOMAIN text : text[i] = "blank" THEN RefuseText ELSE BeginParse(Content(text))

-----------------------------------------------------------------------------
(* The lines of a scene. *)

ReadBlank ==
    /\ phase = "scan" /\ InScene(index)
    /\ lines[index] = "blank"
    /\ ReadFlushing(<<>>, "scan", NoTurn)

ReadTransition ==
    /\ phase = "scan" /\ InScene(index)
    /\ lines[index] = "transition"
    /\ ReadFlushing(Emit("transition"), "scan", NoTurn)

ReadParenthetical ==
    /\ phase = "scan" /\ InScene(index)
    /\ lines[index] = "paren"
    /\ ReadFlushing(Emit("parenthetical"), "scan", NoTurn)

ReadCue ==
    /\ phase = "scan" /\ InScene(index)
    /\ IsCue(index)
    /\ ReadFlushing(<<>>, "opening",
                    [NoTurn EXCEPT !.speaker = index, !.sure = (lines[index] \notin Guesses)])

\* The first words of the speech are on the line of the cue; confidence "high"
\* although as a cue the line may have been a guess.
ReadInlineCue ==
    /\ phase = "scan" /\ InScene(index)
    /\ lines[index] \in InlineForms /\ ~IsCue(index)
    /\ ReadFlushing(<<>>, "speech", [NoTurn EXCEPT !.speaker = index, !.words = {index}])

\* Everything else is action, a bare cue with nothing after it too.
ReadAction ==
    /\ phase = "scan" /\ InScene(index)
    /\ lines[index] \in {"text", "cue", "guess"} /\ ~IsCue(index)
    /\ pending' = pending \cup {index}
    /\ index' = index + 1
    /\ UNCHANGED <<phase, lines, first, scenes, blocks, turn>>

-----------------------------------------------------------------------------
(* After a cue: blank lines, one parenthetical, blank lines, the speech. *)

SkipBlank ==
    /\ phase = "opening" /\ InScene(index)
    /\ lines[index] = "blank"
    /\ index' = index + 1
    /\ UNCHANGED <<phase, lines, first, scenes, blocks, pending, turn>>

ReadAside ==
    /\ phase = "opening" /\ InScene(index)
    /\ lines[index] \in Asides /\ turn.aside = 0
    /\ turn' = [turn EXCEPT !.aside = index]
    /\ index' = index + 1
    /\ UNCHANGED <<phase, lines, first, scenes, blocks, pending>>

BeginSpeech ==
    /\ phase = "opening"
    /\ InScene(index) => /\ lines[index] # "blank"
                         /\ ~(lines[index] \in Asides /\ turn.aside = 0)
    /\ phase' = "speech"
    /\ UNCHANGED <<lines, index, first, scenes, blocks, pending, turn>>

ReadWords ==
    /\ phase = "speech" /\ InScene(index)
    /\ ~EndsSpeech(index)
    /\ turn' = [turn EXCEPT !.words = @ \cup {index}]
    /\ index' = index + 1
    /\ UNCHANGED <<phase, lines, first, scenes, blocks, pending>>

\* Mutant: a cue with only a parenthetical leaves nothing.
Speech_NeedsWords ==
    IF turn.words # {}
    THEN <<[type |-> "dialogue", words |-> turn.words, speaker |-> turn.speaker,
            aside |-> turn.aside, sure |-> turn.sure]>>
    ELSE <<>>

\* What a cue leaves: its words, or its parenthetical, or nothing.
Speech ==
    IF turn.words # {}
    THEN <<[type |-> "dialogue", words |-> turn.words, speaker |-> turn.speaker,
            aside |-> turn.aside, sure |-> turn.sure]>>
    ELSE IF turn.aside # 0
    THEN <<[type |-> "parenthetical", words |-> {turn.aside}, speaker |-> turn.speaker,
            aside |-> 0, sure |-> turn.sure]>>
    ELSE <<>>

EndSpeech ==
    /\ phase = "speech"
    /\ InScene(index) => EndsSpeech(index)
    /\ blocks' = blocks \o Speech
    /\ phase' = "scan"
    /\ turn' = NoTurn
    /\ UNCHANGED <<lines, index, first, scenes, pending>>

-----------------------------------------------------------------------------
\* Mutant: the action at the end of a scene is left for the next.
EndScene_Unflushed ==
    /\ phase = "scan" /\ ~InScene(index)
    /\ IF index \in DOMAIN lines
       THEN /\ first' = index /\ index' = index + 1
            /\ UNCHANGED <<phase, blocks, pending>>
       ELSE /\ phase' = "done" /\ blocks' = Flushed /\ pending' = {}
            /\ UNCHANGED <<index, first>>
    /\ scenes' = Append(scenes, [first |-> first, last |-> index - 1])
    /\ UNCHANGED <<lines, turn>>

\* The next heading closes the scene and begins another; the end of the text
\* closes the last.
EndScene ==
    /\ phase = "scan" /\ ~InScene(index)
    /\ blocks' = Flushed
    /\ pending' = {}
    /\ scenes' = Append(scenes, [first |-> first, last |-> index - 1])
    /\ IF index \in DOMAIN lines
       THEN first' = index /\ index' = index + 1 /\ UNCHANGED phase
       ELSE phase' = "done" /\ UNCHANGED <<index, first>>
    /\ UNCHANGED <<lines, turn>>

ReadLine ==
    \/ ReadBlank \/ ReadTransition \/ ReadParenthetical
    \/ ReadCue \/ ReadInlineCue \/ ReadAction

ReadSpeech == SkipBlank \/ ReadAside \/ BeginSpeech \/ ReadWords \/ EndSpeech

ParserStep == ReadLine \/ ReadSpeech \/ EndScene

ParserNext == ParserStep \/ RefuseText \/ \E content \in Seq(Kinds) : BeginParse(content)

ParserSpec == ParserInit /\ [][ParserNext]_parserVars
-----------------------------------------------------------------------------
(* Properties. *)

\* The lines a block is made of.
Of(b) == b.words \cup ({b.speaker, b.aside} \ {0})

\* Blocks come in the order of the text and share no line.
BlocksInOrder ==
    \A i, j \in DOMAIN blocks :
        i < j => \A x \in Of(blocks[i]), y \in Of(blocks[j]) : x < y

\* Scenes come in the order of the text; from the first heading on every line
\* is in exactly one.
ScenesCoverScript ==
    /\ \A i \in DOMAIN scenes :
          scenes[i].first = IF i = 1 THEN Start ELSE scenes[i - 1].last + 1
    /\ phase = "done" => scenes # <<>> /\ scenes[Len(scenes)].last = Len(lines)

\* No block reaches over a heading.
BlocksStayInScene ==
    \A i \in DOMAIN blocks : \A x, y \in Of(blocks[i]) :
        \A k \in x..y : lines[k] # "heading"

\* What is collected is flushed in time: no block takes a line of a later one,
\* or of another scene.
BlocksFollowText == BlocksInOrder /\ BlocksStayInScene

\* Another speaker's turn, or a transition: nobody goes on speaking there.
OtherTurn(k) == lines[k] \in {"transition"} \cup InlineForms \/ IsCue(k)

\* A line taken for a name, after which, blank lines aside, there is another
\* turn.
Unanswered(x) ==
    /\ lines[x] \in CueForms
    /\ \E k \in x + 1..Len(lines) :
          /\ \A j \in x + 1..k - 1 : lines[j] = "blank"
          /\ OtherTurn(k)

\* Of the lines read only blank ones, headings and unanswered cues are in no
\* block: whatever is not taken for a name is kept, and so is a name with
\* anything to introduce.  An unanswered cue may hold words of its own, which
\* are then lost: WordsAreKept says that they are not, and is violated.
OnlyUnansweredCuesAreDropped ==
    phase = "done" =>
        \A x \in Start..Len(lines) :
            \/ lines[x] \in {"blank", "heading"}
            \/ \E i \in DOMAIN blocks : x \in Of(blocks[i])
            \/ Unanswered(x)

\* No words of the screenplay are lost, as a test of the parser has it: a line
\* that holds more than a name is in a block.
WordsAreKept ==
    phase = "done" =>
        \A x \in Start..Len(lines) :
            lines[x] \in {"text", "transition"} \cup InlineForms \cup Asides =>
                \E i \in DOMAIN blocks : x \in Of(blocks[i])

\* What a speaker is given to say is not another's: between the name and the
\* last of the words there is no other turn but the aside; and where the name
\* was only guessed, with its words on later lines, it is marked so.
SpeechIsTheSpeakers ==
    \A i \in DOMAIN blocks :
        LET b == blocks[i] IN
        b.type = "dialogue" =>
            /\ b.sure <=> lines[b.speaker] \notin Guesses \/ b.speaker \in b.words
            /\ \A x \in b.words \ {b.speaker} :
                  /\ b.speaker < x
                  /\ \A k \in b.speaker + 1..x : k = b.aside \/ ~OtherTurn(k)
=============================================================================
