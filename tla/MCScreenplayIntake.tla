------------------------- MODULE MCScreenplayIntake -------------------------
(* ScreenplayIntake with every text of a few lines posted whole, and a few   *)
(* texts uploaded in pieces.                                                 *)
EXTENDS ScreenplayIntake

CONSTANT MaxLines   \* bound: lines of a posted text of any kinds

\* Guesses differ from cues in their confidence alone, and a transition is read
\* like a blank line that leaves a block: texts one line longer go without.
PlainKinds == Kinds \ (Guesses \cup {"transition"})

\* Longer ones: two scenes, a dialogue without blank lines, asides, noise.
LongTexts ==
    {<<"text", "heading", "text", "cue", "paren", "text", "heading", "inline", "text">>,
     <<"heading", "cue", "text", "guess", "blank", "text", "transition", "text">>,
     <<"cue", "blank", "paren", "blank", "cue", "text", "inline", "text", "cue">>,
     <<"cue inline", "blank", "guess inline", "paren inline", "text", "cue inline">>}

AllTexts == LongTexts \cup [1..MaxLines + 1 -> PlainKinds] \cup UNION {[1..n -> Kinds] : n \in 1..MaxLines}

UploadedTexts == {<<"text", "heading", "cue", "text">>, <<"noise", "blank", "blank", "guess">>,
                  <<"blank", "noise", "noise", "blank">>}

\* A paragraph that is cut, and its end in one chunk with the next paragraph.
ScriptedTexts == {<<"text", "text", "text", "text", "blank", "text">>}
=============================================================================
