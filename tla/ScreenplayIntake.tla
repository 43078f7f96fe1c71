-------------------------- MODULE ScreenplayIntake --------------------------
(***************************************************************************)
(* A screenplay on its way in: typed or uploaded in pieces, handed to the  *)
(* parser in the request that completes it.  create_import_run and         *)
(* reparse_import_run parse within that request, so that the page hears    *)
(* nothing and sends nothing until the parse is over.  The other way in is *)
(* the script that has a language model break the screenplay down; the two *)
(* share nothing but the project.                                          *)
(***************************************************************************)
EXTENDS ScreenplayUpload, ScreenplayParser, ScreenplayBreakdown

CONSTANTS
    Uploaded,    \* bound: the screenplays that are uploaded in pieces
    Pasted,      \* bound: the screenplays that are posted in one request
    Scripted     \* bound: the screenplays the script is run on

\* The page and the script look first whether there is something in the text.
ASSUME TextsAssumption ==
    /\ Uploaded \cup Pasted \cup Scripted \subseteq Seq(Kinds \cup {"noise"})
    /\ \A text \in Uploaded \cup Scripted : \E i \in DOMAIN text : text[i] # "blank"

vars == <<uploadVars, parserVars, breakdownVars>>
pageVars == <<uploadVars, parserVars>>

Init ==
    /\ \/ source \in Uploaded \cup Pasted /\ screenplay = <<>>
       \/ source = <<>> /\ screenplay \in Scripted
    /\ UploadInit
    /\ ParserInit
    /\ BreakdownInit

Parsing == phase \in {"scan", "opening", "speech"}

Line(text) == [i \in DOMAIN text |-> source[text[i]]]

\* POST of the whole text, which the network does not block.
PostWhole ==
    /\ source \in Pasted
    /\ phase = "idle" /\ client.at = "idle"
    /\ Parse(source)
    /\ UNCHANGED uploadVars

\* The final piece: the joined text is parsed; without a word it is refused.
DeliverAndParse(u) ==
    /\ Deliver(u)
    /\ Parse(Line(Received(u)))
    /\ phase' = "failed" => wire'.at = "refused"

ByPage ==
    \/ /\ ~Parsing /\ source \in Uploaded
       /\ \/ (Page \/ Network \/ Server) /\ UNCHANGED parserVars
          \/ \E u \in Uploads : DropSession(u) /\ UNCHANGED parserVars
          \/ \E u \in Uploads : DeliverAndParse(u)
    \/ PostWhole
    \/ ParserStep /\ UNCHANGED uploadVars

Next ==
    \/ ByPage /\ UNCHANGED breakdownVars
    \/ BreakdownNext /\ UNCHANGED pageVars

Spec == Init /\ [][Next]_vars

\* The page's loop, the script's, the network and the process go on; sessions
\* are lost and uploads and runs of the script begun by chance.
PageGoesOn ==
    \/ (Send \/ HearAnswer \/ HearBlockPage \/ HearError) /\ ~Parsing /\ UNCHANGED parserVars
    \/ (Network \/ Server) /\ ~Parsing /\ UNCHANGED parserVars
    \/ \E u \in Uploads : DeliverAndParse(u)
    \/ ParserStep /\ UNCHANGED uploadVars

FairSpec ==
    /\ Spec
    /\ WF_vars(PageGoesOn /\ UNCHANGED breakdownVars)
    /\ WF_vars(BreakdownStep /\ UNCHANGED pageVars)

-----------------------------------------------------------------------------
(* Properties. *)

\* Neither the page nor the script goes on for ever, whatever is blocked, lost
\* or too late; and a run of the script that does not fail has brought the
\* project its scenes and their shots.
IntakeEnds == UploadEnds /\ ImportEnds
=============================================================================
