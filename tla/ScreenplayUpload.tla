-------------------------- MODULE ScreenplayUpload --------------------------
(***************************************************************************)
(* A screenplay sent in pieces through a network that may block a request  *)
(* or its answer: uploadScreenplayInChunks of the page                     *)
(* (src/app/static/screenplay-import-ui.js) and the sessions of            *)
(* src/app/services/chunked_screenplay_upload.py, which live in the memory *)
(* of the web process.                                                     *)
(*                                                                         *)
(* The client has one request outstanding and decides on its answer.  A    *)
(* blocked request and a blocked answer look the same to it: an HTML page. *)
(* A text is the sequence of the positions of its units in the source; the *)
(* units are lines, so that the parser can read what was delivered.        *)
(***************************************************************************)
EXTENDS Naturals, Sequences

CONSTANTS
    Uploads,              \* bound: calls of uploadScreenplayInChunks
    NoUpload,
    START_CHARS,          \* first size of a piece
    MIN_CHARS,            \* smallest size a blocked piece is halved to
    MAX_FLOOR_RETRIES,    \* blocked pieces of the smallest size in a row
    GROWTH_STREAK,        \* pieces that must pass before the size doubles
    MAX_PARTS,            \* MAX_PARTS_PER_UPLOAD
    MaxDrops              \* bound: restarts of the process and expired sessions

ASSUME SizesAssumption ==
    /\ {START_CHARS, MIN_CHARS, GROWTH_STREAK, MAX_PARTS} \subseteq Nat \ {0}
    /\ MIN_CHARS <= START_CHARS
    /\ MAX_FLOOR_RETRIES \in Nat /\ MaxDrops \in Nat
ASSUME NoUploadAssumption == NoUpload \notin Uploads

VARIABLES
    source,     \* the screenplay, chosen once
    client,     \* the loop of the page
    wire,       \* the outstanding request or its answer
    sessions,   \* _pending: upload -> the pieces received
    delivered,  \* texts handed to the import, with their upload
    drops,      \* sessions lost so far
    repeated,   \* uploads that sent again what the server had taken (history)
    forgotten   \* uploads whose session was lost (history)

uploadVars == <<source, client, wire, sessions, delivered, drops, repeated, forgotten>>

Positions == 1..Len(source)
Piece(from, size) == [i \in 1..size |-> from + i]

Least(m, n) == IF m < n THEN m ELSE n
Most(m, n) == IF m < n THEN n ELSE m

Client == [at : {"idle", "sending", "done", "failed"}, upload : Uploads \cup {NoUpload},
           offset : Nat, size : MIN_CHARS..START_CHARS,
           floorRetries : 0..MAX_FLOOR_RETRIES, streak : 0..GROWTH_STREAK]
Wire == [at : {"none", "request", "answer", "refused", "filtered", "broken"},
         from : Nat, size : Nat]
Quiet == [at |-> "none", from |-> 0, size |-> 0]
Session == [open : BOOLEAN, parts : 0..MAX_PARTS, text : Seq(Nat)]
NoSession == [open |-> FALSE, parts |-> 0, text |-> <<>>]

UploadTypeOK ==
    /\ client \in Client
    /\ wire \in Wire
    /\ sessions \in [Uploads -> Session]
    /\ delivered \in Seq([upload : Uploads, text : Seq(Nat)])
    /\ drops \in 0..MaxDrops
    /\ repeated \in SUBSET Uploads
    /\ forgotten \in SUBSET Uploads

UploadInit ==
    /\ client = [at |-> "idle", upload |-> NoUpload, offset |-> 0, size |-> START_CHARS,
                 floorRetries |-> 0, streak |-> 0]
    /\ wire = Quiet
    /\ sessions = [u \in Uploads |-> NoSession]
    /\ delivered = <<>>
    /\ drops = 0
    /\ repeated = {}
    /\ forgotten = {}

-----------------------------------------------------------------------------
(* The page. *)

\* The user starts an upload, or another after one that failed.
StartUpload(u) ==
    /\ client.at \in {"idle", "failed"}
    /\ u # client.upload
    /\ sessions[u] = NoSession /\ u \notin repeated \cup forgotten
    /\ \A i \in DOMAIN delivered : delivered[i].upload # u
    /\ client' = [at |-> "sending", upload |-> u, offset |-> 0, size |-> START_CHARS,
                  floorRetries |-> 0, streak |-> 0]
    /\ UNCHANGED <<source, wire, sessions, delivered, drops, repeated, forgotten>>

Send ==
    /\ client.at = "sending"
    /\ wire = Quiet
    /\ wire' = [at |-> "request", from |-> client.offset,
                size |-> Least(client.size, Len(source) - client.offset)]
    /\ UNCHANGED <<source, client, sessions, delivered, drops, repeated, forgotten>>

Final == wire.from + wire.size >= Len(source)

\* A piece has passed: on to the next, larger after a streak.
HearAnswer ==
    /\ wire.at = "answer"
    /\ wire' = Quiet
    /\ LET grows == client.size < START_CHARS /\ client.streak + 1 >= GROWTH_STREAK IN
       client' = [client EXCEPT
                    !.offset = @ + wire.size,
                    !.floorRetries = 0,
                    !.size = IF grows THEN Least(START_CHARS, 2 * @) ELSE @,
                    !.streak = IF grows THEN 0 ELSE Least(@ + 1, GROWTH_STREAK),
                    !.at = IF Final THEN "done" ELSE @]
    /\ UNCHANGED <<source, sessions, delivered, drops, repeated, forgotten>>

\* Mutant: the loop goes on after the blocked piece.
HearBlockPage_SkipsPiece ==
    /\ wire.at = "filtered"
    /\ wire' = Quiet
    /\ client' = [client EXCEPT !.offset = @ + wire.size,
                                !.at = IF Final THEN "done" ELSE @]
    /\ UNCHANGED <<source, sessions, delivered, drops, repeated, forgotten>>

\* A block page: the same offset again with half the size, a few times more
\* at the smallest size, then give up.
HearBlockPage ==
    /\ wire.at = "filtered"
    /\ wire' = Quiet
    /\ \/ /\ client.size > MIN_CHARS
          /\ client' = [client EXCEPT !.size = Most(MIN_CHARS, @ \div 2), !.streak = 0]
       \/ /\ client.size <= MIN_CHARS
          /\ client.floorRetries < MAX_FLOOR_RETRIES
          /\ client' = [client EXCEPT !.floorRetries = @ + 1]
       \/ /\ client.size <= MIN_CHARS
          /\ client.floorRetries >= MAX_FLOOR_RETRIES
          /\ client' = [client EXCEPT !.at = "failed"]
    /\ UNCHANGED <<source, sessions, delivered, drops, repeated, forgotten>>

\* A network error or an error of the application ends the loop.
HearError ==
    /\ wire.at \in {"refused", "broken"}
    /\ wire' = Quiet
    /\ client' = [client EXCEPT !.at = "failed"]
    /\ UNCHANGED <<source, sessions, delivered, drops, repeated, forgotten>>

-----------------------------------------------------------------------------
(* The network, and the memory of the process. *)

\* The filter takes the request.
BlockRequest ==
    /\ wire.at = "request"
    /\ wire' = [wire EXCEPT !.at = "filtered"]
    /\ UNCHANGED <<source, client, sessions, delivered, drops, repeated, forgotten>>

\* The filter takes the answer to what the server has done.
BlockAnswer ==
    /\ wire.at = "answer"
    /\ wire' = [wire EXCEPT !.at = "filtered"]
    /\ repeated' = repeated \cup {client.upload}
    /\ UNCHANGED <<source, client, sessions, delivered, drops, forgotten>>

BreakConnection ==
    /\ wire.at \in {"request", "answer"}
    /\ wire' = [wire EXCEPT !.at = "broken"]
    /\ UNCHANGED <<source, client, sessions, delivered, drops, repeated, forgotten>>

\* The process restarts, or _sweep_expired finds the session too old: its age
\* is that of its first piece.
DropSession(u) ==
    /\ sessions[u].open
    /\ drops < MaxDrops
    /\ drops' = drops + 1
    /\ sessions' = [sessions EXCEPT ![u] = NoSession]
    /\ forgotten' = forgotten \cup {u}
    /\ UNCHANGED <<source, client, wire, delivered, repeated>>

-----------------------------------------------------------------------------
(* receive_chunk. *)

Full(u) == sessions[u].parts >= MAX_PARTS

Refuse ==
    /\ wire.at = "request"
    /\ Full(client.upload)
    /\ wire' = [wire EXCEPT !.at = "refused"]
    /\ UNCHANGED <<source, client, sessions, delivered, drops, repeated, forgotten>>

Received(u) == sessions[u].text \o Piece(wire.from, wire.size)

AppendPiece(u) ==
    /\ wire.at = "request" /\ u = client.upload /\ ~Full(u)
    /\ ~Final
    /\ sessions' = [sessions EXCEPT ![u] = [open |-> TRUE, parts |-> @.parts + 1,
                                            text |-> Received(u)]]
    /\ wire' = [wire EXCEPT !.at = "answer"]
    /\ UNCHANGED <<source, client, delivered, drops, repeated, forgotten>>

\* The final piece: the session is joined, forgotten, and its text given to
\* create_import_run or reparse_import_run, which may refuse it.
Deliver(u) ==
    /\ wire.at = "request" /\ u = client.upload /\ ~Full(u)
    /\ Final
    /\ sessions' = [sessions EXCEPT ![u] = NoSession]
    /\ delivered' = Append(delivered, [upload |-> u, text |-> Received(u)])
    /\ \E answer \in {"answer", "refused"} : wire' = [wire EXCEPT !.at = answer]
    /\ UNCHANGED <<source, client, drops, repeated, forgotten>>

-----------------------------------------------------------------------------
Page ==
    \/ \E u \in Uploads : StartUpload(u)
    \/ Send \/ HearAnswer \/ HearBlockPage \/ HearError

Network == BlockRequest \/ BlockAnswer \/ BreakConnection

Server == Refuse \/ \E u \in Uploads : AppendPiece(u)

-----------------------------------------------------------------------------
(* Properties. *)

Whole == [i \in Positions |-> i]

\* Blocked requests, halved and doubled sizes and refusals do not change the
\* text: it is the source, unless an answer was blocked after the server had
\* taken the piece, or the session was lost.  Even then nothing is skipped: what
\* follows a unit is the next one, or one that was sent before; and the text
\* runs to the end.  It lacks its beginning only if the session was lost, or had
\* been delivered and the last piece was sent again.
TextFollowsSource ==
    \A i \in DOMAIN delivered :
        LET text == delivered[i].text
            upload == delivered[i].upload IN
        /\ upload \notin repeated \cup forgotten => text = Whole
        /\ text # <<>> /\ text[Len(text)] = Len(source)
        /\ \A k \in 1..(Len(text) - 1) : text[k + 1] <= text[k] + 1
        /\ \/ text[1] = 1
           \/ upload \in forgotten
           \/ \E j \in 1..i - 1 : delivered[j].upload = upload

\* The page never waits for ever, whatever the network blocks.
UploadEnds == client.at = "sending" ~> client.at # "sending"
=============================================================================
