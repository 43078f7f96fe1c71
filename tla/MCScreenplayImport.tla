------------------------- MODULE MCScreenplayImport -------------------------
(* ScreenplayImport with three screenplays: a text without headings, one of a *)
(* single scene, and one that puts a new scene before it, rewrites it and     *)
(* goes back to its location.                                                 *)
EXTENDS ScreenplayImport, TLC

CONSTANTS outline, draft, longer, x, z, c1, c2, None

Scene(heading, content) == [heading |-> heading, content |-> content]

Screenplays ==
    [t \in Texts |->
        CASE t = outline -> <<Scene(None, c1)>>
          [] t = draft   -> <<Scene(x, c1)>>
          [] t = longer  -> <<Scene(z, c1), Scene(x, c2), Scene(x, c1)>>]

\* Bound: of the two short screenplays one is in use at a time, in runs and in
\* requests, beside the longer.
InUse ==
    LET at(points) == {h \in Handlers : handlers[h].at \in points} IN
    {runs[r].breakdown : r \in DOMAIN runs}
    \cup {handlers[h].breakdown : h \in at({"edit", "diff", "approve"})}
    \cup {handlers[h].text : h \in at({"reparse", "persist"})}
OneShort == ~({outline, draft} \subseteq InUse)

Symmetry == Permutations(Handlers)
=============================================================================
