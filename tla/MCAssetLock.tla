----------------------------- MODULE MCAssetLock -----------------------------
(* AssetLock on an asset and another of the same shot, whose image competes  *)
(* with its own; references, tasks and requests are alike.                   *)
EXTENDS AssetLock, TLC

CONSTANT Other      \* the other asset

Symmetry == Permutations(Refs) \cup Permutations(Tasks) \cup Permutations(Handlers)

\* No property speaks of an asset that a request wrote after its read had been
\* overtaken, so a behaviour is not followed past the first such write.
NoneStale == stale = {}

\* The other asset is a setting with a picture of the operator's, locked by a
\* PATCH, before the rest of the shot is there; and nothing happens to it then.
OtherStands ==
    /\ asset[Other].row # "none" => asset[Other].kind = "setting" /\ asset[Other].shown = Pasted
    /\ \A h \in Handlers :
          handlers[h].asset = Other =>
              handlers[h].on = [field |-> "lock_status", to |-> "locked"]
    /\ \A a \in Assets \ {Other} :
          asset[a].row # "none" =>
              /\ Locked(Other)
              /\ \A h \in Handlers : handlers[h].asset # Other
=============================================================================
