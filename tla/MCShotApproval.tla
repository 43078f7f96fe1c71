--------------------------- MODULE MCShotApproval ---------------------------
(* ShotApproval on a shot with two images and one or two videos.  Results of *)
(* one type are alike, and so are requests.                                  *)
EXTENDS ShotApproval, TLC

Symmetry == Permutations(Images) \cup Permutations(Videos) \cup Permutations(Handlers)
=============================================================================
