--------------------------- MODULE MCReviewQueue ---------------------------
(* Instances of ReviewQueue for TLC. *)
EXTENDS ReviewQueue

Symmetric == Permutations(Review) \cup Permutations(Client)
=============================================================================
