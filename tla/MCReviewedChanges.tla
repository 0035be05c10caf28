------------------------- MODULE MCReviewedChanges --------------------------
(* Finite instances of ReviewedChanges for TLC. *)
EXTENDS ReviewedChanges

CONSTANTS r1, r2

MCReviews == {r1, r2}
=============================================================================
