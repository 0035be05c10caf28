------------------------- MODULE MCResponseTransfer -------------------------
(* Model-checking instances of ResponseTransfer. *)
EXTENDS ResponseTransfer, TLC

CONSTANTS j1, j2

MCJobs == {j1, j2}
JobSymmetry == Permutations(MCJobs)
=============================================================================
