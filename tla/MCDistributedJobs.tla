------------------------- MODULE MCDistributedJobs -------------------------
(* Model-checking instance of DistributedJobs: two interchangeable jobs, so that
   a sweep, a fence or a token of one meets the other in every state. *)
EXTENDS DistributedJobs, TLC

CONSTANTS j1, j2

MCJobs == {j1, j2}
JobSymmetry == Permutations(MCJobs)
=============================================================================
