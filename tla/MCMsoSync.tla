----------------------------- MODULE MCMsoSync -----------------------------
(* Model-checking instances of MsoSync. *)
EXTENDS MsoSync, TLC

CONSTANTS a1, a2, o1, o2

MCAgents == {a1, a2}
MCMaxEdits == (o1 :> 3) @@ (o2 :> 1)
=============================================================================
