-------------------------- MODULE MCAutomationJobs --------------------------
(***************************************************************************)
(* Instances of AutomationJobs for TLC: one pipeline of two stages, the    *)
(* second delayed.                                                         *)
(***************************************************************************)
EXTENDS AutomationJobs, TLC

CONSTANTS a1, f1, f2, w1

MCPolicy == (0 :> "success_or_partial") @@ (1 :> "all_completed")

MCDelayed == {1}

=============================================================================
