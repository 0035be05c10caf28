------------------------ MODULE MCAutomationTriggers ------------------------
(***************************************************************************)
(* Instances of AutomationTriggers for TLC.                                *)
(***************************************************************************)
EXTENDS AutomationTriggers, TLC

CONSTANT a1

=============================================================================
