-------------------------- MODULE MCUpgradeManager --------------------------
(* Two launchers, two operations, two releases.                            *)
EXTENDS UpgradeManager
=============================================================================
