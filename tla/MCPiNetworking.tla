--------------------------- MODULE MCPiNetworking ---------------------------
(***************************************************************************)
(* Instances of PiNetworking for TLC.                                      *)
(***************************************************************************)
EXTENDS PiNetworking, TLC

=============================================================================
