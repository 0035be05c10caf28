--------------------------- MODULE MCAgentGateway ---------------------------
(* One agent, two racing decisions, three connections of which one is kept *)
(* for control calls.                                                      *)
EXTENDS AgentGateway
=============================================================================
