-------------------------- MODULE MCOwnedDelivery --------------------------
(* Model-checking instances of OwnedDelivery.  The configurations bound the
   timeouts and restarts (MaxFaults) and the epochs an agent may draw. *)
EXTENDS OwnedDelivery

MCActivations == 1..2
=============================================================================
