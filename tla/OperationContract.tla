------------------------- MODULE OperationContract -------------------------
(***************************************************************************)
(* What owned delivery promises to the administrator who submits an        *)
(* operation with side effects ("a safe no-repeat contract for arbitrary   *)
(* side effects", docs/distributed-agents.md): the effect happens at most  *)
(* once, and a settled outcome tells the truth about it.                   *)
(***************************************************************************)
EXTENDS Naturals

CONSTANT Ops

VARIABLES outcome,  \* what the Mainframe shows for each operation
          effects   \* how often its capability was invoked

contractVars == <<outcome, effects>>

Shown == {"none", "open", "unresolved", "cancelled", "failed", "succeeded", "gone"}

Same(o) == outcome'[o] = outcome[o] /\ effects'[o] = effects[o]

Submit(o) ==
    outcome[o] = "none" /\ outcome'[o] = "open" /\ effects'[o] = effects[o]

\* The effect happens once, and only while the operation is not settled.
Effect(o) ==
    /\ outcome[o] \in {"open", "unresolved"} /\ outcome'[o] = outcome[o]
    /\ effects[o] = 0 /\ effects'[o] = 1

\* "cancelled" and "failed" certify no effect, "succeeded" certifies one.  Only
\* an operation that was never in doubt can be cancelled.
Settle(o) ==
    /\ effects'[o] = effects[o]
    /\ \/ outcome[o] = "open" /\ outcome'[o] = "unresolved"
       \/ outcome[o] = "open" /\ outcome'[o] = "cancelled" /\ effects[o] = 0
       \/ outcome[o] \in {"open", "unresolved"} /\ outcome'[o] = "failed" /\ effects[o] = 0
       \/ outcome[o] \in {"open", "unresolved"} /\ outcome'[o] = "succeeded" /\ effects[o] = 1

\* Deleting the record.  Deletion first expires, so an operation that had no
\* effect may be cancelled and deleted at once; one in doubt is never forgotten.
Forget(o) ==
    /\ \/ outcome[o] \in {"cancelled", "failed", "succeeded"}
       \/ outcome[o] = "open" /\ effects[o] = 0
    /\ outcome'[o] = "gone"
    /\ effects'[o] = effects[o]

\* A sweep may move several operations in one step.
ContractNext ==
    /\ outcome' \in [Ops -> Shown]
    /\ effects' \in [Ops -> Nat]
    /\ \A o \in Ops : Same(o) \/ Submit(o) \/ Effect(o) \/ Settle(o) \/ Forget(o)

ContractInit ==
    /\ outcome = [o \in Ops |-> "none"]
    /\ effects = [o \in Ops |-> 0]

ContractSpec == ContractInit /\ [][ContractNext]_contractVars
=============================================================================
