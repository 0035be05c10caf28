---------------------------- MODULE AgentGateway ----------------------------
(***************************************************************************)
(* The Mainframe's listener: the agent registry and the admission of long  *)
(* polls (distributed_transport.py, distributed_agents.py,                 *)
(* distributed_polling.py, distributed_terminal.py).                       *)
(*                                                                         *)
(* Every request runs on one of a fixed number of connection threads.  An  *)
(* agent asks to be enrolled, gets a certificate once an administrator has *)
(* approved it, and then calls with it: control calls, long polls for      *)
(* work, terminal relays.  Registry calls read a row and write it in two   *)
(* statements that are not one transaction, so administrators and          *)
(* enrollments interleave with each other and with the requests.           *)
(***************************************************************************)
EXTENDS Naturals, FiniteSets

CONSTANTS
    Agents,       \* device identities
    MaxDecisions, \* bound: administrators' registry calls under way together
    Connections,  \* distributed_listener_connections
    Reserve,      \* distributed_control_reserve
    PerAgent,     \* distributed_agent_long_polls
    Relays,       \* terminal relays an agent may hold
    MaxJobs,      \* bound: work queued for an agent at a time
    MaxFaults     \* bound: calls that raise

ASSUME GatewayAssumption ==
    /\ Connections \in Nat /\ Reserve \in Nat /\ Reserve < Connections
    /\ PerAgent \in Nat \ {0} /\ Relays \in Nat \ {0}
    /\ MaxDecisions \in Nat /\ MaxJobs \in Nat /\ MaxFaults \in Nat

VARIABLES
    record,     \* state of each agent's row; "none": no row
    decisions,  \* registry calls of administrators between their statements
    certified,  \* agents that hold a certificate
    thread,     \* the request each connection thread serves
    held,       \* LongPollBudget._agents: slots by agent and channel
    active,     \* LongPollBudget._active
    queued,     \* operations queued for each agent
    submitting, \* agents a request found approved and is about to queue work for
    faults,
    exposed,    \* ghost: polls past their check when the approval was lost
    handed      \* ghost: operations handed out since

ghosts == <<exposed, handed>>
budget == <<held, active>>
work == <<queued, submitting>>
vars == <<record, decisions, certified, thread, budget, work, faults, ghosts>>

Threads == 1..Connections
Channels == {"poll", "terminal"}
Kinds == {"control", "regular", "interactive", "terminal"}
Limit == Connections - Reserve
Free == [pc |-> "free", agent |-> CHOOSE a \in Agents : TRUE, kind |-> "control"]

Init ==
    /\ record = [a \in Agents |-> "none"]
    /\ decisions = {}
    /\ certified = {}
    /\ thread = [t \in Threads |-> Free]
    /\ held = [k \in Agents \X Channels |-> 0]
    /\ active = 0
    /\ queued = [a \in Agents |-> 0]
    /\ submitting = {}
    /\ faults = 0
    /\ exposed = [a \in Agents |-> 0]
    /\ handed = [a \in Agents |-> 0]

-----------------------------------------------------------------------------
(* Requests that passed the certificate check, and among them the polls    *)
(* that may still hand out work.                                           *)

Checked == {"heartbeat", "claim", "admit", "wait"}
Served(a) == {t \in Threads : thread[t].agent = a /\ thread[t].pc \in Checked}
Polls(a) == {t \in Served(a) : thread[t].kind \in {"regular", "interactive"}}

\* (A check that trusts the certificate alone.)
ApprovedAnyway(a) == record[a] \in {"approved", "revoked"}

\* _approved_certificate_agent
Approved(a) == record[a] = "approved"

\* A row is written; when that takes an approval away the ghosts start anew.
Write(a, state) ==
    /\ record' = [record EXCEPT ![a] = state]
    /\ IF record[a] = "approved" /\ state # "approved"
       THEN /\ exposed' = [exposed EXCEPT ![a] = Cardinality(Polls(a))]
            /\ handed' = [handed EXCEPT ![a] = 0]
       ELSE UNCHANGED ghosts

\* A connection is accepted while a slot is free; it gets the first free thread.
Accepts(t) == thread[t].pc = "free" /\ \A u \in Threads : u < t => thread[u].pc # "free"
Serve(t, pc, a, kind) == thread' = [thread EXCEPT ![t] = [pc |-> pc, agent |-> a, kind |-> kind]]
Goto(t, pc) == thread' = [thread EXCEPT ![t].pc = pc]
Hangup(t) == thread' = [thread EXCEPT ![t] = Free]

-----------------------------------------------------------------------------
(* The registry.                                                           *)

\* The state set_state or remove_revoked wants to see before each transition.
Before(to) == CASE to \in {"approved", "denied"} -> "pending"
                [] to = "revoked" -> "approved"
                [] to = "none" -> "revoked"

\* The SELECT of an administrator's call.
Read(a, to) ==
    /\ record[a] = Before(to)
    /\ Cardinality(decisions) < MaxDecisions
    /\ decisions' = decisions \cup {<<a, to>>}
    /\ UNCHANGED <<record, certified, thread, budget, work, faults, ghosts>>

\* The UPDATE or DELETE, whatever the row has become; none if it is gone.
Decide(a, to) ==
    /\ <<a, to>> \in decisions
    /\ decisions' = decisions \ {<<a, to>>}
    /\ IF record[a] = "none" THEN UNCHANGED <<record, ghosts>> ELSE Write(a, to)
    /\ UNCHANGED <<certified, thread, budget, work, faults>>

\* begin_enrollment while the window is open: the SELECT of request_enrollment,
\* which refuses an agent that is approved or revoked.
Request(t, a) ==
    /\ Accepts(t)
    /\ record[a] \notin {"approved", "revoked"}
    /\ Serve(t, "insert", a, "control")
    /\ UNCHANGED <<record, decisions, certified, budget, work, faults, ghosts>>

\* The INSERT, whatever the row has become.
Insert(t) ==
    /\ thread[t].pc = "insert"
    /\ Write(thread[t].agent, "pending")
    /\ Hangup(t)
    /\ UNCHANGED <<decisions, certified, budget, work, faults>>

\* enrollment_status of an approved agent issues its certificate.
Issue(a) ==
    /\ Approved(a) /\ a \notin certified
    /\ certified' = certified \cup {a}
    /\ UNCHANGED <<record, decisions, thread, budget, work, faults, ghosts>>

\* reset_credentials
Reset(a) ==
    /\ a \in certified
    /\ certified' = certified \ {a}
    /\ UNCHANGED <<record, decisions, thread, budget, work, faults, ghosts>>

\* A request that submits work reads the agent's row,
Submit(a) ==
    /\ Approved(a)
    /\ queued[a] < MaxJobs
    /\ submitting' = submitting \cup {a}
    /\ UNCHANGED <<record, decisions, certified, thread, budget, queued, faults, ghosts>>

\* and then queues the work, whatever the row has become.
Enqueue(a) ==
    /\ a \in submitting
    /\ submitting' = submitting \ {a}
    /\ queued' = [queued EXCEPT ![a] = @ + 1]
    /\ UNCHANGED <<record, decisions, certified, thread, budget, faults, ghosts>>

-----------------------------------------------------------------------------
(* Calls with a certificate.                                               *)

FirstStep(kind) == CASE kind \in {"control", "regular"} -> "heartbeat"
                     [] kind = "interactive" -> "claim"
                     [] kind = "terminal" -> "admit"

\* A call that passes the check goes on; any other is answered with an error.
Call(t, a, kind) ==
    /\ Accepts(t)
    /\ a \in certified /\ Approved(a)
    /\ Serve(t, FirstStep(kind), a, kind)
    /\ UNCHANGED <<record, decisions, certified, budget, work, faults, ghosts>>

\* record_heartbeat reads the state again; a control call ends here.
Heartbeat(t) ==
    /\ thread[t].pc = "heartbeat"
    /\ IF record[thread[t].agent] = "approved" /\ thread[t].kind = "regular"
       THEN Goto(t, "claim") ELSE Hangup(t)
    /\ UNCHANGED <<record, decisions, certified, budget, work, faults, ghosts>>

Channel(t) == <<thread[t].agent, IF thread[t].kind = "terminal" THEN "terminal" ELSE "poll">>
Share(t) == IF thread[t].kind = "terminal" THEN Relays ELSE PerAgent

\* LongPollBudget.slot: what leaving it gives back.
Release(t) ==
    IF thread[t].pc = "wait"
    THEN held' = [held EXCEPT ![Channel(t)] = @ - 1] /\ active' = active - 1
    ELSE UNCHANGED budget

\* claim_if_ready finds work: it is handed out and the poll ends.
Claim(t) ==
    LET a == thread[t].agent IN
    /\ thread[t].pc \in {"claim", "wait"} /\ thread[t].kind # "terminal"
    /\ queued[a] > 0
    /\ queued' = [queued EXCEPT ![a] = @ - 1]
    /\ UNCHANGED submitting
    /\ handed' = IF record[a] = "approved" THEN handed ELSE [handed EXCEPT ![a] = @ + 1]
    /\ Release(t)
    /\ Hangup(t)
    /\ UNCHANGED <<record, decisions, certified, faults, exposed>>

\* A relay, or a poll that finds no work, asks for a slot; without one it is
\* told to retry.
Admit(t) ==
    /\ \/ thread[t].pc = "admit"
       \/ thread[t].pc = "claim" /\ queued[thread[t].agent] = 0
    /\ IF active < Limit /\ held[Channel(t)] < Share(t)
       THEN /\ held' = [held EXCEPT ![Channel(t)] = @ + 1]
            /\ active' = active + 1
            /\ Goto(t, "wait")
       ELSE Hangup(t) /\ UNCHANGED budget
    /\ UNCHANGED <<record, decisions, certified, work, faults, ghosts>>

\* (A poll that waits for work as long as it takes.)
MayLeaveRevoked(t) == thread[t].kind = "terminal" /\ ~Approved(thread[t].agent)

\* A poll ends at its deadline, a relay once its agent is not approved.
MayLeave(t) == thread[t].kind = "terminal" => ~Approved(thread[t].agent)

Leave(t) ==
    /\ thread[t].pc = "wait" /\ MayLeave(t)
    /\ Release(t)
    /\ Hangup(t)
    /\ UNCHANGED <<record, decisions, certified, work, faults, ghosts>>

\* (A slot given back only by a request that ends well.)
RaiseHolding(t) ==
    /\ thread[t].pc \in Checked
    /\ faults < MaxFaults /\ faults' = faults + 1
    /\ Hangup(t)
    /\ UNCHANGED <<record, decisions, certified, budget, work, ghosts>>

\* A call raises, or its peer goes away.
Raise(t) ==
    /\ thread[t].pc \in Checked
    /\ faults < MaxFaults /\ faults' = faults + 1
    /\ Release(t)
    /\ Hangup(t)
    /\ UNCHANGED <<record, decisions, certified, work, ghosts>>

-----------------------------------------------------------------------------
ThreadStep(t) == Insert(t) \/ Heartbeat(t) \/ Claim(t) \/ Admit(t) \/ Leave(t)

Next ==
    \/ \E a \in Agents, to \in {"approved", "denied", "revoked", "none"} :
           Read(a, to) \/ Decide(a, to)
    \/ \E a \in Agents : Issue(a) \/ Reset(a) \/ Submit(a) \/ Enqueue(a)
    \/ \E t \in Threads : ThreadStep(t) \/ Raise(t)
    \/ \E t \in Threads, a \in Agents : Request(t, a)
    \/ \E t \in Threads, a \in Agents, kind \in Kinds : Call(t, a, kind)

Spec == Init /\ [][Next]_vars

\* A connection thread goes on with its request.
Fairness == \A t \in Threads : WF_vars(ThreadStep(t))
FairSpec == Spec /\ Fairness

-----------------------------------------------------------------------------
(* Properties.                                                             *)

WaitingOn(k) == {t \in Threads : thread[t].pc = "wait" /\ Channel(t) = k}

\* Waiting polls and relays never take the connections kept for control calls,
\* and the budget counts exactly the requests that wait: no slot is lost to a
\* poll that raised, and none is given twice (LongPollBudget.slot).
ReserveIsKept ==
    /\ active = Cardinality({t \in Threads : thread[t].pc = "wait"})
    /\ \A k \in Agents \X Channels : held[k] = Cardinality(WaitingOn(k))
    /\ active + Reserve <= Connections

\* An agent that lost its approval, by revocation or by a racing decision or
\* enrollment, is handed at most one operation for each poll that had passed
\* its check by then (_approved_certificate_agent, _poll_jobs).
RevocationBoundsWork ==
    \A a \in Agents :
        record[a] # "approved" => handed[a] + Cardinality(Polls(a)) <= exposed[a]

\* An agent whose approval does not come back is served no more: its polls run
\* into their deadline, its relays are cut, its new calls are refused (_poll_jobs,
\* accept_agent_attachment).
RevokedIsCutOff ==
    \A a \in Agents : <>[](record[a] # "approved") => <>[](Served(a) = {})
=============================================================================
