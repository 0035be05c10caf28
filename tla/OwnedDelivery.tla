--------------------------- MODULE OwnedDelivery ---------------------------
(***************************************************************************)
(* Owned operation delivery: the Mainframe queue of DistributedJobs        *)
(* together with one agent, its durable receipts and its requests.         *)
(*                                                                         *)
(*   agent     execute_owned and OperationReceipts                         *)
(*             (twn_toolkit/distributed_operations.py), the lanes and the  *)
(*             control loop (twn_toolkit/distributed_worker.py)            *)
(*   requests  EnrollmentClient._request and the EnrollmentServer handlers *)
(*             (twn_toolkit/distributed_transport.py)                      *)
(*                                                                         *)
(* A request that times out is abandoned by the agent and tried at the     *)
(* fallback URL, which reaches the same Mainframe: the abandoned copy may  *)
(* still be processed, at any later time.  A heartbeat handler runs three  *)
(* store transactions one after the other, so other requests interleave    *)
(* with it.                                                                *)
(***************************************************************************)
EXTENDS DistributedJobs

CONSTANTS
    Self,          \* the agent
    Executors,     \* its execution lanes
    Reporters,     \* its control loop: reports, never takes work
    NoJob,
    Channel,       \* which of its two kinds of lane: "regular" or "interactive"
    ReceiptLimit,  \* distributed_receipt_limit
    MaxFaults      \* bound on timeouts and restarts

ASSUME SelfAssumption == Agents = {Self}
ASSUME ChannelAssumption == Channel \in {"regular", "interactive"}
ASSUME LanesAssumption == Executors \cap Reporters = {}
ASSUME NoJobAssumption == NoJob \notin Jobs
ASSUME EpochsAssumption == 1 \in Activations /\ Activations = 1..Cardinality(Activations)
ASSUME LimitAssumption == ReceiptLimit \in Nat \ {0}

VARIABLES
    epoch,     \* the agent's activation file: the n-th random epoch it drew
    lane,      \* what each lane is doing
    receipts,  \* the agent's receipts table
    calls,     \* requests on their way, being served, or answered
    execs,     \* history: how often each job's capability was invoked
    faults     \* timeouts and restarts so far

agentVars == <<epoch, lane, receipts>>
storeVars == vars
allVars == <<vars, epoch, lane, receipts, calls, execs, faults>>

Lanes == Executors \cup Reporters
Capability == IF Channel = "interactive" THEN "tunnel" ELSE "other"

(***************************************************************************)
(* A unit of delivered work, a result to report, a request.                *)
(***************************************************************************)
NoWork == [job |-> NoJob, token |-> NoToken, act |-> NoActivation]

NoResult == [job |-> NoJob, token |-> NoToken, outcome |-> "unknown"]

Heartbeat(l, kind, e, res, try) ==
    [kind |-> kind, lane |-> l, try |-> try, open |-> TRUE, step |-> "activate",
     act |-> e, result |-> res, ack |-> "none", work |-> NoWork, reply |-> "none"]

JobControl(l, kind, w, try) ==
    [kind |-> kind, lane |-> l, try |-> try, open |-> TRUE, step |-> "control",
     act |-> w.act, result |-> NoResult, ack |-> "none", work |-> w, reply |-> "none"]

Open(l) == {c \in calls : c.lane = l /\ c.open}
Waiting(l, kinds) == {c \in Open(l) : c.kind \in kinds}

\* The answer to a request nobody waits for is dropped with its connection.
Advance(c, d) ==
    calls' = (calls \ {c}) \cup (IF d.step = "reply" /\ ~d.open THEN {} ELSE {d})

(***************************************************************************)
(* Receipts.  "open" is a receipt whose result is NULL.                    *)
(***************************************************************************)
NoReceipt == [phase |-> "none", token |-> NoToken, act |-> NoActivation, outcome |-> "unknown"]
Phase(p) == {j \in Jobs : receipts[j].phase = p}
Unacknowledged == Phase("open") \cup Phase("result")
Pending == {j \in Phase("result") : receipts[j].act = epoch}
Report(j) == [job |-> j, token |-> receipts[j].token, outcome |-> receipts[j].outcome]

\* begin: refuses a known job, then forgets an acknowledged receipt E when the
\* table is full; with no room left it raises and the deletion is rolled back.
\* The table also holds the receipts of the agent's other kind of lane.
Begin(w, E) ==
    /\ receipts[w.job].phase = "none"
    /\ E \subseteq Phase("acked")
    /\ Cardinality(E) <= 1
    /\ Cardinality((Unacknowledged \cup Phase("acked")) \ E) < ReceiptLimit
    /\ receipts' = [j \in Jobs |->
            IF j = w.job THEN [phase |-> "open", token |-> w.token, act |-> w.act,
                               outcome |-> "unknown"]
            ELSE IF j \in E THEN NoReceipt ELSE receipts[j]]

Finish(w, o) ==
    receipts' = [receipts EXCEPT ![w.job] =
        IF @.phase # "none" /\ @.token = w.token
        THEN [@ EXCEPT !.phase = "result", !.outcome = o] ELSE @]

\* A faulty Acknowledge: a rejected result is kept and sent again.
AcknowledgeAccepted(res, ack) ==
    receipts' =
        IF ack = "accepted"
        THEN [receipts EXCEPT ![res.job] =
                IF @.phase \in {"result", "acked"} /\ @.token = res.token
                THEN [@ EXCEPT !.phase = "acked"] ELSE @]
        ELSE receipts

Acknowledge(res, ack) ==
    receipts' =
        IF ack \in {"accepted", "rejected"}
        THEN [receipts EXCEPT ![res.job] =
                IF @.phase \in {"result", "acked"} /\ @.token = res.token
                THEN [@ EXCEPT !.phase = "acked"] ELSE @]
        ELSE receipts

(***************************************************************************)
(* The Mainframe serves requests, whether or not the agent still waits.    *)
(***************************************************************************)
AfterAccept(c) == IF c.kind = "poll" THEN "claim" ELSE "reply"

ServeActivate(c) ==
    /\ c.step = "activate"
    /\ ActivateAgent(Self, c.act)
    /\ Advance(c, [c EXCEPT !.step = IF c.result # NoResult THEN "accept" ELSE AfterAccept(c)])
    /\ UNCHANGED <<agentVars, execs, faults>>

\* _accept_results: a ValueError from complete is reported as "rejected".  A
\* response body sent ahead in chunks must pass its size and checksum check.
ServeAccept(c) ==
    LET r == c.result
        row == Expire({r.job})[r.job]
        allowed == CompleteAllowed(row, Self, r.token, c.act)
        verified == IF row.cap = "tunnel" /\ r.outcome = "succeeded" /\ row.state \notin Final
                    THEN BOOLEAN ELSE {TRUE}
    IN  /\ c.step = "accept"
        /\ \E v \in verified :
              /\ IF allowed /\ v THEN Complete(r.job, Self, r.token, c.act, r.outcome)
                                 ELSE UNCHANGED storeVars
              /\ Advance(c, [c EXCEPT !.step = AfterAccept(c),
                                !.ack = IF allowed /\ v THEN "accepted" ELSE "rejected"])
        /\ UNCHANGED <<agentVars, execs, faults>>

\* _poll_jobs finds a queued job and claims it ...
ServeClaim(c) ==
    /\ c.step = "claim"
    /\ \E j \in Jobs :
          /\ Claim(Self, c.act, Channel, j)
          /\ Advance(c, [c EXCEPT !.step = "reply",
                  !.work = [job |-> j, token |-> issued', act |-> jobs[j].act]])
    /\ UNCHANGED <<agentVars, execs, faults>>

\* ... or ends empty-handed: nothing came in time, or no long-poll slot was free.
ServeEmpty(c) ==
    /\ c.step = "claim"
    /\ UNCHANGED storeVars \/ ClaimNothing(Self, c.act, Channel)
    /\ Advance(c, [c EXCEPT !.step = "reply"])
    /\ UNCHANGED <<agentVars, execs, faults>>

\* job_control: HTTP 400 ("refused") for an ownership or repeated-start error.
ServeControl(c) ==
    LET w == c.work
        r == Expire({w.job})[w.job]
        ok == IF c.kind = "start" THEN StartAllowed(r, Self, w.token, w.act)
                                  ELSE Owns(r, Self, w.token, w.act)
    IN  /\ c.step = "control"
        /\ CASE ~ok -> UNCHANGED storeVars
             [] ok /\ c.kind = "start" -> Start(w.job, Self, w.token, w.act)
             [] OTHER -> Renew(w.job, Self, w.token, w.act)
        /\ Advance(c, [c EXCEPT !.step = "reply",
                !.reply = IF ok THEN jobs'[w.job].state ELSE "refused"])
        /\ UNCHANGED <<agentVars, execs, faults>>

Serve ==
    \E c \in calls :
        ServeActivate(c) \/ ServeAccept(c) \/ ServeClaim(c) \/ ServeEmpty(c) \/ ServeControl(c)

(***************************************************************************)
(* The agent's lanes.                                                      *)
(***************************************************************************)
Idle == [pc |-> "idle", work |-> NoWork, outcome |-> "unknown", renewing |-> FALSE]

\* A poll asks for work; a status request only reports.  Both carry at most one
\* pending result (receipts.pending).  A status request without a result, which
\* the control loop also sends, changes no more than a poll that ends empty.
\* The interactive lanes share a gate: one of them polls at a time.
SendHeartbeat(l, kind) ==
    /\ lane[l].pc = "idle"
    /\ kind = "poll" => l \in Executors
    /\ kind = "poll" /\ Channel = "interactive" =>
          \A m \in Executors : Waiting(m, {"poll"}) = {}
    /\ kind = "status" => Pending # {}
    /\ \E res \in IF Pending = {} THEN {NoResult} ELSE {Report(j) : j \in Pending} :
          calls' = calls \cup {Heartbeat(l, kind, epoch, res, 1)}
    /\ lane' = [lane EXCEPT ![l].pc = "calling"]
    /\ UNCHANGED <<storeVars, epoch, receipts, execs, faults>>

HeartbeatReply(l) ==
    \E c \in Waiting(l, {"poll", "status"}) :
        /\ c.step = "reply"
        /\ Acknowledge(c.result, c.ack)
        /\ lane' = [lane EXCEPT ![l] =
                IF c.work = NoWork THEN Idle ELSE [Idle EXCEPT !.pc = "delivered", !.work = c.work]]
        /\ calls' = calls \ {c}
        /\ UNCHANGED <<storeVars, epoch, execs, faults>>

\* execute_owned: record the receipt, then ask for the start.
Accept(l) ==
    LET w == lane[l].work
    IN  /\ lane[l].pc = "delivered"
        /\ \E E \in SUBSET Jobs : Begin(w, E)
        /\ lane' = [lane EXCEPT ![l].pc = "starting"]
        /\ calls' = calls \cup {JobControl(l, "start", w, 1)}
        /\ UNCHANGED <<storeVars, epoch, execs, faults>>

\* A job already on record is skipped; a full table raises, and unacknowledged
\* receipts of the agent's other kind of lane can fill it at any moment.
Skip(l) ==
    /\ lane[l].pc = "delivered"
    /\ lane' = [lane EXCEPT ![l] = Idle]
    /\ UNCHANGED <<storeVars, epoch, receipts, calls, execs, faults>>

\* A faulty Grant: any answer that is not an error starts the capability.
GrantUnlessRefused(c) == c.kind = "start" /\ c.step = "reply" /\ c.reply # "refused"

Grant(c) == c.kind = "start" /\ c.step = "reply" /\ c.reply = "running"

StartReply(l) ==
    \E c \in Waiting(l, {"start"}) :
        /\ c.step = "reply"
        /\ calls' = calls \ {c}
        /\ IF Grant(c)
           THEN /\ lane' = [lane EXCEPT ![l].pc = "executing", ![l].renewing = TRUE]
                /\ execs' = [execs EXCEPT ![lane[l].work.job] = @ + 1]
           ELSE /\ lane' = [lane EXCEPT ![l].pc = "ending",
                        ![l].outcome = IF c.reply = "refused" THEN "unknown" ELSE "failed"]
                /\ UNCHANGED execs
        /\ UNCHANGED <<storeVars, epoch, receipts, faults>>

\* The renewer thread extends the lease while the Mainframe says "running".
SendRenew(l) ==
    /\ lane[l].pc = "executing"
    /\ lane[l].renewing
    /\ Open(l) = {}
    /\ calls' = calls \cup {JobControl(l, "renew", lane[l].work, 1)}
    /\ UNCHANGED <<storeVars, agentVars, execs, faults>>

\* A faulty RenewReply: cancellation does not stop the renewals.
RenewWhileOwned(l) ==
    \E c \in Waiting(l, {"renew"}) :
        /\ c.step = "reply"
        /\ calls' = calls \ {c}
        /\ lane' = [lane EXCEPT ![l].renewing = @ /\ c.reply \in Owned]
        /\ UNCHANGED <<storeVars, epoch, receipts, execs, faults>>

\* EnrollmentTransportError, also raised for an HTTP error, is not among the
\* errors the loop survives: the thread ends.
RenewReply(l) ==
    \E c \in Waiting(l, {"renew"}) :
        /\ c.step = "reply"
        /\ calls' = calls \ {c}
        /\ lane' = [lane EXCEPT ![l].renewing = @ /\ c.reply = "running"]
        /\ UNCHANGED <<storeVars, epoch, receipts, execs, faults>>

\* The capability returns (succeeded) or raises (its effect is then unknown).
Return(l) ==
    /\ lane[l].pc = "executing"
    /\ \E o \in {"succeeded", "unknown"} :
          lane' = [lane EXCEPT ![l].pc = "ending", ![l].outcome = o]
    /\ UNCHANGED <<storeVars, epoch, receipts, calls, execs, faults>>

\* The renewer is joined, then the result is stored.  A result that cannot be
\* encoded or is too large is stored as unknown.
Conclude(l) ==
    /\ lane[l].pc = "ending"
    /\ Open(l) = {}
    /\ \E o \in {lane[l].outcome, "unknown"} : Finish(lane[l].work, o)
    /\ lane' = [lane EXCEPT ![l] = Idle]
    /\ UNCHANGED <<storeVars, epoch, calls, execs, faults>>

\* A call fails or times out: the fallback URL is tried, then the call raises.
Retry(c) == [c EXCEPT !.try = 2, !.ack = "none", !.reply = "none",
                      !.step = IF c.kind \in {"poll", "status"} THEN "activate" ELSE "control",
                      !.work = IF c.kind \in {"poll", "status"} THEN NoWork ELSE c.work]

Failed(l, c) ==
    CASE c.kind = "start" -> [lane[l] EXCEPT !.pc = "ending", !.outcome = "unknown"]
      [] c.kind = "renew" -> [lane[l] EXCEPT !.renewing = FALSE]
      [] OTHER -> Idle

Timeout(l) ==
    \E c \in Open(l) :
        /\ faults < MaxFaults
        /\ faults' = faults + 1
        /\ calls' = (calls \ {c}) \cup {[c EXCEPT !.open = FALSE]}
                        \cup (IF c.try = 1 THEN {Retry(c)} ELSE {})
        /\ lane' = IF c.try = 1 THEN lane ELSE [lane EXCEPT ![l] = Failed(l, c)]
        /\ UNCHANGED <<storeVars, epoch, receipts, execs>>

\* A faulty ForgetAcknowledged: retention forgets any receipt.
ForgetAny(j) ==
    /\ receipts[j].phase # "none"
    /\ receipts' = [receipts EXCEPT ![j] = NoReceipt]
    /\ UNCHANGED <<storeVars, epoch, lane, calls, execs, faults>>

\* Acknowledged receipts past their retention are forgotten.
ForgetAcknowledged(j) ==
    /\ receipts[j].phase = "acked"
    /\ receipts' = [receipts EXCEPT ![j] = NoReceipt]
    /\ UNCHANGED <<storeVars, epoch, lane, calls, execs, faults>>

\* A faulty Restart: an execution cut short is recorded as failed.
RestartFails(e) ==
    /\ faults < MaxFaults
    /\ faults' = faults + 1
    /\ e = epoch
    /\ lane' = [l \in Lanes |-> Idle]
    /\ calls' = {[c EXCEPT !.open = FALSE] : c \in calls}
    /\ receipts' = [j \in Jobs |->
            IF receipts[j].phase = "open"
            THEN [receipts[j] EXCEPT !.phase = "result", !.outcome = "failed"]
            ELSE receipts[j]]
    /\ UNCHANGED <<storeVars, epoch, execs>>

(***************************************************************************)
(* The worker process dies and starts again, after a spell in standalone   *)
(* mode under a new activation.  Receipts without a result are settled as  *)
(* unknown, those of another activation are discarded.                     *)
(***************************************************************************)
Restart(e) ==
    /\ faults < MaxFaults
    /\ faults' = faults + 1
    /\ e \in {epoch, epoch + 1} \cap Activations
    /\ epoch' = e
    /\ lane' = [l \in Lanes |-> Idle]
    /\ calls' = {[c EXCEPT !.open = FALSE] : c \in calls}
    /\ receipts' = [j \in Jobs |->
            IF receipts[j].phase \notin {"open", "result"} THEN receipts[j]
            ELSE [receipts[j] EXCEPT
                    !.phase = IF receipts[j].act = e THEN "result" ELSE "acked"]]
    /\ UNCHANGED <<storeVars, execs>>

AgentStep(l) ==
    \/ SendHeartbeat(l, "poll")
    \/ SendHeartbeat(l, "status")
    \/ HeartbeatReply(l)
    \/ Accept(l)
    \/ Skip(l)
    \/ StartReply(l)
    \/ SendRenew(l)
    \/ RenewReply(l)
    \/ Return(l)
    \/ Conclude(l)
    \/ Timeout(l)

\* Requesters and the passage of time, on the Mainframe.
MainframeStep ==
    /\ \/ \E j \in Jobs : Enqueue(j, Self, Capability) \/ Cancel(j) \/ Delete(j)
       \/ PrunePayloads
       \/ Tick
    /\ UNCHANGED <<agentVars, calls, execs, faults>>

DeliveryInit ==
    /\ Init
    /\ epoch = 1
    /\ lane = [l \in Lanes |-> Idle]
    /\ receipts = [j \in Jobs |-> NoReceipt]
    /\ calls = {}
    /\ execs = [j \in Jobs |-> 0]
    /\ faults = 0

DeliveryNext ==
    \/ \E l \in Lanes : AgentStep(l)
    \/ Serve
    \/ \E j \in Jobs : ForgetAcknowledged(j)
    \/ \E e \in Activations : Restart(e)
    \/ MainframeStep

DeliverySpec == DeliveryInit /\ [][DeliveryNext]_allVars

(***************************************************************************)
(* Fairness.  The Mainframe worker loops for ever over its clock and the   *)
(* payload sweep; the listener serves a request it accepted; the agent's   *)
(* lanes act on what they receive.  Faults are finite: the network and the *)
(* worker are eventually up long enough.                                   *)
(***************************************************************************)
MainframeFairness ==
    /\ WF_allVars(MainframeStep /\ Tick)
    /\ WF_allVars(MainframeStep /\ PrunePayloads)

ServeLane(l) ==
    \E c \in Open(l) :
        ServeActivate(c) \/ ServeAccept(c) \/ ServeClaim(c) \/ ServeEmpty(c) \/ ServeControl(c)

AgentFairness ==
    /\ \A l \in Lanes :
          /\ WF_allVars(SendHeartbeat(l, "status"))
          /\ WF_allVars(ServeLane(l))
          /\ WF_allVars(HeartbeatReply(l))
          /\ WF_allVars(Accept(l) \/ Skip(l))
          /\ WF_allVars(StartReply(l))
          /\ WF_allVars(RenewReply(l))
          /\ WF_allVars(Conclude(l))

\* Nothing is assumed of a capability: it may run for ever.
FairSpec == DeliverySpec /\ MainframeFairness /\ AgentFairness

(***************************************************************************)
(* Properties.                                                             *)
(***************************************************************************)

\* An outcome shown to the requester is true: an operation shown as queued,
\* claimed, cancelled or failed was never executed and one shown as succeeded
\* was executed exactly once, whatever was delayed, repeated or restarted.
OutcomesAreTrue ==
    \A j \in Jobs :
        /\ jobs[j].state \in {"queued", "claimed", "cancelled", "failed"} => execs[j] = 0
        /\ jobs[j].state = "succeeded" => execs[j] = 1
        /\ execs[j] <= 1

\* A running capability always has its own durable receipt: a crash at any
\* moment of the execution leaves a record that settles it as unknown.
ExecutionHasReceipt ==
    \A l \in Executors :
        lane[l].pc = "executing" =>
            LET w == lane[l].work
            IN  receipts[w.job] = [phase |-> "open", token |-> w.token, act |-> w.act,
                                   outcome |-> "unknown"]

\* The detailed protocol implements the contract with the administrator.
View(s) ==
    CASE s = "absent" -> "none"
      [] s \in Active -> "open"
      [] s = "unknown" -> "unresolved"
      [] s = "deleted" -> "gone"
      [] OTHER -> s

Contract == INSTANCE OperationContract WITH
    Ops <- Jobs, outcome <- [j \in Jobs |-> View(jobs[j].state)], effects <- execs

ImplementsContract == Contract!ContractSpec

\* A requested cancellation does not stay pending for ever, even when the
\* capability never returns: the agent stops renewing, so the lease runs out.
CancellationSettles ==
    \A j \in Jobs : jobs[j].state = "cancel_requested" ~> jobs[j].state # "cancel_requested"

\* Every submitted operation leaves the active states, provided no capability
\* runs for ever.
EveryOperationSettles ==
    (\A l \in Executors : []<>(lane[l].pc # "executing")) =>
        \A j \in Jobs : jobs[j].state \in Active ~> jobs[j].state \notin Active

\* Every stored result is eventually reported and released.
ReceiptsDrain ==
    \A j \in Jobs : receipts[j].phase = "result" ~> receipts[j].phase # "result"

\* "Lost contact cannot safely interrupt arbitrary external effects": while a
\* capability runs and the Mainframe still shows it running, its lease keeps
\* being renewed.
RenewalSurvivesLostContact ==
    \A l \in Executors :
        lane[l].pc = "executing" /\ jobs[lane[l].work.job].state = "running"
            => lane[l].renewing
=============================================================================
