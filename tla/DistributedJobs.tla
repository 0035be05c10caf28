-------------------------- MODULE DistributedJobs --------------------------
(***************************************************************************)
(* The Mainframe's durable operation queue (DistributedJobStore in         *)
(* twn_toolkit/distributed_jobs.py).                                       *)
(*                                                                         *)
(* Every public method of the store runs in one SQLite transaction that    *)
(* reserves the writer first (BEGIN IMMEDIATE), so each one is a single    *)
(* action.  A method that raises leaves the transaction uncommitted: the   *)
(* rollback also undoes the expiry sweep it began with, so a refused call  *)
(* changes nothing and is modelled by the absence of a step.               *)
(*                                                                         *)
(* A caller is not trusted to be current: control, complete and claim are  *)
(* called with every agent, attempt token and activation that was ever     *)
(* used, which is what delayed and duplicated requests amount to.          *)
(***************************************************************************)
EXTENDS Integers, FiniteSets

CONSTANTS
    Jobs,          \* identifiers a job may be given (fresh random ids)
    Agents,        \* enrolled agents
    Activations,   \* activation epochs agents may present
    NoActivation,  \* the empty epoch of an agent that never presented one
    Lease,         \* distributed_job_lease_seconds, in ticks
    Retention      \* distributed_receipt_retention_hours, in ticks

ASSUME LeaseAssumption == Lease \in Nat \ {0}
ASSUME RetentionAssumption == Retention \in Nat \ {0}
ASSUME ActivationAssumption == NoActivation \notin Activations
ASSUME JobsAssumption == IsFiniteSet(Jobs)
ASSUME AgentsAssumption == Agents # {}

VARIABLES
    jobs,        \* the distributed_jobs table, one row per identifier
    activation,  \* the distributed_agent_activations table
    issued       \* attempt tokens handed out so far: token n is the n-th

vars == <<jobs, activation, issued>>

Epochs == Activations \cup {NoActivation}

(***************************************************************************)
(* "absent" is an identifier not yet used, "deleted" one whose row was     *)
(* removed: identifiers are never reused.                                  *)
(***************************************************************************)
JobStates == {"queued", "claimed", "running", "cancel_requested",
              "unknown", "succeeded", "failed", "cancelled"}
RowStates == JobStates \cup {"absent", "deleted"}

Owned  == {"claimed", "running", "cancel_requested"}   \* covered by a lease
Active == Owned \cup {"queued"}
Final  == {"succeeded", "failed", "cancelled"}
Unstarted == {"queued", "claimed", "cancelled"}        \* certify that nothing ran

\* Deadlines are stored as the ticks left until they pass; NULL is SQL NULL.
NULL == -1
NoToken == 0

Capabilities == {"tunnel", "other"}      \* system.http.tunnel, and the rest
Channels == {"interactive", "regular", "any"}

Row == [state : RowStates, agent : Agents, act : Epochs, cap : Capabilities,
        token : Nat, lease : Int, keep : Int,
        payload : SUBSET {"input", "output"}, starts : Nat, created : Nat]

(***************************************************************************)
(* Row updates.  lease is lease_expires_at, keep is payload_expires_at,    *)
(* starts counts the writes of started_at, and payload says which of       *)
(* input_json and output_json still hold one.                              *)
(***************************************************************************)
NoRow(s) == [state |-> s, agent |-> CHOOSE a \in Agents : TRUE,
             act |-> NoActivation, cap |-> "other", token |-> NoToken,
             lease |-> NULL, keep |-> NULL, payload |-> {}, starts |-> 0, created |-> 0]

QueuedRow(a, act, c, n) ==
    [NoRow("queued") EXCEPT !.agent = a, !.act = act, !.cap = c, !.payload = {"input"},
                            !.keep = Retention, !.created = n]

\* A tunnel request body is kept only while the job is queued.
WipeTunnel(r) ==
    IF r.cap = "tunnel" THEN [r EXCEPT !.payload = @ \ {"input"}] ELSE r

\* Faulty variants of ExpireLease: every expired lease reads "cancelled"; a claim
\* whose reply was lost goes back to the queue; only started work expires.
ExpireLeaseCancels(r) ==
    IF r.state \in Owned /\ r.lease = 0
    THEN [WipeTunnel(r) EXCEPT !.state = "cancelled", !.lease = NULL] ELSE r

ExpireLeaseRequeues(r) ==
    IF r.state \in Owned /\ r.lease = 0
    THEN [WipeTunnel(r) EXCEPT !.state = IF @ = "claimed" THEN "queued" ELSE "unknown",
                               !.lease = NULL] ELSE r

ExpireLeaseStarted(r) ==
    IF r.state \in Owned \ {"claimed"} /\ r.lease = 0
    THEN [WipeTunnel(r) EXCEPT !.state = "unknown", !.lease = NULL] ELSE r

ExpireLease(r) ==
    IF r.state \in Owned /\ r.lease = 0
    THEN [WipeTunnel(r) EXCEPT
            !.state = IF r.state = "claimed" THEN "cancelled" ELSE "unknown",
            !.lease = NULL]
    ELSE r

ExpirePayload(r) ==
    IF r.keep = 0
    THEN [r EXCEPT !.payload = {}, !.keep = NULL,
            !.state = IF r.state = "queued" THEN "cancelled" ELSE r.state]
    ELSE r

ExpireRow(r) == ExpirePayload(ExpireLease(r))

\* _expire for the jobs in S: one sweep at the start of a transaction.
Expire(S) == [j \in Jobs |-> IF j \in S THEN ExpireRow(jobs[j]) ELSE jobs[j]]

FenceRow(r) ==
    [WipeTunnel(r) EXCEPT
        !.state = IF r.state \in {"queued", "claimed"} THEN "cancelled" ELSE "unknown",
        !.token = NoToken, !.lease = NULL]

ClaimRow(r, t) ==
    [WipeTunnel(r) EXCEPT !.state = "claimed", !.token = t, !.lease = Lease]

StartRow(r) == [r EXCEPT !.state = "running", !.starts = @ + 1, !.lease = Lease]

RenewRow(r) == [r EXCEPT !.lease = Lease]

CompleteRow(r, s) ==
    [r EXCEPT !.state = s, !.payload = @ \cup {"output"}, !.keep = Retention,
              !.lease = NULL]

CancelRow(r) ==
    CASE r.state \in {"queued", "claimed"} -> [WipeTunnel(r) EXCEPT !.state = "cancelled"]
      [] r.state = "running" -> [r EXCEPT !.state = "cancel_requested"]
      [] OTHER -> r

(***************************************************************************)
(* Operations.                                                             *)
(***************************************************************************)
Init ==
    /\ jobs = [j \in Jobs |-> NoRow("absent")]
    /\ activation = [a \in Agents |-> NoActivation]
    /\ issued = 0

Known(j) == jobs[j].state \in JobStates

Enqueue(j, a, c) ==
    /\ jobs[j].state = "absent"
    /\ jobs' = [jobs EXCEPT ![j] = QueuedRow(a, activation[a], c,
                    Cardinality({k \in Jobs : jobs[k].state # "absent"}))]
    /\ UNCHANGED <<activation, issued>>

\* A faulty BindOrFence: work that already started survives a new activation.
FenceUnstarted(a, act, r) ==
    IF r.agent # a \/ r.state \notin {"queued", "claimed"} THEN r
    ELSE IF activation[a] = NoActivation
         THEN IF r.act = NoActivation THEN [r EXCEPT !.act = act] ELSE r
         ELSE IF activation[a] # act /\ r.act # act THEN FenceRow(r) ELSE r

\* The first activation adopts the jobs queued before it; a changed one fences
\* off every active job of another epoch.
BindOrFence(a, act, r) ==
    IF r.agent # a \/ r.state \notin Active THEN r
    ELSE IF activation[a] = NoActivation
         THEN IF r.act = NoActivation THEN [r EXCEPT !.act = act] ELSE r
         ELSE IF activation[a] # act /\ r.act # act THEN FenceRow(r) ELSE r

ActivateAgent(a, act) ==
    /\ act # NoActivation
    /\ jobs' = [j \in Jobs |-> BindOrFence(a, act, jobs[j])]
    /\ activation' = [activation EXCEPT ![a] = act]
    /\ UNCHANGED issued

Eligible(rows, a, act, ch) ==
    {j \in Jobs : /\ rows[j].state = "queued"
                  /\ rows[j].agent = a
                  /\ act # NoActivation => rows[j].act = act
                  /\ ch = "interactive" => rows[j].cap = "tunnel"
                  /\ ch = "regular" => rows[j].cap # "tunnel"}

\* ORDER BY created_at: jobs created at the same instant come in any order.
Oldest(rows, S) == {j \in S : \A k \in S : rows[j].created <= rows[k].created}

Claim(a, act, ch, j) ==
    LET rows == Expire(Jobs)
    IN  /\ j \in Oldest(rows, Eligible(rows, a, act, ch))
        /\ jobs' = [rows EXCEPT ![j] = ClaimRow(@, issued + 1)]
        /\ issued' = issued + 1
        /\ UNCHANGED activation

\* A claim that finds nothing still expires what is due.
ClaimNothing(a, act, ch) ==
    LET rows == Expire(Jobs)
    IN  /\ Eligible(rows, a, act, ch) = {}
        /\ jobs' = rows
        /\ UNCHANGED <<activation, issued>>

Owns(r, a, tok, act) ==
    /\ r.state \in JobStates
    /\ r.agent = a
    /\ tok # NoToken
    /\ r.token = tok
    /\ r.act = act

\* control(action="start"): an operation that already started is refused; one
\* that is over is only reported.
StartAllowed(r, a, tok, act) ==
    Owns(r, a, tok, act) /\ r.state \notin {"running", "cancel_requested"}

Start(j, a, tok, act) ==
    LET rows == Expire({j})
    IN  /\ StartAllowed(rows[j], a, tok, act)
        /\ jobs' = IF rows[j].state = "claimed"
                   THEN [rows EXCEPT ![j] = StartRow(@)] ELSE rows
        /\ UNCHANGED <<activation, issued>>

Renew(j, a, tok, act) ==
    LET rows == Expire({j})
    IN  /\ Owns(rows[j], a, tok, act)
        /\ jobs' = IF rows[j].state \in Owned
                   THEN [rows EXCEPT ![j] = RenewRow(@)] ELSE rows
        /\ UNCHANGED <<activation, issued>>

\* A settled job acknowledges a repeated result and keeps its outcome.
CompleteAllowed(r, a, tok, act) ==
    Owns(r, a, tok, act) /\ r.state \notin {"queued", "claimed"}

\* A faulty Complete: a repeated result overwrites the outcome.
CompleteOverwrites(j, a, tok, act, s) ==
    LET rows == Expire({j})
    IN  /\ CompleteAllowed(rows[j], a, tok, act)
        /\ jobs' = [rows EXCEPT ![j] = CompleteRow(@, s)]
        /\ UNCHANGED <<activation, issued>>

Complete(j, a, tok, act, s) ==
    LET rows == Expire({j})
    IN  /\ CompleteAllowed(rows[j], a, tok, act)
        /\ jobs' = IF rows[j].state \in Final THEN rows
                   ELSE [rows EXCEPT ![j] = CompleteRow(@, s)]
        /\ UNCHANGED <<activation, issued>>

\* Called by the job's requester; any other caller is refused.
Cancel(j) ==
    LET rows == Expire({j})
    IN  /\ Known(j)
        /\ jobs' = [rows EXCEPT ![j] = CancelRow(@)]
        /\ UNCHANGED <<activation, issued>>

Delete(j) ==
    LET rows == Expire({j})
    IN  /\ Known(j)
        /\ jobs' = IF rows[j].state \in Final
                   THEN [rows EXCEPT ![j] = NoRow("deleted")] ELSE rows
        /\ UNCHANGED <<activation, issued>>

DiscardTunnelOutput(j) ==
    /\ jobs[j].cap = "tunnel"
    /\ jobs[j].state \in {"succeeded", "failed"}
    /\ jobs' = [jobs EXCEPT ![j].payload = @ \ {"output"}]
    /\ UNCHANGED <<activation, issued>>

\* get, latest and recent expire the rows they are about to return.
ReadCurrent(S) ==
    /\ jobs' = Expire(S)
    /\ UNCHANGED <<activation, issued>>

\* The Mainframe worker's periodic sweep.
PrunePayloads == ReadCurrent(Jobs)

Countdown(d) == IF d > 0 THEN d - 1 ELSE d

\* Time passes for every stored deadline at once.
Tick ==
    /\ jobs' = [j \in Jobs |-> [jobs[j] EXCEPT !.lease = Countdown(@),
                                               !.keep = Countdown(@)]]
    /\ UNCHANGED <<activation, issued>>

Call ==
    \E j \in Jobs, a \in Agents :
        \/ \E c \in Capabilities : Enqueue(j, a, c)
        \/ \E tok \in 1..issued, act \in Epochs :
              \/ Start(j, a, tok, act)
              \/ Renew(j, a, tok, act)
              \/ \E s \in {"succeeded", "failed", "unknown"} : Complete(j, a, tok, act, s)
        \/ Cancel(j)
        \/ Delete(j)
        \/ DiscardTunnelOutput(j)

Next ==
    \/ Call
    \/ \E a \in Agents, act \in Epochs :
          \/ ActivateAgent(a, act)
          \/ \E ch \in Channels :
                \/ \E j \in Jobs : Claim(a, act, ch, j)
                \/ ClaimNothing(a, act, ch)
    \/ \E S \in SUBSET Jobs : ReadCurrent(S)
    \/ PrunePayloads
    \/ Tick

Spec == Init /\ [][Next]_vars

(***************************************************************************)
(* Properties.                                                             *)
(***************************************************************************)

\* Every row, activation and token counter has the shape the schema gives it;
\* a deadline never lies further ahead than the policy that set it.
TypeOK ==
    /\ jobs \in [Jobs -> Row]
    /\ \A j \in Jobs : jobs[j].lease \in NULL..Lease /\ jobs[j].keep \in NULL..Retention
    /\ activation \in [Agents -> Epochs]
    /\ issued \in Nat

\* The state a requester sees says truthfully whether execution was ever
\* allowed: "cancelled", "queued" and "claimed" certify that no start was
\* granted, and every other state that exactly one was.  This is what makes resubmitting
\* a cancelled operation safe (the claim-expired, fenced, cancelled and
\* payload-expired paths all write "cancelled").
StateTellsStarted ==
    \A j \in Jobs :
        jobs[j].state \in JobStates =>
            jobs[j].starts = IF jobs[j].state \in Unstarted THEN 0 ELSE 1

\* No active job is bound to an epoch other than the one its agent presented
\* last, whatever order activations, enqueues and stale calls come in.
ActiveOnCurrentActivation ==
    \A j \in Jobs :
        jobs[j].state \in Active => jobs[j].act = activation[jobs[j].agent]

\* A job out with an agent always carries an attempt token and a lease that can
\* run out, so none is held for ever by an agent that went away.
OwnedWorkIsLeased ==
    \A j \in Jobs :
        jobs[j].state \in Owned => jobs[j].token # NoToken /\ jobs[j].lease # NULL

\* Two jobs never share an attempt token, so an agent's token proves ownership
\* of one operation only.
TokensIdentifyAttempts ==
    \A j, k \in Jobs :
        jobs[j].token = jobs[k].token /\ jobs[j].token # NoToken => j = k

\* Ownership of delivered work: an old activation never holds active work, a
\* holder can always be timed out, and a holder's token is its own.
OwnershipIsFenced ==
    ActiveOnCurrentActivation /\ OwnedWorkIsLeased /\ TokensIdentifyAttempts

\* A stored payload always has a retention deadline ahead of it, and the body of
\* a tunnelled browser request is gone as soon as the job leaves the queue.
PayloadsAreRetired ==
    \A j \in Jobs :
        /\ jobs[j].payload # {} => jobs[j].keep # NULL
        /\ jobs[j].cap = "tunnel" /\ jobs[j].state # "queued" =>
              "input" \notin jobs[j].payload

\* A job handed out is never put back in the queue or handed out again, and a
\* started one is never cancelled (the no-repeat contract of job protocol 2).
NeverRepeatedStep ==
    \A j \in Jobs :
        /\ jobs[j].state \notin {"absent", "queued"} => jobs'[j].state # "queued"
        /\ jobs'[j].state = "claimed" /\ jobs[j].state # "claimed" => jobs[j].state = "queued"
        /\ jobs[j].starts > 0 => jobs'[j].state # "cancelled"
NeverRepeated == [][NeverRepeatedStep]_vars

\* A settled outcome is never revised: it is kept or deleted.  An unknown
\* outcome may still be resolved by its own attempt, but not once an activation
\* change has fenced that attempt off, and it is never deleted unresolved.
OutcomesAreFinalStep ==
    \A j \in Jobs :
        /\ jobs[j].state \in Final => jobs'[j].state \in {jobs[j].state, "deleted"}
        /\ jobs[j].state = "unknown" =>
              /\ jobs'[j].state \in {"unknown", "succeeded", "failed"}
              /\ jobs[j].token = NoToken => jobs'[j].state = "unknown"
OutcomesAreFinal == [][OutcomesAreFinalStep]_vars
=============================================================================
