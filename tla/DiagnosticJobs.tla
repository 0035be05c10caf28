--------------------------- MODULE DiagnosticJobs ---------------------------
(***************************************************************************)
(* The store of finite background jobs (twn_toolkit/diagnostic_jobs.py):   *)
(* one row per job, one receipt per submitted confirmation and the         *)
(* revision of the mutated origin.  The web process, the scheduler and the *)
(* child processes all write it; each method is one BEGIN IMMEDIATE        *)
(* transaction and one action here.                                        *)
(*                                                                         *)
(* A job that carries a confirmation ("review") changes an appliance; one  *)
(* without only reads.  One user and one origin are modelled: rows of      *)
(* other users meet these only in the limits, rows of other origins never. *)
(***************************************************************************)
EXTENDS Integers, FiniteSets, FiniteSetsExt

CONSTANTS
    MaxJobs,        \* bound: jobs that are ever created
    Reviews,        \* signed confirmations a user may obtain
    NoReview,       \* the confirmation of a job that only reads
    MaxAge,         \* PREVIEW_MAX_AGE_SECONDS, in ticks
    HistoryLimit,   \* diagnostic_history_limit
    QueueLimit,     \* diagnostic_queue_limit
    UserLimit       \* diagnostic_user_limit

ASSUME LimitsAssumption ==
    /\ {MaxJobs, MaxAge} \subseteq Nat
    /\ {HistoryLimit, QueueLimit, UserLimit} \subseteq Nat \ {0}

ASSUME NoReviewAssumption == NoReview \notin Reviews

VARIABLES
    rows,           \* diagnostic_jobs; a row that was deleted has kept = FALSE
    receipts,       \* diagnostic_receipts: ticks each confirmation stays barred, -1 for none
    revision        \* diagnostic_mutation_targets: the job that last attempted a change

storeVars == <<rows, receipts, revision>>

Jobs == 1..MaxJobs
Untouched == 0      \* the revision before any attempt, and "no job"

Started == {"running", "cancel_requested"}
ACTIVE == {"queued"} \cup Started
TERMINAL == {"succeeded", "failed", "cancelled", "unknown"}

AbsentRow ==
    [state |-> "absent", kept |-> FALSE, token |-> FALSE,
     review |-> NoReview, attempted |-> FALSE]

QueuedRow(r) == [AbsentRow EXCEPT !.state = "queued", !.kept = TRUE, !.review = r]

StoreInit ==
    /\ rows = [j \in Jobs |-> AbsentRow]
    /\ receipts = [r \in Reviews |-> -1]
    /\ revision = Untouched

Kept(table) == {j \in Jobs : table[j].kept}
InState(table, states) == {j \in Kept(table) : table[j].state \in states}

Set(j, s) == rows' = [rows EXCEPT ![j].state = s]

(***************************************************************************)
(* Retention.  A deletion takes settled rows that no process owns: those   *)
(* past their age, which is left to chance, and the oldest ones beyond the *)
(* history limit.                                                          *)
(***************************************************************************)
Prunable == {j \in InState(rows, TERMINAL) : ~rows[j].token}

Prunings(reserve) ==
    LET excess == Cardinality(Kept(rows)) - HistoryLimit + reserve
    IN  {gone \in SUBSET Prunable : Cardinality(gone) >= Min({excess, Cardinality(Prunable)})}

Without(gone) == [j \in Jobs |-> IF j \in gone THEN [rows[j] EXCEPT !.kept = FALSE] ELSE rows[j]]

cleanup ==
    /\ \E gone \in Prunings(0) \ {{}} : rows' = Without(gone)
    /\ UNCHANGED <<receipts, revision>>

\* A tick is a second of the signed timestamps, which know only whole seconds.
\* A receipt expires somewhere within the second its time runs out in, and an
\* expired one is deleted before receipts are next read.
ExpireReceipt(r) ==
    /\ receipts[r] = 0
    /\ receipts' = [receipts EXCEPT ![r] = -1]
    /\ UNCHANGED <<rows, revision>>

ReceiptsAge == [r \in Reviews |-> Max({receipts[r] - 1, -1})]

(***************************************************************************)
(* Submission.  A confirmation that has a receipt creates no job: its job  *)
(* is returned or, when that was deleted, the request is refused.          *)
(***************************************************************************)
\* A faulty ReceiptAge: without the second that the inclusive age of a
\* confirmation needs.
ReceiptTooShort == MaxAge

ReceiptAge == MaxAge + 1

Admits(table, r) ==
    /\ r # NoReview => Cardinality({s \in Reviews : receipts[s] >= 0}) < HistoryLimit
    /\ Cardinality(Kept(table)) < HistoryLimit
    /\ Cardinality(InState(table, {"queued"})) < QueueLimit
    /\ Cardinality(InState(table, ACTIVE)) < UserLimit

enqueue(j, r) ==
    /\ rows[j].state = "absent"
    /\ \A i \in Jobs : i < j => rows[i].state # "absent"
    /\ r # NoReview => receipts[r] < 0
    /\ \E gone \in Prunings(1) :
           /\ Admits(Without(gone), r)
           /\ rows' = [Without(gone) EXCEPT ![j] = QueuedRow(r)]
    /\ receipts' = [s \in Reviews |-> IF s = r THEN ReceiptAge ELSE receipts[s]]
    /\ UNCHANGED revision

(***************************************************************************)
(* Ownership.                                                              *)
(***************************************************************************)
\* Jobs are numbered in the order of their creation.
claim(j) ==
    /\ j \in InState(rows, {"queued"})
    /\ \A i \in InState(rows, {"queued"}) : j <= i
    /\ rows' = [rows EXCEPT ![j].state = "running", ![j].token = TRUE]
    /\ UNCHANGED <<receipts, revision>>

Owned(j) == rows[j].kept /\ rows[j].token
Running(j) == Owned(j) /\ rows[j].state = "running"

cancel(j) ==
    /\ j \in InState(rows, {"queued", "running"})
    /\ Set(j, IF rows[j].state = "queued" THEN "cancelled" ELSE "cancel_requested")
    /\ UNCHANGED <<receipts, revision>>

\* A faulty InterruptionOutcome: what was attempted is not looked at.
InterruptionForgets(j, s) == s

\* interruption_outcome: an attempt that was not confirmed may have taken effect.
InterruptionOutcome(j, s) == IF rows[j].attempted THEN "unknown" ELSE s

\* abort, with its early return for a row that is settled or owned by nobody.
Aborted(j, s) ==
    IF Owned(j) /\ rows[j].state \in Started
    THEN [rows[j] EXCEPT !.state = InterruptionOutcome(j, s)] ELSE rows[j]

Released(row) == IF row.state \in TERMINAL THEN [row EXCEPT !.token = FALSE] ELSE row

abort(j, s) ==
    /\ rows' = [rows EXCEPT ![j] = Aborted(j, s)]
    /\ UNCHANGED <<receipts, revision>>

release(j) ==
    /\ rows' = [rows EXCEPT ![j] = Released(@)]
    /\ UNCHANGED <<receipts, revision>>

\* Work that may have started under an earlier scheduler is never replayed.
Recovered(row) ==
    IF row.kept /\ row.state \in Started
    THEN [row EXCEPT !.state = "unknown", !.token = FALSE] ELSE Released(row)

recover ==
    /\ rows' = [j \in Jobs |-> Recovered(rows[j])]
    /\ UNCHANGED <<receipts, revision>>

(***************************************************************************)
(* What a child process writes.  Each takes effect only while the child's  *)
(* token owns a running row; otherwise the child stops.                    *)
(***************************************************************************)
progress(j, attempted) ==
    /\ Running(j)
    /\ rows' = [rows EXCEPT ![j].attempted = attempted]
    /\ UNCHANGED <<receipts, revision>>

\* A faulty advance_mutation_revision: the attempt leaves no trace.
AdvanceSilently(j, reviewed) ==
    /\ Running(j)
    /\ UNCHANGED storeVars

advance_mutation_revision(j, reviewed) ==
    /\ Running(j)
    /\ revision \in {reviewed, j}
    /\ revision' = j
    /\ UNCHANGED <<rows, receipts>>

finish(j) ==
    /\ Running(j)
    /\ Set(j, "succeeded")
    /\ UNCHANGED <<receipts, revision>>

=============================================================================
