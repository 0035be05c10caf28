-------------------------- MODULE ReviewedChanges ---------------------------
(***************************************************************************)
(* Reviewed changes of an appliance: the scheduler that runs jobs in child *)
(* processes (diagnostic_worker.py), the child that applies a reviewed     *)
(* change under the lock of its origin (switch_order_jobs.py,              *)
(* rename_jobs.py, fac_cleanup_jobs.py), the confirmations users obtain    *)
(* and the appliance, of which only the order of the change requests that  *)
(* reached it matters.                                                     *)
(***************************************************************************)
EXTENDS DiagnosticJobs, Sequences, SequencesExt

CONSTANTS
    Forms,          \* the confirmations of rename forms
    Loaded,         \* the confirmations that jobs pruned since may have left behind
    Workers,        \* diagnostic_workers
    Moves           \* bound: change requests one job sends

ASSUME RuntimeAssumption ==
    /\ Forms \subseteq Reviews /\ Loaded \subseteq Reviews \ Forms
    /\ Workers \in Nat \ {0} /\ Moves \in Nat

VARIABLES
    up,             \* the scheduler process is alive
    active,         \* its dictionary of children it has not reaped
    spawning,       \* the job it claimed and is starting a child for
    child,          \* the child process of each job
    lock,           \* the job whose child holds the file lock of the origin
    log,            \* change requests that reached the appliance, by job
    reviews         \* the confirmations issued so far

schedulerVars == <<up, active, spawning>>
vars == <<storeVars, schedulerVars, child, lock, log, reviews>>

\* Where a child stands; it holds the lock exactly in Inside.
Inside == {"reading", "moving", "intent", "sending", "sent"}
Working == {"starting", "waiting"} \cup Inside

Unseen == -1

Init ==
    /\ StoreInit
    /\ up = FALSE /\ active = {} /\ spawning = Untouched
    /\ child = [j \in Jobs |-> [pc |-> "none", rev |-> Untouched, seen |-> Unseen]]
    /\ lock = Untouched
    /\ log = <<>>
    /\ \E R \in SUBSET Loaded :
          reviews = [r \in Reviews |-> [issued |-> r \in R, rev |-> Untouched, at |-> 0,
                                        left |-> IF r \in R THEN MaxAge ELSE -1]]

(***************************************************************************)
(* Users and the web process.                                              *)
(***************************************************************************)
Issue(r, rev, at) ==
    /\ ~reviews[r].issued
    /\ reviews' = [reviews EXCEPT ![r] = [issued |-> TRUE, rev |-> rev, at |-> at, left |-> MaxAge]]
    /\ UNCHANGED <<storeVars, schedulerVars, child, lock, log>>

\* The confirmation of a state that a finished job loaded under the lock.
Confirm(r, j) ==
    /\ r \notin Forms /\ j \in InState(rows, {"succeeded"})
    /\ Issue(r, child[j].rev, child[j].seen)

\* The rename preview reads the revision in the web process, without the lock.
PreviewRename(r) == r \in Forms /\ Issue(r, revision, Len(log))

Valid(r) == reviews[r].left >= 0

\* The route checks the confirmation and enqueues afterwards: a request that
\* was checked in time may reach the store at any later time, and repeatedly.
Submit(j, r) ==
    /\ reviews[r].issued
    /\ enqueue(j, r)
    /\ UNCHANGED <<schedulerVars, child, lock, log, reviews>>

SubmitRead(j) == enqueue(j, NoReview) /\ UNCHANGED <<schedulerVars, child, lock, log, reviews>>

Cancel(j) == cancel(j) /\ UNCHANGED <<schedulerVars, child, lock, log, reviews>>

Tick ==
    /\ \E r \in Reviews : reviews[r].left >= 0 \/ receipts[r] >= 0
    /\ reviews' = [r \in Reviews |-> [reviews[r] EXCEPT !.left = Max({@ - 1, -1})]]
    /\ receipts' = ReceiptsAge
    /\ UNCHANGED <<rows, revision, schedulerVars, child, lock, log>>

ReceiptExpires(r) == ExpireReceipt(r) /\ UNCHANGED <<schedulerVars, child, lock, log, reviews>>

(***************************************************************************)
(* The scheduler.                                                          *)
(***************************************************************************)
\* DiagnosticScheduler(): the new process owns none of the earlier children.
Start ==
    /\ ~up
    /\ recover
    /\ up' = TRUE
    /\ UNCHANGED <<active, spawning, child, lock, log, reviews>>

\* The scheduler is killed: its children are left alone.
Crash ==
    /\ up
    /\ up' = FALSE /\ active' = {} /\ spawning' = Untouched
    /\ UNCHANGED <<storeVars, child, lock, log, reviews>>

\* What a child loaded outlives it only in the summary of a job that succeeded.
Left(j, pc) ==
    [child[j] EXCEPT !.pc = pc, !.rev = IF rows[j].state = "succeeded" THEN @ ELSE Untouched]

\* close(): every child is terminated and reaped before its outcome is written.
Close ==
    /\ up /\ spawning = Untouched
    /\ child' = [j \in Jobs |-> IF j \in active THEN Left(j, "exited") ELSE child[j]]
    /\ lock' = IF lock \in active THEN Untouched ELSE lock
    /\ rows' = [j \in Jobs |-> IF j \in active THEN Released(Aborted(j, "unknown")) ELSE rows[j]]
    /\ up' = FALSE /\ active' = {}
    /\ UNCHANGED <<spawning, receipts, revision, log, reviews>>

Cleanup == up /\ cleanup /\ UNCHANGED <<schedulerVars, child, lock, log, reviews>>

Claim(j) ==
    /\ up /\ spawning = Untouched /\ Cardinality(active) < Workers
    /\ claim(j)
    /\ spawning' = j
    /\ UNCHANGED <<up, active, child, lock, log, reviews>>

Spawn(j) ==
    /\ up /\ spawning = j
    /\ child' = [child EXCEPT ![j].pc = "starting"]
    /\ active' = active \cup {j} /\ spawning' = Untouched
    /\ UNCHANGED <<storeVars, up, lock, log, reviews>>

\* A faulty FailedStart: the outcome is written and the row stays owned.
FailedStartKeeps(j) == Aborted(j, "failed")

FailedStart(j) == Released(Aborted(j, "failed"))

SpawnFails(j) ==
    /\ up /\ spawning = j
    /\ rows' = [rows EXCEPT ![j] = FailedStart(j)]
    /\ spawning' = Untouched
    /\ UNCHANGED <<receipts, revision, up, active, child, lock, log, reviews>>

\* tick() finds that a child ended without an outcome.
Reap(j) ==
    /\ up /\ j \in active /\ child[j].pc = "exited"
    /\ Owned(j) /\ rows[j].state \in Started
    /\ abort(j, IF rows[j].state = "cancel_requested" THEN "cancelled" ELSE "failed")
    /\ UNCHANGED <<schedulerVars, child, lock, log, reviews>>

Release(j) ==
    /\ up /\ j \in active /\ child[j].pc = "exited"
    /\ ~(Owned(j) /\ rows[j].state \in Started)
    /\ release(j)
    /\ active' = active \ {j}
    /\ UNCHANGED <<up, spawning, child, lock, log, reviews>>

(***************************************************************************)
(* The child.                                                              *)
(***************************************************************************)
At(j, pc) == child[j].pc = pc
Goto(j, pc) == child' = [child EXCEPT ![j].pc = pc]
Leave(j, pc) == child' = [child EXCEPT ![j] = Left(j, pc)]
Unlock(j) == lock' = IF lock = j THEN Untouched ELSE lock

\* SIGTERM or SIGKILL from the scheduler, the watch on deadline and parent, a
\* fault, or the regular end after the result was recorded.
Die(j) ==
    /\ child[j].pc \in Working \cup {"failing", "recording"}
    /\ Leave(j, "exited")
    /\ Unlock(j)
    /\ UNCHANGED <<storeVars, schedulerVars, log, reviews>>

\* An exception at any point: a refused checkpoint, a changed profile, an expired
\* or outdated review, an error of the appliance.  It leaves the lock.
Stop(j) ==
    /\ child[j].pc \in Working
    /\ Leave(j, "failing")
    /\ Unlock(j)
    /\ UNCHANGED <<storeVars, schedulerVars, log, reviews>>

\* The handler reads the row and then aborts; a cancellation may come between.
Fail(j) ==
    /\ At(j, "failing")
    /\ \E s \in {"failed"} \cup (IF rows[j].state = "cancel_requested" THEN {"cancelled"} ELSE {}) :
           abort(j, s)
    /\ Goto(j, "exited")
    /\ UNCHANGED <<schedulerVars, lock, log, reviews>>

Begin(j) ==
    /\ At(j, "starting")
    /\ progress(j, FALSE)
    /\ Goto(j, "waiting")
    /\ UNCHANGED <<schedulerVars, lock, log, reviews>>

Reviewed(j) == IF rows[j].review = NoReview THEN revision ELSE reviews[rows[j].review].rev

\* validate and the comparison of revisions, under the lock.
Current(j) == rows[j].review # NoReview => Valid(rows[j].review) /\ revision = Reviewed(j)

\* A faulty Enter: the file lock of the origin is not taken.
EnterUnlocked(j) ==
    /\ At(j, "waiting")
    /\ Current(j)
    /\ child' = [child EXCEPT ![j].pc = "reading", ![j].rev = revision]
    /\ UNCHANGED <<storeVars, schedulerVars, lock, log, reviews>>

Enter(j) ==
    /\ At(j, "waiting") /\ lock = Untouched
    /\ Current(j)
    /\ lock' = j
    /\ child' = [child EXCEPT ![j].pc = "reading", ![j].rev = revision]
    /\ UNCHANGED <<storeVars, schedulerVars, log, reviews>>

\* The inventory is read from the appliance.
Read(j) ==
    /\ At(j, "reading") /\ Running(j)
    /\ child' = [child EXCEPT ![j].pc = "moving", ![j].seen = Len(log)]
    /\ UNCHANGED <<storeVars, schedulerVars, lock, log, reviews>>

Sent(j) == Cardinality({i \in DOMAIN log : log[i] = j})

\* The durable intent of the next change.
Intend(j) ==
    /\ At(j, "moving") /\ rows[j].review # NoReview /\ Sent(j) < Moves
    /\ Valid(rows[j].review)
    /\ progress(j, TRUE)
    /\ Goto(j, "intent")
    /\ UNCHANGED <<schedulerVars, lock, log, reviews>>

Advance(j) ==
    /\ At(j, "intent")
    /\ advance_mutation_revision(j, Reviewed(j))
    /\ child' = [child EXCEPT ![j].pc = "sending", ![j].rev = j]
    /\ UNCHANGED <<schedulerVars, lock, log, reviews>>

\* The request takes effect; its answer arrives, or does not.
Send(j) ==
    /\ At(j, "sending")
    /\ log' = Append(log, j)
    /\ \/ Goto(j, "sent") /\ UNCHANGED lock
       \/ Leave(j, "failing") /\ Unlock(j)
    /\ UNCHANGED <<storeVars, schedulerVars, reviews>>

Acknowledged(j) ==
    /\ At(j, "sent")
    /\ progress(j, TRUE)
    /\ Goto(j, "moving")
    /\ UNCHANGED <<schedulerVars, lock, log, reviews>>

\* The state is read back and the result committed; then the lock is left and the
\* activity, audit and case records are written.
Finish(j) ==
    /\ At(j, "moving")
    /\ finish(j)
    /\ child' = [child EXCEPT ![j].pc = "recording", ![j].seen = Len(log)]
    /\ Unlock(j)
    /\ UNCHANGED <<schedulerVars, log, reviews>>

Web(j) == Cancel(j) \/ SubmitRead(j) \/ (\E r \in Reviews : Submit(j, r) \/ Confirm(r, j))

Scheduler(j) == Claim(j) \/ Spawn(j) \/ SpawnFails(j) \/ Reap(j) \/ Release(j)

Child(j) ==
    \/ Die(j) \/ Stop(j) \/ Fail(j) \/ Begin(j) \/ Enter(j) \/ Read(j)
    \/ Intend(j) \/ Advance(j) \/ Send(j) \/ Acknowledged(j) \/ Finish(j)

Next ==
    \/ \E j \in Jobs : Web(j) \/ Scheduler(j) \/ Child(j)
    \/ \E r \in Reviews : PreviewRename(r) \/ ReceiptExpires(r)
    \/ Tick \/ Start \/ Crash \/ Close \/ Cleanup

Spec == Init /\ [][Next]_vars

\* The supervisor starts a scheduler again; its loop never ends; a child ends
\* at its deadline at the latest.
Fairness ==
    /\ WF_vars(Start)
    /\ \A j \in Jobs :
           /\ WF_vars(Claim(j)) /\ WF_vars(Spawn(j) \/ SpawnFails(j))
           /\ WF_vars(Reap(j)) /\ WF_vars(Release(j))
           /\ WF_vars(Die(j))

FairSpec == Spec /\ Fairness

(***************************************************************************)
(* Properties.                                                             *)
(***************************************************************************)
\* A job shown as failed or cancelled sent no change to the appliance and never
\* will, whichever process wrote the outcome and whatever was killed meanwhile
\* (interruption_outcome, recover).
FailedMeansUntouched ==
    \A j \in Jobs : rows[j].state \in {"failed", "cancelled"} => \A i \in DOMAIN log : log[i] # j

\* As long as the revision is the one a user reviewed, no change request was
\* sent since that state was loaded: the revision is advanced before the first
\* request of a job, and nothing is loaded while a job is sending (advance, lock).
RevisionCertifiesState ==
    \A r \in Reviews \ Forms :
        reviews[r].issued /\ revision = reviews[r].rev => reviews[r].at = Len(log)

\* A change is sent only if nobody else sent one since the state was loaded that
\* the user reviewed, across pruned history, restarts and orphaned children
\* (mutation_revision, advance_mutation_revision and the lock of the origin).
ReviewsAreCurrent ==
    [][\A j \in Jobs :
           LET r == rows[j].review
           IN  Send(j) /\ r \notin Forms \cup {NoReview}
               => \A i \in reviews[r].at + 1..Len(log) : log[i] = j]_vars

\* One confirmation lets at most one job reach the appliance, also when the
\* request is repeated after the first job was deleted (diagnostic_receipts).
OneJobPerReview ==
    \A i, j \in Jobs :
        /\ i # j
        /\ rows[i].review = rows[j].review /\ rows[i].review # NoReview
        => Unseen \in {child[i].seen, child[j].seen}

\* Every submitted job is settled and given up by its owner, so that its row can
\* be deleted: whoever dies, refuses to start or hangs.
EveryRunSettles ==
    <>[]up => \A j \in Jobs : rows[j].state # "absent" ~> (rows[j].state \in TERMINAL /\ ~rows[j].token)

=============================================================================
