--------------------------- MODULE AutomationJobs ---------------------------
(***************************************************************************)
(* The durable execution queue of the automation engine: the rows of       *)
(* automation_jobs and automation_runs (AutomationStore, automation.py),   *)
(* the pipeline every job runs (AutomationEngine.process_job), and the two *)
(* kinds of thread that run it:                                            *)
(*   - the futures of the one scheduler process (automation_worker.py),    *)
(*     which claims jobs, renews their leases and may be stopped, killed   *)
(*     and started again at any step;                                      *)
(*   - web requests of "Run now" (automation_routes.py), which queue a job,*)
(*     claim it themselves and run it without renewing its lease.          *)
(* Every SQLite transaction is one step. A pipeline is Stages stages, the  *)
(* stages in Delayed wait before they start, and Policy says on which      *)
(* outcomes the next stage follows. Timers hold the ticks that are left.   *)
(***************************************************************************)
EXTENDS Integers, Sequences, FiniteSets, FiniteSetsExt

CONSTANTS
    Automations,    \* automations, each with one pipeline
    NoAutomation,   \* the automation of a row that does not exist
    Stages,         \* number of stages of a pipeline
    Delayed,        \* the stages (0-based, never the first) with a delay
    Policy,         \* continuation policy of each stage
    Futures,        \* places in the scheduler's table of futures
    WebThreads,     \* web request threads that may serve Run now
    Pool,           \* threads of the scheduler's executor
    MaxAttempts,    \* attempts after which a failure is final
    Lease,          \* ticks of a lease
    StageDelay,     \* ticks a delayed stage waits
    MaxBackoff,     \* cap on the ticks before a retry
    MaxJobs,        \* bound on the rows ever queued
    MaxFaults       \* bound on crashes, stops, database errors and deletions

ASSUME PipelineAssumption ==
    /\ Stages \in Nat \ {0}
    /\ Delayed \subseteq 1 .. Stages - 1
    /\ Policy \in [0 .. Stages - 1 -> {"all_completed", "success_or_partial",
                     "all_success", "any_failed", "all_failed"}]
    /\ StageDelay \in Nat \ {0}

ASSUME QueueAssumption ==
    /\ NoAutomation \notin Automations
    /\ Futures \cap WebThreads = {}
    /\ {Pool, MaxAttempts, Lease, MaxBackoff, MaxJobs} \subseteq Nat \ {0}
    /\ MaxFaults \in Nat

VARIABLES
    rows,       \* automation_jobs: job -> row
    queued,     \* how many jobs were ever queued; ids grow with queued_at
    runs,       \* automation_runs: the records still kept
    recorded,   \* job -> how many runs were ever recorded for it
    live,       \* automations that exist
    deleting,   \* automations whose delete request has passed its check
    scheduler,  \* "up", "draining" (signalled, threads still running), "down"
    thread,     \* what each future and each web thread is doing
    hold,       \* job -> ticks left of the delay its next stage asked for
    overlapped, \* jobs that were claimed while another thread worked on them
    saved,      \* job -> the furthest stage its row ever recorded as next
    faults      \* faults that have happened

jobVars == <<rows, queued, runs, recorded, live, deleting, scheduler, thread,
             hold, overlapped, saved, faults>>

Jobs == 1 .. MaxJobs
Threads == Futures \cup WebThreads

NoProgress == [next |-> 0, delayed |-> FALSE, results |-> <<>>]

NoRow == [status |-> "none", automation |-> NoAutomation, attempts |-> 0,
          lease |-> 0, due |-> 0, progress |-> NoProgress, run |-> 0]

Idle == [pc |-> "idle", job |-> 0, automation |-> NoAutomation,
         progress |-> NoProgress, run |-> 0]

(***************************************************************************)
(* Whether the pipeline goes on after a stage whose actions ended with the *)
(* given statuses.                                                         *)
(***************************************************************************)
stage_should_continue(policy, statuses) ==
    LET failed == {s \in statuses : s \notin {"success", "partial"}} IN
    CASE policy = "all_completed"      -> TRUE
      [] policy = "success_or_partial" -> failed = {}
      [] policy = "all_success"        -> statuses \subseteq {"success"}
      [] policy = "any_failed"         -> failed # {}
      [] policy = "all_failed"         -> statuses # {} /\ failed = statuses

\* A run is identified by its job and the number of the recording.
RunOf(j, n) == {r \in runs : r.job = j /\ r.n = n}

\* A thread holds the job's work between its claim and its last write.
Working(t) == thread[t].pc \notin {"idle", "done", "claim"}

-----------------------------------------------------------------------------
(***************************************************************************)
(* Queueing                                                                *)
(***************************************************************************)

QueuedRow(a) == [NoRow EXCEPT !.status = "queued", !.automation = a]

\* _enqueue_execution_job, inside the transaction of its caller.
Enqueue(a) ==
    /\ queued < MaxJobs
    /\ a \in live
    /\ queued' = queued + 1
    /\ rows' = [rows EXCEPT ![queued + 1] = QueuedRow(a)]

\* A trigger of any kind queues a job for the scheduler.
Arrive(a) ==
    /\ Enqueue(a)
    /\ UNCHANGED <<runs, recorded, live, deleting, scheduler, thread, hold,
                   overlapped, saved, faults>>

\* Run now: a web request queues a job it will try to claim itself.
RunNow(w, a) ==
    /\ thread[w].pc = "idle"
    /\ Enqueue(a)
    /\ thread' = [thread EXCEPT ![w] = [Idle EXCEPT !.pc = "claim",
                              !.job = queued + 1, !.automation = a]]
    /\ UNCHANGED <<runs, recorded, live, deleting, scheduler, hold, overlapped,
                   saved, faults>>

-----------------------------------------------------------------------------
(***************************************************************************)
(* Claims and leases                                                       *)
(***************************************************************************)

Due(j) == rows[j].status \in {"queued", "waiting"} /\ rows[j].due = 0

Lapsed(j) == rows[j].status = "running" /\ rows[j].lease = 0

ClaimRow(row) == [row EXCEPT !.status = "running", !.lease = Lease, !.due = 0,
                             !.attempts = @ + 1]

Claim(t, j, pc) ==
    /\ rows' = [rows EXCEPT ![j] = ClaimRow(@)]
    /\ thread' = [thread EXCEPT ![t] = [pc |-> pc, job |-> j,
                     automation |-> rows[j].automation,
                     progress |-> rows[j].progress, run |-> rows[j].run]]
    /\ overlapped' = IF \E u \in Threads \ {t} : Working(u) /\ thread[u].job = j
                     THEN overlapped \cup {j} ELSE overlapped
    /\ UNCHANGED <<queued, runs, recorded, live, deleting, scheduler, hold, saved, faults>>

\* Automations with a future in the scheduler's table, finished ones included.
ActiveIds == {thread[f].automation : f \in Futures} \ {NoAutomation}

\* A faulty Claimable: the automations already being worked on are not left out.
ClaimableAgain == {j \in Jobs : Due(j) \/ Lapsed(j)}

\* A faulty Claimable: a job whose lease has lapsed is left to its thread.
ClaimableQueued == {j \in Jobs : Due(j) /\ rows[j].automation \notin ActiveIds}

\* The jobs claim_jobs may take: due or abandoned, of an automation without a future.
Claimable == {j \in Jobs : (Due(j) \/ Lapsed(j)) /\ rows[j].automation \notin ActiveIds}

\* The scheduler takes the oldest job it may run into a free place.
claim_jobs(f) ==
    /\ scheduler = "up"
    /\ thread[f].pc = "idle"
    /\ Claimable # {}
    /\ Claim(f, Min(Claimable), "submitted")

Row(t) == rows[thread[t].job]

\* A job whose run is recorded and linked only has to be completed.
FirstStep(run) == IF run # 0 THEN "complete" ELSE "pipeline"

\* The executor starts a submitted future when one of its threads is free.
StartFuture(f) ==
    /\ scheduler = "up"
    /\ thread[f].pc = "submitted"
    /\ Cardinality({g \in Futures : Working(g) /\ thread[g].pc # "submitted"}) < Pool
    /\ thread' = [thread EXCEPT ![f].pc = FirstStep(thread[f].run)]
    /\ UNCHANGED <<rows, queued, runs, recorded, live, deleting, scheduler, hold,
                   overlapped, saved, faults>>

\* The web request claims the very job it queued, or gives up.
claim_job(w) ==
    /\ thread[w].pc = "claim"
    /\ \/ /\ Due(thread[w].job)
          /\ Claim(w, thread[w].job, FirstStep(Row(w).run))
       \/ /\ ~ Due(thread[w].job)
          /\ thread' = [thread EXCEPT ![w] = Idle]
          /\ UNCHANGED <<rows, queued, runs, recorded, live, deleting, scheduler,
                         hold, overlapped, saved, faults>>

\* Every half minute the scheduler renews the lease of each future's job.
renew_job_lease ==
    LET renewed == {j \in Jobs : /\ rows[j].status = "running"
                                 /\ \E f \in Futures : thread[f].job = j} IN
    /\ scheduler = "up"
    /\ \E j \in renewed : rows[j].lease < Lease
    /\ rows' = [j \in Jobs |-> IF j \in renewed THEN [rows[j] EXCEPT !.lease = Lease]
                                                ELSE rows[j]]
    /\ UNCHANGED <<queued, runs, recorded, live, deleting, scheduler, thread, hold,
                   overlapped, saved, faults>>

Down(n) == IF n > 0 THEN n - 1 ELSE 0

\* One tick of the clock.
Tick ==
    /\ \E j \in Jobs : rows[j].lease > 0 \/ rows[j].due > 0 \/ hold[j] > 0
    /\ rows' = [j \in Jobs |-> [rows[j] EXCEPT !.lease = Down(@), !.due = Down(@)]]
    /\ hold' = [j \in Jobs |-> Down(hold[j])]
    /\ UNCHANGED <<queued, runs, recorded, live, deleting, scheduler, thread,
                   overlapped, saved, faults>>

-----------------------------------------------------------------------------
(***************************************************************************)
(* process_job: one thread runs one claimed job                            *)
(***************************************************************************)

\* A future that returns stays in the table until it is reaped.
Returned(t) == IF t \in Futures THEN [thread[t] EXCEPT !.pc = "done"] ELSE Idle

IsRunning(t) == Row(t).status = "running"

Fails(t) ==
    /\ thread' = [thread EXCEPT ![t].pc = "failing"]
    /\ UNCHANGED rows

\* The next stage has a delay that has not been served.
MustWait(p) == p.next \in Delayed /\ ~ p.delayed

\* The pipeline reaches its next stage and runs it, or the end of the stages.
NextStage(t) ==
    LET p == thread[t].progress IN
    /\ thread[t].pc = "pipeline"
    /\ ~ MustWait(p)
    /\ thread' = [thread EXCEPT ![t].pc = IF p.next = Stages THEN "record" ELSE "stage"]
    /\ UNCHANGED <<rows, queued, runs, recorded, live, deleting, scheduler, hold,
                   overlapped, saved, faults>>

DeferRow(row, p) == [row EXCEPT !.status = "waiting", !.due = StageDelay, !.lease = 0,
                        !.attempts = 0, !.progress = [p EXCEPT !.delayed = TRUE]]

\* A delayed stage is left to the queue and the thread is released.
defer_job_for_stage(t) ==
    LET p == thread[t].progress
        j == thread[t].job IN
    /\ thread[t].pc = "pipeline"
    /\ MustWait(p)
    /\ \/ /\ IsRunning(t)
          /\ rows' = [rows EXCEPT ![j] = DeferRow(@, p)]
          /\ thread' = [thread EXCEPT ![t] = Returned(t)]
          /\ hold' = [hold EXCEPT ![j] = StageDelay]
       \/ ~ IsRunning(t) /\ Fails(t) /\ UNCHANGED hold
    /\ UNCHANGED <<queued, runs, recorded, live, deleting, scheduler, overlapped, saved, faults>>

AfterStage(p, statuses) ==
    [next |-> IF stage_should_continue(Policy[p.next], statuses)
              THEN p.next + 1 ELSE Stages,
     delayed |-> FALSE,
     results |-> Append(p.results, p.next)]

\* The actions of the stage end, with one status for each of them.
FinishStage(t) ==
    /\ thread[t].pc = "stage"
    /\ \E statuses \in {{"success"}, {"partial"}, {"error"}, {"success", "error"}} :
         thread' = [thread EXCEPT ![t].pc = "save",
                      ![t].progress = AfterStage(@, statuses)]
    /\ UNCHANGED <<rows, queued, runs, recorded, live, deleting, scheduler, hold,
                   overlapped, saved, faults>>

SavedRow(row, p) == [row EXCEPT !.progress = p]

save_job_progress(t) ==
    /\ thread[t].pc = "save"
    /\ \/ /\ IsRunning(t)
          /\ rows' = [rows EXCEPT ![thread[t].job] = SavedRow(@, thread[t].progress)]
          /\ thread' = [thread EXCEPT ![t].pc = "pipeline"]
          /\ saved' = [saved EXCEPT ![thread[t].job] = thread[t].progress.next]
       \/ ~ IsRunning(t) /\ Fails(t) /\ UNCHANGED saved
    /\ UNCHANGED <<queued, runs, recorded, live, deleting, scheduler, hold, overlapped,
                   faults>>

\* The run is inserted; its automation must still exist.
record_run(t) ==
    LET j == thread[t].job
        n == recorded[j] + 1 IN
    /\ thread[t].pc = "record"
    /\ \/ /\ thread[t].automation \in live
          /\ recorded' = [recorded EXCEPT ![j] = n]
          /\ runs' = runs \cup {[job |-> j, n |-> n, automation |-> thread[t].automation,
                                results |-> thread[t].progress.results]}
          /\ thread' = [thread EXCEPT ![t].pc = "link", ![t].run = n]
          /\ UNCHANGED rows
       \/ thread[t].automation \notin live /\ Fails(t) /\ UNCHANGED <<runs, recorded>>
    /\ UNCHANGED <<queued, live, deleting, scheduler, hold, overlapped, saved, faults>>

\* A row may refer only to a run that exists (foreign key).
MayRefer(t) == IsRunning(t) /\ RunOf(thread[t].job, thread[t].run) # {}

link_job_run(t) ==
    /\ thread[t].pc = "link"
    /\ \/ /\ MayRefer(t)
          /\ rows' = [rows EXCEPT ![thread[t].job].run = thread[t].run]
          /\ thread' = [thread EXCEPT ![t].pc = "complete"]
       \/ ~ MayRefer(t) /\ Fails(t)
    /\ UNCHANGED <<queued, runs, recorded, live, deleting, scheduler, hold, overlapped,
                   saved, faults>>

complete_job(t) ==
    /\ thread[t].pc = "complete"
    /\ \/ /\ MayRefer(t)
          /\ rows' = [rows EXCEPT ![thread[t].job] = [@ EXCEPT !.status = "completed",
                          !.lease = 0, !.run = thread[t].run, !.progress = NoProgress]]
          /\ thread' = [thread EXCEPT ![t] = Returned(t)]
       \/ ~ MayRefer(t) /\ Fails(t)
    /\ UNCHANGED <<queued, runs, recorded, live, deleting, scheduler, hold, overlapped,
                   saved, faults>>

\* The time doubles with every attempt, up to the cap.
Backoff(attempts) ==
    LET wait == 2 ^ (Max({1, attempts}) - 1) IN
    IF wait \in 1 .. MaxBackoff THEN wait ELSE MaxBackoff

\* A faulty FailRow: the progress is thrown away with the failed attempt.
FailRowAfresh(row) ==
    IF row.attempts >= MaxAttempts
    THEN [row EXCEPT !.status = "failed", !.lease = 0, !.due = 0]
    ELSE [row EXCEPT !.status = "queued", !.lease = 0, !.due = Backoff(row.attempts),
                     !.progress = NoProgress]

FailRow(row) ==
    IF row.attempts >= MaxAttempts
    THEN [row EXCEPT !.status = "failed", !.lease = 0, !.due = 0]
    ELSE [row EXCEPT !.status = "queued", !.lease = 0, !.due = Backoff(row.attempts)]

\* The except branch of process_job. It looks at no status, only at the row.
fail_job(t) ==
    /\ thread[t].pc = "failing"
    /\ rows' = IF Row(t).status = "none" THEN rows
               ELSE [rows EXCEPT ![thread[t].job] = FailRow(@)]
    /\ thread' = [thread EXCEPT ![t] = Returned(t)]
    /\ UNCHANGED <<queued, runs, recorded, live, deleting, scheduler, hold, overlapped,
                   saved, faults>>

\* The scheduler takes a finished future out of its table.
Reap(f) ==
    /\ scheduler = "up"
    /\ thread[f].pc = "done"
    /\ thread' = [thread EXCEPT ![f] = Idle]
    /\ UNCHANGED <<rows, queued, runs, recorded, live, deleting, scheduler, hold,
                   overlapped, saved, faults>>

-----------------------------------------------------------------------------
(***************************************************************************)
(* Faults, the life of the scheduler, and the administrator's operations   *)
(***************************************************************************)

Fault ==
    /\ faults < MaxFaults
    /\ faults' = faults + 1

\* A write of the pipeline raises (the database is busy, the disk is full);
\* when it is fail_job's own write, the row stays as it is.
WriteError(t) ==
    /\ Fault
    /\ \/ /\ \/ thread[t].pc \in {"save", "record", "link", "complete"}
             \/ thread[t].pc = "pipeline" /\ MustWait(thread[t].progress)
          /\ Fails(t)
       \/ /\ thread[t].pc = "failing"
          /\ thread' = [thread EXCEPT ![t] = Returned(t)]
          /\ UNCHANGED rows
    /\ UNCHANGED <<queued, runs, recorded, live, deleting, scheduler, hold,
                   overlapped, saved>>

\* SIGTERM: the loop ends, futures that have not started are cancelled, those
\* that run go on; nothing renews their leases any more.
Stop ==
    /\ Fault
    /\ scheduler = "up"
    /\ scheduler' = "draining"
    /\ thread' = [t \in Threads |->
                    IF t \in Futures /\ thread[t].pc \in {"submitted", "done"}
                    THEN Idle ELSE thread[t]]
    /\ UNCHANGED <<rows, queued, runs, recorded, live, deleting, hold, overlapped, saved>>

\* The process ends: its futures have returned, or it is killed.
Exit ==
    /\ scheduler # "down"
    /\ \/ scheduler = "draining" /\ UNCHANGED faults
          /\ \A f \in Futures : ~ Working(f)
       \/ Fault
    /\ scheduler' = "down"
    /\ thread' = [t \in Threads |-> IF t \in Futures THEN Idle ELSE thread[t]]
    /\ UNCHANGED <<rows, queued, runs, recorded, live, deleting, hold, overlapped, saved>>

\* The launcher starts a scheduler once the old process is gone: it waits for
\* the process it stopped, kills it after that, and so for every other worker
\* of the instance.
StartScheduler ==
    /\ scheduler = "down"
    /\ scheduler' = "up"
    /\ UNCHANGED <<rows, queued, runs, recorded, live, deleting, thread, hold,
                   overlapped, saved, faults>>

\* The web worker that serves a request is killed.
WebCrash(w) ==
    /\ Fault
    /\ thread[w].pc # "idle"
    /\ thread' = [thread EXCEPT ![w] = Idle]
    /\ UNCHANGED <<rows, queued, runs, recorded, live, deleting, scheduler, hold,
                   overlapped, saved>>

retry_failed_jobs ==
    /\ Fault
    /\ \E j \in Jobs : rows[j].status = "failed"
    /\ rows' = [j \in Jobs |-> IF rows[j].status = "failed"
                  THEN [rows[j] EXCEPT !.status = "queued", !.attempts = 0, !.due = 0]
                  ELSE rows[j]]
    /\ UNCHANGED <<queued, runs, recorded, live, deleting, scheduler, thread, hold,
                   overlapped, saved>>

\* Rows that go take their place with them; rows that stay forget a run that
\* goes (ON DELETE SET NULL).
Purge(gone, goneRuns) ==
    /\ rows' = [j \in Jobs |->
                  IF j \in gone THEN NoRow
                  ELSE IF [job |-> j, n |-> rows[j].run] \in
                            {[job |-> r.job, n |-> r.n] : r \in goneRuns}
                       THEN [rows[j] EXCEPT !.run = 0] ELSE rows[j]]
    /\ runs' = runs \ goneRuns

\* delete_run and the retention of prune_history: a run goes with the jobs
\* that refer to it, whatever their status.
delete_run(r) ==
    /\ Fault
    /\ Purge({j \in Jobs : j = r.job /\ rows[j].run = r.n}, {r})
    /\ UNCHANGED <<queued, recorded, live, deleting, scheduler, thread, hold,
                   overlapped, saved>>

Owner(j) == rows[j].automation

\* clear_runs: the completed jobs of an automation and all its runs.
clear_runs(a) ==
    /\ Fault
    /\ a \in live
    /\ Purge({j \in Jobs : Owner(j) = a /\ rows[j].status = "completed"},
             {r \in runs : r.automation = a})
    /\ UNCHANGED <<queued, recorded, live, deleting, scheduler, thread, hold,
                   overlapped, saved>>

\* delete looks for unfinished jobs before its write transaction begins ...
CheckDelete(a) ==
    /\ Fault
    /\ a \in live \ deleting
    /\ ~ \E j \in Jobs : Owner(j) = a /\ rows[j].status \in {"queued", "waiting", "running"}
    /\ deleting' = deleting \cup {a}
    /\ UNCHANGED <<rows, queued, runs, recorded, live, scheduler, thread, hold,
                   overlapped, saved>>

\* ... and the automation takes every job and run it has by then with it.
Delete(a) ==
    /\ a \in deleting
    /\ deleting' = deleting \ {a}
    /\ live' = live \ {a}
    /\ Purge({j \in Jobs : Owner(j) = a}, {r \in runs : r.automation = a})
    /\ UNCHANGED <<queued, recorded, scheduler, thread, hold, overlapped, saved, faults>>

\* clear: every automation goes, whatever its jobs are doing.
clear ==
    /\ Fault
    /\ live # {}
    /\ live' = {}
    /\ rows' = [j \in Jobs |-> NoRow]
    /\ runs' = {}
    /\ UNCHANGED <<queued, recorded, deleting, scheduler, thread, hold, overlapped, saved>>

-----------------------------------------------------------------------------
Init ==
    /\ rows = [j \in Jobs |-> NoRow]
    /\ queued = 0
    /\ runs = {}
    /\ recorded = [j \in Jobs |-> 0]
    /\ live = Automations
    /\ deleting = {}
    /\ scheduler = "up"
    /\ thread = [t \in Threads |-> Idle]
    /\ hold = [j \in Jobs |-> 0]
    /\ overlapped = {}
    /\ saved = [j \in Jobs |-> 0]
    /\ faults = 0

\* What a thread does with the job it has claimed.
process_job(t) ==
    \/ NextStage(t)
    \/ defer_job_for_stage(t)
    \/ FinishStage(t)
    \/ save_job_progress(t)
    \/ record_run(t)
    \/ link_job_run(t)
    \/ complete_job(t)
    \/ fail_job(t)

Administer ==
    \/ retry_failed_jobs \/ clear
    \/ \E r \in runs : delete_run(r)
    \/ \E a \in Automations : clear_runs(a) \/ CheckDelete(a) \/ Delete(a)

Next ==
    \/ \E a \in Automations : Arrive(a)
    \/ \E w \in WebThreads, a \in Automations : RunNow(w, a)
    \/ \E f \in Futures : claim_jobs(f) \/ StartFuture(f) \/ Reap(f)
    \/ \E w \in WebThreads : claim_job(w) \/ WebCrash(w)
    \/ \E t \in Threads : process_job(t) \/ WriteError(t)
    \/ renew_job_lease
    \/ Tick
    \/ Stop \/ Exit \/ StartScheduler
    \/ Administer

Spec == Init /\ [][Next]_jobVars

(***************************************************************************)
(* Threads run, the loop comes round, time passes and a stopped scheduler  *)
(* is started again. No thread is promised a lease that is renewed in time.*)
(***************************************************************************)
Fairness ==
    /\ \A t \in Threads : WF_jobVars(process_job(t))
    /\ \A f \in Futures : WF_jobVars(StartFuture(f)) /\ WF_jobVars(Reap(f))
    /\ WF_jobVars(\E f \in Futures : claim_jobs(f))
    /\ \A w \in WebThreads : WF_jobVars(claim_job(w))
    /\ WF_jobVars(Tick) /\ WF_jobVars(Exit) /\ WF_jobVars(StartScheduler)
    /\ \A a \in Automations : WF_jobVars(Delete(a))

FairSpec == Spec /\ Fairness

-----------------------------------------------------------------------------
(***************************************************************************)
(* Properties                                                              *)
(***************************************************************************)

\* Two threads work on one job only when one of them serves a Run now request,
\* whose lease nobody renews: the scheduler never doubles its own work, however
\* late its renewals are and however it is stopped, killed and started again
\* (claim_jobs with active_ids, the launcher's wait for the old process).
OverlapOnlyAfterRunNow ==
    \A t, u \in Threads :
        t # u /\ Working(t) /\ Working(u) /\ thread[t].job = thread[u].job
            => {t, u} \cap WebThreads # {}

Starts(t) == thread[t].pc # "stage" /\ thread'[t].pc = "stage"

\* A stage whose end was recorded is never run again, and a delayed stage never
\* starts before its delay is over: not after a crash, a failed write, a retry,
\* a deferral or a deletion of runs, whichever thread of whichever scheduler
\* process takes the job up (save_job_progress, defer_job_for_stage, fail_job,
\* retry_failed_jobs). Jobs two threads worked on are outside the promise.
StagesKeepTheirPlace ==
    [][\A t \in Threads : Starts(t) =>
          LET j == thread[t].job
              next == thread[t].progress.next IN
          j \in overlapped \/ (next >= saved[j] /\ (next \in Delayed => hold[j] = 0))]_jobVars

Settled(j) == rows[j].status \in {"completed", "failed", "none"}

\* Every queued job is completed, failed for good or deleted in the end, with
\* the scheduler and the requests failing at any point: no job is left running
\* with nobody to work on it.
EveryJobSettles == \A j \in Jobs : rows[j].status # "none" ~> Settled(j)
=============================================================================
