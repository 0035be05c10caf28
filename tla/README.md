# Verification of the TWN Toolkit

TLA+ models of the parts of `twn_toolkit` whose correctness depends on interleaving,
lost or repeated messages, crashes, restarts and deadlines, checked with TLC on small
instances and, where the safety of nine of the modules is concerned, proved with TLAPS
for every value of the constants. `PROJECT.json` lists the runs, the mapping of every
definition to source lines, the hazards and the theorems.

## 1. Inventory

The toolkit is a Flask application with a handful of worker processes, all
sharing one instance directory of SQLite databases and JSON files. An instance
is *standalone*, a *Mainframe* (coordinator) or an *Agent*.

| Component | State | Operations | What is hard | What makes it correct |
|---|---|---|---|---|
| Operation queue (`distributed_jobs.py`) | job rows with state, agent, activation epoch, attempt token, lease, payload retention | enqueue, activate, claim, start/renew, complete, cancel, delete, read, prune | stale callers, leases against late results, epochs in any order | work is handed out once, states tell the truth, settled outcomes stay |
| Owned delivery (`distributed_operations.py`, `_worker`, `_transport`) | agent receipts, lanes, renewer thread, requests in flight | heartbeat, control call, execute_owned, fallback retry, restart | duplicated and delayed requests, crash in the middle of an effect, full receipt table | at most one execution, the outcome shown is true, nothing waits for ever |
| Response transfer (`distributed_response.py`) | chunks, transfer deadlines, stored output | append, verify, consume, read, prune | repeated chunks, expiry during a read, quota | whole body or aborted stream, at most once, storage drains |
| Mainframe Synced Objects (`mso.py`) | shared revisions and receipts; rows, cursor and epoch of each agent | save, delete, request, exchange, receive, resolve, role change | lost replies, edits in flight, paging, late replies | one linear history, no lost draft, convergence |
| Background diagnostics (`diagnostic_jobs.py`, `diagnostic_worker.py`) | job rows, preview receipts, target revisions, child processes | enqueue, claim, cancel, abort, finish, release, recover, prune | scheduler and child dying apart, timeouts, duplicate submission | no replay, intent before effect, one change per reviewed preview |
| Automation jobs (`automation.py`, `automation_worker.py`) | job rows with lease, attempts, progress; runs; futures of the scheduler, Run now requests | enqueue, claim, renew, run a stage, save, defer, record, link, complete, fail, retry, delete, stop, start | a lease lapsing under live work, death between effect and record, delays across restarts | no stage twice once recorded, no early stage, every job settles |
| Automation triggers (`automation.py`, `schedule_tools.py`) | trigger part of an automation's row, check in flight, startup generations | enable, pause, edit, claim a check, record its result, startup scan | results that meet a paused, edited or re-armed automation, skipped and killed checks | occurrences in order and once, an incident and a startup once |
| Pi network broker (`pi_network_broker.py`) | `current.json`, `pending.json`, profile files, NetworkManager's checkpoint | apply, disable, confirm, roll back, monitor | going down between two writes, two timers that undo the same change | the record is the confirmed one, what it needs exists, unconfirmed changes are undone |
| Upgrade manager (`upgrade_manager.py`) | code, instance data, recovery points, lock, status | launch, back up, install, validate, restore, prune | crash or error at any step, the error handler's own included, stale lock | serialized, whole recovery points, true outcome, an end |
| Agent gateway (`distributed_agents.py`, `distributed_polling.py`, `distributed_transport.py`) | trust records, listener threads, long-poll budget | request, approve, deny, revoke, remove, call, poll, relay | read and write in two statements, approval checked before a wait, leaked slots | revocation bounds the work, control calls keep their reserve |
| Remote sessions, live tools, captures | sessions, owners, worker processes | open, attach, detach, stop, sweep | processes outliving owners | one owner, bounded sessions |
| Admission, uploads, datastore, throttling, supervision | slots, staged files, counters, PID files | acquire, release, commit, reap | leaked slots, half-written files | bounds hold, no partial file visible |

The network and appliance tools, the web routes and the setup shell keep no
state of their own: they validate input, call a store or a remote device and
format the answer. They are listed in `PROJECT.json` as not modelled.

How the parts interact: the web process enqueues into the operation queue; the
Mainframe's worker serves agents over mutual TLS and sweeps the queue; an agent's
worker polls, stores a receipt, asks for the start, runs the capability, and
reports the stored result until it is acknowledged. Tunnelled browser requests
send large bodies in chunks beside that exchange. The same control loop carries
one MSO exchange per heartbeat, and the same listener enrolls agents and relays
terminals. On every instance an automation scheduler process runs the automation
jobs and hosts the diagnostics scheduler; the upgrade worker and the Pi broker are
processes of their own that outlive the web process.

## 2. Modules

| Module | Models | State and actions |
|---|---|---|
| `DistributedJobs` | `DistributedJobStore` | `jobs`, `activation` are the two tables, `issued` numbers the random attempt tokens; one action per public method |
| `OperationContract` | abstract promise of owned delivery | what is shown for an operation and how often it took effect |
| `OwnedDelivery` (extends `DistributedJobs`) | agent worker, receipts, transport | `lane` is an execution or reporting thread, `receipts` the agent's table, `calls` the requests that were sent, abandoned ones included |
| `ResponseTransfer` (extends `DistributedJobs`) | `ResponseChunksMixin`, writer in `distributed_http.py` | `chunks`, `transfers` are the tables, `writer` and `reader` the two streams |
| `MsoSync` | `MsoStore` | `hub`, `accepted` on the Mainframe, `rows` and `member` on each agent, `wire`/`waiting`/`reply` the exchange |
| `DiagnosticJobs` | `DiagnosticJobStore` | `rows`, `receipts`, `revision` are the tables; one action per method, without a specification of its own |
| `ReviewedChanges` (extends `DiagnosticJobs`) | scheduler and children of `diagnostic_worker.py`, the change jobs of `switch_order_jobs.py`, `rename_jobs.py`, `fac_cleanup_jobs.py` | `active`/`spawning` the scheduler's memory, `child` and `lock` the processes, `reviews` the signed confirmations, `log` the requests that reached the appliance |
| `AutomationJobs` | job and run tables, `AutomationEngine.process_job`, the scheduler loop, Run now | `rows`, `runs` are tables; `thread` is a future of the scheduler or a web request between two of its transactions; `hold`, `saved`, `overlapped` only remember |
| `AutomationTriggers` | `claim_due`, `record_*`, `set_enabled`, `save`, `enqueue_startup_events` | `row` is the trigger's part of an automation, `check` the check being evaluated with the arming it was claimed in |
| `PiNetworking` | `PiNetworkBroker` and NetworkManager's checkpoint (external) | `current`, `pending`, `files`, `certs` are the disk, `op` the operation that holds the broker's lock, one action per write |
| `UpgradeManager` | `UpgradeManager._launch` and `execute_request` | `code`, `data`, `points`, `lock`, `status` are the disk, `launcher` and `worker` the processes, one action per step a crash can separate; a restore moves each part away and the staged one in, `placed` being the parts it has moved in |
| `AgentGateway` | registry, admission and authorization of calls | `record` is the trust state, `decisions` the registry calls between their SELECT and their UPDATE, `submitting` the requests between the check of the row and the insert of their work, `thread` the listener's threads, `held`/`active` the long-poll budget |
| `DistributedJobsProofs` (with `ResponseTransfer`), `OwnedDeliveryProofs` (on top of it), `MsoSyncProofs`, `ReviewedChangesProofs`, `AutomationJobsProofs`, `PiNetworkingProofs`, `UpgradeManagerProofs`, `AgentGatewayProofs` | | TLAPS proofs about the module of that name |
| `MC*` | | model-checking instances |

Conventions. A store method that runs in one `BEGIN IMMEDIATE` transaction is one
action, and when it raises it rolls back and is the absence of a step; a method
that reads and writes in separate statements (the agent registry, deleting an
automation) is two actions. Files are written one per action.
Deadlines are stored as the ticks left until they pass, so a model has no
unbounded clock. A definition introduced as faulty, or in parentheses, is not
part of a specification: it is what a plausible mistake in that code would be,
and each property is shown to fail when it replaces the original.

## 3. Runs

| Run | Instance | States | Shows |
|---|---|---|---|
| `jobs` | 2 interchangeable jobs, 1 agent, 2 epochs, lease 2, retention 3 | 303k | every safety property of the queue; stale tokens and epochs are tried in every state |
| `delivery` | 2 jobs, 1 lane, receipt table of 1, 1 fault | 1.3M | `OwnedDelivery` implements `OperationContract`; outcomes are true, and a running capability has its receipt |
| `delivery_live` | 1 job, an execution lane and the control loop, 1 fault | 149k | cancellations settle and receipts drain even if a capability never returns; every operation settles if capabilities do |
| `delivery_renewal` | 2 faults | | violation: see findings |
| `transfer` | 2 jobs, bodies of up to 2 chunks, quota 3 | 739k | whole bodies, within the quota |
| `mso` | 2 instances and the Mainframe, 2 objects, pages of 1, 3 edits of one object and 1 of the other, 1 fault | 494k | shared history, drafts, detachment, nothing skipped, convergence |
| `changes` | 2 jobs, a confirmation of a loaded state and one of a rename, history of 2 | 567k | outcomes, reviews and receipts of reviewed changes under crashes of scheduler and children; every job settles |
| `automation_jobs` | 1 job of 2 stages (the second delayed), 2 futures, 1 Run now request, 3 faults | 553k | no doubled work except after Run now, recorded stages and delays kept, settling |
| `automation_triggers` | 1 automation of any kind, 3 occurrences, 3 armings, 2 crashes, 1 failing check | 450k | occurrences, incidents and startups fire once and in order, claimed occurrences resolve |
| `pi_network` | 3 changes, window and grace of a tick, 3 faults | 96k | record, fallback, undo, recovery of the network |
| `upgrade` | 2 launchers, 2 operations, 2 releases, 3 recovery points, retention 1, 2 faults or crashes | 413k | serialization, recovery points, outcome, end |
| `gateway` | 1 agent, 2 racing decisions, 3 threads of which 1 is reserved, 2 relays, 1 fault | 861k | reserve, revocation |

Bounds. `delivery` has one execution lane: the receipt table of 1 is full while an
execution is open or unreported, but two executions do not compete for it; the theorem
`ExecutionAlwaysHasReceipt` covers any number of lanes. Two jobs are enough for the
queue: rows only meet in the sweep, in the choice of the oldest row and in token
uniqueness, which are pairwise. A lease of 2 distinguishes fresh, due next and due.
`MaxFaults` of owned delivery counts timeouts and restarts together; every abandoned
request stays in `calls` and may be served at any later time, so one fault already gives
arbitrarily delayed duplicates. For MSO, three edits give an edit, a competing edit and
an edit on top of a conflict, and the second object makes paging happen. Jobs are
interchangeable and symmetry is used for safety runs only. For reviewed changes, the
initial state may already have a confirmed state loaded by earlier work, so two jobs
give a change between review and use; the scheduler may crash any number of times, and a
child may be killed or raise at every step. `MaxAge` 0 leaves the second in which a
confirmation was issued, which is where its end and the end of its receipt can be
confused.

For automation jobs one row is enough: what the properties compare are threads and
attempts on the same row, and three faults are a stop, a kill and a failing write in
any order (the exclusion between two rows of one automation in `claim_jobs` is
modelled and not exercised by this instance). For triggers three armings are a check
of an old arming meeting a newer one; occurrences at 2, 3 and 5 are adjacent and
apart by the retry delay. Three network changes are a confirmed one, one on top of it
and one after that was undone. In `upgrade`, retention 1 with three points makes
pruning take points an operation might still need; two operations are the least that
race. `MaxFaults` counts steps that raise and crashes of the host together, so two give
an undo that fails, an error handler that fails, a crash in the middle of an undo, and two
crashes. For the gateway, one agent suffices for the share per agent and the reserve,
which are counts over its own threads; two decisions are an approval and a revocation
that overlap.

Fairness. The Mainframe's worker loops for ever over its sweep
(`distributed_worker.main`), and time passes; the listener serves the requests it
accepted; an agent's lanes and control loop are endless loops that act on what they
receive (`_regular_lane`, `_interactive_lane`, `_agent_tick`). Weak fairness on exactly
those steps is assumed, never on a capability's return and never on users;
`EveryOperationSettles` has as its hypothesis that no capability runs for ever. In owned
delivery and in automation faults are finite: after them the network and the worker stay
up. For `changes` the scheduler loop acts on its children, a child ends at its deadline,
and the property supposes that some scheduler stays up in the end. For `automation_jobs`
the scheduler's loop goes on, the pool runs what was submitted, actions end (SSH, syslog
and webhook actions each have a timeout, `automation_types/actions.py` lines 68, 299 and
440) and the supervisor starts a scheduler again; for `automation_triggers` the loop
claims what is due and records what was checked. For `pi_network` the holder of the lock
goes on, the monitor thread polls, and NetworkManager honours its timeout. For `upgrade`
the worker process and a request that is launching an operation go on unless the host
crashes, and time passes (`Age`, two hours): strong fairness, because requests come and
go, each over in a moment compared with those hours, and between them the clock may run.
For `gateway` each thread goes on: a poll has a deadline and a relay checks the approval
on every round.

Deadlock checking is off where the system may come to rest: an instance that left
the fleet has no control loop, and the bounds on jobs, changes and operations use
themselves up.

## 4. Findings

* `delivery_renewal`: the renewer thread is meant to survive lost contact, but it
  catches `OSError` and `ValueError` while the transport raises
  `EnrollmentTransportError`, a `RuntimeError`. One failed renewal ends renewing
  for the rest of the execution, so the lease runs out under a healthy operation
  and the requester sees `unknown` until the result arrives.

Observations the models show and no run reports as a violation:

* Run now (`automation_routes.py:846`) claims a job for 300 seconds and runs it in the
  request without renewing the lease, so a longer pipeline is claimed by the scheduler
  as well and both execute it. `OverlapOnlyAfterRunNow` states that this is the only
  way two threads come to work on one job.
* `docs/distributed-agents.md:85` says that revocation is immediate. A long poll checks
  the approval once, before it waits, so an agent may be handed one operation per open
  poll afterwards; and the registry reads and writes an agent's row in two statements,
  so a racing approval can undo a revocation and a racing enrollment can turn an
  approved or revoked row into a pending one. `RevocationBoundsWork` is the bound that
  does hold.
* After a failing check an automation is armed afresh (`record_error`), so an incident
  that goes on fires again; `EventsFireOnce` is stated for runs of checks without a
  failure.
* The row that keeps "the original deadline" of a response transfer
  (`distributed_response.py:41`) is deleted when the job's payload retention has passed
  (lines 53-54); a later chunk opens a second window.
* The rename preview reads the revision of an origin without its lock
  (`fortigate_routes.py:160`), and the revision moves once per job: a preview taken
  while another job is sending is not outdated by what that job still sends. States
  loaded by a job are not exposed to this (`RevisionCertifiesState`).
* A network change that the broker did not live to publish is undone only by
  NetworkManager's checkpoint, and the next change destroys every checkpoint
  (`pi_network_broker.py:1588`); its profiles then stay (`orphans` in
  `UnconfirmedIsUndone`). A checkpoint that times out under a running operation can
  take down what the record says is managed (`outlived` in `ManagedComesUp`).
* Two launches that both saw a lock two hours old can both take it
  (`upgrade_manager.py:322`); `OperationsAreSerialized` states that this is the only
  way, besides an operation whose cleanup failed.
* The last steps of the upgrade worker's error handler are outside any `try`: the
  diagnostics (`upgrade_manager.py:940`), the status `failed` (line 980) and the removal
  of the lock (line 865, called at 982); so is reading the request (line 830). When one of
  them raises (a full disk; output of `twn status` that does not decode, which `_run` does
  not catch) the live worker exits without `finish()`. The status stays active and the lock
  held, so nothing can be launched for 7200 seconds, and an upgrade whose diagnostics
  raise is not undone, although `docs/upgrade-recovery.md:88` says that a failure
  automatically restores code and data. `EveryOperationEnds` therefore claims a
  final status only of an operation that reaches its end, and of the others that what they
  leave grows old and then keeps no launch out (`Abort`, `LoadFails`, `AtRest`).
* `docs/upgrade-recovery.md:177` says that the toolkit never runs older code against newer
  instance data. That holds of a restore that is announced (`OutcomeIsTrue`). A restore that
  fails for good, or that the host cuts off, between `upgrade_manager.py:630` and 637 leaves
  the code it had moved in over the data as they were, or no instance at all, and a later
  boot starts that: no marker of an unfinished restore is kept and nothing compares the
  version of the code with the migrations of the databases. `Boot` and `Restart` allow it, and
  no property excludes it.

## 5. Proofs

The theorems hold for any sets of jobs, agents, lanes, objects, points and so on, any
limits and any number of faults and crashes, from the named assumptions of the modules;
the runs give those constants values and TLC evaluates the assumptions there. The
assumptions say what the code relies on: limits and retentions are positive, the values
that stand for "none" are not among the real ones, sets that are counted are finite.

Every module of proofs has the same plan. The properties are not inductive, so an
inductive invariant is stated first, a conjunction of named parts (TLC checked each of
them on the module's run before it was proved). Lemmas about the operators on one row,
point, thread or request say what an operation does to it; one lemma per action lifts
this to the whole state; the invariant is then preserved by the case split over `Next`.
The last theorems combine these with the temporal prover.

**`DistributedJobsProofs`** (`IInv`): type correctness and every property of the `jobs`
run. That `cancelled` certifies "never started" needs that `claimed` rows have not
started, fencing needs that active rows carry the current epoch, and token uniqueness
needs that tokens are below the counter. `IInv` is therefore a condition on each row
relative to the activation of its agent and to `issued`, and uniqueness of tokens.
`NeverRepeated` and `OutcomesAreFinal` are action properties proved from it: each
lemma about a row function also says how it may move a row.

The same module proves the two properties of `ResponseTransfer` (`TransferInv`, on top of
`IInv`). What is stored of a body, and what a reader holds, are its first chunks without a
gap, written by one attempt of one started job. A reader opens only when the outcome is
final, so from then on neither the accepted count nor the descriptor moves, and a body
that is replaced or purged under it ends the download instead of lengthening it. Storage
is the number of rows of the chunk table, and every write counts them before it adds one.

**`OwnedDeliveryProofs`** (`DeliveryInv`): `OutcomesAreTrue`, `ExecutionHasReceipt`, and
that `OwnedDelivery` implements `OperationContract`, step by step: each step of the
queue, the agent or the network is, for each operation, a step of the contract or a
stutter. A job leaves the queue once, so at most one lane carries it, as the answer
to a poll or as the work in hand, however many requests were repeated or abandoned. The
carrier invokes the capability when its open start request was answered "running", and
the row gives that answer once; what a lane, a receipt, a report in flight or a row
says of an outcome is then true when it is written, and `Never` (nobody will invoke it
any more) keeps it true. `EpochsAssumption` says that activation epochs are numbered in
the order the agent draws them, from a first one.

**`MsoSyncProofs`** (`MsoInv`, `OwnInv`): `HistoryIsShared`, `LeavingDetaches`,
`NothingIsSkipped` and the action property `DraftsAreKept`. Compare-and-swap makes the
accepted proposals of an object one chain that ends in the shared revision (`HubOK`,
`HistoryOK`), and everything that travels, is shown as a conflict or is held as synced
is a link of it (`RowFits`). Nothing is skipped because a page is complete up to the
cursor it announces (a counting argument about the batch: `FirstAfter`) and because a
reply that still counts answers the request with the agent's present cursor
(`WaitingOK`, `ReplyOK`).

`NoConflictWithItself` is proved on top of it (`OwnInv`) under the hypothesis
`[]EditsFit`, that the pending edits of an agent always fit one exchange, and not without:
with `Batch = 1`, two pending objects and two timeouts TLC finds an agent shown its own
edit. When they fit, every request repeats whatever is in flight and every reply answers
it, so a proposal leaves its row only as accepted or as one the Mainframe will refuse for
ever, and what an agent had accepted in its membership is never newer than its row
(`RowOwn`). A deletion closes its row, so no draft is based on the end of a chain. An edit
of an earlier membership is not covered: an abandoned request of a membership that ended
may still be accepted, and the agent that has joined again meets it as anybody's edit.

**`ReviewedChangesProofs`** (`ReviewedInv`): `FailedMeansUntouched`,
`RevisionCertifiesState`, `OneJobPerReview` and the action property `ReviewsAreCurrent`.
The revision is the name of the job that last announced a change; a job announces only
inside the lock, before it sends, and its name is loaded by others only after it left
the lock for good. The intent is durable before the request leaves. A confirmation
serves one job because its receipt outlives its signature, to the tick.

**`AutomationJobsProofs`** (`JobsInv`): `OverlapOnlyAfterRunNow` and
`StagesKeepTheirPlace`. A job has one thread, except when it was claimed over the head of
a Run now request (`PairOK`); on a job that two threads never worked on, thread, row and
history agree about the next stage and the delay still to be served (`WorkerOK`,
`PlaceOK`), through late renewals, kills and restarts.

**`PiNetworkingProofs`** (`PiInv`): `RecordIsConfirmed` and `FallbackIsWhole`. Both
hold between the writes of an operation only because of what it has already done, so
`OperationOK` says for every step of the lock holder how its change relates to the change
on disk, to the record and to NetworkManager's checkpoint. A crash forgets the holder, and
what is left is `PendingOK`.

**`UpgradeManagerProofs`** (`UpgradeInv`): `OperationsAreSerialized`, `PointsAreWhole`
and the action property `OutcomeIsTrue`. While nothing was excused, the launchers that
took the lock and the live workers are together at most one, and the lock file is there
for it (`LockOK`). A listed recovery point is what was found when services were stopped
(`PointsOK`). By the place a worker has reached, `WorkersOK` says how code, data, services,
its recovery point and the status relate; in a restore, that the parts of the code it has
moved in are those of its recovery point. That last part supposes that the worker is alone,
which is the bound under which the model steps its workers.

**`AgentGatewayProofs`** (`GatewayInv`): `ReserveIsKept` and `RevocationBoundsWork`.
Both count threads: the budget is the number of threads that wait, because every way out
of the wait gives its slot back, and what an agent is handed after it lost its approval
is bounded by the polls that had passed the check, each of which hands out at most once.
Work queued on the strength of a check made before the revocation does not loosen the
bound, which is on what is handed out.

What stays with TLC. Liveness (`CancellationSettles`, `ReceiptsDrain`,
`EveryOperationSettles`, `Converges`, `EveryRunSettles`, `EveryJobSettles`,
`PendingResolves`, `UnconfirmedIsUndone`, `ManagedComesUp`, `EveryOperationEnds`,
`RevokedIsCutOff`): the prover handles neither fairness nor `ENABLED`. Of the safety
properties, those of `AutomationTriggers` are model-checked only.

## 6. Left out of the modelled components

Operation queue: the check that a caller is the requester, migration of old
schemas, wall-clock steps backwards. Owned delivery: certificate renewal, disk errors
while a receipt is written. Reviewed changes: several users and several origins, the
age limit of history (any settled row may be deleted at any time), changes by other
administrators, a request that takes effect after the connection was lost; a job
without a confirmation stands for every job that only reads. MSO: names and their
collisions, dependencies between kinds, projection into the local stores, role
changes of the Mainframe, receipt pruning at 10,000 rows. With more pending edits
than fit one exchange, a proposal in flight can be displaced from the next
request, and its late acceptance then shows up as a conflict of the instance with
its own edit; `NoConflictWithItself` is stated and proved for edits that fit, and checked
within one fault.

Automation: what actions and conditions do, condition groups, manual triggers other than
Run now, retention of runs by age, live tools that share the scheduler process. A
stage's outcome is any of its statuses. Pi networking: validation of a plan, access
points, radio state, the contents of profiles and certificates; every command may fail
and leaves what it had done. Upgrades: bundle signatures, the setup guard, the deferred
service reload, the bytes of a file half written; a worker's steps are modelled while it
is the only worker, and the host boots only when no worker is left. Gateway: the
enrollment window, pairing codes, certificates' expiry and renewal, several agents
sharing the budget.

Not modelled at all: the parts `PROJECT.json` lists so. The network and appliance
tools, the web interface, the setup shell, the file servers' protocols and the macOS
broker make up most of the source lines; they are parsers, formatters, protocol
clients and forms with no state of their own that an interleaving or a failure could
spoil, and a model of them would repeat the code.

## 7. Plan

1. Remote sessions and live tools: owners, idle limits and worker processes.
2. Admission slots, uploads and file transactions, login throttle, supervision.
3. Certificate enrollment and bulk SSH as further kinds of `ReviewedChanges`.
4. MSO names, dependencies and projection.
5. Proofs: the properties of `AutomationTriggers`.
