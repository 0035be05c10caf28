--------------------------- MODULE UpgradeManager ---------------------------
(***************************************************************************)
(* Upgrade, backup and rollback of an installation (upgrade_manager.py).   *)
(*                                                                         *)
(* A web request or the command line launches an operation: it takes the   *)
(* operation lock, a file created with O_EXCL, and starts a worker         *)
(* process.  The worker stops the services, copies code and instance data  *)
(* into a recovery point, replaces the code, starts and validates the new  *)
(* version, and on any failure restores the recovery point.  Progress is   *)
(* one status file; lock, status and recovery points survive a crash, the  *)
(* worker and the launchers do not.                                        *)
(*                                                                         *)
(* Code is two parts replaced one after the other; the version check reads *)
(* part 1 only.  Instance data is the schema version the started code has  *)
(* migrated it to and the number of edits users have made.                 *)
(***************************************************************************)
EXTENDS Naturals, FiniteSets

CONSTANTS
    Launchers,    \* concurrent web requests and command line runs
    MaxVersion,   \* releases are 1..MaxVersion
    MaxOps,       \* bound: operations launched or being launched
    MaxPoints,    \* bound: recovery points created
    Retention,    \* BACKUP_RETENTION
    MaxEdits,     \* bound: edits users make
    MaxFaults     \* bound: steps that raise or fail and crashes of the host, together

ASSUME BoundsAssumption ==
    /\ MaxVersion \in Nat \ {0} /\ MaxOps \in Nat /\ MaxPoints \in Nat
    /\ Retention \in Nat \ {0} /\ MaxEdits \in Nat
    /\ MaxFaults \in Nat

VARIABLES
    code,      \* version of each part of the installed code
    data,      \* [schema, edits] of the instance directory
    web,       \* version the running services were started from; 0: stopped
    points,    \* recovery points, by number
    newer,     \* of each recovery point directory, those modified after it
    lock,      \* [held, old]: operation.lock and whether it is 7200 s old
    status,    \* status.json
    launcher,  \* progress of each call of _launch
    worker,    \* the worker process of each operation
    faults,
    excused    \* ghost: the lock of an operation still under way was removed

vars == <<code, data, web, points, newer, lock, status, launcher, worker,
          faults, excused>>
disk == <<code, data, points, newer>>

Parts == 1..2
Versions == 1..MaxVersion
Ops == 1..MaxOps
Points == 1..MaxPoints
NULL == 0

ACTIVE_STATES == {"starting", "stopping", "backing_up", "installing",
                  "validating", "rolling_back"}

NoCode == [i \in Parts |-> NULL]
NoData == [schema |-> NULL, edits |-> NULL]
NotFound == [code |-> NoCode, data |-> NoData]
NoPoint == [made |-> FALSE, gone |-> FALSE, listed |-> FALSE, torn |-> FALSE,
            code |-> NoCode, data |-> NoData, from |-> NULL, found |-> NotFound]
Removed == [NoPoint EXCEPT !.gone = TRUE]   \* a name is never used again
NoWorker == [pc |-> "none", kind |-> "backup", from |-> NULL, target |-> NULL,
             point |-> NULL, stopped |-> FALSE, undo |-> FALSE, placed |-> {},
             found |-> NotFound]
Idle == [pc |-> "idle", kind |-> "backup", from |-> NULL, target |-> NULL,
         point |-> NULL]

Ended(pc) == [NoWorker EXCEPT !.pc = pc]
\* A worker ends its operation, is killed with the host, or exits on an
\* exception that nothing catches.
Gone == {"none", "done", "dead", "aborted"}
Live == {o \in Ops : worker[o].pc \notin Gone}
Complete == \A i \in Parts : code[i] # NULL   \* else nothing starts or loads
Launched == {o \in Ops : worker[o].pc # "none"}
Launching == {l \in Launchers : launcher[l].pc # "idle"}
Active(s) == s.state \in ACTIVE_STATES

\* Bound: what two workers alive together do to each other is not explored.
Alone == Cardinality(Live) <= 1
At(l, pc) == Alone /\ launcher[l].pc = pc
Runs(o, pc) == Alone /\ worker[o].pc = pc

FreshLock == [held |-> TRUE, old |-> FALSE]
NoLock == [held |-> FALSE, old |-> FALSE]

\* What earlier operations left: a recovery point, and perhaps the lock and the
\* status of an operation that a crash cut off hours ago.
Earlier == [NoPoint EXCEPT !.made = TRUE, !.listed = TRUE, !.code = [i \in Parts |-> 1],
                           !.data = [schema |-> 1, edits |-> 0], !.from = 1,
                           !.found = [code |-> [i \in Parts |-> 1],
                                      data |-> [schema |-> 1, edits |-> 0]]]

Init ==
    /\ code = [i \in Parts |-> 1]
    /\ data = [schema |-> 1, edits |-> 0]
    /\ web = 1
    /\ points = [p \in Points |-> IF p = 1 THEN Earlier ELSE NoPoint]
    /\ newer = [p \in Points |-> {}]
    /\ \/ /\ lock = NoLock
          /\ status = [state |-> "none", op |-> NULL, backup |-> NULL, old |-> FALSE]
       \/ /\ lock = [held |-> TRUE, old |-> TRUE]
          /\ status = [state |-> "stopping", op |-> NULL, backup |-> NULL, old |-> TRUE]
    /\ launcher = [l \in Launchers |-> Idle]
    /\ worker = [o \in Ops |-> NoWorker]
    /\ faults = 0
    /\ excused = FALSE

-----------------------------------------------------------------------------
(* Launching an operation.                                                 *)

\* The status a launcher refuses to start over.
RecentlyActive == Active(status) /\ ~status.old

\* backups(): the recovery points a rollback may name.
Listed(p) == points[p].made /\ points[p].listed

\* launch_upgrade, launch_backup, launch_rollback and the status check of _launch.
Check(l) ==
    /\ At(l, "idle")
    /\ ~RecentlyActive
    /\ web # NULL \/ Complete
    /\ LET from == IF web # NULL THEN web ELSE code[1] IN
       \E r \in [pc : {"open"}, kind : {"backup"}, from : {from},
                 target : {from}, point : {NULL}]
            \cup [pc : {"open"}, kind : {"upgrade"}, from : {from},
                  target : {v \in Versions : v > from}, point : {NULL}]
            \cup {[pc |-> "open", kind |-> "rollback", from |-> from,
                   target |-> points[p].from, point |-> p] : p \in {q \in Points : Listed(q)}} :
            launcher' = [launcher EXCEPT ![l] = r]
    /\ Cardinality(Launched) + Cardinality(Launching) < MaxOps
    /\ UNCHANGED <<disk, web, lock, status, worker, faults, excused>>

\* (An open without O_EXCL.)
TryLockShared(l) ==
    /\ At(l, "open")
    /\ lock' = FreshLock
    /\ launcher' = [launcher EXCEPT ![l].pc = "locked"]
    /\ UNCHANGED <<disk, web, status, worker, faults, excused>>

\* The first open: refused unless the lock is free or stale.
TryLock(l) ==
    /\ At(l, "open")
    /\ lock' = IF lock.held THEN lock ELSE FreshLock
    /\ launcher' = IF ~lock.held THEN [launcher EXCEPT ![l].pc = "locked"]
                   ELSE IF lock.old THEN [launcher EXCEPT ![l].pc = "takeover"]
                   ELSE [launcher EXCEPT ![l] = Idle]
    /\ UNCHANGED <<disk, web, status, worker, faults, excused>>

\* The operation of the lock is still under way.
Held == Live # {} \/ \E l \in Launchers : launcher[l].pc = "locked"

\* The lock was seen stale: remove whatever lock is there now.
Takeover(l) ==
    /\ At(l, "takeover")
    /\ launcher' = [launcher EXCEPT ![l].pc = "reopen"]
    /\ lock' = NoLock
    /\ excused' = (excused \/ (lock.held /\ Held))
    /\ UNCHANGED <<disk, web, status, worker, faults>>

Reopen(l) ==
    /\ At(l, "reopen")
    /\ lock' = IF lock.held THEN lock ELSE FreshLock
    /\ launcher' = [launcher EXCEPT ![l] = IF lock.held THEN Idle ELSE [@ EXCEPT !.pc = "locked"]]
    /\ UNCHANGED <<disk, web, status, worker, faults, excused>>

NewStatus(s, o, p) == [state |-> s, op |-> o, backup |-> p, old |-> FALSE]

\* The request and the status "starting" are written and the worker is started.
Spawn(l) ==
    /\ At(l, "locked")
    /\ \E o \in Ops \ Launched :
        /\ \A q \in Ops \ Launched : o <= q
        /\ worker' = [worker EXCEPT ![o] =
               [NoWorker EXCEPT !.pc = "spawned", !.kind = launcher[l].kind,
                                !.from = launcher[l].from, !.target = launcher[l].target,
                                !.point = launcher[l].point]]
        /\ status' = NewStatus("starting", o, NULL)
    /\ launcher' = [launcher EXCEPT ![l] = Idle]
    /\ UNCHANGED <<disk, web, lock, faults, excused>>

\* Writing the request or the status or starting the worker raises: the lock
\* goes first, the status after it.
SpawnFails(l) ==
    /\ At(l, "locked")
    /\ faults < MaxFaults
    /\ faults' = faults + 1
    /\ lock' = NoLock
    /\ status' \in {status, NewStatus("starting", NULL, NULL)}
    /\ launcher' = [launcher EXCEPT ![l].pc = "report"]
    /\ UNCHANGED <<disk, web, worker, excused>>

Report(l) ==
    /\ At(l, "report")
    /\ status' = NewStatus("failed", NULL, NULL)
    /\ launcher' = [launcher EXCEPT ![l] = Idle]
    /\ UNCHANGED <<disk, web, lock, worker, faults, excused>>

\* The write of that status raises as well.
ReportRaises(l) ==
    /\ At(l, "report")
    /\ faults < MaxFaults
    /\ faults' = faults + 1
    /\ launcher' = [launcher EXCEPT ![l] = Idle]
    /\ UNCHANGED <<disk, web, lock, status, worker, excused>>

-----------------------------------------------------------------------------
(* The worker: execute_request.                                            *)

Goto(o, pc) == worker' = [worker EXCEPT ![o].pc = pc]

\* Recovery point p is modified, or removed.
Newest(p) == [q \in Points |-> IF q = p \/ ~points[q].made THEN {} ELSE newer[q] \cup {p}]
Without(p) == [q \in Points |-> IF q = p THEN {} ELSE newer[q] \ {p}]

\* Starting the services migrates the data to the schema of the started code.
Migrated(d) == [d EXCEPT !.schema = IF code[1] > @ THEN code[1] ELSE @]

\* _verify_backup: the integrity manifest is there and still true.
Intact(p) == Listed(p) /\ ~points[p].torn

\* A rollback verifies its recovery point before anything is stopped.
Begin(o) ==
    /\ Runs(o, "spawned")
    /\ Complete
    /\ worker[o].kind = "rollback" => Intact(worker[o].point)
    /\ status' = NewStatus("stopping", o, NULL)
    /\ Goto(o, "stopping")
    /\ UNCHANGED <<disk, web, lock, launcher, faults, excused>>

\* With a part of the code missing the worker does not get as far as its request.
LoadFails(o) ==
    /\ Runs(o, "spawned")
    /\ ~Complete
    /\ worker' = [worker EXCEPT ![o] = Ended("aborted")]
    /\ UNCHANGED <<disk, web, lock, status, launcher, faults, excused>>

\* twn stop succeeded; what the services leave behind is what was found.
StopServices(o) ==
    /\ Runs(o, "stopping")
    /\ web' = NULL
    /\ LET restoring == worker[o].kind = "rollback" IN
       /\ status' = NewStatus(IF restoring THEN "rolling_back" ELSE "backing_up", o, NULL)
       /\ worker' = [worker EXCEPT
              ![o].pc = IF restoring THEN "restore" ELSE "copy_code",
              ![o].stopped = TRUE,
              ![o].found = [code |-> code, data |-> data]]
    /\ UNCHANGED <<disk, lock, launcher, faults, excused>>

Unused(p) == ~points[p].made /\ ~points[p].gone

\* _create_backup makes a directory and copies the code,
CopyCode(o) ==
    /\ Runs(o, "copy_code")
    /\ \E p \in Points :
        /\ Unused(p) /\ \A q \in Points : Unused(q) => p <= q
        /\ points' = [points EXCEPT ![p] =
               [NoPoint EXCEPT !.made = TRUE, !.code = code,
                               !.from = worker[o].from, !.found = worker[o].found]]
        /\ newer' = Newest(p)
        /\ worker' = [worker EXCEPT ![o].pc = "copy_data", ![o].point = p]
    /\ UNCHANGED <<code, data, web, lock, status, launcher, faults, excused>>

\* then the instance,
CopyData(o) ==
    /\ Runs(o, "copy_data")
    /\ points' = [points EXCEPT ![worker[o].point].data = data]
    /\ Goto(o, "seal")
    /\ UNCHANGED <<code, data, newer, web, lock, status, launcher, faults, excused>>

\* and last the integrity manifest and the metadata that list it.
Seal(o) ==
    /\ Runs(o, "seal")
    /\ points' = [points EXCEPT ![worker[o].point].listed = TRUE]
    /\ newer' = Newest(worker[o].point)
    /\ Goto(o, IF worker[o].kind = "backup" THEN "start" ELSE "bundle")
    /\ UNCHANGED <<code, data, web, lock, status, launcher, faults, excused>>

\* The bundle is validated again and the status names the recovery point.
Prepare(o) ==
    /\ Runs(o, "bundle")
    /\ status' = NewStatus("installing", o, worker[o].point)
    /\ Goto(o, "apply")
    /\ UNCHANGED <<disk, web, lock, launcher, faults, excused>>

\* _extract_and_apply replaces the files one by one.
Apply(o) ==
    /\ Runs(o, "apply")
    /\ \E i \in Parts :
        /\ code[i] # worker[o].target
        /\ code' = [code EXCEPT ![i] = worker[o].target]
    /\ UNCHANGED <<data, points, newer, web, lock, status, launcher, worker,
                   faults, excused>>

Applied(o) ==
    /\ Runs(o, "apply")
    /\ \A i \in Parts : code[i] = worker[o].target
    /\ status' = NewStatus("validating", o, worker[o].point)
    /\ Goto(o, "start")
    /\ UNCHANGED <<disk, web, lock, launcher, faults, excused>>

\* The version _install_and_validate expects.
Expected(w) == IF w.undo \/ w.kind = "backup" THEN w.from ELSE w.target

\* install.sh or twn start
Start(o) ==
    /\ Runs(o, "start")
    /\ web' = code[1]
    /\ data' = Migrated(data)
    /\ Goto(o, "validate")
    /\ UNCHANGED <<code, points, newer, lock, status, launcher, faults, excused>>

Outcome(w) == IF w.undo \/ w.kind = "rollback" THEN "rolled_back"
              ELSE IF w.kind = "backup" THEN "backup_created" ELSE "succeeded"

\* The started version is the expected one and healthy: the outcome is written.
Validate(o) ==
    /\ Runs(o, "validate")
    /\ code[1] = Expected(worker[o])
    /\ status' = NewStatus(Outcome(worker[o]), o, worker[o].point)
    /\ Goto(o, IF Outcome(worker[o]) = "succeeded" THEN "prune" ELSE "finish")
    /\ UNCHANGED <<disk, web, lock, launcher, faults, excused>>

\* The recovery points beyond the newest, by modification time.  (OldestKept
\* sorts the other way.)
OldestKept(S) == {p \in S : Cardinality({q \in S : p \in newer[q]}) >= Retention}
Surplus(S) == {p \in S : Cardinality({q \in S : q \in newer[p]}) >= Retention}
ListedPoints == {p \in Points : Listed(p)}

\* One surplus recovery point is removed; an error leaves part of it behind.
Prune(o) ==
    /\ Runs(o, "prune")
    /\ \E p \in {q \in Surplus(ListedPoints) : ~points[q].torn} :
        \/ /\ points' = [points EXCEPT ![p] = Removed]
           /\ newer' = Without(p)
           /\ UNCHANGED faults
        \/ /\ faults < MaxFaults
           /\ faults' = faults + 1
           /\ points' = [points EXCEPT ![p].torn = TRUE]
           /\ UNCHANGED newer
    /\ UNCHANGED <<code, data, web, lock, status, launcher, worker, excused>>

Pruned(o) ==
    /\ Runs(o, "prune")
    /\ \A p \in Surplus(ListedPoints) : points[p].torn
    /\ Goto(o, "finish")
    /\ UNCHANGED <<disk, web, lock, status, launcher, faults, excused>>

\* finish(): the lock goes last, whoever holds it.
Finish(o) ==
    /\ Runs(o, "finish") \/ Runs(o, "failed")
    /\ lock' = NoLock
    /\ worker' = [worker EXCEPT ![o] = Ended("done")]
    /\ UNCHANGED <<disk, web, status, launcher, faults, excused>>

-----------------------------------------------------------------------------
(* Failures.                                                               *)

Creating == {"copy_data", "seal"}

\* A recovery point that fails while it is made is removed.
Discarded(w) == w.pc \in Creating /\ w.kind # "rollback"

\* The variable `backup` is bound once _create_backup has returned.
Backup(w) == IF w.point # NULL /\ w.pc \notin Creating THEN w.point ELSE NULL

\* The new code is in place; the handler collects diagnostics first.
TargetApplied(w) == /\ w.kind = "upgrade" /\ ~w.undo
                    /\ w.pc \in {"start", "validate", "prune", "finish"}

\* Where an exception goes: the handler, or the except inside it.
Caught(w) == [w EXCEPT !.pc = IF w.undo THEN "fail"
                              ELSE IF TargetApplied(w) THEN "diagnose" ELSE "raised",
                       !.point = Backup(w)]

\* A step inside one of the two try blocks raises.  A twn stop that fails may
\* have stopped the services; a cleanup that fails drops the lock all the same,
\* unless it is the lock that cannot be removed.
Raise(o) ==
    /\ Alone
    /\ worker[o].pc \in {"spawned", "stopping", "copy_code", "copy_data", "seal", "bundle",
                         "apply", "undo_stop", "restore", "swap", "place_data", "start",
                         "validate", "prune", "finish"}
    /\ worker[o].pc = "spawned" => Complete
    /\ faults < MaxFaults
    /\ faults' = faults + 1
    /\ worker' = [worker EXCEPT ![o] = Caught(@)]
    /\ IF Discarded(worker[o])
       THEN /\ points' = [points EXCEPT ![worker[o].point] = Removed]
            /\ newer' = Without(worker[o].point)
       ELSE UNCHANGED <<points, newer>>
    /\ web' \in IF worker[o].pc \in {"stopping", "undo_stop"} THEN {web, NULL} ELSE {web}
    /\ lock' \in IF worker[o].pc = "finish" THEN {NoLock, lock} ELSE {lock}
    /\ excused' = (excused \/ worker[o].pc = "finish")
    /\ UNCHANGED <<code, data, status, launcher>>

\* A step outside them raises: reading the request, collecting diagnostics,
\* writing the status "failed", removing the lock at the end.  The process exits
\* as it stands, without finish().
Abort(o) ==
    /\ Alone
    /\ worker[o].pc \in {"spawned", "diagnose", "fail", "failed"}
    /\ faults < MaxFaults
    /\ faults' = faults + 1
    /\ worker' = [worker EXCEPT ![o] = Ended("aborted")]
    /\ UNCHANGED <<disk, web, lock, status, launcher, excused>>

\* A check that fails without a fault: a torn recovery point, a wrong version.
Refuse(o) ==
    /\ Alone
    /\ \/ /\ worker[o].pc \in {"spawned", "restore"}
          /\ worker[o].pc = "spawned" => Complete
          /\ worker[o].point # NULL /\ ~Intact(worker[o].point)
       \/ worker[o].pc = "validate" /\ code[1] # Expected(worker[o])
    /\ worker' = [worker EXCEPT ![o] = Caught(@)]
    /\ UNCHANGED <<disk, web, lock, status, launcher, faults, excused>>

Diagnose(o) ==
    /\ Runs(o, "diagnose")
    /\ Goto(o, "raised")
    /\ UNCHANGED <<disk, web, lock, status, launcher, faults, excused>>

\* The handler of an upgrade that has its recovery point: undo it, unless the
\* status of the undo cannot be written.
Undo(o) ==
    /\ Runs(o, "raised")
    /\ worker[o].kind = "upgrade" /\ worker[o].point # NULL
    /\ points[worker[o].point].made
    /\ \/ /\ status' = NewStatus("rolling_back", o, worker[o].point)
          /\ worker' = [worker EXCEPT ![o].pc = "undo_stop", ![o].undo = TRUE]
          /\ UNCHANGED faults
       \/ /\ faults < MaxFaults /\ faults' = faults + 1
          /\ Goto(o, "fail")
          /\ UNCHANGED status
    /\ UNCHANGED <<disk, web, lock, launcher, excused>>

\* Its twn stop may fail unnoticed.
UndoStop(o) ==
    /\ Runs(o, "undo_stop")
    /\ \/ web' = NULL /\ UNCHANGED faults
       \/ faults < MaxFaults /\ faults' = faults + 1 /\ UNCHANGED web
    /\ Goto(o, "restore")
    /\ UNCHANGED <<disk, lock, status, launcher, excused>>

\* Otherwise stopped services are started again, whatever comes of it.
Restart(o) ==
    /\ Runs(o, "raised")
    /\ ~(worker[o].kind = "upgrade" /\ worker[o].point # NULL /\ points[worker[o].point].made)
    /\ IF worker[o].stopped /\ worker[o].kind # "rollback"
       THEN \/ web' = code[1] /\ data' = Migrated(data) /\ UNCHANGED faults
            \/ faults < MaxFaults /\ faults' = faults + 1 /\ UNCHANGED <<web, data>>
       ELSE UNCHANGED <<web, data, faults>>
    /\ Goto(o, "fail")
    /\ UNCHANGED <<code, points, newer, lock, status, launcher, excused>>

\* (A handler that writes no status.)
FailSilently(o) ==
    /\ Runs(o, "fail")
    /\ Goto(o, "failed")
    /\ UNCHANGED <<disk, web, lock, status, launcher, faults, excused>>

\* The handler ends with the status "failed".
Fail(o) ==
    /\ Runs(o, "fail")
    /\ status' = NewStatus("failed", o, worker[o].point)
    /\ Goto(o, "failed")
    /\ UNCHANGED <<disk, web, lock, launcher, faults, excused>>

-----------------------------------------------------------------------------
(* Restoring a recovery point: _restore_backup.                            *)

\* The verified copy is staged; the directory for what it displaces is made
\* inside the recovery point, which becomes the newest.
Stage(o) ==
    /\ Runs(o, "restore")
    /\ Intact(worker[o].point)
    /\ newer' = Newest(worker[o].point)
    /\ worker' = [worker EXCEPT ![o].pc = "swap", ![o].placed = {}]
    /\ UNCHANGED <<code, data, points, web, lock, status, launcher, faults, excused>>

\* Part by part, what is installed is moved away, if it is there, and the staged
\* part moved in;
SwapCode(o) ==
    /\ Runs(o, "swap")
    /\ \E i \in Parts \ worker[o].placed :
        \/ /\ \A j \in Parts \ worker[o].placed : code[j] # NULL
           /\ code' = [code EXCEPT ![i] = NULL]
           /\ UNCHANGED worker
        \/ /\ code[i] = NULL
           /\ code' = [code EXCEPT ![i] = points[worker[o].point].code[i]]
           /\ worker' = [worker EXCEPT ![o].placed = @ \cup {i}]
    /\ UNCHANGED <<data, points, newer, web, lock, status, launcher,
                   faults, excused>>

\* (A restore that leaves the instance as it is.)
DisplaceNever(o) ==
    /\ Runs(o, "swap")
    /\ worker[o].placed = Parts
    /\ Goto(o, "start")
    /\ UNCHANGED <<disk, web, lock, status, launcher, faults, excused>>

\* then the instance is moved away
Displace(o) ==
    /\ Runs(o, "swap")
    /\ worker[o].placed = Parts
    /\ data' = NoData
    /\ Goto(o, "place_data")
    /\ UNCHANGED <<code, points, newer, web, lock, status, launcher, faults, excused>>

\* and the staged one moved in.
SwapData(o) ==
    /\ Runs(o, "place_data")
    /\ data' = points[worker[o].point].data
    /\ Goto(o, "start")
    /\ UNCHANGED <<code, points, newer, web, lock, status, launcher, faults, excused>>

-----------------------------------------------------------------------------
(* The host.                                                               *)

\* Users change the data while the services run.
Edit ==
    /\ Alone
    /\ web # NULL /\ data # NoData
    /\ data.edits < MaxEdits
    /\ data' = [data EXCEPT !.edits = @ + 1]
    /\ UNCHANGED <<code, points, newer, web, lock, status, launcher, worker,
                   faults, excused>>

Crash ==
    /\ Alone
    /\ faults < MaxFaults
    /\ faults' = faults + 1
    /\ web' = NULL
    /\ launcher' = [l \in Launchers |-> Idle]
    /\ worker' = [o \in Ops |-> IF o \in Live THEN Ended("dead") ELSE worker[o]]
    /\ UNCHANGED <<disk, lock, status, excused>>

\* Services left stopped are started at boot or by the operator; without an
\* instance they make a new one.
Boot ==
    /\ web = NULL /\ Complete
    /\ Live = {}
    /\ web' = code[1]
    /\ data' = Migrated(data)
    /\ UNCHANGED <<code, points, newer, lock, status, launcher, worker, faults, excused>>

\* Two hours pass: a launcher takes no such time, nor does a step of a worker
\* that has a timeout; copying has none.
Age ==
    /\ Alone
    /\ \A l \in Launchers : launcher[l].pc = "idle"
    /\ \A o \in Live : worker[o].pc \in {"copy_code", "copy_data", "seal", "restore"}
    /\ (lock.held /\ ~lock.old) \/ (Active(status) /\ ~status.old)
    /\ lock' = [lock EXCEPT !.old = lock.held]
    /\ status' = [status EXCEPT !.old = Active(status)]
    /\ UNCHANGED <<disk, web, launcher, worker, faults, excused>>

-----------------------------------------------------------------------------
LauncherStep(l) == \/ TryLock(l) \/ Takeover(l) \/ Reopen(l) \/ Spawn(l) \/ Report(l)

WorkerStep(o) ==
    \/ Begin(o) \/ LoadFails(o) \/ StopServices(o) \/ CopyCode(o) \/ CopyData(o) \/ Seal(o)
    \/ Prepare(o) \/ Apply(o) \/ Applied(o) \/ Start(o) \/ Validate(o)
    \/ Prune(o) \/ Pruned(o) \/ Finish(o)
    \/ Refuse(o) \/ Diagnose(o) \/ Undo(o) \/ UndoStop(o) \/ Restart(o) \/ Fail(o)
    \/ Stage(o) \/ SwapCode(o) \/ Displace(o) \/ SwapData(o)

Next ==
    \/ \E l \in Launchers : Check(l) \/ LauncherStep(l) \/ SpawnFails(l) \/ ReportRaises(l)
    \/ \E o \in Ops : WorkerStep(o) \/ Raise(o) \/ Abort(o)
    \/ Edit \/ Crash \/ Boot \/ Age

Spec == Init /\ [][Next]_vars

\* A worker is a running process: it goes on until it ends or is killed.  So is
\* the one that handles a request.  Time passes between requests, however many
\* are tried.
Fairness ==
    /\ WF_vars(\E o \in Live : WorkerStep(o))
    /\ \A l \in Launchers : WF_vars(LauncherStep(l))
    /\ SF_vars(Age)

FairSpec == Spec /\ Fairness

-----------------------------------------------------------------------------
(* Properties.                                                             *)

\* operation.lock serializes operations: two workers are alive together only
\* after a launcher, having seen a lock two hours old, removed the lock of an
\* operation still under way, or after the cleanup of an operation failed
\* (_launch, finish).
OperationsAreSerialized == ~Alone => excused

\* A recovery point a rollback can be asked for and that passes its check is
\* what the stopped services left, code and data alike, whatever failed or
\* crashed while it was made; and the one the status names for an upgrade,
\* installed, undone or interrupted, is such a point (_create_backup, prune).
PointsAreWhole ==
    /\ \A p \in Points : Intact(p) =>
           [code |-> points[p].code, data |-> points[p].data] = points[p].found
    /\ status.backup # NULL /\ status.state # "failed" => Intact(status.backup)

\* The outcome written is true of the installation: an upgrade that succeeded
\* left every part at the target; a restore left code and data of the recovery
\* point together, the data at most migrated by that code (execute_request).
OutcomeStep ==
    status'.state # status.state =>
        LET o == status'.op IN
        /\ status'.state = "succeeded" => \A i \in Parts : code[i] = worker[o].target
        /\ status'.state = "rolled_back" =>
               LET p == points[status'.backup] IN
               /\ code = p.code
               /\ data.schema = Migrated(p.data).schema

OutcomeIsTrue == [][OutcomeStep]_vars

\* No worker is left, an operation that reached its end is not shown as active,
\* and nothing keeps a launch out: lock and active status are gone or two hours old.
AtRest ==
    /\ Live = {}
    /\ Active(status) /\ status.op # NULL => worker[status.op].pc # "done"
    /\ Active(status) => status.old
    /\ lock.held => lock.old

\* Every operation gets as far as a final status and finish(), whatever raises
\* inside the try blocks of execute_request.  One whose worker is killed, cannot
\* load, or raises before or after those blocks (reading the request, diagnostics,
\* the status "failed", the removal of the lock) may leave an active status and
\* the lock, but not for good: they grow old, and a later launch gets through.
EveryOperationEnds == Live # {} ~> (~Alone \/ AtRest)
=============================================================================
