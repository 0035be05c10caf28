------------------------- MODULE UpgradeManagerProofs -------------------------
(***************************************************************************)
(* Proofs about UpgradeManager: operations are serialized, recovery points *)
(* are whole and the outcome that is shown is true of the installation,    *)
(* for any number of launchers, operations, releases, recovery points,     *)
(* faults and crashes.                                                     *)
(*                                                                         *)
(* The inductive invariant has three parts.  Who may own the lock: while   *)
(* nothing was excused, the launchers that took it and the workers that    *)
(* run are together at most one, and the lock file is there for it.  What  *)
(* a recovery point is: one that is listed equals what was found.  And, by *)
(* the place a worker has reached, how the installation relates to its     *)
(* recovery point: this needs that no other worker runs beside it, which   *)
(* every step of the model supposes.                                       *)
(***************************************************************************)
EXTENDS UpgradeManager, FiniteSetTheorems, TLAPS

CodeType == [Parts -> Nat]
DataType == [schema : Nat, edits : Nat]
StateType == [code : CodeType, data : DataType]
PointType == [made : BOOLEAN, gone : BOOLEAN, listed : BOOLEAN, torn : BOOLEAN,
              code : CodeType, data : DataType, from : Nat, found : StateType]
Kinds == {"backup", "upgrade", "rollback"}
WorkerPlaces == {"none", "spawned", "stopping", "copy_code", "copy_data", "seal",
                 "bundle", "apply", "start", "validate", "prune", "finish", "raised",
                 "diagnose", "undo_stop", "restore", "swap", "place_data", "fail", "failed",
                 "done", "dead", "aborted"}
WorkerType == [pc : WorkerPlaces, kind : Kinds, from : Nat, target : Nat,
               point : Points \cup {NULL}, stopped : BOOLEAN, undo : BOOLEAN,
               placed : SUBSET Parts, found : StateType]
LauncherType == [pc : {"idle", "open", "takeover", "reopen", "locked", "report"},
                 kind : Kinds, from : Nat, target : Nat, point : Points \cup {NULL}]
States == ACTIVE_STATES \cup {"none", "failed", "succeeded", "rolled_back", "backup_created"}
StatusType == [state : States, op : Ops \cup {NULL}, backup : Points \cup {NULL},
               old : BOOLEAN]

TypeOK ==
    /\ code \in CodeType /\ data \in DataType /\ web \in Nat
    /\ points \in [Points -> PointType] /\ newer \in [Points -> SUBSET Points]
    /\ lock \in [held : BOOLEAN, old : BOOLEAN]
    /\ status \in StatusType
    /\ launcher \in [Launchers -> LauncherType]
    /\ worker \in [Ops -> WorkerType]
    /\ excused \in BOOLEAN

\* The lock belongs to at most one launcher or worker.
LockOK ==
    excused \/
        /\ \A a, b \in Live : a = b
        /\ \A l, m \in Launchers :
               launcher[l].pc = "locked" /\ launcher[m].pc = "locked" => l = m
        /\ \A l \in Launchers : launcher[l].pc = "locked" => Live = {}
        /\ Held => lock.held

\* A request names a recovery point exactly when it is a rollback.
Named(r) == IF r.kind = "rollback" THEN r.point \in Points ELSE r.point = NULL
RequestsOK == \A l \in Launchers : Named(launcher[l])

\* A listed recovery point of a table P of recovery points is what was found.
SoundPoint(x) == x.listed => x.made /\ [code |-> x.code, data |-> x.data] = x.found
PointsOK == \A p \in Points : SoundPoint(points[p])

Whole(x) == x.made /\ x.listed /\ ~x.torn
StatusOK == status.backup # NULL /\ status.state # "failed" => Whole(points[status.backup])

Early == {"spawned", "stopping", "copy_code", "copy_data", "seal"}
Copying == {"copy_code", "copy_data", "seal"}
Restoring(w) == w.undo \/ w.kind = "rollback"

\* The request of the worker w and the recovery point it has so far.
RequestOK(w) ==
    /\ w.kind = "rollback" => w.point \in Points /\ ~w.undo
    /\ w.undo => w.kind = "upgrade" /\ w.point \in Points /\ w.pc \notin Early
    /\ w.kind # "rollback" /\ w.pc \in {"spawned", "stopping", "copy_code"} => w.point = NULL
    /\ w.pc \in Copying => w.kind # "rollback"
    /\ w.pc \in {"bundle", "apply", "prune"} => w.kind = "upgrade" /\ ~w.undo
    /\ w.pc \in {"undo_stop", "restore", "swap", "place_data"} => Restoring(w)
    /\ w.pc \in {"copy_data", "seal", "bundle", "apply", "start", "validate", "prune",
                 "undo_stop", "restore", "swap", "place_data"} => w.point \in Points

\* While the worker w copies, nothing moves what it found: c, d and s are the
\* code, the data and the services, P the recovery points.
CopyOK(w, c, d, s, P) ==
    /\ w.pc \in Copying => s = NULL /\ w.found = [code |-> c, data |-> d]
    /\ w.pc \in Creating =>
           /\ P[w.point].made /\ ~P[w.point].listed /\ ~P[w.point].torn
           /\ P[w.point].code = c /\ P[w.point].found = w.found
    /\ w.pc = "seal" => P[w.point].data = d

\* The recovery point of w can be restored, and pruning does not reach it.
KeptOK(w, P, N) ==
    /\ \/ w.kind # "rollback" /\ w.pc \notin Early /\ w.point # NULL
       \/ w.kind = "rollback" /\ w.pc \in {"swap", "place_data", "start", "validate"}
       => Whole(P[w.point])
    /\ ~Restoring(w) /\ w.kind = "upgrade"
            /\ w.pc \in {"bundle", "apply", "start", "validate", "prune"} => N[w.point] = {}

\* What was put in place is the target, or what the recovery point holds.
PlacedOK(w, c, d, P) ==
    /\ ~Restoring(w) /\ w.kind = "upgrade" /\ w.pc \in {"start", "validate"}
            => \A i \in Parts : c[i] = w.target
    /\ w.pc = "swap" => \A i \in w.placed : c[i] = P[w.point].code[i]
    /\ Restoring(w) /\ w.pc \in {"place_data", "start", "validate"} => c = P[w.point].code
    /\ Restoring(w) /\ w.pc = "start" => d.schema = P[w.point].data.schema
    /\ Restoring(w) /\ w.pc = "validate" =>
           d.schema = IF c[1] > P[w.point].data.schema THEN c[1] ELSE P[w.point].data.schema

\* The status, while w runs, names no recovery point b but that of w.
ShownOK(w, b) ==
    /\ b # NULL => b = w.point
    /\ w.kind # "rollback" /\ w.pc \in Early => b = NULL

WorkOK(w, c, d, s, P, N, b) ==
    /\ RequestOK(w) /\ CopyOK(w, c, d, s, P) /\ KeptOK(w, P, N)
    /\ PlacedOK(w, c, d, P) /\ ShownOK(w, b)

WorkersOK ==
    \A o \in Ops : worker[o].pc \notin Gone =>
        WorkOK(worker[o], code, data, web, points, newer, status.backup)

\* All but the lock.
InstallInv == TypeOK /\ RequestsOK /\ PointsOK /\ StatusOK /\ WorkersOK

UpgradeInv == InstallInv /\ LockOK

-----------------------------------------------------------------------------
(* Types.                                                                  *)

\* No recovery point has the number that stands for none, and no place of a
\* worker is out of the list.
LEMMA NullIsNoPoint == NULL \notin Points /\ NULL \notin Ops
  BY BoundsAssumption DEF NULL, Points, Ops

LEMMA RecordsHaveTypes ==
    /\ NoCode \in CodeType /\ NoData \in DataType /\ NotFound \in StateType
    /\ NoPoint \in PointType /\ Removed \in PointType
    /\ NoWorker \in WorkerType /\ Idle \in LauncherType
    /\ FreshLock \in [held : BOOLEAN, old : BOOLEAN]
    /\ NoLock \in [held : BOOLEAN, old : BOOLEAN]
<1>1. NoCode \in CodeType /\ NoData \in DataType
  BY DEF NoCode, NoData, CodeType, DataType, NULL
<1>2. NotFound \in StateType
  BY <1>1 DEF NotFound, StateType
<1>3. NoPoint \in PointType /\ Removed \in PointType
  BY <1>1, <1>2 DEF NoPoint, Removed, PointType, NULL
<1>4. NoWorker \in WorkerType
  BY <1>2 DEF NoWorker, WorkerType, WorkerPlaces, Kinds, NULL
<1>5. Idle \in LauncherType
  BY DEF Idle, LauncherType, Kinds, NULL
<1> QED BY <1>1, <1>2, <1>3, <1>4, <1>5 DEF FreshLock, NoLock

\* Moving a worker to another place changes nothing else of it.
LEMMA MovedWorker ==
    ASSUME NEW w \in WorkerType, NEW x \in WorkerPlaces
    PROVE  LET v == [w EXCEPT !.pc = x] IN
           /\ v \in WorkerType
           /\ v.pc = x /\ v.kind = w.kind /\ v.from = w.from /\ v.target = w.target
           /\ v.point = w.point /\ v.stopped = w.stopped /\ v.undo = w.undo
           /\ v.found = w.found
  BY DEF WorkerType

\* An exception moves a worker to a handler and forgets an unfinished
\* recovery point.
LEMMA CaughtWorker ==
    ASSUME NEW w \in WorkerType
    PROVE  /\ Caught(w) \in WorkerType
           /\ Caught(w).pc \in {"fail", "diagnose", "raised"}
           /\ Caught(w).kind = w.kind /\ Caught(w).target = w.target
           /\ Caught(w).undo = w.undo
           /\ Caught(w).point = IF w.pc \in Creating THEN NULL ELSE w.point
  BY DEF Caught, Backup, WorkerType, WorkerPlaces

LEMMA StatusHasType ==
    ASSUME NEW s \in States, NEW o \in Ops \cup {NULL}, NEW p \in Points \cup {NULL}
    PROVE  /\ NewStatus(s, o, p) \in StatusType
           /\ NewStatus(s, o, p).state = s /\ NewStatus(s, o, p).backup = p
           /\ NewStatus(s, o, p).op = o
  BY DEF NewStatus, StatusType

LEMMA MigratedHasType ==
    ASSUME code \in CodeType, NEW d \in DataType
    PROVE  /\ Migrated(d) \in DataType
           /\ Migrated(d).schema = IF code[1] > d.schema THEN code[1] ELSE d.schema
  BY DEF Migrated, CodeType, DataType, Parts

LEMMA TablesHaveTypes ==
    ASSUME points \in [Points -> PointType], newer \in [Points -> SUBSET Points],
           NEW p \in Points
    PROVE  /\ Newest(p) \in [Points -> SUBSET Points]
           /\ Without(p) \in [Points -> SUBSET Points]
           /\ Newest(p)[p] = {}
           /\ \A q \in Points : newer[q] = {} => Without(p)[q] = {}
  BY DEF Newest, Without

LEMMA InitTyped == Init => TypeOK
<1> SUFFICES ASSUME Init PROVE TypeOK
  OBVIOUS
<1>1. code \in CodeType /\ data \in DataType /\ web \in Nat
  BY DEF Init, CodeType, DataType
<1>2. Earlier \in PointType
  BY RecordsHaveTypes DEF Earlier, PointType, StateType, CodeType, DataType
<1>3. points \in [Points -> PointType] /\ newer \in [Points -> SUBSET Points]
  BY <1>2, RecordsHaveTypes DEF Init
<1>4. lock \in [held : BOOLEAN, old : BOOLEAN] /\ status \in StatusType
  <2>1. \A s \in {"none", "stopping"}, b \in BOOLEAN :
            [state |-> s, op |-> NULL, backup |-> NULL, old |-> b] \in StatusType
    BY DEF StatusType, States, ACTIVE_STATES
  <2>2. [held |-> TRUE, old |-> TRUE] \in [held : BOOLEAN, old : BOOLEAN]
    OBVIOUS
  <2>3. \/ lock = NoLock /\ status = [state |-> "none", op |-> NULL, backup |-> NULL, old |-> FALSE]
        \/ /\ lock = [held |-> TRUE, old |-> TRUE]
           /\ status = [state |-> "stopping", op |-> NULL, backup |-> NULL, old |-> TRUE]
    BY DEF Init
  <2> QED BY <2>1, <2>2, <2>3, RecordsHaveTypes
<1>5. launcher \in [Launchers -> LauncherType] /\ worker \in [Ops -> WorkerType]
  BY RecordsHaveTypes DEF Init
<1> QED BY <1>1, <1>3, <1>4, <1>5 DEF TypeOK, Init

\* A step that moves one worker and keeps the rest of the types.
LEMMA WorkerTyped ==
    ASSUME worker \in [Ops -> WorkerType], NEW o \in Ops, NEW x \in WorkerPlaces, Goto(o, x)
    PROVE  /\ worker' \in [Ops -> WorkerType]
           /\ worker'[o] = [worker[o] EXCEPT !.pc = x]
           /\ \A q \in Ops : q # o => worker'[q] = worker[q]
  BY MovedWorker DEF Goto

\* A worker that is through with its operation.
LEMMA EndedTyped ==
    ASSUME NEW x \in WorkerPlaces
    PROVE  Ended(x) \in WorkerType /\ Ended(x).pc = x
  BY MovedWorker, RecordsHaveTypes DEF Ended

LEMMA LauncherTyped ==
    ASSUME launcher \in [Launchers -> LauncherType], NEW l \in Launchers,
           NEW x \in {"idle", "open", "takeover", "reopen", "locked", "report"}
    PROVE  /\ [launcher EXCEPT ![l].pc = x] \in [Launchers -> LauncherType]
           /\ [launcher EXCEPT ![l] = Idle] \in [Launchers -> LauncherType]
<1>1. [launcher[l] EXCEPT !.pc = x] \in LauncherType
  BY DEF LauncherType
<1> QED BY <1>1, RecordsHaveTypes

\* The launcher's requests.
LEMMA RequestTyped ==
    ASSUME TypeOK, NEW l \in Launchers, Check(l)
    PROVE  launcher' \in [Launchers -> LauncherType] /\ Named(launcher'[l])
           /\ launcher'[l].pc = "open"
<1> DEFINE from == IF web # NULL THEN web ELSE code[1]
<1>1. from \in Nat
  BY DEF TypeOK, CodeType, Parts
<1>2. PICK r : /\ launcher' = [launcher EXCEPT ![l] = r]
               /\ \/ r \in [pc : {"open"}, kind : {"backup"}, from : {from},
                             target : {from}, point : {NULL}]
                  \/ r \in [pc : {"open"}, kind : {"upgrade"}, from : {from},
                             target : {v \in Versions : v > from}, point : {NULL}]
                  \/ \E p \in Points : r = [pc |-> "open", kind |-> "rollback", from |-> from,
                                            target |-> points[p].from, point |-> p]
  <2>1. \E r \in [pc : {"open"}, kind : {"backup"}, from : {from},
                 target : {from}, point : {NULL}]
            \cup [pc : {"open"}, kind : {"upgrade"}, from : {from},
                  target : {v \in Versions : v > from}, point : {NULL}]
            \cup {[pc |-> "open", kind |-> "rollback", from |-> from,
                   target |-> points[p].from, point |-> p] : p \in {q \in Points : Listed(q)}} :
            launcher' = [launcher EXCEPT ![l] = r]
    BY Zenon DEF Check
  <2> HIDE DEF from
  <2> QED BY <2>1
<1>3. r \in LauncherType /\ Named(r) /\ r.pc = "open"
  <2>1. CASE r \in [pc : {"open"}, kind : {"backup"}, from : {from},
                   target : {from}, point : {NULL}]
    BY <2>1, <1>1 DEF LauncherType, Kinds, Named
  <2>2. CASE r \in [pc : {"open"}, kind : {"upgrade"}, from : {from},
                   target : {v \in Versions : v > from}, point : {NULL}]
    BY <2>2, <1>1 DEF LauncherType, Kinds, Named, Versions
  <2>3. CASE \E p \in Points : r = [pc |-> "open", kind |-> "rollback", from |-> from,
                                   target |-> points[p].from, point |-> p]
    <3>1. PICK p \in Points : r = [pc |-> "open", kind |-> "rollback", from |-> from,
                                  target |-> points[p].from, point |-> p]
      BY <2>3
    <3>2. points[p].from \in Nat
      BY DEF TypeOK, PointType
    <3> QED BY <3>1, <3>2, <1>1 DEF LauncherType, Kinds, Named
  <2> QED BY <1>2, <2>1, <2>2, <2>3
<1>4. launcher \in [Launchers -> LauncherType]
  BY DEF TypeOK
<1> QED BY <1>2, <1>3, <1>4

-----------------------------------------------------------------------------
(* Steps of the only worker.                                               *)

LEMMA LiveIsFinite == IsFiniteSet(Live)
<1>1. IsFiniteSet(Ops)
  BY FS_Interval, BoundsAssumption DEF Ops
<1> QED BY <1>1, FS_Subset DEF Live

\* Alone is that any two workers alive are one.
LEMMA AloneIsOne == Alone <=> \A a, b \in Live : a = b
<1>1. ASSUME Alone, NEW a \in Live, NEW b \in Live, a # b PROVE FALSE
  <2>1. Cardinality({a, b}) = 2
    <3>1. IsFiniteSet({a}) /\ Cardinality({a}) = 1 /\ b \notin {a}
      BY <1>1, FS_Singleton
    <3>2. Cardinality({a} \cup {b}) = Cardinality({a}) + 1
      BY <3>1, FS_AddElement
    <3>3. {a} \cup {b} = {a, b}
      OBVIOUS
    <3> QED BY <3>1, <3>2, <3>3
  <2>2. Cardinality({a, b}) <= Cardinality(Live)
    BY LiveIsFinite, FS_Subset
  <2>3. Cardinality(Live) \in Nat
    BY LiveIsFinite, FS_CardinalityType
  <2> QED BY <1>1, <2>1, <2>2, <2>3 DEF Alone
<1>2. ASSUME \A a, b \in Live : a = b PROVE Alone
  <2>1. CASE Live = {}
    BY <2>1, FS_EmptySet DEF Alone
  <2>2. CASE Live # {}
    <3>1. PICK a \in Live : Live = {a}
      BY <1>2, <2>2
    <3>2. Cardinality({a}) = 1
      BY FS_Singleton
    <3> QED BY <3>1, <3>2 DEF Alone
  <2> QED BY <2>1, <2>2
<1> QED BY <1>1, <1>2

\* What holds of the worker that takes a step.
LEMMA StepHas ==
    ASSUME InstallInv, NEW o \in Ops, worker[o].pc \notin Gone
    PROVE  /\ worker[o] \in WorkerType
           /\ WorkOK(worker[o], code, data, web, points, newer, status.backup)
           /\ code \in CodeType /\ data \in DataType /\ web \in Nat
           /\ points \in [Points -> PointType] /\ newer \in [Points -> SUBSET Points]
           /\ status \in StatusType
  BY DEF InstallInv, TypeOK, WorkersOK

\* Nothing is to be shown of the other workers: they have ended.
LEMMA StepKeeps ==
    ASSUME InstallInv, NEW o \in Ops, Alone, worker[o].pc \notin Gone,
           worker' \in [Ops -> WorkerType],
           \A q \in Ops : q # o => worker'[q] = worker[q],
           worker'[o].pc \in Gone \/
               WorkOK(worker'[o], code', data', web', points', newer', status'.backup),
           launcher' = launcher,
           lock' \in [held : BOOLEAN, old : BOOLEAN], excused' \in BOOLEAN,
           code' \in CodeType, data' \in DataType, web' \in Nat,
           points' \in [Points -> PointType], newer' \in [Points -> SUBSET Points],
           status' \in StatusType,
           \A p \in Points : SoundPoint(points'[p]),
           status'.backup # NULL /\ status'.state # "failed" => Whole(points'[status'.backup])
    PROVE  InstallInv'
<1>1. \A q \in Ops : q # o => worker[q].pc \in Gone
  BY AloneIsOne DEF Live
<1>2. WorkersOK'
  BY <1>1 DEF WorkersOK
<1>3. TypeOK' /\ RequestsOK'
  BY DEF InstallInv, TypeOK, RequestsOK
<1> QED BY <1>2, <1>3 DEF InstallInv, PointsOK, StatusOK

\* The same for a worker that goes to place x and leaves the recovery points
\* alone; the status stays, or is written anew with a recovery point that is
\* whole.
Announces(s, t, o, w, P) ==
    \/ t = s
    \/ \E x \in States, b \in {NULL, w.point} :
           t = NewStatus(x, o, b) /\ (b # NULL /\ x # "failed" => Whole(P[b]))

LEMMA GotoKeeps ==
    ASSUME InstallInv, NEW o \in Ops, NEW x \in WorkerPlaces,
           Alone, worker[o].pc \notin Gone, Goto(o, x),
           UNCHANGED <<points, newer, launcher, lock, excused>>,
           code' \in CodeType, data' \in DataType, web' \in Nat,
           Announces(status, status', o, worker[o], points),
           \A v \in WorkerType :
               /\ v.pc = x /\ v.kind = worker[o].kind /\ v.target = worker[o].target
               /\ v.point = worker[o].point /\ v.undo = worker[o].undo
               /\ v.found = worker[o].found
               => WorkOK(v, code', data', web', points, newer, status'.backup)
    PROVE  InstallInv'
<1>1. /\ worker' \in [Ops -> WorkerType]
      /\ worker'[o] = [worker[o] EXCEPT !.pc = x]
      /\ \A q \in Ops : q # o => worker'[q] = worker[q]
  BY WorkerTyped DEF InstallInv, TypeOK
<1>2. WorkOK(worker'[o], code', data', web', points', newer', status'.backup)
  <2>1. worker[o] \in WorkerType
    BY StepHas
  <2>2. PICK v : v = worker'[o]
    OBVIOUS
  <2>3. /\ v \in WorkerType
        /\ v.pc = x /\ v.kind = worker[o].kind /\ v.target = worker[o].target
        /\ v.point = worker[o].point /\ v.undo = worker[o].undo
        /\ v.found = worker[o].found
    BY <2>1, <2>2, <1>1, MovedWorker
  <2>4. WorkOK(v, code', data', web', points, newer, status'.backup)
    BY <2>3
  <2> QED BY <2>2, <2>4
<1>3. /\ status' \in StatusType
      /\ status'.backup # NULL /\ status'.state # "failed" => Whole(points[status'.backup])
  <2>1. CASE status' = status
    BY <2>1 DEF InstallInv, TypeOK, StatusOK
  <2>2. CASE status' # status
    <3>1. PICK y \in States, b \in {NULL, worker[o].point} :
              status' = NewStatus(y, o, b) /\ (b # NULL /\ y # "failed" => Whole(points[b]))
      BY <2>2 DEF Announces
    <3>2. b \in Points \cup {NULL}
      BY StepHas DEF WorkerType
    <3> QED BY <3>1, <3>2, StatusHasType
  <2> QED BY <2>1, <2>2
<1>4. \A p \in Points : SoundPoint(points[p])
  BY DEF InstallInv, PointsOK
<1>5. /\ lock' \in [held : BOOLEAN, old : BOOLEAN] /\ excused' \in BOOLEAN
      /\ points' \in [Points -> PointType] /\ newer' \in [Points -> SUBSET Points]
  BY DEF InstallInv, TypeOK
<1> QED BY <1>1, <1>2, <1>3, <1>4, <1>5, StepKeeps

\* A rollback verifies its recovery point before anything is stopped.
LEMMA BeginKeeps ==
    ASSUME InstallInv, NEW o \in Ops, Begin(o)
    PROVE  InstallInv'
<1>1. /\ Alone /\ worker[o].pc = "spawned" /\ worker[o].pc \notin Gone
      /\ UNCHANGED <<code, data, web, points, newer, launcher, lock, excused>>
      /\ status' = NewStatus("stopping", o, NULL) /\ Goto(o, "stopping")
  BY DEF Begin, Runs, Gone, disk
<1>2. status'.backup = NULL /\ Announces(status, status', o, worker[o], points)
  BY <1>1, StatusHasType DEF Announces, States, ACTIVE_STATES
<1>3. ASSUME NEW v \in WorkerType,
             v.pc = "stopping", v.kind = worker[o].kind, v.target = worker[o].target,
             v.point = worker[o].point, v.undo = worker[o].undo, v.found = worker[o].found
      PROVE  WorkOK(v, code, data, web, points, newer, status'.backup)
  BY <1>1, <1>2, <1>3, StepHas
  DEF WorkOK, RequestOK, CopyOK, KeptOK, PlacedOK, ShownOK, Early, Copying, Creating, Restoring
<1> QED BY <1>1, <1>2, <1>3, GotoKeeps, StepHas DEF WorkerPlaces

\* What the new code is validated against is named by the status already.
LEMMA PrepareKeeps ==
    ASSUME InstallInv, NEW o \in Ops, Prepare(o)
    PROVE  InstallInv'
<1>1. /\ Alone /\ worker[o].pc = "bundle" /\ worker[o].pc \notin Gone
      /\ UNCHANGED <<code, data, web, points, newer, launcher, lock, excused>>
      /\ status' = NewStatus("installing", o, worker[o].point) /\ Goto(o, "apply")
  BY DEF Prepare, Runs, Gone, disk
<1>2. worker[o].point \in Points /\ Whole(points[worker[o].point])
  BY <1>1, StepHas, NullIsNoPoint DEF WorkOK, RequestOK, KeptOK, Early
<1>3. status'.backup = worker[o].point /\ Announces(status, status', o, worker[o], points)
  BY <1>1, <1>2, StatusHasType DEF Announces, States, ACTIVE_STATES
<1>4. ASSUME NEW v \in WorkerType,
             v.pc = "apply", v.kind = worker[o].kind, v.target = worker[o].target,
             v.point = worker[o].point, v.undo = worker[o].undo, v.found = worker[o].found
      PROVE  WorkOK(v, code, data, web, points, newer, status'.backup)
  BY <1>1, <1>3, <1>4, StepHas
  DEF WorkOK, RequestOK, CopyOK, KeptOK, PlacedOK, ShownOK, Early, Copying, Creating, Restoring
<1> QED BY <1>1, <1>3, <1>4, GotoKeeps, StepHas DEF WorkerPlaces

\* All files are replaced.
LEMMA AppliedKeeps ==
    ASSUME InstallInv, NEW o \in Ops, Applied(o)
    PROVE  InstallInv'
<1>1. /\ Alone /\ worker[o].pc = "apply" /\ worker[o].pc \notin Gone
      /\ UNCHANGED <<code, data, web, points, newer, launcher, lock, excused>>
      /\ \A i \in Parts : code[i] = worker[o].target
      /\ status' = NewStatus("validating", o, worker[o].point) /\ Goto(o, "start")
  BY DEF Applied, Runs, Gone, disk
<1>2. worker[o].point \in Points /\ Whole(points[worker[o].point])
  BY <1>1, StepHas, NullIsNoPoint DEF WorkOK, RequestOK, KeptOK, Early
<1>3. status'.backup = worker[o].point /\ Announces(status, status', o, worker[o], points)
  BY <1>1, <1>2, StatusHasType DEF Announces, States, ACTIVE_STATES
<1>4. ASSUME NEW v \in WorkerType,
             v.pc = "start", v.kind = worker[o].kind, v.target = worker[o].target,
             v.point = worker[o].point, v.undo = worker[o].undo, v.found = worker[o].found
      PROVE  WorkOK(v, code, data, web, points, newer, status'.backup)
  BY <1>1, <1>3, <1>4, StepHas
  DEF WorkOK, RequestOK, CopyOK, KeptOK, PlacedOK, ShownOK, Early, Copying, Creating, Restoring
<1> QED BY <1>1, <1>3, <1>4, GotoKeeps, StepHas DEF WorkerPlaces

\* Starting migrates the data; code and recovery point stay.
LEMMA StartKeeps ==
    ASSUME InstallInv, NEW o \in Ops, Start(o)
    PROVE  InstallInv'
<1>1. /\ Alone /\ worker[o].pc = "start" /\ worker[o].pc \notin Gone
      /\ UNCHANGED <<code, points, newer, launcher, lock, status, excused>>
      /\ web' = code[1] /\ data' = Migrated(data) /\ Goto(o, "validate")
  BY DEF Start, Runs, Gone
<1>2. /\ data' \in DataType /\ web' \in Nat
      /\ data'.schema = IF code[1] > data.schema THEN code[1] ELSE data.schema
  BY <1>1, StepHas, MigratedHasType DEF CodeType, Parts
<1>3. ASSUME NEW v \in WorkerType,
             v.pc = "validate", v.kind = worker[o].kind, v.target = worker[o].target,
             v.point = worker[o].point, v.undo = worker[o].undo, v.found = worker[o].found
      PROVE  WorkOK(v, code, data', web', points, newer, status.backup)
  BY <1>1, <1>2, <1>3, StepHas
  DEF WorkOK, RequestOK, CopyOK, KeptOK, PlacedOK, ShownOK, Early, Copying, Creating, Restoring
<1>4. Announces(status, status', o, worker[o], points) /\ status'.backup = status.backup
  BY <1>1 DEF Announces
<1> QED BY <1>1, <1>2, <1>3, <1>4, GotoKeeps, StepHas DEF WorkerPlaces

\* The outcome is written: the recovery point it names is whole.
LEMMA ValidateKeeps ==
    ASSUME InstallInv, NEW o \in Ops, Validate(o)
    PROVE  InstallInv'
<1> DEFINE x == IF Outcome(worker[o]) = "succeeded" THEN "prune" ELSE "finish"
<1>1. /\ Alone /\ worker[o].pc = "validate" /\ worker[o].pc \notin Gone
      /\ UNCHANGED <<code, data, web, points, newer, launcher, lock, excused>>
      /\ status' = NewStatus(Outcome(worker[o]), o, worker[o].point) /\ Goto(o, x)
  BY DEF Validate, Runs, Gone, disk
<1>2. worker[o].point \in Points /\ Whole(points[worker[o].point])
  BY <1>1, StepHas, NullIsNoPoint DEF WorkOK, RequestOK, KeptOK, Early
<1>3. /\ Outcome(worker[o]) \in States
      /\ x = "prune" => ~Restoring(worker[o]) /\ worker[o].kind = "upgrade"
      /\ x \in {"prune", "finish"}
  BY StepHas, <1>1 DEF Outcome, States, Restoring, WorkerType, Kinds
<1>4. status'.backup = worker[o].point /\ Announces(status, status', o, worker[o], points)
  BY <1>1, <1>2, <1>3, StatusHasType DEF Announces
<1>5. ASSUME NEW v \in WorkerType,
             v.pc = x, v.kind = worker[o].kind, v.target = worker[o].target,
             v.point = worker[o].point, v.undo = worker[o].undo, v.found = worker[o].found
      PROVE  WorkOK(v, code, data, web, points, newer, status'.backup)
  <2> HIDE DEF x
  <2> QED BY <1>1, <1>3, <1>4, <1>5, StepHas
      DEF WorkOK, RequestOK, CopyOK, KeptOK, PlacedOK, ShownOK, Early, Copying, Creating, Restoring
<1>6. x \in WorkerPlaces
  BY <1>3 DEF WorkerPlaces
<1> HIDE DEF x
<1> QED BY <1>1, <1>4, <1>5, <1>6, GotoKeeps, StepHas

LEMMA PrunedKeeps ==
    ASSUME InstallInv, NEW o \in Ops, Pruned(o)
    PROVE  InstallInv'
<1>1. /\ Alone /\ worker[o].pc = "prune" /\ worker[o].pc \notin Gone
      /\ UNCHANGED <<code, data, web, points, newer, launcher, lock, status, excused>>
      /\ Goto(o, "finish")
  BY DEF Pruned, Runs, Gone, disk
<1>2. Announces(status, status', o, worker[o], points) /\ status'.backup = status.backup
  BY <1>1 DEF Announces
<1>3. ASSUME NEW v \in WorkerType,
             v.pc = "finish", v.kind = worker[o].kind, v.target = worker[o].target,
             v.point = worker[o].point, v.undo = worker[o].undo, v.found = worker[o].found
      PROVE  WorkOK(v, code, data, web, points, newer, status.backup)
  BY <1>1, <1>3, StepHas
  DEF WorkOK, RequestOK, CopyOK, KeptOK, PlacedOK, ShownOK, Early, Copying, Creating, Restoring
<1> QED BY <1>1, <1>2, <1>3, GotoKeeps, StepHas DEF WorkerPlaces

\* Undoing an upgrade: stop, whatever comes of it.
LEMMA UndoStopKeeps ==
    ASSUME InstallInv, NEW o \in Ops, UndoStop(o)
    PROVE  InstallInv'
<1>1. /\ Alone /\ worker[o].pc = "undo_stop" /\ worker[o].pc \notin Gone
      /\ UNCHANGED <<code, data, points, newer, launcher, lock, status, excused>>
      /\ Goto(o, "restore") /\ web' \in Nat
  BY StepHas DEF UndoStop, Runs, Gone, disk, NULL
<1>2. Announces(status, status', o, worker[o], points) /\ status'.backup = status.backup
  BY <1>1 DEF Announces
<1>3. ASSUME NEW v \in WorkerType,
             v.pc = "restore", v.kind = worker[o].kind, v.target = worker[o].target,
             v.point = worker[o].point, v.undo = worker[o].undo, v.found = worker[o].found
      PROVE  WorkOK(v, code, data, web', points, newer, status.backup)
  BY <1>1, <1>3, StepHas
  DEF WorkOK, RequestOK, CopyOK, KeptOK, PlacedOK, ShownOK, Early, Copying, Creating, Restoring
<1> QED BY <1>1, <1>2, <1>3, GotoKeeps, StepHas DEF WorkerPlaces

\* Stopped services are started again, whatever comes of it.
LEMMA RestartKeeps ==
    ASSUME InstallInv, NEW o \in Ops, Restart(o)
    PROVE  InstallInv'
<1>1. /\ Alone /\ worker[o].pc = "raised" /\ worker[o].pc \notin Gone
      /\ UNCHANGED <<code, points, newer, launcher, lock, status, excused>>
      /\ Goto(o, "fail")
      /\ web' = code[1] \/ web' = web
      /\ data' = Migrated(data) \/ data' = data
  BY DEF Restart, Runs, Gone
<1>2. data' \in DataType /\ web' \in Nat
  BY <1>1, StepHas, MigratedHasType DEF CodeType, Parts
<1>3. Announces(status, status', o, worker[o], points) /\ status'.backup = status.backup
  BY <1>1 DEF Announces
<1>4. ASSUME NEW v \in WorkerType,
             v.pc = "fail", v.kind = worker[o].kind, v.target = worker[o].target,
             v.point = worker[o].point, v.undo = worker[o].undo, v.found = worker[o].found
      PROVE  WorkOK(v, code, data', web', points, newer, status.backup)
  BY <1>1, <1>4, StepHas
  DEF WorkOK, RequestOK, CopyOK, KeptOK, PlacedOK, ShownOK, Early, Copying, Creating, Restoring
<1> QED BY <1>1, <1>2, <1>3, <1>4, GotoKeeps, StepHas DEF WorkerPlaces

LEMMA FailKeeps ==
    ASSUME InstallInv, NEW o \in Ops, Fail(o)
    PROVE  InstallInv'
<1>1. /\ Alone /\ worker[o].pc = "fail" /\ worker[o].pc \notin Gone
      /\ UNCHANGED <<code, data, web, points, newer, launcher, lock, excused>>
      /\ status' = NewStatus("failed", o, worker[o].point) /\ Goto(o, "failed")
  BY DEF Fail, Runs, Gone, disk
<1>2. worker[o].point \in Points \cup {NULL}
  BY StepHas, <1>1 DEF WorkerType
<1>3. status'.backup = worker[o].point /\ Announces(status, status', o, worker[o], points)
  BY <1>1, <1>2, StatusHasType DEF Announces, States
<1>4. ASSUME NEW v \in WorkerType,
             v.pc = "failed", v.kind = worker[o].kind, v.target = worker[o].target,
             v.point = worker[o].point, v.undo = worker[o].undo, v.found = worker[o].found
      PROVE  WorkOK(v, code, data, web, points, newer, status'.backup)
  BY <1>1, <1>3, <1>4, StepHas
  DEF WorkOK, RequestOK, CopyOK, KeptOK, PlacedOK, ShownOK, Early, Copying, Creating, Restoring
<1> QED BY <1>1, <1>3, <1>4, GotoKeeps, StepHas DEF WorkerPlaces

\* The instance is moved away after all of the code is in place.
LEMMA DisplaceKeeps ==
    ASSUME InstallInv, NEW o \in Ops, Displace(o)
    PROVE  InstallInv'
<1>1. /\ Alone /\ worker[o].pc = "swap" /\ worker[o].pc \notin Gone
      /\ UNCHANGED <<code, points, newer, web, launcher, lock, status, excused>>
      /\ worker[o].placed = Parts /\ data' = NoData /\ Goto(o, "place_data")
  BY DEF Displace, Runs, Gone
<1>2. code = points[worker[o].point].code
  <2>1. worker[o].point \in Points /\ \A i \in Parts : code[i] = points[worker[o].point].code[i]
    BY <1>1, StepHas DEF WorkOK, RequestOK, PlacedOK
  <2>2. code \in CodeType /\ points[worker[o].point].code \in CodeType
    BY <1>1, <2>1, StepHas DEF PointType
  <2> QED BY <2>1, <2>2 DEF CodeType
<1>3. Announces(status, status', o, worker[o], points) /\ status'.backup = status.backup
  BY <1>1 DEF Announces
<1>4. ASSUME NEW v \in WorkerType,
             v.pc = "place_data", v.kind = worker[o].kind, v.target = worker[o].target,
             v.point = worker[o].point, v.undo = worker[o].undo, v.found = worker[o].found
      PROVE  WorkOK(v, code, data', web, points, newer, status.backup)
  <2>1. WorkOK(worker[o], code, data, web, points, newer, status.backup)
    BY <1>1, StepHas
  <2>2. RequestOK(v) /\ ShownOK(v, status.backup)
    BY <1>1, <1>4, <2>1 DEF WorkOK, RequestOK, ShownOK, Restoring, Copying, Early
  <2>3. CopyOK(v, code, data', web, points) /\ KeptOK(v, points, newer)
    BY <1>1, <1>4, <2>1 DEF WorkOK, CopyOK, KeptOK, Restoring, Copying, Creating, Early
  <2>4. PlacedOK(v, code, data', points)
    BY <1>2, <1>4 DEF PlacedOK
  <2> QED BY <2>2, <2>3, <2>4 DEF WorkOK
<1>5. /\ code' \in CodeType /\ web' \in Nat /\ data' \in DataType
      /\ "place_data" \in WorkerPlaces
  BY <1>1, StepHas, RecordsHaveTypes DEF WorkerPlaces
<1>6. \A v \in WorkerType :
          /\ v.pc = "place_data" /\ v.kind = worker[o].kind /\ v.target = worker[o].target
          /\ v.point = worker[o].point /\ v.undo = worker[o].undo /\ v.found = worker[o].found
          => WorkOK(v, code', data', web', points, newer, status'.backup)
  BY <1>1, <1>3, <1>4
<1> QED BY <1>1, <1>3, <1>5, <1>6, GotoKeeps

\* The instance is restored last.
LEMMA SwapDataKeeps ==
    ASSUME InstallInv, NEW o \in Ops, SwapData(o)
    PROVE  InstallInv'
<1>1. /\ Alone /\ worker[o].pc = "place_data" /\ worker[o].pc \notin Gone
      /\ UNCHANGED <<code, points, newer, web, launcher, lock, status, excused>>
      /\ data' = points[worker[o].point].data
      /\ Goto(o, "start")
  BY DEF SwapData, Runs, Gone
<1>2. worker[o].point \in Points
  BY <1>1, StepHas DEF WorkOK, RequestOK
<1>3. data' \in DataType
  BY <1>1, <1>2, StepHas DEF PointType
<1>4. Announces(status, status', o, worker[o], points) /\ status'.backup = status.backup
  BY <1>1 DEF Announces
<1>5. ASSUME NEW v \in WorkerType,
             v.pc = "start", v.kind = worker[o].kind, v.target = worker[o].target,
             v.point = worker[o].point, v.undo = worker[o].undo, v.found = worker[o].found
      PROVE  WorkOK(v, code, data', web, points, newer, status.backup)
  <2>1. /\ WorkOK(worker[o], code, data, web, points, newer, status.backup)
        /\ Restoring(worker[o]) /\ worker[o].point \in Points
    BY <1>1, StepHas DEF WorkOK, RequestOK
  <2>2. RequestOK(v) /\ ShownOK(v, status.backup)
    BY <1>1, <1>5, <2>1 DEF WorkOK, RequestOK, ShownOK, Restoring, Copying, Early
  <2>3. CopyOK(v, code, data', web, points) /\ KeptOK(v, points, newer)
    BY <1>1, <1>5, <2>1 DEF WorkOK, CopyOK, KeptOK, Restoring, Copying, Creating, Early
  <2>4. PlacedOK(v, code, data', points)
    BY <1>1, <1>5, <2>1 DEF WorkOK, PlacedOK, Restoring
  <2> QED BY <2>2, <2>3, <2>4 DEF WorkOK
<1>6. code' \in CodeType /\ web' \in Nat /\ "start" \in WorkerPlaces
  BY <1>1, StepHas DEF WorkerPlaces
<1>7. \A v \in WorkerType :
          /\ v.pc = "start" /\ v.kind = worker[o].kind /\ v.target = worker[o].target
          /\ v.point = worker[o].point /\ v.undo = worker[o].undo /\ v.found = worker[o].found
          => WorkOK(v, code', data', web', points, newer, status'.backup)
  BY <1>1, <1>4, <1>5
<1> QED BY <1>1, <1>3, <1>4, <1>6, <1>7, GotoKeeps

\* Diagnostics are collected before the handler goes on.
LEMMA DiagnoseKeeps ==
    ASSUME InstallInv, NEW o \in Ops, Diagnose(o)
    PROVE  InstallInv'
<1>1. /\ Alone /\ worker[o].pc = "diagnose" /\ worker[o].pc \notin Gone
      /\ UNCHANGED <<code, data, web, points, newer, launcher, lock, status, excused>>
      /\ Goto(o, "raised")
  BY DEF Diagnose, Runs, Gone, disk
<1>2. Announces(status, status', o, worker[o], points) /\ status'.backup = status.backup
  BY <1>1 DEF Announces
<1>3. ASSUME NEW v \in WorkerType,
             v.pc = "raised", v.kind = worker[o].kind, v.target = worker[o].target,
             v.point = worker[o].point, v.undo = worker[o].undo, v.found = worker[o].found
      PROVE  WorkOK(v, code, data, web, points, newer, status.backup)
  BY <1>1, <1>3, StepHas
  DEF WorkOK, RequestOK, CopyOK, KeptOK, PlacedOK, ShownOK, Early, Copying, Creating, Restoring
<1> QED BY <1>1, <1>2, <1>3, GotoKeeps, StepHas DEF WorkerPlaces

\* The types and tables a step leaves as they are.
LEMMA Unchanging ==
    ASSUME InstallInv
    PROVE  /\ lock \in [held : BOOLEAN, old : BOOLEAN] /\ excused \in BOOLEAN
           /\ worker \in [Ops -> WorkerType] /\ launcher \in [Launchers -> LauncherType]
           /\ \A p \in Points : SoundPoint(points[p])
           /\ status.backup # NULL /\ status.state # "failed" => Whole(points[status.backup])
  BY DEF InstallInv, TypeOK, PointsOK, StatusOK

\* What is found is noted when the services have stopped.
LEMMA StopKeeps ==
    ASSUME InstallInv, NEW o \in Ops, StopServices(o)
    PROVE  InstallInv'
<1> DEFINE x == IF worker[o].kind = "rollback" THEN "restore" ELSE "copy_code"
           y == IF worker[o].kind = "rollback" THEN "rolling_back" ELSE "backing_up"
           f == [code |-> code, data |-> data]
           v == [worker[o] EXCEPT !.pc = x, !.stopped = TRUE, !.found = f]
<1>1. /\ Alone /\ worker[o].pc = "stopping" /\ worker[o].pc \notin Gone
      /\ UNCHANGED <<code, data, points, newer, launcher, lock, excused>>
      /\ status' = NewStatus(y, o, NULL) /\ web' = NULL
      /\ worker' = [worker EXCEPT ![o].pc = x, ![o].stopped = TRUE, ![o].found = f]
  BY DEF StopServices, Runs, Gone, disk
<1>2. x \in WorkerPlaces /\ y \in States
  BY DEF WorkerPlaces, States, ACTIVE_STATES
<1>3. f \in StateType
  BY StepHas, <1>1 DEF StateType
<1> HIDE DEF f
<1>4. /\ v \in WorkerType /\ v.pc = x /\ v.kind = worker[o].kind
      /\ v.target = worker[o].target /\ v.point = worker[o].point
      /\ v.undo = worker[o].undo /\ v.found = f
  BY <1>1, <1>2, <1>3, StepHas DEF WorkerType
<1>5. /\ worker'[o] = v /\ worker' \in [Ops -> WorkerType]
      /\ \A q \in Ops : q # o => worker'[q] = worker[q]
  BY <1>1, <1>4, Unchanging
<1>6. status' \in StatusType /\ status'.backup = NULL
  BY <1>1, <1>2, StatusHasType
<1> HIDE DEF v
<1>7. WorkOK(v, code, data, web', points, newer, status'.backup)
  BY <1>1, <1>4, <1>6, StepHas
  DEF WorkOK, RequestOK, CopyOK, KeptOK, PlacedOK, ShownOK, Early, Copying, Creating, Restoring, f
<1>8. web' \in Nat
  BY <1>1 DEF NULL
<1> QED BY <1>1, <1>5, <1>6, <1>7, <1>8, StepKeeps, StepHas, Unchanging

\* Files of the code are replaced, the recovery point stays.
LEMMA ApplyKeeps ==
    ASSUME InstallInv, NEW o \in Ops, Apply(o)
    PROVE  InstallInv'
<1>1. /\ Alone /\ worker[o].pc = "apply" /\ worker[o].pc \notin Gone
      /\ UNCHANGED <<data, web, points, newer, launcher, lock, status, worker, excused>>
  BY DEF Apply, Runs, Gone
<1>2. code' \in CodeType
  BY <1>1, StepHas DEF Apply, CodeType, WorkerType
<1>3. WorkOK(worker[o], code', data, web, points, newer, status.backup)
  BY <1>1, StepHas
  DEF WorkOK, RequestOK, CopyOK, KeptOK, PlacedOK, ShownOK, Early, Copying, Creating, Restoring
<1> QED BY <1>1, <1>2, <1>3, StepKeeps, StepHas, Unchanging

\* A part that is moved away was not in place yet; one that is moved in is the
\* part of the recovery point.
LEMMA SwapCodeKeeps ==
    ASSUME InstallInv, NEW o \in Ops, SwapCode(o)
    PROVE  InstallInv'
<1> DEFINE x == points[worker[o].point].code
<1>1. /\ Alone /\ worker[o].pc = "swap" /\ worker[o].pc \notin Gone
      /\ UNCHANGED <<data, web, points, newer, launcher, lock, status, excused>>
  BY DEF SwapCode, Runs, Gone
<1>2. PICK i \in Parts \ worker[o].placed :
        \/ code' = [code EXCEPT ![i] = NULL] /\ worker' = worker
        \/ /\ code' = [code EXCEPT ![i] = x[i]]
           /\ worker' = [worker EXCEPT ![o].placed = worker[o].placed \cup {i}]
  BY DEF SwapCode
<1>3. /\ worker[o].point \in Points /\ x \in CodeType /\ code \in CodeType
      /\ worker[o] \in WorkerType
      /\ \A j \in worker[o].placed : code[j] = x[j]
  <2>1. worker[o].point \in Points /\ \A j \in worker[o].placed : code[j] = x[j]
    BY <1>1, StepHas DEF WorkOK, RequestOK, PlacedOK
  <2> QED BY <1>1, <2>1, StepHas DEF PointType
<1> HIDE DEF x
<1>4. PICK v : v = worker'[o]
  OBVIOUS
<1>5. /\ v \in WorkerType /\ v.pc = "swap" /\ v.kind = worker[o].kind
      /\ v.target = worker[o].target /\ v.point = worker[o].point
      /\ v.undo = worker[o].undo /\ v.found = worker[o].found
      /\ worker' \in [Ops -> WorkerType] /\ \A q \in Ops : q # o => worker'[q] = worker[q]
      /\ \/ code' = [code EXCEPT ![i] = NULL] /\ v.placed = worker[o].placed
         \/ code' = [code EXCEPT ![i] = x[i]] /\ v.placed = worker[o].placed \cup {i}
  <2>1. worker \in [Ops -> WorkerType]
    BY Unchanging
  <2>2. CASE code' = [code EXCEPT ![i] = NULL] /\ worker' = worker
    BY <1>1, <1>3, <1>4, <2>1, <2>2
  <2>3. CASE /\ code' = [code EXCEPT ![i] = x[i]]
             /\ worker' = [worker EXCEPT ![o].placed = worker[o].placed \cup {i}]
    <3>1. PICK y : y = [worker[o] EXCEPT !.placed = worker[o].placed \cup {i}]
      OBVIOUS
    <3>2. /\ y \in WorkerType /\ y.pc = worker[o].pc /\ y.kind = worker[o].kind
          /\ y.target = worker[o].target /\ y.point = worker[o].point
          /\ y.undo = worker[o].undo /\ y.found = worker[o].found
          /\ y.placed = worker[o].placed \cup {i}
      BY <1>2, <1>3, <3>1 DEF WorkerType
    <3>3. worker' = [worker EXCEPT ![o] = y]
      BY <2>1, <2>3, <3>1
    <3> QED BY <1>1, <1>4, <2>1, <2>3, <3>2, <3>3
  <2> QED BY <1>2, <2>2, <2>3
<1>6. code' \in CodeType /\ \A j \in v.placed : code'[j] = x[j]
  <2>1. NULL \in Nat /\ x[i] \in Nat /\ i \in Parts /\ i \notin worker[o].placed
    BY <1>2, <1>3 DEF CodeType, NULL
  <2>2. worker[o].placed \subseteq Parts
    BY <1>3 DEF WorkerType
  <2> QED BY <1>3, <1>5, <2>1, <2>2 DEF CodeType
<1>7. WorkOK(v, code', data, web, points, newer, status.backup)
  <2>1. WorkOK(worker[o], code, data, web, points, newer, status.backup)
    BY <1>1, StepHas
  <2>2. RequestOK(v) /\ ShownOK(v, status.backup)
    BY <1>1, <1>5, <2>1 DEF WorkOK, RequestOK, ShownOK, Restoring, Copying, Early
  <2>3. CopyOK(v, code', data, web, points) /\ KeptOK(v, points, newer)
    BY <1>1, <1>5, <2>1 DEF WorkOK, CopyOK, KeptOK, Restoring, Copying, Creating, Early
  <2>4. PlacedOK(v, code', data, points)
    BY <1>5, <1>6 DEF PlacedOK, x
  <2> QED BY <2>2, <2>3, <2>4 DEF WorkOK
<1> QED BY <1>1, <1>4, <1>5, <1>6, <1>7, StepKeeps, StepHas, Unchanging

\* Restoring begins with a recovery point that passed its check.
LEMMA StageKeeps ==
    ASSUME InstallInv, NEW o \in Ops, Stage(o)
    PROVE  InstallInv'
<1>1. /\ Alone /\ worker[o].pc = "restore" /\ worker[o].pc \notin Gone
      /\ UNCHANGED <<code, data, web, points, launcher, lock, status, excused>>
      /\ newer' = Newest(worker[o].point)
      /\ worker' = [worker EXCEPT ![o].pc = "swap", ![o].placed = {}]
      /\ Whole(points[worker[o].point])
  BY DEF Stage, Runs, Gone, Whole, Intact, Listed
<1>2. worker[o].point \in Points
  BY <1>1, StepHas DEF WorkOK, RequestOK
<1>3. newer' \in [Points -> SUBSET Points]
  BY <1>1, <1>2, StepHas, TablesHaveTypes
<1>4. PICK v : v = [worker[o] EXCEPT !.pc = "swap", !.placed = {}]
  OBVIOUS
<1>5. /\ v \in WorkerType
      /\ v.pc = "swap" /\ v.kind = worker[o].kind /\ v.target = worker[o].target
      /\ v.point = worker[o].point /\ v.undo = worker[o].undo /\ v.placed = {}
  <2>1. "swap" \in WorkerPlaces /\ {} \in SUBSET Parts
    BY DEF WorkerPlaces
  <2>2. worker[o] \in WorkerType
    BY <1>1, StepHas
  <2> QED BY <2>1, <2>2, <1>4 DEF WorkerType
<1>6. /\ worker' \in [Ops -> WorkerType] /\ worker'[o] = v
      /\ \A q \in Ops : q # o => worker'[q] = worker[q]
  <2>1. worker' = [worker EXCEPT ![o] = v]
    BY <1>1, <1>4, Unchanging
  <2> QED BY <2>1, <1>5, Unchanging
<1>7. WorkOK(v, code, data, web, points, newer', status.backup)
  BY <1>1, <1>5, StepHas
  DEF WorkOK, RequestOK, CopyOK, KeptOK, PlacedOK, ShownOK, Early, Copying, Creating, Restoring
<1> QED BY <1>1, <1>3, <1>6, <1>7, StepKeeps, StepHas, Unchanging

\* The lock goes last.
LEMMA FinishKeeps ==
    ASSUME InstallInv, NEW o \in Ops, Finish(o)
    PROVE  InstallInv'
<1>1. /\ Alone /\ worker[o].pc \notin Gone
      /\ UNCHANGED <<code, data, web, points, newer, launcher, status, excused>>
      /\ worker' = [worker EXCEPT ![o] = Ended("done")] /\ lock' = NoLock
  BY DEF Finish, Runs, Gone, disk
<1>2. Ended("done") \in WorkerType /\ Ended("done").pc = "done"
  BY EndedTyped DEF WorkerPlaces
<1>3. /\ worker' \in [Ops -> WorkerType] /\ worker'[o].pc \in Gone
      /\ \A q \in Ops : q # o => worker'[q] = worker[q]
  BY <1>1, <1>2, Unchanging DEF Gone
<1> QED BY <1>1, <1>3, StepKeeps, StepHas, Unchanging, RecordsHaveTypes

\* A worker that exits as it stands.
LEMMA AbortKeeps ==
    ASSUME InstallInv, NEW o \in Ops, Abort(o) \/ LoadFails(o)
    PROVE  InstallInv'
<1>1. /\ Alone /\ worker[o].pc \notin Gone
      /\ UNCHANGED <<code, data, web, points, newer, launcher, status, lock, excused>>
      /\ worker' = [worker EXCEPT ![o] = Ended("aborted")]
  BY DEF Abort, LoadFails, Runs, Gone, disk
<1>2. Ended("aborted") \in WorkerType /\ Ended("aborted").pc = "aborted"
  BY EndedTyped DEF WorkerPlaces
<1>3. /\ worker' \in [Ops -> WorkerType] /\ worker'[o].pc \in Gone
      /\ \A q \in Ops : q # o => worker'[q] = worker[q]
  BY <1>1, <1>2, Unchanging DEF Gone
<1> QED BY <1>1, <1>3, StepKeeps, StepHas, Unchanging, RecordsHaveTypes

\* The handler of an upgrade that has its recovery point sets out to undo it,
LEMMA UndoneKeeps ==
    ASSUME InstallInv, NEW o \in Ops, Undo(o), ~Goto(o, "fail")
    PROVE  InstallInv'
<1> DEFINE v == [worker[o] EXCEPT !.pc = "undo_stop", !.undo = TRUE]
<1>1. /\ Alone /\ worker[o].pc = "raised" /\ worker[o].pc \notin Gone
      /\ UNCHANGED <<code, data, web, points, newer, launcher, lock, excused>>
      /\ worker[o].kind = "upgrade" /\ worker[o].point # NULL
      /\ status' = NewStatus("rolling_back", o, worker[o].point)
      /\ worker' = [worker EXCEPT ![o].pc = "undo_stop", ![o].undo = TRUE]
  BY DEF Undo, Runs, Gone, disk
<1>2. /\ v \in WorkerType /\ v.pc = "undo_stop" /\ v.kind = worker[o].kind
      /\ v.target = worker[o].target /\ v.point = worker[o].point
      /\ v.undo /\ v.found = worker[o].found
  <2>1. "undo_stop" \in WorkerPlaces /\ worker[o] \in WorkerType
    BY <1>1, StepHas DEF WorkerPlaces
  <2> QED BY <2>1 DEF WorkerType
<1>3. /\ worker'[o] = v /\ worker' \in [Ops -> WorkerType]
      /\ \A q \in Ops : q # o => worker'[q] = worker[q]
  BY <1>1, <1>2, Unchanging
<1>4. worker[o].point \in Points /\ Whole(points[worker[o].point])
  BY <1>1, StepHas, NullIsNoPoint DEF WorkOK, KeptOK, Early, WorkerType
<1>5. status' \in StatusType /\ status'.backup = worker[o].point
  BY <1>1, <1>4, StatusHasType DEF States, ACTIVE_STATES
<1> HIDE DEF v
<1>6. WorkOK(v, code, data, web, points, newer, status'.backup)
  BY <1>1, <1>2, <1>4, <1>5, StepHas
  DEF WorkOK, RequestOK, CopyOK, KeptOK, PlacedOK, ShownOK, Early, Copying, Creating, Restoring
<1> QED BY <1>1, <1>3, <1>4, <1>5, <1>6, StepKeeps, StepHas, Unchanging

\* or gives up when the status of the undo cannot be written.
LEMMA UndoKeeps ==
    ASSUME InstallInv, NEW o \in Ops, Undo(o)
    PROVE  InstallInv'
<1>1. CASE ~Goto(o, "fail")
  BY <1>1, UndoneKeeps
<1>2. CASE Goto(o, "fail")
  <2>1. /\ Alone /\ worker[o].pc = "raised" /\ worker[o].pc \notin Gone
        /\ UNCHANGED <<code, data, web, points, newer, launcher, lock, excused>>
    BY DEF Undo, Runs, Gone, disk
  <2>2. status' = status
    <3>1. worker[o] \in WorkerType /\ worker \in [Ops -> WorkerType]
      BY <2>1, StepHas, Unchanging
    <3>2. worker'[o].pc = "fail"
      BY <1>2, <3>1 DEF Goto, WorkerType
    <3>3. [worker EXCEPT ![o].pc = "undo_stop", ![o].undo = TRUE][o].pc = "undo_stop"
      BY <3>1 DEF WorkerType
    <3> QED BY <3>2, <3>3 DEF Undo
  <2>3. Announces(status, status', o, worker[o], points) /\ status'.backup = status.backup
    BY <2>2 DEF Announces
  <2>4. ASSUME NEW v \in WorkerType,
               v.pc = "fail", v.kind = worker[o].kind, v.target = worker[o].target,
               v.point = worker[o].point, v.undo = worker[o].undo, v.found = worker[o].found
        PROVE  WorkOK(v, code, data, web, points, newer, status.backup)
    BY <2>1, <2>4, StepHas
    DEF WorkOK, RequestOK, CopyOK, KeptOK, PlacedOK, ShownOK, Early, Copying, Creating, Restoring
  <2> QED BY <1>2, <2>1, <2>2, <2>3, <2>4, GotoKeeps, StepHas DEF WorkerPlaces
<1> QED BY <1>1, <1>2

\* An exception: a recovery point in the making is removed, one that is
\* complete is kept for the handler.
LEMMA CaughtKeeps ==
    ASSUME InstallInv, NEW o \in Ops, Raise(o) \/ Refuse(o)
    PROVE  InstallInv'
<1>1. /\ Alone /\ worker[o].pc \notin Gone
      /\ UNCHANGED <<code, data, launcher, status>>
      /\ web' = web \/ web' = NULL
      /\ worker' = [worker EXCEPT ![o] = Caught(worker[o])]
      /\ lock' = NoLock \/ lock' = lock
      /\ excused' \in BOOLEAN
  BY Unchanging DEF Raise, Refuse, Gone, disk
<1>2. /\ Caught(worker[o]) \in WorkerType
      /\ Caught(worker[o]).pc \in {"fail", "diagnose", "raised"}
      /\ Caught(worker[o]).kind = worker[o].kind /\ Caught(worker[o]).target = worker[o].target
      /\ Caught(worker[o]).undo = worker[o].undo
      /\ Caught(worker[o]).point = IF worker[o].pc \in Creating THEN NULL ELSE worker[o].point
  BY <1>1, StepHas, CaughtWorker
<1>3. \/ worker[o].pc \notin Creating /\ points' = points /\ newer' = newer
      \/ /\ worker[o].pc \in Creating /\ worker[o].point \in Points
         /\ points' = [points EXCEPT ![worker[o].point] = Removed]
         /\ newer' = Without(worker[o].point)
  <2>1. CASE Raise(o)
    <3>1. worker[o].pc \in Creating => worker[o].point \in Points /\ worker[o].kind # "rollback"
      BY <1>1, StepHas DEF WorkOK, RequestOK, Creating, Copying
    <3> QED BY <2>1, <3>1 DEF Raise, Discarded
  <2>2. CASE Refuse(o)
    BY <2>2 DEF Refuse, Creating, disk
  <2> QED BY <2>1, <2>2
<1>4. points' \in [Points -> PointType] /\ newer' \in [Points -> SUBSET Points]
  <2>1. points \in [Points -> PointType] /\ newer \in [Points -> SUBSET Points]
    BY <1>1, StepHas
  <2>2. ASSUME worker[o].point \in Points
        PROVE  Without(worker[o].point) \in [Points -> SUBSET Points]
    BY <2>1, <2>2, TablesHaveTypes
  <2> QED BY <1>3, <2>1, <2>2, RecordsHaveTypes
<1>5. \A p \in Points : SoundPoint(points'[p])
  <2>1. SoundPoint(Removed)
    BY DEF Removed, NoPoint, SoundPoint
  <2> QED BY <1>1, <1>3, <2>1, StepHas, Unchanging
<1>6. status.backup # NULL /\ status.state # "failed" => Whole(points'[status.backup])
  <2>1. worker[o].pc \in Creating => status.backup = NULL
    BY <1>1, StepHas DEF WorkOK, ShownOK, RequestOK, Creating, Copying, Early
  <2> QED BY <1>3, <2>1, Unchanging
<1>7. PICK v : v = Caught(worker[o])
  OBVIOUS
<1>8. WorkOK(v, code, data, web', points', newer', status.backup)
  <2>1. /\ v.pc \in {"fail", "diagnose", "raised"}
        /\ v.kind = worker[o].kind /\ v.undo = worker[o].undo
        /\ v.point = IF worker[o].pc \in Creating THEN NULL ELSE worker[o].point
    BY <1>2, <1>7
  <2>2. WorkOK(worker[o], code, data, web, points, newer, status.backup)
    BY <1>1, StepHas
  <2>3. /\ worker[o].pc \in Creating => v.point = NULL
        /\ worker[o].pc \notin Creating => points' = points /\ v.point = worker[o].point
    BY <1>3, <2>1
  <2> QED BY <2>1, <2>2, <2>3
      DEF WorkOK, RequestOK, CopyOK, KeptOK, PlacedOK, ShownOK, Early, Copying, Creating, Restoring
<1>9. /\ worker'[o] = v /\ worker' \in [Ops -> WorkerType]
      /\ \A q \in Ops : q # o => worker'[q] = worker[q]
  BY <1>1, <1>2, <1>7, Unchanging
<1>10. lock' \in [held : BOOLEAN, old : BOOLEAN] /\ web' \in Nat
  BY <1>1, StepHas, Unchanging, RecordsHaveTypes DEF NULL
<1> QED BY <1>1, <1>4, <1>5, <1>6, <1>8, <1>9, <1>10, StepKeeps, StepHas

\* The directory of a new recovery point and its copy of the code.
LEMMA CopyCodeKeeps ==
    ASSUME InstallInv, NEW o \in Ops, CopyCode(o)
    PROVE  InstallInv'
<1>1. PICK p \in Points :
        /\ Unused(p)
        /\ points' = [points EXCEPT ![p] =
               [NoPoint EXCEPT !.made = TRUE, !.code = code,
                               !.from = worker[o].from, !.found = worker[o].found]]
        /\ newer' = Newest(p)
        /\ worker' = [worker EXCEPT ![o].pc = "copy_data", ![o].point = p]
  BY DEF CopyCode
<1> DEFINE x == [NoPoint EXCEPT !.made = TRUE, !.code = code,
                                !.from = worker[o].from, !.found = worker[o].found]
           v == [worker[o] EXCEPT !.pc = "copy_data", !.point = p]
<1>2. /\ Alone /\ worker[o].pc = "copy_code" /\ worker[o].pc \notin Gone
      /\ UNCHANGED <<code, data, web, launcher, lock, status, excused>>
  BY DEF CopyCode, Runs, Gone
<1>3. /\ x \in PointType /\ x.made /\ ~x.listed /\ ~x.torn /\ x.code = code
      /\ x.found = worker[o].found
  <2>1. worker[o].from \in Nat /\ worker[o].found \in StateType
    BY <1>2, StepHas DEF WorkerType
  <2>2. code \in CodeType /\ NoPoint \in PointType /\ ~NoPoint.listed /\ ~NoPoint.torn
    BY <1>2, StepHas, RecordsHaveTypes DEF NoPoint
  <2> QED BY <2>1, <2>2 DEF PointType
<1>4. /\ v \in WorkerType /\ v.pc = "copy_data" /\ v.kind = worker[o].kind
      /\ v.target = worker[o].target /\ v.point = p
      /\ v.undo = worker[o].undo /\ v.found = worker[o].found
  <2>1. "copy_data" \in WorkerPlaces /\ worker[o] \in WorkerType
    BY <1>2, StepHas DEF WorkerPlaces
  <2> QED BY <1>1, <2>1 DEF WorkerType
<1> HIDE DEF x, v
<1>5. /\ points' \in [Points -> PointType] /\ newer' \in [Points -> SUBSET Points]
      /\ points'[p] = x /\ \A q \in Points : q # p => points'[q] = points[q]
  BY <1>1, <1>2, <1>3, StepHas, TablesHaveTypes DEF x
<1>6. \A q \in Points : SoundPoint(points'[q])
  BY <1>3, <1>5, Unchanging DEF SoundPoint
<1>7. status.backup = NULL
  BY <1>2, StepHas DEF WorkOK, ShownOK, RequestOK, Copying, Early
<1>8. WorkOK(v, code, data, web, points', newer', status.backup)
  BY <1>2, <1>3, <1>4, <1>5, <1>7, StepHas
  DEF WorkOK, RequestOK, CopyOK, KeptOK, PlacedOK, ShownOK, Early, Copying, Creating, Restoring
<1>9. /\ worker'[o] = v /\ worker' \in [Ops -> WorkerType]
      /\ \A q \in Ops : q # o => worker'[q] = worker[q]
  BY <1>1, <1>4, Unchanging DEF v
<1> QED BY <1>2, <1>5, <1>6, <1>7, <1>8, <1>9, StepKeeps, StepHas, Unchanging

\* The instance is copied into it.
LEMMA CopyDataKeeps ==
    ASSUME InstallInv, NEW o \in Ops, CopyData(o)
    PROVE  InstallInv'
<1> DEFINE p == worker[o].point
           x == [points[p] EXCEPT !.data = data]
<1>1. /\ Alone /\ worker[o].pc = "copy_data" /\ worker[o].pc \notin Gone
      /\ UNCHANGED <<code, data, newer, web, launcher, lock, status, excused>>
      /\ points' = [points EXCEPT ![p].data = data] /\ Goto(o, "seal")
  BY DEF CopyData, Runs, Gone
<1>2. p \in Points
  BY <1>1, StepHas DEF WorkOK, RequestOK
<1>3. /\ x \in PointType /\ x.made = points[p].made /\ x.listed = points[p].listed
      /\ x.torn = points[p].torn /\ x.code = points[p].code /\ x.found = points[p].found
      /\ x.data = data
  BY <1>1, <1>2, StepHas DEF PointType
<1>4. /\ points' \in [Points -> PointType]
      /\ points'[p] = x /\ \A q \in Points : q # p => points'[q] = points[q]
  BY <1>1, <1>2, <1>3, StepHas
<1> HIDE DEF x
<1>5. /\ worker' \in [Ops -> WorkerType]
      /\ worker'[o] = [worker[o] EXCEPT !.pc = "seal"]
      /\ \A q \in Ops : q # o => worker'[q] = worker[q]
  BY <1>1, WorkerTyped, Unchanging DEF WorkerPlaces
<1>6. PICK v : v = worker'[o]
  OBVIOUS
<1>7. /\ v.pc = "seal" /\ v.kind = worker[o].kind /\ v.target = worker[o].target
      /\ v.point = p /\ v.undo = worker[o].undo /\ v.found = worker[o].found
  <2>1. "seal" \in WorkerPlaces
    BY DEF WorkerPlaces
  <2>2. worker[o] \in WorkerType
    BY <1>1, StepHas
  <2> QED BY <2>1, <2>2, <1>5, <1>6, MovedWorker
<1>8. ~points[p].listed /\ status.backup = NULL
  BY <1>1, StepHas DEF WorkOK, CopyOK, ShownOK, RequestOK, Copying, Creating, Early
<1>9. \A q \in Points : SoundPoint(points'[q])
  BY <1>3, <1>4, <1>8, Unchanging DEF SoundPoint
<1>10. WorkOK(v, code, data, web, points', newer, status.backup)
  <2>1. WorkOK(worker[o], code, data, web, points, newer, status.backup)
    BY <1>1, StepHas
  <2>2. RequestOK(v) /\ ShownOK(v, status.backup)
    BY <1>1, <1>2, <1>7, <2>1 DEF WorkOK, RequestOK, ShownOK, Restoring, Copying, Early
  <2>3. CopyOK(v, code, data, web, points')
    BY <1>1, <1>3, <1>4, <1>7, <2>1 DEF WorkOK, CopyOK, Copying, Creating
  <2>4. KeptOK(v, points', newer) /\ PlacedOK(v, code, data, points')
    BY <1>1, <1>7, <2>1, <2>2 DEF RequestOK, KeptOK, PlacedOK, Copying, Early
  <2> QED BY <2>2, <2>3, <2>4 DEF WorkOK
<1> QED BY <1>1, <1>4, <1>5, <1>6, <1>8, <1>9, <1>10, StepKeeps, StepHas, Unchanging

\* The manifest and the metadata: the recovery point is listed, and the newest.
LEMMA SealKeeps ==
    ASSUME InstallInv, NEW o \in Ops, Seal(o)
    PROVE  InstallInv'
<1> DEFINE p == worker[o].point
           x == [points[p] EXCEPT !.listed = TRUE]
           y == IF worker[o].kind = "backup" THEN "start" ELSE "bundle"
<1>1. /\ Alone /\ worker[o].pc = "seal" /\ worker[o].pc \notin Gone
      /\ UNCHANGED <<code, data, web, launcher, lock, status, excused>>
      /\ points' = [points EXCEPT ![p].listed = TRUE] /\ newer' = Newest(p) /\ Goto(o, y)
  BY DEF Seal, Runs, Gone
<1>2. p \in Points /\ worker[o].kind \in {"backup", "upgrade"} /\ ~Restoring(worker[o])
  BY <1>1, StepHas DEF WorkOK, RequestOK, Copying, Restoring, WorkerType, Kinds, Early
<1>3. /\ x \in PointType /\ x.made = points[p].made /\ x.listed
      /\ x.torn = points[p].torn /\ x.code = points[p].code /\ x.found = points[p].found
      /\ x.data = points[p].data
  <2>1. points[p] \in PointType
    BY <1>1, <1>2, StepHas
  <2> QED BY <2>1 DEF PointType
<1>4. /\ points' \in [Points -> PointType]
      /\ points'[p] = x /\ \A q \in Points : q # p => points'[q] = points[q]
  BY <1>1, <1>2, <1>3, StepHas
<1>5. newer' \in [Points -> SUBSET Points] /\ newer'[p] = {}
  <2>1. points \in [Points -> PointType] /\ newer \in [Points -> SUBSET Points]
    BY <1>1, StepHas
  <2> QED BY <1>1, <1>2, <2>1, TablesHaveTypes
<1>6. y \in WorkerPlaces /\ y \in {"start", "bundle"} /\ (y = "start" <=> worker[o].kind = "backup")
  BY DEF WorkerPlaces
<1> HIDE DEF x, y
<1>7. /\ worker' \in [Ops -> WorkerType]
      /\ worker'[o] = [worker[o] EXCEPT !.pc = y]
      /\ \A q \in Ops : q # o => worker'[q] = worker[q]
  BY <1>1, <1>6, WorkerTyped, Unchanging
<1>8. PICK v : v = worker'[o]
  OBVIOUS
<1>9. /\ v.pc = y /\ v.kind = worker[o].kind /\ v.target = worker[o].target
      /\ v.point = p /\ v.undo = worker[o].undo /\ v.found = worker[o].found
  <2>1. worker[o] \in WorkerType
    BY <1>1, StepHas
  <2> QED BY <1>6, <1>7, <1>8, <2>1, MovedWorker
<1>10. /\ points[p].made /\ ~points[p].torn /\ points[p].found = [code |-> code, data |-> data]
       /\ points[p].code = code /\ points[p].data = data /\ status.backup = NULL
  BY <1>1, <1>2, StepHas DEF WorkOK, CopyOK, ShownOK, Copying, Creating, Early
<1>11. \A q \in Points : SoundPoint(points'[q])
  <2>1. SoundPoint(x)
    BY <1>3, <1>10 DEF SoundPoint
  <2> QED BY <1>4, <2>1, Unchanging
<1>12. Whole(points'[p])
  BY <1>3, <1>4, <1>10 DEF Whole
<1>13. WorkOK(v, code, data, web, points', newer', status.backup)
  <2>1. RequestOK(v) /\ ShownOK(v, status.backup)
    BY <1>1, <1>2, <1>6, <1>9, <1>10, StepHas
    DEF WorkOK, RequestOK, ShownOK, Copying, Restoring, Early
  <2>2. CopyOK(v, code, data, web, points') /\ KeptOK(v, points', newer')
    BY <1>5, <1>6, <1>9, <1>12 DEF CopyOK, KeptOK, Copying, Creating
  <2>3. PlacedOK(v, code, data, points')
    BY <1>2, <1>6, <1>9 DEF PlacedOK, Restoring
  <2> QED BY <2>1, <2>2, <2>3 DEF WorkOK
<1> QED BY <1>1, <1>4, <1>5, <1>7, <1>8, <1>10, <1>11, <1>13, StepKeeps, StepHas, Unchanging

\* Pruning removes no recovery point that nothing is newer than.
LEMMA SurplusHasNewer ==
    ASSUME NEW S, NEW p \in Surplus(S)
    PROVE  p \in S /\ newer[p] # {}
<1>1. p \in S /\ Cardinality({q \in S : q \in newer[p]}) >= Retention
  BY DEF Surplus
<1>2. ASSUME newer[p] = {} PROVE FALSE
  <2>1. {q \in S : q \in newer[p]} = {}
    BY <1>2
  <2>2. Cardinality({q \in S : q \in newer[p]}) = 0
    BY <2>1, FS_EmptySet
  <2> QED BY <1>1, <2>2, BoundsAssumption
<1> QED BY <1>1, <1>2

LEMMA PruneKeeps ==
    ASSUME InstallInv, NEW o \in Ops, Prune(o)
    PROVE  InstallInv'
<1> DEFINE b == worker[o].point
<1>1. /\ Alone /\ worker[o].pc = "prune" /\ worker[o].pc \notin Gone
      /\ UNCHANGED <<code, data, web, lock, status, launcher, worker, excused>>
  BY DEF Prune, Runs, Gone
<1>2. PICK p \in Surplus(ListedPoints) :
        \/ points' = [points EXCEPT ![p] = Removed] /\ newer' = Without(p)
        \/ points' = [points EXCEPT ![p].torn = TRUE] /\ newer' = newer
  BY DEF Prune
<1>3. b \in Points /\ worker[o].kind = "upgrade" /\ ~Restoring(worker[o]) /\ newer[b] = {}
  BY <1>1, StepHas DEF WorkOK, RequestOK, KeptOK, Restoring
<1>4. p \in Points /\ p # b
  BY <1>2, <1>3, SurplusHasNewer DEF ListedPoints
<1>5. points[p].made
  BY <1>2, SurplusHasNewer DEF ListedPoints, Listed
<1>6. /\ [points[p] EXCEPT !.torn = TRUE] \in PointType
      /\ SoundPoint([points[p] EXCEPT !.torn = TRUE])
  <2>1. points[p] \in PointType /\ SoundPoint(points[p])
    BY <1>1, <1>4, StepHas, Unchanging
  <2>2. PICK x : x = [points[p] EXCEPT !.torn = TRUE]
    OBVIOUS
  <2>3. /\ x \in PointType /\ x.listed = points[p].listed /\ x.made = points[p].made
        /\ x.code = points[p].code /\ x.data = points[p].data /\ x.found = points[p].found
    BY <2>1, <2>2 DEF PointType
  <2> QED BY <2>1, <2>2, <2>3 DEF SoundPoint
<1>7. Removed \in PointType /\ SoundPoint(Removed)
  BY RecordsHaveTypes DEF Removed, NoPoint, SoundPoint
<1>8. /\ points' \in [Points -> PointType] /\ \A q \in Points : q # p => points'[q] = points[q]
      /\ SoundPoint(points'[p])
  <2>1. points \in [Points -> PointType]
    BY <1>1, StepHas
  <2>2. CASE points' = [points EXCEPT ![p] = Removed]
    BY <2>1, <2>2, <1>4, <1>7
  <2>3. CASE points' = [points EXCEPT ![p].torn = TRUE]
    <3>1. points' = [points EXCEPT ![p] = [points[p] EXCEPT !.torn = TRUE]]
      BY <2>1, <2>3
    <3> QED BY <2>1, <3>1, <1>4, <1>6
  <2> QED BY <1>2, <2>2, <2>3
<1>9. newer' \in [Points -> SUBSET Points] /\ newer'[b] = {}
  <2>1. points \in [Points -> PointType] /\ newer \in [Points -> SUBSET Points]
    BY <1>1, StepHas
  <2>2. Without(p) \in [Points -> SUBSET Points] /\ Without(p)[b] = {}
    BY <2>1, <1>3, <1>4, TablesHaveTypes
  <2> QED BY <1>2, <1>3, <2>1, <2>2
<1>10. \A q \in Points : SoundPoint(points'[q])
  BY <1>8, Unchanging
<1>11. points'[b] = points[b] /\ (status.backup # NULL => status.backup = b)
  BY <1>1, <1>3, <1>4, <1>8, StepHas DEF WorkOK, ShownOK
<1>12. WorkOK(worker[o], code, data, web, points', newer', status.backup)
  BY <1>1, <1>9, <1>11, StepHas
  DEF WorkOK, RequestOK, CopyOK, KeptOK, PlacedOK, ShownOK, Early, Copying, Creating, Restoring
<1>13. status.backup # NULL /\ status.state # "failed" => Whole(points'[status.backup])
  BY <1>11, Unchanging
<1> QED BY <1>1, <1>8, <1>9, <1>10, <1>12, <1>13, StepKeeps, StepHas, Unchanging

-----------------------------------------------------------------------------
(* Launchers and the host.                                                 *)

\* Launchers change nothing that the workers rely on: the status they write
\* names no recovery point.
LEMMA LauncherKeeps ==
    ASSUME InstallInv,
           UNCHANGED <<code, data, web, points, newer, worker>>,
           launcher' \in [Launchers -> LauncherType],
           \A l \in Launchers : Named(launcher'[l]),
           lock' \in [held : BOOLEAN, old : BOOLEAN], excused' \in BOOLEAN,
           status' \in StatusType,
           status'.backup = NULL \/ (status'.backup = status.backup /\ status'.state = status.state)
    PROVE  InstallInv'
<1>1. TypeOK'
  BY DEF InstallInv, TypeOK
<1>2. RequestsOK' /\ PointsOK' /\ StatusOK'
  BY DEF InstallInv, RequestsOK, PointsOK, StatusOK
<1>3. \A w, c, d, s, P, N, b : WorkOK(w, c, d, s, P, N, b) => WorkOK(w, c, d, s, P, N, NULL)
  BY DEF WorkOK, ShownOK
<1>4. WorkersOK'
  <2>1. ASSUME NEW o \in Ops, worker'[o].pc \notin Gone
        PROVE  WorkOK(worker'[o], code', data', web', points', newer', status'.backup)
    <3>1. WorkOK(worker[o], code, data, web, points, newer, status.backup)
      BY <2>1 DEF InstallInv, WorkersOK
    <3> QED BY <3>1, <1>3
  <2> QED BY <2>1 DEF WorkersOK
<1> QED BY <1>1, <1>2, <1>4 DEF InstallInv

LEMMA CheckKeeps ==
    ASSUME InstallInv, NEW l \in Launchers, Check(l)
    PROVE  InstallInv'
<1>1. UNCHANGED <<code, data, web, points, newer, worker, lock, status, excused>>
  BY DEF Check, disk
<1>2. TypeOK /\ RequestsOK
  BY DEF InstallInv
<1>3. launcher' \in [Launchers -> LauncherType] /\ Named(launcher'[l])
  BY <1>2, RequestTyped
<1>4. \A m \in Launchers : m # l => launcher'[m] = launcher[m]
  BY <1>2 DEF Check, TypeOK
<1>5. \A m \in Launchers : Named(launcher'[m])
  BY <1>2, <1>3, <1>4 DEF RequestsOK
<1>6. status \in StatusType
  BY <1>2 DEF TypeOK
<1> QED BY <1>1, <1>3, <1>5, <1>6, Unchanging, LauncherKeeps

\* Moving on with a request, or dropping it, leaves the requests as they are.
LEMMA RequestMoves ==
    ASSUME InstallInv, NEW l \in Launchers,
           NEW x \in {"idle", "open", "takeover", "reopen", "locked", "report"},
           \/ launcher' = [launcher EXCEPT ![l].pc = x]
           \/ launcher' = [launcher EXCEPT ![l] = Idle]
    PROVE  /\ launcher' \in [Launchers -> LauncherType]
           /\ \A m \in Launchers : Named(launcher'[m])
           /\ \A m \in Launchers : m # l => launcher'[m] = launcher[m]
           /\ launcher'[l].pc = x \/ launcher'[l].pc = "idle"
<1>1. launcher \in [Launchers -> LauncherType] /\ \A m \in Launchers : Named(launcher[m])
  BY DEF InstallInv, TypeOK, RequestsOK
<1>2. launcher' \in [Launchers -> LauncherType]
  <2>1. launcher \in [Launchers -> LauncherType]
    BY <1>1
  <2>2. /\ [launcher EXCEPT ![l].pc = x] \in [Launchers -> LauncherType]
        /\ [launcher EXCEPT ![l] = Idle] \in [Launchers -> LauncherType]
    BY <2>1, LauncherTyped
  <2> QED BY <2>2
<1>3. \A m \in Launchers : m # l => launcher'[m] = launcher[m]
  BY <1>1
<1>4. Named(Idle) /\ Idle.pc = "idle"
  BY DEF Named, Idle
<1>5. /\ [launcher[l] EXCEPT !.pc = x].kind = launcher[l].kind
      /\ [launcher[l] EXCEPT !.pc = x].point = launcher[l].point
      /\ [launcher[l] EXCEPT !.pc = x].pc = x
  BY <1>1 DEF LauncherType
<1>6. launcher'[l] = [launcher[l] EXCEPT !.pc = x] \/ launcher'[l] = Idle
  BY <1>1
<1>7. Named(launcher'[l]) /\ (launcher'[l].pc = x \/ launcher'[l].pc = "idle")
  BY <1>1, <1>4, <1>5, <1>6 DEF Named
<1> QED BY <1>1, <1>2, <1>3, <1>7

\* Taking the lock, taking it over, giving up and reporting.
LEMMA LockingKeeps ==
    ASSUME InstallInv, NEW l \in Launchers,
           TryLock(l) \/ Takeover(l) \/ Reopen(l) \/ SpawnFails(l) \/ Report(l) \/ ReportRaises(l)
    PROVE  InstallInv'
<1>1. /\ UNCHANGED <<code, data, web, points, newer, worker>>
      /\ lock' = lock \/ lock' = FreshLock \/ lock' = NoLock
      /\ excused' \in BOOLEAN
      /\ \/ status' = status \/ status' = NewStatus("starting", NULL, NULL)
         \/ status' = NewStatus("failed", NULL, NULL)
      /\ \E x \in {"idle", "open", "takeover", "reopen", "locked", "report"} :
            \/ launcher' = [launcher EXCEPT ![l].pc = x]
            \/ launcher' = [launcher EXCEPT ![l] = Idle]
            \/ launcher' = launcher
  <2>1. launcher' = [launcher EXCEPT ![l] = [@ EXCEPT !.pc = "locked"]]
            => launcher' = [launcher EXCEPT ![l].pc = "locked"]
    OBVIOUS
  <2>2. CASE TryLock(l)
    BY <2>2, Unchanging DEF TryLock, disk
  <2>3. CASE Takeover(l)
    BY <2>3, Unchanging DEF Takeover, disk
  <2>4. CASE Reopen(l)
    BY <2>4, <2>1, Unchanging DEF Reopen, disk
  <2>5. CASE SpawnFails(l) \/ Report(l) \/ ReportRaises(l)
    BY <2>5, Unchanging DEF SpawnFails, Report, ReportRaises, disk
  <2> QED BY <2>2, <2>3, <2>4, <2>5
<1>2. /\ launcher' \in [Launchers -> LauncherType]
      /\ \A m \in Launchers : Named(launcher'[m])
  BY <1>1, RequestMoves DEF InstallInv, TypeOK, RequestsOK
<1>3. lock' \in [held : BOOLEAN, old : BOOLEAN]
  BY <1>1, Unchanging, RecordsHaveTypes
<1>4. /\ status' \in StatusType
      /\ status'.backup = NULL \/ (status'.backup = status.backup /\ status'.state = status.state)
  <2>1. ASSUME NEW s \in {"starting", "failed"}
        PROVE  NewStatus(s, NULL, NULL) \in StatusType /\ NewStatus(s, NULL, NULL).backup = NULL
    <3>1. s \in States
      BY DEF States, ACTIVE_STATES
    <3> QED BY <3>1, StatusHasType
  <2>2. status \in StatusType
    BY DEF InstallInv, TypeOK
  <2> QED BY <1>1, <2>1, <2>2
<1> QED BY <1>1, <1>2, <1>3, <1>4, LauncherKeeps

\* A status without a recovery point suits every worker.
LEMMA NoneSuits ==
    \A w, c, d, s, P, N, b : WorkOK(w, c, d, s, P, N, b) => WorkOK(w, c, d, s, P, N, NULL)
  BY DEF WorkOK, ShownOK

\* A new worker has what its request names.
LEMMA SpawnKeeps ==
    ASSUME InstallInv, NEW l \in Launchers, Spawn(l)
    PROVE  InstallInv'
<1> DEFINE r == [NoWorker EXCEPT !.pc = "spawned", !.kind = launcher[l].kind,
                                 !.from = launcher[l].from, !.target = launcher[l].target,
                                 !.point = launcher[l].point]
<1>1. PICK o \in Ops : /\ worker' = [worker EXCEPT ![o] = r]
                       /\ status' = NewStatus("starting", o, NULL)
  BY DEF Spawn
<1>2. /\ UNCHANGED <<code, data, web, points, newer, lock, excused>>
      /\ launcher' = [launcher EXCEPT ![l] = Idle]
  BY DEF Spawn, disk
<1>3. launcher[l] \in LauncherType /\ Named(launcher[l])
  BY DEF InstallInv, TypeOK, RequestsOK
<1>4. /\ r \in WorkerType /\ r.pc = "spawned" /\ r.kind = launcher[l].kind
      /\ r.point = launcher[l].point /\ ~r.undo
  <2>1. NoWorker \in WorkerType /\ ~NoWorker.undo
    BY RecordsHaveTypes DEF NoWorker
  <2>2. "spawned" \in WorkerPlaces
    BY DEF WorkerPlaces
  <2> QED BY <1>3, <2>1, <2>2 DEF WorkerType, LauncherType
<1> HIDE DEF r
<1>5. ASSUME NEW c, NEW d, NEW s, NEW P, NEW N PROVE WorkOK(r, c, d, s, P, N, NULL)
  BY <1>3, <1>4
  DEF WorkOK, RequestOK, CopyOK, KeptOK, PlacedOK, ShownOK, Early, Copying, Creating, Restoring, Named
<1>6. status' \in StatusType /\ status'.backup = NULL
  <2>1. "starting" \in States
    BY DEF States, ACTIVE_STATES
  <2> QED BY <1>1, <2>1, StatusHasType
<1>7. worker' \in [Ops -> WorkerType]
  BY <1>1, <1>4, Unchanging
<1>8. WorkersOK'
  <2>1. ASSUME NEW q \in Ops, worker'[q].pc \notin Gone
        PROVE  WorkOK(worker'[q], code', data', web', points', newer', status'.backup)
    <3>1. CASE q = o
      BY <3>1, <1>1, <1>5, <1>6, Unchanging
    <3>2. CASE q # o
      <4>1. worker'[q] = worker[q]
        BY <3>2, <1>1
      <4>2. WorkOK(worker[q], code, data, web, points, newer, status.backup)
        BY <4>1, <2>1 DEF InstallInv, WorkersOK
      <4> QED BY <4>1, <4>2, <1>2, <1>6, NoneSuits
    <3> QED BY <3>1, <3>2
  <2> QED BY <2>1 DEF WorkersOK
<1>9. /\ launcher' \in [Launchers -> LauncherType]
      /\ \A m \in Launchers : Named(launcher'[m])
  BY <1>2, RequestMoves
<1>10. TypeOK'
  BY <1>2, <1>6, <1>7, <1>9 DEF InstallInv, TypeOK
<1>11. RequestsOK' /\ PointsOK' /\ StatusOK'
  BY <1>2, <1>6, <1>9 DEF InstallInv, RequestsOK, PointsOK, StatusOK
<1> QED BY <1>8, <1>10, <1>11 DEF InstallInv

\* Users, a boot and the passing of time.
LEMMA HostKeeps ==
    ASSUME InstallInv, Edit \/ Boot \/ Crash \/ Age
    PROVE  InstallInv'
<1> USE DEF InstallInv
<1>1. /\ code \in CodeType /\ data \in DataType /\ web \in Nat /\ status \in StatusType
      /\ worker \in [Ops -> WorkerType] /\ launcher \in [Launchers -> LauncherType]
      /\ lock \in [held : BOOLEAN, old : BOOLEAN]
  BY DEF TypeOK
<1>2. CASE Edit
  <2>1. /\ UNCHANGED <<code, points, newer, web, lock, status, launcher, worker, excused>>
        /\ data' = [data EXCEPT !.edits = data.edits + 1] /\ web # NULL
    BY <1>2 DEF Edit
  <2>2. data' \in DataType /\ data'.schema = data.schema
    BY <2>1, <1>1 DEF DataType
  <2>3. ASSUME NEW w \in WorkerType, NEW P, NEW N, NEW b,
               WorkOK(w, code, data, web, P, N, b)
        PROVE  WorkOK(w, code, data', web, P, N, b)
    BY <2>1, <2>2, <2>3
    DEF WorkOK, RequestOK, CopyOK, KeptOK, PlacedOK, ShownOK, Early, Copying, Creating, Restoring
  <2>4. WorkersOK'
    BY <2>1, <2>3, <1>1 DEF WorkersOK
  <2> QED BY <2>1, <2>2, <2>4 DEF TypeOK, RequestsOK, PointsOK, StatusOK
<1>3. CASE Boot
  <2>1. /\ UNCHANGED <<code, points, newer, lock, status, launcher, worker, excused>>
        /\ data' = Migrated(data) /\ web' = code[1] /\ Live = {}
    BY <1>3 DEF Boot
  <2>2. data' \in DataType /\ web' \in Nat
    BY <2>1, <1>1, MigratedHasType DEF CodeType, Parts
  <2>3. WorkersOK'
    BY <2>1 DEF WorkersOK, Live
  <2> QED BY <2>1, <2>2, <2>3 DEF TypeOK, RequestsOK, PointsOK, StatusOK
<1>4. CASE Crash
  <2>1. /\ UNCHANGED <<code, data, points, newer, lock, status, excused>> /\ web' = NULL
        /\ launcher' = [l \in Launchers |-> Idle]
        /\ worker' = [o \in Ops |-> IF o \in Live THEN Ended("dead") ELSE worker[o]]
    BY <1>4 DEF Crash, disk
  <2>2. Ended("dead") \in WorkerType /\ Ended("dead").pc = "dead"
    BY EndedTyped DEF WorkerPlaces
  <2>3. worker' \in [Ops -> WorkerType] /\ \A o \in Ops : worker'[o].pc \in Gone
    BY <2>1, <2>2, <1>1 DEF Live, Gone
  <2>4. launcher' \in [Launchers -> LauncherType] /\ Named(Idle) /\ web' \in Nat
    BY <2>1, RecordsHaveTypes DEF Named, Idle, NULL
  <2> QED BY <2>1, <2>3, <2>4 DEF TypeOK, RequestsOK, PointsOK, StatusOK, WorkersOK
<1>5. CASE Age
  <2>1. /\ UNCHANGED <<code, data, points, newer, web, launcher, worker, excused>>
        /\ lock' = [lock EXCEPT !.old = lock.held]
        /\ status' = [status EXCEPT !.old = Active(status)]
    BY <1>5 DEF Age, disk
  <2>2. /\ lock' \in [held : BOOLEAN, old : BOOLEAN] /\ status' \in StatusType
        /\ status'.backup = status.backup /\ status'.state = status.state
    <3>1. Active(status) \in BOOLEAN
      BY DEF Active
    <3> HIDE DEF Active
    <3> QED BY <2>1, <3>1, <1>1 DEF StatusType
  <2>3. WorkersOK'
    BY <2>1, <2>2 DEF WorkersOK
  <2> QED BY <2>1, <2>2, <2>3 DEF TypeOK, RequestsOK, PointsOK, StatusOK
<1> QED BY <1>2, <1>3, <1>4, <1>5

-----------------------------------------------------------------------------
(* The lock.                                                               *)

\* A step of a worker that goes on, or that ends leaving the lock.
LEMMA QuietLock ==
    ASSUME LockOK, NEW o \in Live, worker \in [Ops -> WorkerType],
           \A q \in Ops : q # o => worker'[q] = worker[q],
           launcher' = launcher, lock' = lock, excused' = excused
    PROVE  LockOK'
<1>1. Live' \subseteq Live
  BY DEF Live
<1> QED BY <1>1 DEF LockOK, Held

\* The worker that holds the lock ends: nobody holds it.
LEMMA FinishLock ==
    ASSUME LockOK, TypeOK, NEW o \in Ops, Finish(o)
    PROVE  LockOK'
<1>1. o \in Live /\ worker' = [worker EXCEPT ![o] = Ended("done")]
      /\ launcher' = launcher /\ excused' = excused
  BY DEF Finish, Runs, Live, Gone
<1>2. worker \in [Ops -> WorkerType] /\ Ended("done").pc = "done"
  <2>1. Ended("done").pc = "done"
    BY EndedTyped DEF WorkerPlaces
  <2> QED BY <2>1 DEF TypeOK
<1>3. Live' = Live \ {o}
  BY <1>1, <1>2 DEF Live, Gone
<1>4. CASE ~excused
  <2>1. Live' = {} /\ \A l \in Launchers : launcher'[l].pc # "locked"
    BY <1>1, <1>3, <1>4 DEF LockOK
  <2> QED BY <2>1 DEF LockOK, Held
<1>5. CASE excused
  BY <1>1, <1>5 DEF LockOK
<1> QED BY <1>4, <1>5

\* Every step of a worker.
LEMMA WorkerLock ==
    ASSUME LockOK, TypeOK, NEW o \in Ops, WorkerStep(o) \/ Raise(o) \/ Abort(o)
    PROVE  LockOK'
<1> DEFINE Others == \A q \in Ops : q # o => worker'[q] = worker[q]
           Quiet == launcher' = launcher /\ lock' = lock /\ excused' = excused
<1>1. worker \in [Ops -> WorkerType]
  BY DEF TypeOK
<1>2. CASE \/ Begin(o) \/ Prepare(o) \/ Applied(o) \/ Start(o) \/ Validate(o) \/ Pruned(o)
           \/ UndoStop(o) \/ Restart(o) \/ Fail(o) \/ Diagnose(o) \/ Displace(o) \/ SwapData(o)
           \/ CopyData(o) \/ Seal(o)
  <2>1. o \in Live /\ \E x : Goto(o, x)
    BY <1>2 DEF Begin, Prepare, Applied, Start, Validate, Pruned, UndoStop, Restart, Fail,
                Diagnose, Displace, SwapData, CopyData, Seal, Runs, Live, Gone
  <2>2. Quiet
    BY <1>2 DEF Begin, Prepare, Applied, Start, Validate, Pruned, UndoStop, Restart, Fail,
                Diagnose, Displace, SwapData, CopyData, Seal
  <2>3. Others
    BY <2>1, <1>1 DEF Goto
  <2> QED BY <2>1, <2>2, <2>3, <1>1, QuietLock
<1>3. CASE \/ StopServices(o) \/ CopyCode(o) \/ Refuse(o) \/ Undo(o) \/ Stage(o)
           \/ Abort(o) \/ LoadFails(o)
  <2>1. o \in Live /\ Quiet
    BY <1>3 DEF StopServices, CopyCode, Refuse, Undo, Stage, Abort, LoadFails, Runs, Live, Gone
  <2>2. Others
    BY <1>3, <1>1 DEF StopServices, CopyCode, Refuse, Undo, Goto, Stage, Abort, LoadFails
  <2> QED BY <2>1, <2>2, <1>1, QuietLock
<1>4. CASE Apply(o) \/ SwapCode(o) \/ Prune(o)
  <2>1. o \in Live /\ Quiet /\ Others
    BY <1>4, <1>1 DEF Apply, SwapCode, Prune, Runs, Live, Gone
  <2> QED BY <2>1, <1>1, QuietLock
<1>5. CASE Finish(o)
  BY <1>5, FinishLock
<1>6. CASE Raise(o)
  <2>1. CASE worker[o].pc = "finish"
    <3>1. excused'
      BY <1>6, <2>1 DEF Raise
    <3> QED BY <3>1 DEF LockOK
  <2>2. CASE worker[o].pc # "finish"
    <3>1. o \in Live /\ launcher' = launcher /\ lock' = lock
      BY <1>6, <2>2 DEF Raise, Live, Gone
    <3>2. Others
      BY <1>6, <1>1 DEF Raise
    <3>3. excused' = excused
      BY <1>6, <2>2 DEF Raise, TypeOK
    <3> QED BY <3>1, <3>2, <3>3, <1>1, QuietLock
  <2> QED BY <2>1, <2>2
<1> QED BY <1>2, <1>3, <1>4, <1>5, <1>6 DEF WorkerStep

\* The places of the launchers after a step of one of them.
LEMMA LauncherPlaces ==
    ASSUME TypeOK, NEW l \in Launchers,
           NEW x \in {"idle", "open", "takeover", "reopen", "locked", "report"},
           \/ launcher' = [launcher EXCEPT ![l].pc = x]
           \/ launcher' = [launcher EXCEPT ![l] = Idle] /\ x = "idle"
    PROVE  \A m \in Launchers : launcher'[m].pc = IF m = l THEN x ELSE launcher[m].pc
<1>1. launcher \in [Launchers -> LauncherType] /\ Idle.pc = "idle"
  BY DEF TypeOK, Idle
<1>2. [launcher[l] EXCEPT !.pc = x].pc = x
  BY <1>1 DEF LauncherType
<1>3. launcher'[l] = [launcher[l] EXCEPT !.pc = x] \/ (launcher'[l] = Idle /\ x = "idle")
  BY <1>1
<1> QED BY <1>1, <1>2, <1>3

\* A launcher that does not come to own the lock.
LEMMA GivingWay ==
    ASSUME LockOK, TypeOK, NEW l \in Launchers, worker' = worker, excused' = excused,
           lock'.held = lock.held \/ ~Held',
           \A m \in Launchers :
               launcher'[m].pc = "locked" => m # l /\ launcher[m].pc = "locked"
    PROVE  LockOK'
<1>1. Live' = Live
  BY DEF Live
<1> QED BY <1>1 DEF LockOK, Held

\* A launcher that takes the lock while it is free.
LEMMA TakingLock ==
    ASSUME LockOK, TypeOK, NEW l \in Launchers, worker' = worker, excused' = excused,
           ~lock.held, lock' = FreshLock,
           \A m \in Launchers :
               launcher'[m].pc = IF m = l THEN "locked" ELSE launcher[m].pc
    PROVE  LockOK'
<1>1. Live' = Live
  BY DEF Live
<1>2. excused \/ ~Held
  BY DEF LockOK
<1>3. lock'.held
  BY DEF FreshLock
<1> QED BY <1>1, <1>2, <1>3 DEF LockOK, Held

LEMMA LauncherLock ==
    ASSUME LockOK, TypeOK, NEW l \in Launchers,
           Check(l) \/ LauncherStep(l) \/ SpawnFails(l) \/ ReportRaises(l)
    PROVE  LockOK'
<1>1. lock \in [held : BOOLEAN, old : BOOLEAN] /\ launcher \in [Launchers -> LauncherType]
      /\ excused \in BOOLEAN
  BY DEF TypeOK
<1>2. CASE Check(l)
  <2>1. launcher'[l].pc = "open"
    BY <1>2, RequestTyped
  <2>2. \A m \in Launchers : m # l => launcher'[m] = launcher[m]
    BY <1>1, <1>2 DEF Check
  <2>3. worker' = worker /\ lock' = lock /\ excused' = excused
    BY <1>2 DEF Check
  <2> QED BY <2>1, <2>2, <2>3, GivingWay
<1>3. CASE TryLock(l)
  <2>1. worker' = worker /\ excused' = excused
    BY <1>3 DEF TryLock
  <2>2. CASE lock.held
    <3>1. PICK x \in {"takeover", "idle"} :
              \/ launcher' = [launcher EXCEPT ![l].pc = x]
              \/ launcher' = [launcher EXCEPT ![l] = Idle] /\ x = "idle"
      BY <1>3, <2>2 DEF TryLock
    <3>2. \A m \in Launchers : launcher'[m].pc = IF m = l THEN x ELSE launcher[m].pc
      BY <3>1, LauncherPlaces
    <3>3. lock' = lock
      BY <1>3, <2>2 DEF TryLock
    <3> QED BY <2>1, <3>1, <3>2, <3>3, GivingWay
  <2>3. CASE ~lock.held
    <3>1. launcher' = [launcher EXCEPT ![l].pc = "locked"] /\ lock' = FreshLock
      BY <1>3, <2>3 DEF TryLock
    <3>2. \A m \in Launchers : launcher'[m].pc = IF m = l THEN "locked" ELSE launcher[m].pc
      BY <3>1, LauncherPlaces
    <3> QED BY <2>1, <2>3, <3>1, <3>2, TakingLock
  <2> QED BY <2>2, <2>3
<1>4. CASE Takeover(l)
  <2>1. worker' = worker /\ launcher' = [launcher EXCEPT ![l].pc = "reopen"]
    BY <1>4 DEF Takeover
  <2>2. \A m \in Launchers : launcher'[m].pc = IF m = l THEN "reopen" ELSE launcher[m].pc
    BY <2>1, LauncherPlaces
  <2>3. CASE lock.held /\ Held
    BY <1>4, <2>3 DEF Takeover, LockOK
  <2>4. CASE ~(lock.held /\ Held)
    <3>1. excused' = excused
      BY <1>1, <1>4, <2>4 DEF Takeover
    <3>2. CASE excused
      BY <3>1, <3>2 DEF LockOK
    <3>3. CASE ~excused
      <4>1. ~Held
        BY <2>4, <3>3 DEF LockOK
      <4>2. ~Held'
        BY <2>1, <2>2, <4>1 DEF Held, Live
      <4> QED BY <2>1, <2>2, <3>1, <4>2, GivingWay
    <3> QED BY <3>2, <3>3
  <2> QED BY <2>3, <2>4
<1>5. CASE Reopen(l)
  <2>1. worker' = worker /\ excused' = excused
    BY <1>5 DEF Reopen
  <2>2. CASE lock.held
    <3>1. launcher' = [launcher EXCEPT ![l] = Idle] /\ lock' = lock
      BY <1>5, <2>2 DEF Reopen
    <3>2. \A m \in Launchers : launcher'[m].pc = IF m = l THEN "idle" ELSE launcher[m].pc
      BY <3>1, LauncherPlaces
    <3> QED BY <2>1, <3>1, <3>2, GivingWay
  <2>3. CASE ~lock.held
    <3>1. launcher' = [launcher EXCEPT ![l].pc = "locked"] /\ lock' = FreshLock
      BY <1>5, <2>3 DEF Reopen
    <3>2. \A m \in Launchers : launcher'[m].pc = IF m = l THEN "locked" ELSE launcher[m].pc
      BY <3>1, LauncherPlaces
    <3> QED BY <2>1, <2>3, <3>1, <3>2, TakingLock
  <2> QED BY <2>2, <2>3
<1>6. CASE Spawn(l)
  <2>1. /\ launcher[l].pc = "locked" /\ launcher' = [launcher EXCEPT ![l] = Idle]
        /\ lock' = lock /\ excused' = excused
    BY <1>6 DEF Spawn, At
  <2>2. \A m \in Launchers : launcher'[m].pc = IF m = l THEN "idle" ELSE launcher[m].pc
    BY <2>1, LauncherPlaces
  <2>3. PICK o \in Ops : \A q \in Ops : q # o => worker'[q] = worker[q]
    <3>1. worker \in [Ops -> WorkerType]
      BY DEF TypeOK
    <3> QED BY <1>6, <3>1 DEF Spawn
  <2>4. CASE ~excused
    <3>1. Live = {} /\ lock.held /\ \A m \in Launchers : launcher'[m].pc # "locked"
      BY <2>1, <2>2, <2>4 DEF LockOK, Held
    <3>2. Live' \subseteq {o}
      BY <2>3, <3>1 DEF Live
    <3> QED BY <2>1, <3>1, <3>2 DEF LockOK, Held
  <2>5. CASE excused
    BY <2>1, <2>5 DEF LockOK
  <2> QED BY <2>4, <2>5
<1>7. CASE SpawnFails(l)
  <2>1. /\ launcher[l].pc = "locked" /\ launcher' = [launcher EXCEPT ![l].pc = "report"]
        /\ worker' = worker /\ excused' = excused
    BY <1>7 DEF SpawnFails, At
  <2>2. \A m \in Launchers : launcher'[m].pc = IF m = l THEN "report" ELSE launcher[m].pc
    BY <2>1, LauncherPlaces
  <2>3. CASE ~excused
    <3>1. Live = {} /\ \A m \in Launchers : launcher'[m].pc # "locked"
      BY <2>1, <2>2, <2>3 DEF LockOK
    <3>2. Live' = {}
      BY <2>1, <3>1 DEF Live
    <3> QED BY <3>1, <3>2 DEF LockOK, Held
  <2>4. CASE excused
    BY <2>1, <2>4 DEF LockOK
  <2> QED BY <2>3, <2>4
<1>8. CASE Report(l) \/ ReportRaises(l)
  <2>1. /\ launcher' = [launcher EXCEPT ![l] = Idle] /\ lock' = lock
        /\ worker' = worker /\ excused' = excused
    BY <1>8 DEF Report, ReportRaises
  <2>2. \A m \in Launchers : launcher'[m].pc = IF m = l THEN "idle" ELSE launcher[m].pc
    BY <2>1, LauncherPlaces
  <2> QED BY <2>1, <2>2, GivingWay
<1> QED BY <1>2, <1>3, <1>4, <1>5, <1>6, <1>7, <1>8 DEF LauncherStep

LEMMA HostLock ==
    ASSUME LockOK, TypeOK, Edit \/ Boot \/ Crash \/ Age
    PROVE  LockOK'
<1>1. CASE Edit \/ Boot
  <2>1. UNCHANGED <<lock, launcher, worker, excused>>
    BY <1>1 DEF Edit, Boot
  <2> QED BY <2>1 DEF LockOK, Held, Live
<1>2. CASE Crash
  <2>1. Ended("dead").pc = "dead" /\ Idle.pc = "idle"
    BY MovedWorker, RecordsHaveTypes DEF Ended, WorkerPlaces, Idle
  <2>2. Live' = {}
    BY <1>2, <2>1 DEF Crash, Live, Gone
  <2>3. \A l \in Launchers : launcher'[l].pc # "locked"
    BY <1>2, <2>1 DEF Crash
  <2> QED BY <2>2, <2>3 DEF LockOK, Held
<1>3. CASE Age
  <2>1. UNCHANGED <<launcher, worker, excused>> /\ lock'.held = lock.held
    BY <1>3 DEF Age, TypeOK
  <2> QED BY <2>1 DEF LockOK, Held, Live
<1> QED BY <1>1, <1>2, <1>3

-----------------------------------------------------------------------------
(* The invariant and the theorems.                                         *)

LEMMA InitOK == Init => UpgradeInv
<1> SUFFICES ASSUME Init PROVE UpgradeInv
  OBVIOUS
<1>1. TypeOK
  BY InitTyped
<1>2. \A o \in Ops : worker[o].pc \in Gone
  BY DEF Init, NoWorker, Gone
<1>3. WorkersOK /\ Live = {}
  BY <1>2 DEF WorkersOK, Live
<1>4. \A l \in Launchers : launcher[l] = Idle
  BY DEF Init
<1>5. RequestsOK /\ LockOK
  BY <1>3, <1>4 DEF RequestsOK, LockOK, Named, Held, Idle
<1>6. SoundPoint(NoPoint) /\ SoundPoint(Earlier)
  BY DEF SoundPoint, NoPoint, Earlier
<1>7. PointsOK
  BY <1>6 DEF PointsOK, Init
<1>8. StatusOK
  BY DEF StatusOK, Init
<1> QED BY <1>1, <1>3, <1>5, <1>7, <1>8 DEF UpgradeInv, InstallInv

LEMMA NextInstall == InstallInv /\ Next => InstallInv'
<1> SUFFICES ASSUME InstallInv, Next PROVE InstallInv'
  OBVIOUS
<1>1. ASSUME NEW l \in Launchers, Check(l) \/ LauncherStep(l) \/ SpawnFails(l) \/ ReportRaises(l)
      PROVE  InstallInv'
  BY <1>1, CheckKeeps, LockingKeeps, SpawnKeeps DEF LauncherStep
<1>2. ASSUME NEW o \in Ops, WorkerStep(o) \/ Raise(o) \/ Abort(o)
      PROVE  InstallInv'
  <2>1. CASE \/ Begin(o) \/ StopServices(o) \/ CopyCode(o) \/ CopyData(o) \/ Seal(o)
             \/ Prepare(o) \/ Apply(o) \/ Applied(o) \/ Start(o) \/ Validate(o)
    BY <2>1, BeginKeeps, StopKeeps, CopyCodeKeeps, CopyDataKeeps, SealKeeps, PrepareKeeps,
       ApplyKeeps, AppliedKeeps, StartKeeps, ValidateKeeps
  <2>2. CASE \/ Prune(o) \/ Pruned(o) \/ Finish(o) \/ Refuse(o) \/ Raise(o) \/ Undo(o)
             \/ UndoStop(o) \/ Restart(o) \/ Fail(o)
    BY <2>2, PruneKeeps, PrunedKeeps, FinishKeeps, CaughtKeeps, UndoKeeps, UndoStopKeeps,
       RestartKeeps, FailKeeps
  <2>3. CASE \/ Stage(o) \/ SwapCode(o) \/ Displace(o) \/ SwapData(o) \/ Diagnose(o)
             \/ Abort(o) \/ LoadFails(o)
    BY <2>3, StageKeeps, SwapCodeKeeps, DisplaceKeeps, SwapDataKeeps, DiagnoseKeeps, AbortKeeps
  <2> QED BY <1>2, <2>1, <2>2, <2>3 DEF WorkerStep
<1> QED BY <1>1, <1>2, HostKeeps DEF Next

LEMMA NextLock == TypeOK /\ LockOK /\ Next => LockOK'
  BY LauncherLock, WorkerLock, HostLock DEF Next

LEMMA StutterOK == UpgradeInv /\ UNCHANGED vars => UpgradeInv'
<1> SUFFICES ASSUME UpgradeInv, UNCHANGED vars PROVE UpgradeInv'
  OBVIOUS
<1>1. TypeOK' /\ RequestsOK' /\ PointsOK' /\ StatusOK' /\ WorkersOK'
  BY DEF UpgradeInv, InstallInv, vars, TypeOK, RequestsOK, PointsOK, StatusOK, WorkersOK
<1>2. LockOK'
  BY DEF UpgradeInv, vars, LockOK, Held, Live
<1> QED BY <1>1, <1>2 DEF UpgradeInv, InstallInv

\* The inductive invariant: who owns the lock, what recovery points hold, and
\* where the running operation stands (_launch, execute_request).
THEOREM UpgradeAlwaysOK == Spec => []UpgradeInv
<1>1. UpgradeInv /\ [Next]_vars => UpgradeInv'
  BY NextInstall, NextLock, StutterOK DEF UpgradeInv, InstallInv
<1> QED BY InitOK, <1>1, PTL DEF Spec

\* Operations run one after the other: two workers are alive together only
\* after a stale lock was taken from a running operation or a cleanup failed
\* (_launch, finish).
THEOREM AlwaysSerialized == Spec => []OperationsAreSerialized
<1>1. UpgradeInv => OperationsAreSerialized
  BY AloneIsOne DEF UpgradeInv, LockOK, OperationsAreSerialized
<1> QED BY UpgradeAlwaysOK, <1>1, PTL

\* Every recovery point that passes its check is what the stopped services
\* left, and the one the status names passes it (_create_backup, prune).
THEOREM PointsAlwaysWhole == Spec => []PointsAreWhole
<1>1. UpgradeInv => PointsAreWhole
  BY DEF UpgradeInv, InstallInv, PointsOK, StatusOK, PointsAreWhole, SoundPoint, Whole,
         Intact, Listed
<1> QED BY UpgradeAlwaysOK, <1>1, PTL

\* Only Validate writes a good outcome, and then it is true.
LEMMA ValidatedIsTrue ==
    ASSUME InstallInv, NEW o \in Ops, Validate(o)
    PROVE  OutcomeStep
<1> DEFINE w == worker[o]
<1>1. /\ w.pc = "validate" /\ w.pc \notin Gone
      /\ status' = NewStatus(Outcome(w), o, w.point)
  BY DEF Validate, Runs, Gone
<1>2. w.point \in Points /\ w.kind \in Kinds
  BY <1>1, StepHas DEF WorkOK, RequestOK, WorkerType
<1>3. status'.state = Outcome(w) /\ status'.op = o /\ status'.backup = w.point
  BY <1>1, <1>2, StatusHasType DEF Outcome, States
<1>4. ASSUME Outcome(w) = "succeeded"
      PROVE  \A i \in Parts : code[i] = w.target
  BY <1>1, <1>2, <1>4, StepHas DEF WorkOK, PlacedOK, Outcome, Restoring, Kinds
<1>5. ASSUME Outcome(w) = "rolled_back"
      PROVE  /\ code = points[w.point].code
             /\ data.schema = Migrated(points[w.point].data).schema
  <2>1. points[w.point].data \in DataType /\ code \in CodeType
    BY <1>1, <1>2, StepHas DEF PointType
  <2>2. Restoring(w)
    BY <1>5 DEF Outcome, Restoring
  <2> QED BY <1>1, <2>1, <2>2, StepHas, MigratedHasType DEF WorkOK, PlacedOK
<1> QED BY <1>3, <1>4, <1>5 DEF OutcomeStep

LEMMA NothingElseIsAnnounced ==
    ASSUME InstallInv, Next, \A o \in Ops : ~Validate(o)
    PROVE  status'.state = status.state \/ status'.state \notin {"succeeded", "rolled_back"}
<1> DEFINE Quiet == status' = status
           Said == \E x \in ACTIVE_STATES \cup {"failed"} :
                     \E o, p : status' = NewStatus(x, o, p)
<1>1. Said => status'.state \notin {"succeeded", "rolled_back"}
  BY DEF NewStatus, ACTIVE_STATES
<1>2. ASSUME NEW l \in Launchers, Check(l) \/ LauncherStep(l) \/ SpawnFails(l) \/ ReportRaises(l)
      PROVE  Quiet \/ Said
  BY <1>2 DEF Check, LauncherStep, TryLock, Takeover, Reopen, Spawn, SpawnFails, Report,
              ReportRaises, ACTIVE_STATES
<1>3. ASSUME NEW o \in Ops, WorkerStep(o) \/ Raise(o) \/ Abort(o)
      PROVE  Quiet \/ Said
  <2>1. CASE \/ Begin(o) \/ StopServices(o) \/ Prepare(o) \/ Applied(o) \/ Undo(o) \/ Fail(o)
    BY <2>1 DEF Begin, StopServices, Prepare, Applied, Undo, Fail, ACTIVE_STATES
  <2>2. CASE \/ CopyCode(o) \/ CopyData(o) \/ Seal(o) \/ Apply(o) \/ Start(o) \/ Prune(o)
             \/ Pruned(o) \/ Finish(o) \/ Refuse(o) \/ Raise(o) \/ UndoStop(o) \/ Restart(o)
             \/ Stage(o) \/ SwapCode(o) \/ Displace(o) \/ SwapData(o) \/ Diagnose(o)
             \/ Abort(o) \/ LoadFails(o)
    BY <2>2 DEF CopyCode, CopyData, Seal, Apply, Start, Prune, Pruned, Finish, Refuse, Raise,
                UndoStop, Restart, Stage, SwapCode, Displace, SwapData, Diagnose, Abort, LoadFails,
                disk
  <2> QED BY <1>3, <2>1, <2>2 DEF WorkerStep
<1>4. CASE Edit \/ Boot \/ Crash
  BY <1>4 DEF Edit, Boot, Crash
<1>5. CASE Age
  <2>1. status' = [status EXCEPT !.old = Active(status)] /\ status \in StatusType
    BY <1>5 DEF Age, InstallInv, TypeOK
  <2> QED BY <2>1 DEF StatusType
<1> QED BY <1>1, <1>2, <1>3, <1>4, <1>5 DEF Next

\* The outcome that is written is true of the installation: all parts at the
\* target, or code and data of the recovery point together (execute_request).
THEOREM OutcomeAlwaysTrue == Spec => OutcomeIsTrue
<1>1. UpgradeInv /\ [Next]_vars => [OutcomeStep]_vars
  <2> SUFFICES ASSUME UpgradeInv, Next PROVE OutcomeStep
    OBVIOUS
  <2>1. InstallInv
    BY DEF UpgradeInv
  <2>2. CASE \E o \in Ops : Validate(o)
    BY <2>1, <2>2, ValidatedIsTrue
  <2>3. CASE \A o \in Ops : ~Validate(o)
    BY <2>1, <2>3, NothingElseIsAnnounced DEF OutcomeStep
  <2> QED BY <2>2, <2>3
<1> QED BY UpgradeAlwaysOK, <1>1, PTL DEF Spec, OutcomeIsTrue
=============================================================================
