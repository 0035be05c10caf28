---------------------------- MODULE PiNetworking ----------------------------
(***************************************************************************)
(* Provisional network changes on a Raspberry Pi (pi_network_broker.py).   *)
(* The broker applies or disables a managed configuration under a          *)
(* NetworkManager checkpoint, writes the change to pending.json, and rolls *)
(* it back unless it is confirmed in time. current.json is the managed     *)
(* configuration. One lock serialises the operations, but the broker and   *)
(* the host may go down between any two of their writes, time passes while *)
(* they run, and NetworkManager rolls a checkpoint back by itself.         *)
(*                                                                         *)
(* A configuration is the number of the apply that made it, 0 is the       *)
(* network as it was before the toolkit managed it. NetworkManager is      *)
(* external: the profiles it has, the configuration that is up and its     *)
(* one checkpoint.                                                         *)
(***************************************************************************)
EXTENDS Naturals, FiniteSets

CONSTANTS
    MaxChanges,     \* bound on the configurations ever applied
    Window,         \* rollback_seconds, in ticks
    OperationGrace, \* CHECKPOINT_OPERATION_GRACE_SECONDS, in ticks
    MaxFaults       \* bound on crashes, reboots, failing steps and adapter changes

ASSUME PiAssumption ==
    /\ {MaxChanges, Window} \subseteq Nat \ {0}
    /\ {OperationGrace, MaxFaults} \subseteq Nat

VARIABLES
    current,    \* current.json: the managed configuration and what was up before
    pending,    \* pending.json: the change that waits to be confirmed
    files,      \* configurations whose profile files exist
    certs,      \* configurations whose certificate directory exists
    up,         \* the configuration that is up
    checkpoint, \* NetworkManager's checkpoint
    op,         \* the operation that holds the broker's lock, if any
    due,        \* the monitor has a reconciliation to do
    changes,    \* applies so far
    confirmed,  \* the configuration confirmed last
    kept,       \* every configuration ever confirmed
    orphans,    \* changes that were cut off before they were published, and whose
                \*   checkpoint is lost
    outlived,   \* a checkpoint timed out under a running operation, or after the
                \*   operation was cut off
    faults

piVars == <<current, pending, files, certs, up, checkpoint, op, due, changes,
            confirmed, kept, orphans, outlived, faults>>

disk == <<current, pending, files, certs>>

ghosts == <<changes, confirmed, kept, orphans, outlived>>

NoRecord == [id |-> 0, origin |-> 0]

NoPending == [kind |-> "none", id |-> 0, previous |-> NoRecord, origin |-> 0,
              checkpoint |-> 0, left |-> 0]

NoCheckpoint == [id |-> 0, up |-> 0, files |-> {}, left |-> 0]

Idle == [pc |-> "idle", change |-> NoPending, known |-> FALSE]

\* The lock holder goes on with its next step.
Goto(pc) == op' = [op EXCEPT !.pc = pc]

Fault == faults < MaxFaults /\ faults' = faults + 1

-----------------------------------------------------------------------------
(***************************************************************************)
(* NetworkManager                                                          *)
(***************************************************************************)

\* The change of an apply that has not been published, if one is running.
Unpublished == IF op # Idle /\ ~ op.known THEN {op.change.id} ELSE {}

\* A change that was cut off and that only the checkpoint would still undo.
LeftToCheckpoint ==
    IF checkpoint.id # 0 /\ pending = NoPending THEN {checkpoint.id} ELSE {}

\* CheckpointCreate with the flags that destroy every other checkpoint and
\* delete new connections on a rollback.
CheckpointCreate(id) ==
    /\ checkpoint' = [id |-> id, up |-> up, files |-> files,
                      left |-> Window + OperationGrace]
    /\ orphans' = orphans \cup LeftToCheckpoint

RestoreCheckpoint ==
    /\ up' = checkpoint.up
    /\ files' = files \cap checkpoint.files
    /\ checkpoint' = NoCheckpoint

\* An unconfirmed checkpoint is rolled back when its time is up.
CheckpointTimeout ==
    /\ checkpoint.id # 0 /\ checkpoint.left = 0
    /\ RestoreCheckpoint
    /\ outlived' = (outlived \/ op # Idle \/ pending = NoPending)
    /\ UNCHANGED <<current, pending, certs, op, due, changes, confirmed, kept,
                   orphans, faults>>

Down(n) == IF n > 0 THEN n - 1 ELSE 0

Tick ==
    /\ pending.left > 0 \/ checkpoint.left > 0
    /\ pending' = [pending EXCEPT !.left = Down(@)]
    /\ checkpoint' = [checkpoint EXCEPT !.left = Down(@)]
    /\ UNCHANGED <<current, files, certs, up, op, due, ghosts, faults>>

\* Deleting the profile that is up lets an automatic one take its place.
Without(id) == IF up = id THEN 0 ELSE up

-----------------------------------------------------------------------------
(***************************************************************************)
(* apply                                                                   *)
(***************************************************************************)

\* The change an apply will publish. The origin is what was up when the toolkit
\* took over, and is handed on from one managed configuration to the next.
ApplyChange(id) ==
    [kind |-> "apply", id |-> id, previous |-> current,
     origin |-> IF current.id # 0 THEN current.origin ELSE up,
     checkpoint |-> id, left |-> Window]

StartApply ==
    /\ op = Idle /\ pending = NoPending
    /\ changes < MaxChanges
    /\ changes' = changes + 1
    /\ certs' = certs \cup {changes + 1}
    /\ op' = [pc |-> "checkpoint", change |-> ApplyChange(changes + 1), known |-> FALSE]
    /\ UNCHANGED <<current, pending, files, up, checkpoint, due, confirmed, kept,
                   orphans, outlived, faults>>

CreateForApply ==
    /\ op.pc = "checkpoint"
    /\ CheckpointCreate(op.change.id)
    /\ Goto("write")
    /\ UNCHANGED <<disk, up, due, changes, confirmed, kept, outlived, faults>>

WriteProfiles ==
    /\ op.pc = "write"
    /\ files' = files \cup {op.change.id}
    /\ Goto("activate")
    /\ UNCHANGED <<current, pending, certs, up, checkpoint, due, ghosts, faults>>

Activate ==
    /\ op.pc = "activate"
    /\ up' = op.change.id
    /\ Goto("publish")
    /\ UNCHANGED <<disk, checkpoint, due, ghosts, faults>>

\* The change becomes pending with the last write; the window starts here.
Publish ==
    /\ op.pc \in {"publish", "publish disable"}
    /\ pending' = op.change
    /\ op' = Idle
    /\ UNCHANGED <<current, files, certs, up, checkpoint, due, ghosts, faults>>

\* A step of apply raises: without a checkpoint only the certificates go, with
\* one the change is rolled back. The rollback does not know the record before
\* it (known is FALSE), which the apply has not touched.
ApplyFails ==
    /\ Fault
    /\ \/ /\ op.pc = "checkpoint"
          /\ certs' = certs \ {op.change.id}
          /\ op' = Idle
          /\ UNCHANGED up
       \/ /\ op.pc \in {"write", "activate", "publish"}
          /\ up' \in IF op.pc = "activate" THEN {up, op.change.id} ELSE {up}
          /\ Goto("rb checkpoint")
          /\ UNCHANGED certs
    /\ UNCHANGED <<current, pending, files, checkpoint, due, ghosts>>

-----------------------------------------------------------------------------
(***************************************************************************)
(* disable                                                                 *)
(***************************************************************************)

StartDisable ==
    /\ op = Idle /\ pending = NoPending
    /\ current.id # 0
    /\ changes < MaxChanges
    /\ changes' = changes + 1
    /\ op' = [pc |-> "checkpoint disable", known |-> TRUE,
              change |-> [kind |-> "disable", id |-> 0, previous |-> current,
                          origin |-> 0, checkpoint |-> changes + 1, left |-> Window]]
    /\ UNCHANGED <<disk, up, checkpoint, due, confirmed, kept, orphans,
                   outlived, faults>>

CreateForDisable ==
    /\ op.pc = "checkpoint disable"
    /\ CheckpointCreate(op.change.checkpoint)
    /\ Goto("switch")
    /\ UNCHANGED <<disk, up, due, changes, confirmed, kept, outlived, faults>>

\* The managed profiles go down, the connections from before come up.
SwitchBack ==
    /\ op.pc = "switch"
    /\ up' = op.change.previous.origin
    /\ Goto("publish disable")
    /\ UNCHANGED <<disk, checkpoint, due, ghosts, faults>>

\* Publishing fails: the checkpoint is rolled back, if it is still there, and
\* the managed configuration brought up again.
DisableFails ==
    /\ Fault
    /\ op.pc = "publish disable"
    /\ IF checkpoint.id = op.change.checkpoint
       THEN /\ checkpoint' = NoCheckpoint
            /\ up' = current.id
            /\ files' = files \cap checkpoint.files
       ELSE UNCHANGED <<up, files, checkpoint>>
    /\ op' = Idle
    /\ UNCHANGED <<current, pending, certs, due, ghosts>>

-----------------------------------------------------------------------------
(***************************************************************************)
(* confirm                                                                 *)
(***************************************************************************)

StartConfirm ==
    /\ op = Idle /\ pending # NoPending
    /\ pending.left > 0
    /\ op' = [pc |-> "record", change |-> pending, known |-> TRUE]
    /\ UNCHANGED <<disk, up, checkpoint, due, ghosts, faults>>

\* current.json is replaced by the new record, or removed.
RecordConfirmed ==
    /\ op.pc = "record"
    /\ current' = IF op.change.kind = "apply"
                  THEN [id |-> op.change.id, origin |-> op.change.origin]
                  ELSE NoRecord
    /\ Goto("destroy")
    /\ UNCHANGED <<pending, files, certs, up, checkpoint, due, ghosts, faults>>

\* A faulty CheckpointDestroy: a checkpoint that is gone is taken for destroyed.
CheckpointDestroyAny ==
    /\ op.pc = "destroy"
    /\ checkpoint' = IF checkpoint.id = op.change.checkpoint THEN NoCheckpoint ELSE checkpoint
    /\ Goto("unlink")
    /\ UNCHANGED <<current, pending, files, certs, up, due, ghosts, faults>>

\* The checkpoint is destroyed, or, when it is gone or the call fails, the
\* record before the change is put back and the change stays pending.
CheckpointDestroy ==
    /\ op.pc = "destroy"
    /\ \/ /\ checkpoint.id = op.change.checkpoint
          /\ checkpoint' = NoCheckpoint
          /\ Goto("unlink")
          /\ UNCHANGED <<current, faults>>
       \/ /\ checkpoint.id # op.change.checkpoint \/ faults < MaxFaults
          /\ faults' = IF checkpoint.id # op.change.checkpoint THEN faults ELSE faults + 1
          /\ current' = op.change.previous
          /\ op' = Idle
          /\ UNCHANGED checkpoint
    /\ UNCHANGED <<pending, files, certs, up, due, changes, confirmed, kept, orphans,
                   outlived>>

UnlinkConfirmed ==
    /\ op.pc = "unlink"
    /\ pending' = NoPending
    /\ confirmed' = op.change.id
    /\ kept' = kept \cup {op.change.id}
    /\ Goto("cleanup")
    /\ UNCHANGED <<current, files, certs, up, checkpoint, due, changes, orphans,
                   outlived, faults>>

\* The configuration the change replaced is no longer needed.
CleanupPrevious ==
    LET old == op.change.previous.id IN
    /\ op.pc = "cleanup"
    /\ files' = files \ {old}
    /\ certs' = certs \ {old}
    /\ up' = IF old # 0 THEN Without(old) ELSE up
    /\ op' = Idle
    /\ UNCHANGED <<current, pending, checkpoint, due, ghosts, faults>>

-----------------------------------------------------------------------------
(***************************************************************************)
(* rollback: on request, when the window is over, or when an apply fails   *)
(***************************************************************************)

\* _expire_pending_locked (the monitor and every operation), or rollback.
StartRollback ==
    /\ op = Idle /\ pending # NoPending
    /\ op' = [pc |-> "rb checkpoint", change |-> pending, known |-> TRUE]
    /\ UNCHANGED <<disk, up, checkpoint, due, ghosts, faults>>

Expired == pending # NoPending /\ pending.left = 0

\* A checkpoint that no longer exists has been rolled back or destroyed.
RollbackCheckpoint ==
    /\ op.pc = "rb checkpoint"
    /\ IF checkpoint.id = op.change.checkpoint THEN RestoreCheckpoint
                                               ELSE UNCHANGED <<up, files, checkpoint>>
    /\ Goto("rb cleanup")
    /\ UNCHANGED <<current, pending, certs, due, ghosts, faults>>

\* A faulty RollbackCleanup: the profiles are left to the checkpoint's rollback.
RollbackCleanupTrusts ==
    /\ op.pc = "rb cleanup"
    /\ Goto(IF op.known THEN "rb record" ELSE "rb finish")
    /\ UNCHANGED <<disk, up, checkpoint, due, ghosts, faults>>

RollbackCleanup ==
    LET id == op.change.id IN
    /\ op.pc = "rb cleanup"
    /\ files' = files \ {id}
    /\ up' = IF id # 0 THEN Without(id) ELSE up
    /\ Goto(IF op.known THEN "rb record" ELSE "rb finish")
    /\ UNCHANGED <<current, pending, certs, checkpoint, due, ghosts, faults>>

\* A faulty RollbackRecord: the record is taken to be still the one from before.
RollbackRecordTrusts ==
    /\ op.pc = "rb record"
    /\ Goto(IF op.change.previous.id # 0 THEN "rb reconnect" ELSE "rb finish")
    /\ UNCHANGED <<disk, up, checkpoint, due, ghosts, faults>>

RollbackRecord ==
    /\ op.pc = "rb record"
    /\ current' = op.change.previous
    /\ Goto(IF op.change.previous.id # 0 THEN "rb reconnect" ELSE "rb finish")
    /\ UNCHANGED <<pending, files, certs, up, checkpoint, due, ghosts, faults>>

\* _ensure_managed_profiles_active. When it raises, the change stays pending and
\* the rollback starts again from the beginning.
RollbackReconnect ==
    /\ op.pc = "rb reconnect"
    /\ \/ /\ current.id \in files
          /\ up' = current.id
          /\ Goto("rb finish")
          /\ UNCHANGED faults
       \/ /\ \/ current.id \notin files /\ UNCHANGED faults
             \/ Fault
          /\ op' = Idle
          /\ UNCHANGED up
    /\ UNCHANGED <<disk, checkpoint, due, ghosts>>

RollbackFinish ==
    /\ op.pc = "rb finish"
    /\ certs' = certs \ {op.change.id}
    /\ pending' = NoPending
    /\ op' = Idle
    /\ UNCHANGED <<current, files, up, checkpoint, due, ghosts, faults>>

-----------------------------------------------------------------------------
(***************************************************************************)
(* The monitor and the faults                                              *)
(***************************************************************************)

\* A faulty Reconcile: a failure is not tried again.
ReconcileOnce ==
    /\ op = Idle /\ pending = NoPending /\ due
    /\ \/ /\ current.id = 0 \/ current.id \in files
          /\ up' = IF current.id # 0 THEN current.id ELSE up
          /\ UNCHANGED faults
       \/ /\ current.id # 0
          /\ Fault
          /\ UNCHANGED up
    /\ due' = FALSE
    /\ UNCHANGED <<disk, checkpoint, op, ghosts>>

\* _monitor brings the managed configuration up when the adapters have changed,
\* after a start and, after a failure, again and again.
Reconcile ==
    /\ op = Idle /\ pending = NoPending /\ due
    /\ \/ /\ current.id = 0 \/ current.id \in files
          /\ up' = IF current.id # 0 THEN current.id ELSE up
          /\ due' = FALSE
          /\ UNCHANGED faults
       \/ /\ current.id # 0
          /\ Fault
          /\ UNCHANGED <<up, due>>
    /\ UNCHANGED <<disk, checkpoint, op, ghosts>>

AdapterChange ==
    /\ Fault
    /\ ~ due
    /\ due' = TRUE
    /\ UNCHANGED <<disk, up, checkpoint, op, ghosts>>

\* The broker is killed and started again.
Crash ==
    /\ Fault
    /\ op' = Idle
    /\ due' = TRUE
    /\ orphans' = orphans \cup (Unpublished \ {checkpoint.id})
    /\ UNCHANGED <<disk, up, checkpoint, changes, confirmed, kept, outlived>>

\* The host restarts: the checkpoint is lost with NetworkManager's memory, and
\* any profile on disk may connect by itself.
Reboot ==
    /\ Fault
    /\ op' = Idle
    /\ due' = TRUE
    /\ orphans' = orphans \cup Unpublished \cup LeftToCheckpoint
    /\ checkpoint' = NoCheckpoint
    /\ up' \in files \cup {0}
    /\ UNCHANGED <<disk, changes, confirmed, kept, outlived>>

-----------------------------------------------------------------------------
Init ==
    /\ current = NoRecord
    /\ pending = NoPending
    /\ files = {}
    /\ certs = {}
    /\ up = 0
    /\ checkpoint = NoCheckpoint
    /\ op = Idle
    /\ due = TRUE
    /\ changes = 0
    /\ confirmed = 0
    /\ kept = {}
    /\ orphans = {}
    /\ outlived = FALSE
    /\ faults = 0

\* The next step of the operation that holds the lock.
Step ==
    \/ CreateForApply \/ WriteProfiles \/ Activate \/ Publish
    \/ CreateForDisable \/ SwitchBack
    \/ RecordConfirmed \/ CheckpointDestroy \/ UnlinkConfirmed \/ CleanupPrevious
    \/ RollbackCheckpoint \/ RollbackCleanup \/ RollbackRecord \/ RollbackReconnect
    \/ RollbackFinish

Next ==
    \/ StartApply \/ StartDisable \/ StartConfirm \/ StartRollback
    \/ Step
    \/ ApplyFails \/ DisableFails
    \/ Reconcile
    \/ CheckpointTimeout \/ Tick
    \/ AdapterChange \/ Crash \/ Reboot

Spec == Init /\ [][Next]_piVars

\* Operations end, time passes, NetworkManager keeps its timeout, and the
\* monitor comes round every second. Nobody has to ask for anything.
Fairness ==
    /\ WF_piVars(Step)
    /\ WF_piVars(Expired /\ StartRollback)
    /\ WF_piVars(Reconcile)
    /\ WF_piVars(CheckpointTimeout)
    /\ WF_piVars(Tick)

FairSpec == Spec /\ Fairness

-----------------------------------------------------------------------------
(***************************************************************************)
(* Properties                                                              *)
(***************************************************************************)

\* Whenever no change is pending on disk, the managed record is the one that was
\* confirmed last, wherever the broker or the host went down and whatever failed
\* (the order of confirm's and _rollback_locked's writes).
RecordIsConfirmed == pending = NoPending => current.id = confirmed

\* The record to come back to has its profile files and certificates: the
\* managed one, or, while a change is pending, the one before it. Otherwise
\* _ensure_managed_profiles_active would fail for ever.
FallbackIsWhole ==
    LET fallback == IF pending = NoPending THEN current.id ELSE pending.previous.id IN
    fallback # 0 => fallback \in files \cap certs

\* A configuration nobody confirmed does not stay: its profiles are gone in the
\* end although the broker or the host restarts (pending.json, the monitor,
\* NetworkManager's own timeout). The exception are the orphans: the broker went
\* down before the change was published, and the checkpoint went with the host
\* or was destroyed by the next change.
UnconfirmedIsUndone ==
    \A n \in 1 .. MaxChanges :
        n \in files \ kept ~> n \notin files \ (kept \cup orphans)

\* A managed configuration with no change pending comes up, whatever failed and
\* went down before, unless the next change begins; provided no checkpoint
\* timed out under an operation or after it was cut off (the reconnect of _rollback_locked, the
\* monitor's reconciliation after a start).
ManagedComesUp ==
    (pending = NoPending /\ current.id # 0)
        ~> (up = current.id \/ pending # NoPending \/ op # Idle \/ outlived)

=============================================================================
