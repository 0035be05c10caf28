------------------------- MODULE PiNetworkingProofs -------------------------
(***************************************************************************)
(* Proofs about PiNetworking, for any number of changes and faults and any *)
(* rollback window.                                                        *)
(*                                                                         *)
(* The two invariants hold between the writes of an operation only because *)
(* of what the operation has already done, so the inductive invariant says *)
(* for every step of the lock holder how its change relates to the change  *)
(* on disk, to the record and to NetworkManager's checkpoint.              *)
(***************************************************************************)
EXTENDS PiNetworking, TLAPS

USE PiAssumption

ApplySteps == {"checkpoint", "write", "activate", "publish"}
DisableSteps == {"checkpoint disable", "switch", "publish disable"}
ConfirmSteps == {"record", "destroy", "unlink"}
UndoSteps == {"rb checkpoint", "rb cleanup", "rb finish"}
RestoreSteps == {"rb record", "rb reconnect"}
Steps == {"idle", "cleanup"} \cup ApplySteps \cup DisableSteps \cup ConfirmSteps
            \cup UndoSteps \cup RestoreSteps

Records == [id : Nat, origin : Nat]

Changes == [kind : {"none", "apply", "disable"}, id : Nat, previous : Records,
            origin : Nat, checkpoint : Nat, left : Nat]

Checkpoints == [id : Nat, up : Nat, files : SUBSET Nat, left : Nat]

Operations == [pc : Steps, change : Changes, known : BOOLEAN]

TypeOK ==
    /\ current \in Records
    /\ pending \in Changes
    /\ files \in SUBSET Nat
    /\ certs \in SUBSET Nat
    /\ up \in Nat
    /\ checkpoint \in Checkpoints
    /\ op \in Operations
    /\ changes \in Nat
    /\ confirmed \in Nat

\* A change that was begun: it has a checkpoint of its own, and an apply makes a
\* configuration that is newer than the one it replaces.
Begun(c) ==
    /\ c.kind # "none"
    /\ c.checkpoint # 0
    /\ c.kind = "apply" => c.id > c.previous.id
    /\ c.kind = "disable" => c.id = 0

\* The change on disk is c, up to the time that is left for it.
OnDisk(c) ==
    /\ pending.kind = c.kind
    /\ pending.id = c.id
    /\ pending.previous = c.previous
    /\ pending.checkpoint = c.checkpoint

\* The record of an operation that has not touched it.
Untouched(c) == pending = NoPending /\ current = c.previous

Fallback == IF pending = NoPending THEN current.id ELSE pending.previous.id

\* Nothing newer than the last change is known.
NumbersOK ==
    /\ current.id <= changes
    /\ pending.id <= changes /\ pending.previous.id <= changes
    /\ op.change.id <= changes /\ op.change.previous.id <= changes

\* The change on disk was begun, and coming back from it leads to the
\* configuration that was confirmed last.
PendingOK ==
    pending # NoPending => Begun(pending) /\ pending.previous.id = confirmed

\* How the change of the lock holder relates to the disk, step by step.
OperationOK ==
    LET c == op.change
        pc == op.pc IN
    /\ pc = "idle" => op = Idle
    /\ pc # "idle" => Begun(c)
    /\ pc \in ApplySteps => Untouched(c) /\ ~ op.known /\ c.kind = "apply"
    /\ pc \in DisableSteps => Untouched(c) /\ op.known /\ c.kind = "disable"
    /\ pc \in ConfirmSteps => OnDisk(c)
    /\ pc \in {"destroy", "unlink", "cleanup"} => current.id = c.id
    /\ pc = "cleanup" => pending = NoPending
    /\ pc \in UndoSteps => IF op.known THEN OnDisk(c) ELSE Untouched(c)
    /\ pc \in RestoreSteps => op.known /\ OnDisk(c)
    /\ pc = "rb reconnect" => current = c.previous
    /\ pc = "rb finish" => current = c.previous

\* A checkpoint that is still there guards the configuration to come back to, and
\* the profiles of its own change have not been removed.
CheckpointOK ==
    LET c == op.change IN
    /\ checkpoint.id # 0 /\ Fallback # 0 => Fallback \in checkpoint.files
    /\ pending # NoPending /\ pending.kind = "apply" =>
           /\ pending.id \in certs
           /\ checkpoint.id = pending.checkpoint => pending.id \in files
    /\ op.pc \in ApplySteps => c.id \in certs
    /\ op.pc \in {"activate", "publish"} /\ checkpoint.id = c.checkpoint => c.id \in files
    /\ op.pc \in {"rb cleanup", "rb record", "rb reconnect", "rb finish"} =>
           checkpoint.id # c.checkpoint
    /\ op.pc \in {"unlink", "cleanup"} => checkpoint.id = 0
    /\ op.pc = "unlink" /\ c.kind = "apply" => c.id \in files

PiInv ==
    /\ TypeOK
    /\ NumbersOK
    /\ PendingOK
    /\ OperationOK
    /\ CheckpointOK
    /\ RecordIsConfirmed
    /\ FallbackIsWhole

\* The values that stand for nothing have their types.
LEMMA Constants ==
    /\ NoRecord \in Records /\ NoRecord.id = 0
    /\ NoPending \in Changes /\ NoPending.kind = "none" /\ NoPending.id = 0
    /\ NoPending.previous = NoRecord /\ NoPending.checkpoint = 0
    /\ NoCheckpoint \in Checkpoints /\ NoCheckpoint.id = 0
    /\ Idle \in Operations /\ Idle.pc = "idle" /\ Idle.change = NoPending
    /\ Idle.change.id = 0 /\ Idle.change.previous.id = 0 /\ ~ Idle.known
    /\ NoPending.previous.id = 0
BY DEF NoRecord, Records, NoPending, Changes, NoCheckpoint, Checkpoints, Idle, Operations, Steps

\* Counting on from a numbered change gives a number, larger than all before it.
LEMMA NextNumber ==
    \A n \in Nat : /\ n + 1 \in Nat /\ n + 1 # 0 /\ n <= n + 1
                   /\ \A m \in Nat : m <= n => m <= n + 1
OBVIOUS

\* The fields of well-typed values.
LEMMA Fields ==
    /\ \A r \in Records : r.id \in Nat /\ r.origin \in Nat
    /\ \A c \in Changes : /\ c.id \in Nat /\ c.checkpoint \in Nat /\ c.left \in Nat
                          /\ c.previous \in Records /\ c.origin \in Nat
                          /\ c.kind \in {"none", "apply", "disable"}
    /\ \A k \in Checkpoints : k.id \in Nat /\ k.up \in Nat /\ k.files \in SUBSET Nat
    /\ \A o \in Operations : o.pc \in Steps /\ o.change \in Changes /\ o.known \in BOOLEAN
BY DEF Records, Changes, Checkpoints, Operations

\* The values of the types.
LEMMA Values ==
    /\ \A i, o \in Nat : [id |-> i, origin |-> o] \in Records
    /\ \A k \in {"none", "apply", "disable"}, i, o, n, l \in Nat, p \in Records :
           [kind |-> k, id |-> i, previous |-> p, origin |-> o, checkpoint |-> n, left |-> l]
               \in Changes
    /\ \A pc \in Steps, c \in Changes, k \in BOOLEAN :
           [pc |-> pc, change |-> c, known |-> k] \in Operations
BY DEF Records, Changes, Operations

\* A step of the lock holder moves its program counter and nothing else of it.
LEMMA GotoFields ==
    ASSUME op \in Operations, NEW pc \in Steps, Goto(pc)
    PROVE  op' \in Operations /\ op'.pc = pc /\ op'.change = op.change /\ op'.known = op.known
BY DEF Operations, Goto

\* A new checkpoint remembers the profiles there are.
LEMMA CheckpointFields ==
    ASSUME TypeOK, NEW id \in Nat, CheckpointCreate(id)
    PROVE  checkpoint' \in Checkpoints /\ checkpoint'.id = id /\ checkpoint'.files = files
<1>1. Window + OperationGrace \in Nat
    BY PiAssumption
<1>2. QED
    BY <1>1 DEF TypeOK, CheckpointCreate, Checkpoints

\* A tick touches nothing but the time that is left.
LEMMA TickFields ==
    ASSUME TypeOK, pending # NoPending => pending.kind # "none", Tick
    PROVE  /\ pending' \in Changes /\ pending'.kind = pending.kind /\ pending'.id = pending.id
           /\ pending'.previous = pending.previous /\ pending'.checkpoint = pending.checkpoint
           /\ pending' = NoPending <=> pending = NoPending
           /\ checkpoint' \in Checkpoints /\ checkpoint'.id = checkpoint.id
           /\ checkpoint'.files = checkpoint.files
<1>1. \A n \in Nat : Down(n) \in Nat
    BY DEF Down
<1>2. /\ pending' \in Changes /\ pending'.kind = pending.kind /\ pending'.id = pending.id
      /\ pending'.previous = pending.previous /\ pending'.checkpoint = pending.checkpoint
    BY <1>1 DEF Tick, TypeOK, Changes
<1>3. pending = NoPending => pending' = NoPending
    BY DEF Tick, NoPending, Down
<1>4. pending # NoPending => pending' # NoPending
    BY <1>2, Constants
<1>5. /\ checkpoint' \in Checkpoints /\ checkpoint'.id = checkpoint.id
      /\ checkpoint'.files = checkpoint.files
    BY <1>1 DEF Tick, TypeOK, Checkpoints
<1>6. QED
    BY <1>2, <1>3, <1>4, <1>5

\* A freshly installed appliance satisfies the invariant.
LEMMA PiInit == Init => PiInv
<1> SUFFICES ASSUME Init PROVE PiInv
    OBVIOUS
<1> USE Constants DEF Init
<1>1. TypeOK
    BY DEF TypeOK
<1>2. NumbersOK /\ PendingOK
    BY DEF NumbersOK, PendingOK
<1>3. OperationOK
    BY DEF OperationOK, ApplySteps, DisableSteps, ConfirmSteps, UndoSteps, RestoreSteps
<1>4. CheckpointOK
    BY DEF CheckpointOK, ApplySteps, Fallback
<1>5. RecordIsConfirmed /\ FallbackIsWhole
    BY DEF RecordIsConfirmed, FallbackIsWhole
<1>6. QED
    BY <1>1, <1>2, <1>3, <1>4, <1>5 DEF PiInv

(***************************************************************************)
(* Every step keeps the invariant.  For each action the fields of the      *)
(* records it writes come first, then the conjuncts it can disturb.        *)
(***************************************************************************)
LEMMA PiStep == PiInv /\ [Next]_piVars => PiInv'
<1> SUFFICES ASSUME PiInv, [Next]_piVars PROVE PiInv'
    OBVIOUS
<1>0. /\ current \in Records /\ current.id \in Nat /\ current.origin \in Nat /\ up \in Nat
      /\ changes \in Nat /\ 0 <= changes /\ confirmed \in Nat
      /\ pending \in Changes /\ pending.id \in Nat /\ pending.checkpoint \in Nat
      /\ pending.previous \in Records /\ pending.previous.id \in Nat
      /\ pending.kind \in {"none", "apply", "disable"}
      /\ op \in Operations /\ op.known \in BOOLEAN /\ op.change \in Changes
      /\ op.change.id \in Nat /\ op.change.checkpoint \in Nat
      /\ op.change.previous \in Records /\ op.change.previous.id \in Nat
      /\ op.change.kind \in {"none", "apply", "disable"}
      /\ checkpoint \in Checkpoints /\ checkpoint.id \in Nat /\ checkpoint.up \in Nat
      /\ checkpoint.files \in SUBSET Nat
    BY Fields DEF PiInv, TypeOK
<1>f. FallbackIsWhole = (Fallback # 0 => Fallback \in files /\ Fallback \in certs)
    BY DEF FallbackIsWhole, Fallback
<1>g. FallbackIsWhole' = (Fallback # 0 => Fallback \in files /\ Fallback \in certs)'
    BY DEF FallbackIsWhole, Fallback
<1> USE <1>0, Constants DEF PiInv, TypeOK, Fault, disk, ghosts
<1>1. CASE StartApply
    <2>1. /\ op = Idle /\ pending = NoPending
          /\ changes' = changes + 1 /\ certs' = certs \cup {changes + 1}
          /\ op' \in Operations /\ op'.pc = "checkpoint" /\ ~ op'.known
          /\ op'.change.kind = "apply" /\ op'.change.id = changes + 1
          /\ op'.change.previous = current /\ op'.change.checkpoint = changes + 1
          /\ UNCHANGED <<current, pending, files, checkpoint, confirmed>>
          /\ up' = up
        <3>1. ApplyChange(changes + 1) \in Changes
            BY Fields DEF ApplyChange, Changes
        <3>2. op' \in Operations
            BY <1>1, <3>1, Values DEF StartApply, Steps, ApplySteps
        <3>3. QED
            BY <1>1, <3>2 DEF StartApply, ApplyChange
    <2>2. TypeOK'
        BY <2>1 DEF TypeOK
    <2>3. NumbersOK'
        BY <2>1 DEF NumbersOK
    <2>4. PendingOK'
        BY <2>1 DEF PendingOK, Begun, RecordIsConfirmed, OperationOK, ApplySteps,
            DisableSteps, ConfirmSteps, UndoSteps, RestoreSteps, Untouched, OnDisk
    <2>5. OperationOK'
        <3>1. Begun(op'.change)
            BY <2>1 DEF Begun, NumbersOK
        <3>2. QED
            BY <2>1, <3>1 DEF OperationOK, ApplySteps, DisableSteps, ConfirmSteps, UndoSteps,
                RestoreSteps, Untouched
    <2>6. CheckpointOK'
        BY <2>1, <1>f, <1>g DEF CheckpointOK, OperationOK, NumbersOK, PendingOK, Fallback,
            ApplySteps, DisableSteps, ConfirmSteps, UndoSteps, RestoreSteps, Untouched,
            OnDisk, Begun
    <2>7. RecordIsConfirmed'
        BY <2>1 DEF RecordIsConfirmed, OperationOK, PendingOK, ApplySteps, DisableSteps,
            ConfirmSteps, UndoSteps, RestoreSteps, Untouched, OnDisk
    <2>8. FallbackIsWhole'
        BY <2>1, <1>f, <1>g DEF Fallback, CheckpointOK, OperationOK, NumbersOK, PendingOK,
            ApplySteps, DisableSteps, ConfirmSteps, UndoSteps, RestoreSteps, Untouched,
            OnDisk, Begun
    <2>9. QED
        BY <2>2, <2>3, <2>4, <2>5, <2>6, <2>7, <2>8
<1>2. CASE CreateForApply
    <2>1. /\ op.pc = "checkpoint"
          /\ op' \in Operations /\ op'.pc = "write" /\ op'.change = op.change /\ op'.known = op.known
          /\ checkpoint' \in Checkpoints /\ checkpoint'.id = op.change.id /\ checkpoint'.files = files
          /\ UNCHANGED <<current, pending, files, certs, changes, confirmed>>
          /\ up' = up
        BY <1>2, GotoFields, CheckpointFields DEF CreateForApply, Steps, ApplySteps,
            DisableSteps, ConfirmSteps, UndoSteps, RestoreSteps
    <2>2. TypeOK'
        BY <2>1 DEF TypeOK
    <2>3. NumbersOK'
        BY <2>1 DEF NumbersOK
    <2>4. PendingOK'
        BY <2>1 DEF PendingOK, Begun, RecordIsConfirmed, OperationOK, ApplySteps,
            DisableSteps, ConfirmSteps, UndoSteps, RestoreSteps, Untouched, OnDisk
    <2>5. OperationOK'
        BY <2>1 DEF OperationOK, PendingOK, NumbersOK, ApplySteps, DisableSteps,
            ConfirmSteps, UndoSteps, RestoreSteps, Untouched, OnDisk, Begun
    <2>6. CheckpointOK'
        BY <2>1, <1>f, <1>g DEF CheckpointOK, OperationOK, NumbersOK, PendingOK, Fallback,
            ApplySteps, DisableSteps, ConfirmSteps, UndoSteps, RestoreSteps, Untouched,
            OnDisk, Begun
    <2>7. RecordIsConfirmed'
        BY <2>1 DEF RecordIsConfirmed, OperationOK, PendingOK, ApplySteps, DisableSteps,
            ConfirmSteps, UndoSteps, RestoreSteps, Untouched, OnDisk
    <2>8. FallbackIsWhole'
        BY <2>1, <1>f, <1>g DEF Fallback, CheckpointOK, OperationOK, NumbersOK, PendingOK,
            ApplySteps, DisableSteps, ConfirmSteps, UndoSteps, RestoreSteps, Untouched,
            OnDisk, Begun
    <2>9. QED
        BY <2>2, <2>3, <2>4, <2>5, <2>6, <2>7, <2>8
<1>3. CASE WriteProfiles
    <2>1. /\ op.pc = "write"
          /\ op' \in Operations /\ op'.pc = "activate" /\ op'.change = op.change /\ op'.known = op.known
          /\ files' = files \cup {op.change.id}
          /\ UNCHANGED <<current, pending, certs, checkpoint, changes, confirmed>>
          /\ up' = up
        BY <1>3, GotoFields DEF WriteProfiles, Steps, ApplySteps, DisableSteps,
            ConfirmSteps, UndoSteps, RestoreSteps
    <2>2. TypeOK'
        BY <2>1 DEF TypeOK
    <2>3. NumbersOK'
        BY <2>1 DEF NumbersOK
    <2>4. PendingOK'
        BY <2>1 DEF PendingOK, Begun, RecordIsConfirmed, OperationOK, ApplySteps,
            DisableSteps, ConfirmSteps, UndoSteps, RestoreSteps, Untouched, OnDisk
    <2>5. OperationOK'
        BY <2>1 DEF OperationOK, PendingOK, NumbersOK, ApplySteps, DisableSteps,
            ConfirmSteps, UndoSteps, RestoreSteps, Untouched, OnDisk, Begun
    <2>6. CheckpointOK'
        BY <2>1, <1>f, <1>g DEF CheckpointOK, OperationOK, NumbersOK, PendingOK, Fallback,
            ApplySteps, DisableSteps, ConfirmSteps, UndoSteps, RestoreSteps, Untouched,
            OnDisk, Begun
    <2>7. RecordIsConfirmed'
        BY <2>1 DEF RecordIsConfirmed, OperationOK, PendingOK, ApplySteps, DisableSteps,
            ConfirmSteps, UndoSteps, RestoreSteps, Untouched, OnDisk
    <2>8. FallbackIsWhole'
        BY <2>1, <1>f, <1>g DEF Fallback, CheckpointOK, OperationOK, NumbersOK, PendingOK,
            ApplySteps, DisableSteps, ConfirmSteps, UndoSteps, RestoreSteps, Untouched,
            OnDisk, Begun
    <2>9. QED
        BY <2>2, <2>3, <2>4, <2>5, <2>6, <2>7, <2>8
<1>4. CASE Activate
    <2>1. /\ op.pc = "activate"
          /\ op' \in Operations /\ op'.pc = "publish" /\ op'.change = op.change /\ op'.known = op.known
          /\ UNCHANGED <<current, pending, files, certs, checkpoint, changes, confirmed>>
          /\ up' \in Nat
        BY <1>4, GotoFields DEF Activate, Steps, ApplySteps, DisableSteps, ConfirmSteps,
            UndoSteps, RestoreSteps
    <2>2. TypeOK'
        BY <2>1 DEF TypeOK
    <2>3. NumbersOK'
        BY <2>1 DEF NumbersOK
    <2>4. PendingOK'
        BY <2>1 DEF PendingOK, Begun, RecordIsConfirmed, OperationOK, ApplySteps,
            DisableSteps, ConfirmSteps, UndoSteps, RestoreSteps, Untouched, OnDisk
    <2>5. OperationOK'
        BY <2>1 DEF OperationOK, PendingOK, NumbersOK, ApplySteps, DisableSteps,
            ConfirmSteps, UndoSteps, RestoreSteps, Untouched, OnDisk, Begun
    <2>6. CheckpointOK'
        BY <2>1, <1>f, <1>g DEF CheckpointOK, OperationOK, NumbersOK, PendingOK, Fallback,
            ApplySteps, DisableSteps, ConfirmSteps, UndoSteps, RestoreSteps, Untouched,
            OnDisk, Begun
    <2>7. RecordIsConfirmed'
        BY <2>1 DEF RecordIsConfirmed, OperationOK, PendingOK, ApplySteps, DisableSteps,
            ConfirmSteps, UndoSteps, RestoreSteps, Untouched, OnDisk
    <2>8. FallbackIsWhole'
        BY <2>1, <1>f, <1>g DEF Fallback, CheckpointOK, OperationOK, NumbersOK, PendingOK,
            ApplySteps, DisableSteps, ConfirmSteps, UndoSteps, RestoreSteps, Untouched,
            OnDisk, Begun
    <2>9. QED
        BY <2>2, <2>3, <2>4, <2>5, <2>6, <2>7, <2>8
<1>5. CASE Publish
    <2>1. /\ op.pc \in {"publish", "publish disable"}
          /\ pending' = op.change /\ op' = Idle
          /\ UNCHANGED <<current, files, certs, checkpoint, changes, confirmed>>
          /\ up' = up
        BY <1>5 DEF Publish
    <2>2. TypeOK'
        BY <2>1 DEF TypeOK
    <2>3. NumbersOK'
        <3>1. op'.change.id = 0 /\ op'.change.previous.id = 0
            BY <2>1
        <3>2. QED
            BY <2>1, <3>1 DEF NumbersOK
    <2>4. PendingOK'
        BY <2>1 DEF PendingOK, Begun, RecordIsConfirmed, OperationOK, ApplySteps,
            DisableSteps, ConfirmSteps, UndoSteps, RestoreSteps, Untouched, OnDisk
    <2>5. OperationOK'
        BY <2>1 DEF OperationOK, PendingOK, NumbersOK, ApplySteps, DisableSteps,
            ConfirmSteps, UndoSteps, RestoreSteps, Untouched, OnDisk, Begun
    <2>6. CheckpointOK'
        BY <2>1, <1>f, <1>g DEF CheckpointOK, OperationOK, NumbersOK, PendingOK, Fallback,
            ApplySteps, DisableSteps, ConfirmSteps, UndoSteps, RestoreSteps, Untouched,
            OnDisk, Begun
    <2>7. RecordIsConfirmed'
        BY <2>1 DEF RecordIsConfirmed, OperationOK, PendingOK, ApplySteps, DisableSteps,
            ConfirmSteps, UndoSteps, RestoreSteps, Untouched, OnDisk
    <2>8. FallbackIsWhole'
        BY <2>1, <1>f, <1>g DEF Fallback, CheckpointOK, OperationOK, NumbersOK, PendingOK,
            ApplySteps, DisableSteps, ConfirmSteps, UndoSteps, RestoreSteps, Untouched,
            OnDisk, Begun
    <2>9. QED
        BY <2>2, <2>3, <2>4, <2>5, <2>6, <2>7, <2>8
<1>6. CASE ApplyFails
    <2>1. /\ \/ op.pc = "checkpoint" /\ op' = Idle /\ certs' = certs \ {op.change.id}
             \/ /\ op.pc \in {"write", "activate", "publish"} /\ certs' = certs
                /\ op' \in Operations /\ op'.pc = "rb checkpoint" /\ op'.change = op.change
                /\ op'.known = op.known
          /\ UNCHANGED <<current, pending, files, checkpoint, changes, confirmed>>
          /\ up' \in Nat
        BY <1>6, GotoFields DEF ApplyFails, Steps, ApplySteps, DisableSteps, ConfirmSteps,
            UndoSteps, RestoreSteps
    <2>2. TypeOK'
        BY <2>1 DEF TypeOK
    <2>3. NumbersOK'
        <3>1. op'.change.id \in {0, op.change.id}
              /\ op'.change.previous.id \in {0, op.change.previous.id}
            BY <2>1
        <3>2. QED
            BY <2>1, <3>1 DEF NumbersOK
    <2>4. PendingOK'
        BY <2>1 DEF PendingOK, Begun, RecordIsConfirmed, OperationOK, ApplySteps,
            DisableSteps, ConfirmSteps, UndoSteps, RestoreSteps, Untouched, OnDisk
    <2>5. OperationOK'
        BY <2>1 DEF OperationOK, PendingOK, NumbersOK, ApplySteps, DisableSteps,
            ConfirmSteps, UndoSteps, RestoreSteps, Untouched, OnDisk, Begun
    <2>6. CheckpointOK'
        BY <2>1, <1>f, <1>g DEF CheckpointOK, OperationOK, NumbersOK, PendingOK, Fallback,
            ApplySteps, DisableSteps, ConfirmSteps, UndoSteps, RestoreSteps, Untouched,
            OnDisk, Begun
    <2>7. RecordIsConfirmed'
        BY <2>1 DEF RecordIsConfirmed, OperationOK, PendingOK, ApplySteps, DisableSteps,
            ConfirmSteps, UndoSteps, RestoreSteps, Untouched, OnDisk
    <2>8. FallbackIsWhole'
        <3>1. Fallback' = Fallback
            BY <2>1 DEF Fallback
        <3>2. op.pc = "checkpoint" /\ Fallback # 0 => Fallback # op.change.id
            BY <2>1 DEF Fallback, NumbersOK, OperationOK, PendingOK, Begun, Untouched, OnDisk, ApplySteps
        <3>3. QED
            BY <2>1, <3>1, <3>2, <1>f, <1>g
    <2>9. QED
        BY <2>2, <2>3, <2>4, <2>5, <2>6, <2>7, <2>8
<1>7. CASE StartDisable
    <2>1. /\ op = Idle /\ pending = NoPending
          /\ changes' = changes + 1 /\ changes' \in Nat /\ changes' # 0 /\ changes <= changes'
          /\ op' \in Operations /\ op'.pc = "checkpoint disable" /\ op'.known
          /\ op'.change.kind = "disable" /\ op'.change.id = 0
          /\ op'.change.previous = current /\ op'.change.checkpoint = changes'
          /\ UNCHANGED <<current, pending, files, certs, checkpoint, confirmed>>
          /\ up' = up
        <3>1. Window \in Nat /\ changes + 1 \in Nat
            OBVIOUS
        <3>. DEFINE c == [kind |-> "disable", id |-> 0, previous |-> current,
                          origin |-> 0, checkpoint |-> changes + 1, left |-> Window]
        <3>2. c \in Changes
            BY <3>1, Values
        <3>3. [pc |-> "checkpoint disable", change |-> c, known |-> TRUE] \in Operations
            BY <3>2, Values DEF Steps, DisableSteps
        <3>4. changes' = changes + 1 /\ changes' \in Nat /\ changes' # 0 /\ changes <= changes'
            <4>1. changes' = changes + 1
                BY <1>7 DEF StartDisable
            <4>2. QED
                BY <4>1, NextNumber
        <3>5. op' = [pc |-> "checkpoint disable", change |-> c, known |-> TRUE]
            BY <1>7 DEF StartDisable
        <3>6. op' \in Operations /\ op'.pc = "checkpoint disable" /\ op'.known
            BY <3>3, <3>5
        <3>7. /\ op'.change.kind = "disable" /\ op'.change.id = 0
              /\ op'.change.previous = current /\ op'.change.checkpoint = changes'
            BY <3>4, <3>5
        <3>8. QED
            BY <1>7, <3>4, <3>6, <3>7 DEF StartDisable
    <2>2. TypeOK'
        BY <2>1 DEF TypeOK
    <2>3. NumbersOK'
        <3>1. current.id <= changes' /\ pending.id <= changes' /\ pending.previous.id <= changes'
            BY <2>1, NextNumber DEF NumbersOK
        <3>2. QED
            BY <2>1, <3>1 DEF NumbersOK
    <2>4. PendingOK'
        BY <2>1 DEF PendingOK, Begun, RecordIsConfirmed, OperationOK, ApplySteps,
            DisableSteps, ConfirmSteps, UndoSteps, RestoreSteps, Untouched, OnDisk
    <2>5. OperationOK'
        <3>1. Begun(op'.change)
            BY <2>1 DEF Begun, NumbersOK
        <3>2. QED
            BY <2>1, <3>1 DEF OperationOK, ApplySteps, DisableSteps, ConfirmSteps, UndoSteps,
                RestoreSteps, Untouched
    <2>6. CheckpointOK'
        BY <2>1, <1>f, <1>g DEF CheckpointOK, OperationOK, NumbersOK, PendingOK, Fallback,
            ApplySteps, DisableSteps, ConfirmSteps, UndoSteps, RestoreSteps, Untouched,
            OnDisk, Begun
    <2>7. RecordIsConfirmed'
        BY <2>1 DEF RecordIsConfirmed, OperationOK, PendingOK, ApplySteps, DisableSteps,
            ConfirmSteps, UndoSteps, RestoreSteps, Untouched, OnDisk
    <2>8. FallbackIsWhole'
        BY <2>1, <1>f, <1>g DEF Fallback, CheckpointOK, OperationOK, NumbersOK, PendingOK,
            ApplySteps, DisableSteps, ConfirmSteps, UndoSteps, RestoreSteps, Untouched,
            OnDisk, Begun
    <2>9. QED
        BY <2>2, <2>3, <2>4, <2>5, <2>6, <2>7, <2>8
<1>8. CASE CreateForDisable
    <2>1. /\ op.pc = "checkpoint disable"
          /\ op' \in Operations /\ op'.pc = "switch" /\ op'.change = op.change /\ op'.known = op.known
          /\ checkpoint' \in Checkpoints /\ checkpoint'.id = op.change.checkpoint /\ checkpoint'.files = files
          /\ UNCHANGED <<current, pending, files, certs, changes, confirmed>>
          /\ up' = up
        BY <1>8, GotoFields, CheckpointFields DEF CreateForDisable, Steps, ApplySteps,
            DisableSteps, ConfirmSteps, UndoSteps, RestoreSteps
    <2>2. TypeOK'
        BY <2>1 DEF TypeOK
    <2>3. NumbersOK'
        BY <2>1 DEF NumbersOK
    <2>4. PendingOK'
        BY <2>1 DEF PendingOK, Begun, RecordIsConfirmed, OperationOK, ApplySteps,
            DisableSteps, ConfirmSteps, UndoSteps, RestoreSteps, Untouched, OnDisk
    <2>5. OperationOK'
        BY <2>1 DEF OperationOK, PendingOK, NumbersOK, ApplySteps, DisableSteps,
            ConfirmSteps, UndoSteps, RestoreSteps, Untouched, OnDisk, Begun
    <2>6. CheckpointOK'
        BY <2>1, <1>f, <1>g DEF CheckpointOK, OperationOK, NumbersOK, PendingOK, Fallback,
            ApplySteps, DisableSteps, ConfirmSteps, UndoSteps, RestoreSteps, Untouched,
            OnDisk, Begun
    <2>7. RecordIsConfirmed'
        BY <2>1 DEF RecordIsConfirmed, OperationOK, PendingOK, ApplySteps, DisableSteps,
            ConfirmSteps, UndoSteps, RestoreSteps, Untouched, OnDisk
    <2>8. FallbackIsWhole'
        BY <2>1, <1>f, <1>g DEF Fallback, CheckpointOK, OperationOK, NumbersOK, PendingOK,
            ApplySteps, DisableSteps, ConfirmSteps, UndoSteps, RestoreSteps, Untouched,
            OnDisk, Begun
    <2>9. QED
        BY <2>2, <2>3, <2>4, <2>5, <2>6, <2>7, <2>8
<1>9. CASE SwitchBack
    <2>1. /\ op.pc = "switch"
          /\ op' \in Operations /\ op'.pc = "publish disable" /\ op'.change = op.change /\ op'.known = op.known
          /\ UNCHANGED <<current, pending, files, certs, checkpoint, changes, confirmed>>
          /\ up' \in Nat
        BY <1>9, GotoFields, Fields DEF SwitchBack, Steps, ApplySteps, DisableSteps,
            ConfirmSteps, UndoSteps, RestoreSteps
    <2>2. TypeOK'
        BY <2>1 DEF TypeOK
    <2>3. NumbersOK'
        BY <2>1 DEF NumbersOK
    <2>4. PendingOK'
        BY <2>1 DEF PendingOK, Begun, RecordIsConfirmed, OperationOK, ApplySteps,
            DisableSteps, ConfirmSteps, UndoSteps, RestoreSteps, Untouched, OnDisk
    <2>5. OperationOK'
        BY <2>1 DEF OperationOK, PendingOK, NumbersOK, ApplySteps, DisableSteps,
            ConfirmSteps, UndoSteps, RestoreSteps, Untouched, OnDisk, Begun
    <2>6. CheckpointOK'
        BY <2>1, <1>f, <1>g DEF CheckpointOK, OperationOK, NumbersOK, PendingOK, Fallback,
            ApplySteps, DisableSteps, ConfirmSteps, UndoSteps, RestoreSteps, Untouched,
            OnDisk, Begun
    <2>7. RecordIsConfirmed'
        BY <2>1 DEF RecordIsConfirmed, OperationOK, PendingOK, ApplySteps, DisableSteps,
            ConfirmSteps, UndoSteps, RestoreSteps, Untouched, OnDisk
    <2>8. FallbackIsWhole'
        BY <2>1, <1>f, <1>g DEF Fallback, CheckpointOK, OperationOK, NumbersOK, PendingOK,
            ApplySteps, DisableSteps, ConfirmSteps, UndoSteps, RestoreSteps, Untouched,
            OnDisk, Begun
    <2>9. QED
        BY <2>2, <2>3, <2>4, <2>5, <2>6, <2>7, <2>8
<1>10. CASE DisableFails
    <2>1. /\ op.pc = "publish disable" /\ op' = Idle
          /\ \/ checkpoint' = NoCheckpoint /\ files' = files \cap checkpoint.files
                /\ checkpoint.id = op.change.checkpoint
             \/ UNCHANGED <<files, checkpoint>>
          /\ UNCHANGED <<current, pending, certs, changes, confirmed>>
          /\ up' \in Nat
        BY <1>10 DEF DisableFails
    <2>2. TypeOK'
        BY <2>1 DEF TypeOK
    <2>3. NumbersOK'
        <3>1. op'.change.id = 0 /\ op'.change.previous.id = 0
            BY <2>1
        <3>2. QED
            BY <2>1, <3>1 DEF NumbersOK
    <2>4. PendingOK'
        BY <2>1 DEF PendingOK, Begun, RecordIsConfirmed, OperationOK, ApplySteps,
            DisableSteps, ConfirmSteps, UndoSteps, RestoreSteps, Untouched, OnDisk
    <2>5. OperationOK'
        BY <2>1 DEF OperationOK, PendingOK, NumbersOK, ApplySteps, DisableSteps,
            ConfirmSteps, UndoSteps, RestoreSteps, Untouched, OnDisk, Begun
    <2>6. CheckpointOK'
        BY <2>1, <1>f, <1>g DEF CheckpointOK, OperationOK, NumbersOK, PendingOK, Fallback,
            ApplySteps, DisableSteps, ConfirmSteps, UndoSteps, RestoreSteps, Untouched,
            OnDisk, Begun
    <2>7. RecordIsConfirmed'
        BY <2>1 DEF RecordIsConfirmed, OperationOK, PendingOK, ApplySteps, DisableSteps,
            ConfirmSteps, UndoSteps, RestoreSteps, Untouched, OnDisk
    <2>8. FallbackIsWhole'
        BY <2>1, <1>f, <1>g DEF Fallback, CheckpointOK, OperationOK, NumbersOK, PendingOK,
            ApplySteps, DisableSteps, ConfirmSteps, UndoSteps, RestoreSteps, Untouched,
            OnDisk, Begun
    <2>9. QED
        BY <2>2, <2>3, <2>4, <2>5, <2>6, <2>7, <2>8
<1>11. CASE StartConfirm
    <2>1. /\ op = Idle /\ pending # NoPending
          /\ op' \in Operations /\ op'.pc = "record" /\ op'.change = pending
          /\ UNCHANGED <<current, pending, files, certs, checkpoint, changes, confirmed>>
          /\ up' = up
        BY <1>11, Values DEF StartConfirm, Steps, ApplySteps, DisableSteps, ConfirmSteps,
            UndoSteps, RestoreSteps
    <2>2. TypeOK'
        BY <2>1 DEF TypeOK
    <2>3. NumbersOK'
        BY <2>1 DEF NumbersOK
    <2>4. PendingOK'
        BY <2>1 DEF PendingOK, Begun, RecordIsConfirmed, OperationOK, ApplySteps,
            DisableSteps, ConfirmSteps, UndoSteps, RestoreSteps, Untouched, OnDisk
    <2>5. OperationOK'
        BY <2>1 DEF OperationOK, PendingOK, NumbersOK, ApplySteps, DisableSteps,
            ConfirmSteps, UndoSteps, RestoreSteps, Untouched, OnDisk, Begun
    <2>6. CheckpointOK'
        BY <2>1, <1>f, <1>g DEF CheckpointOK, OperationOK, NumbersOK, PendingOK, Fallback,
            ApplySteps, DisableSteps, ConfirmSteps, UndoSteps, RestoreSteps, Untouched,
            OnDisk, Begun
    <2>7. RecordIsConfirmed'
        BY <2>1 DEF RecordIsConfirmed, OperationOK, PendingOK, ApplySteps, DisableSteps,
            ConfirmSteps, UndoSteps, RestoreSteps, Untouched, OnDisk
    <2>8. FallbackIsWhole'
        BY <2>1, <1>f, <1>g DEF Fallback, CheckpointOK, OperationOK, NumbersOK, PendingOK,
            ApplySteps, DisableSteps, ConfirmSteps, UndoSteps, RestoreSteps, Untouched,
            OnDisk, Begun
    <2>9. QED
        BY <2>2, <2>3, <2>4, <2>5, <2>6, <2>7, <2>8
<1>12. CASE RecordConfirmed
    <2>1. /\ op.pc = "record"
          /\ op' \in Operations /\ op'.pc = "destroy" /\ op'.change = op.change /\ op'.known = op.known
          /\ current' \in Records /\ current'.id = op.change.id
          /\ UNCHANGED <<pending, files, certs, checkpoint, changes, confirmed>>
          /\ up' = up
        BY <1>12, GotoFields, Values, Fields DEF RecordConfirmed, OperationOK, Begun, Steps,
            ApplySteps, DisableSteps, ConfirmSteps, UndoSteps, RestoreSteps
    <2>2. TypeOK'
        BY <2>1 DEF TypeOK
    <2>3. NumbersOK'
        BY <2>1 DEF NumbersOK
    <2>4. PendingOK'
        BY <2>1 DEF PendingOK, Begun, RecordIsConfirmed, OperationOK, ApplySteps,
            DisableSteps, ConfirmSteps, UndoSteps, RestoreSteps, Untouched, OnDisk
    <2>5. OperationOK'
        BY <2>1 DEF OperationOK, PendingOK, NumbersOK, ApplySteps, DisableSteps,
            ConfirmSteps, UndoSteps, RestoreSteps, Untouched, OnDisk, Begun
    <2>6. CheckpointOK'
        BY <2>1, <1>f, <1>g DEF CheckpointOK, OperationOK, NumbersOK, PendingOK, Fallback,
            ApplySteps, DisableSteps, ConfirmSteps, UndoSteps, RestoreSteps, Untouched,
            OnDisk, Begun
    <2>7. RecordIsConfirmed'
        <3>1. pending # NoPending
            BY <2>1 DEF OperationOK, ConfirmSteps, OnDisk, Begun
        <3>2. QED
            BY <2>1, <3>1 DEF RecordIsConfirmed
    <2>8. FallbackIsWhole'
        BY <2>1, <1>f, <1>g DEF Fallback, CheckpointOK, OperationOK, NumbersOK, PendingOK,
            ApplySteps, DisableSteps, ConfirmSteps, UndoSteps, RestoreSteps, Untouched,
            OnDisk, Begun
    <2>9. QED
        BY <2>2, <2>3, <2>4, <2>5, <2>6, <2>7, <2>8
<1>13. CASE CheckpointDestroy
    <2>1. /\ op.pc = "destroy"
          /\ \/ /\ checkpoint.id = op.change.checkpoint /\ checkpoint' = NoCheckpoint
                /\ op' \in Operations /\ op'.pc = "unlink" /\ op'.change = op.change
                /\ op'.known = op.known /\ current' = current
             \/ op' = Idle /\ current' = op.change.previous /\ checkpoint' = checkpoint
          /\ UNCHANGED <<pending, files, certs, changes, confirmed>>
          /\ up' = up
        BY <1>13, GotoFields DEF CheckpointDestroy, Steps, ApplySteps, DisableSteps,
            ConfirmSteps, UndoSteps, RestoreSteps
    <2>2. TypeOK'
        BY <2>1 DEF TypeOK
    <2>3. NumbersOK'
        BY <2>1 DEF NumbersOK
    <2>4. PendingOK'
        BY <2>1 DEF PendingOK, Begun, RecordIsConfirmed, OperationOK, ApplySteps,
            DisableSteps, ConfirmSteps, UndoSteps, RestoreSteps, Untouched, OnDisk
    <2>5. OperationOK'
        BY <2>1 DEF OperationOK, PendingOK, NumbersOK, ApplySteps, DisableSteps,
            ConfirmSteps, UndoSteps, RestoreSteps, Untouched, OnDisk, Begun
    <2>6. CheckpointOK'
        BY <2>1, <1>f, <1>g DEF CheckpointOK, OperationOK, NumbersOK, PendingOK, Fallback,
            ApplySteps, DisableSteps, ConfirmSteps, UndoSteps, RestoreSteps, Untouched,
            OnDisk, Begun
    <2>7. RecordIsConfirmed'
        BY <2>1 DEF RecordIsConfirmed, OperationOK, PendingOK, ApplySteps, DisableSteps,
            ConfirmSteps, UndoSteps, RestoreSteps, Untouched, OnDisk
    <2>8. FallbackIsWhole'
        BY <2>1, <1>f, <1>g DEF Fallback, CheckpointOK, OperationOK, NumbersOK, PendingOK,
            ApplySteps, DisableSteps, ConfirmSteps, UndoSteps, RestoreSteps, Untouched,
            OnDisk, Begun
    <2>9. QED
        BY <2>2, <2>3, <2>4, <2>5, <2>6, <2>7, <2>8
<1>14. CASE UnlinkConfirmed
    <2>1. /\ op.pc = "unlink"
          /\ op' \in Operations /\ op'.pc = "cleanup" /\ op'.change = op.change /\ op'.known = op.known
          /\ pending' = NoPending /\ confirmed' = op.change.id
          /\ UNCHANGED <<current, files, certs, checkpoint, changes>>
          /\ up' = up
        BY <1>14, GotoFields DEF UnlinkConfirmed, Steps, ApplySteps, DisableSteps,
            ConfirmSteps, UndoSteps, RestoreSteps
    <2>2. TypeOK'
        BY <2>1 DEF TypeOK
    <2>3. NumbersOK'
        BY <2>1 DEF NumbersOK
    <2>4. PendingOK'
        BY <2>1 DEF PendingOK, Begun, RecordIsConfirmed, OperationOK, ApplySteps,
            DisableSteps, ConfirmSteps, UndoSteps, RestoreSteps, Untouched, OnDisk
    <2>5. OperationOK'
        BY <2>1 DEF OperationOK, PendingOK, NumbersOK, ApplySteps, DisableSteps,
            ConfirmSteps, UndoSteps, RestoreSteps, Untouched, OnDisk, Begun
    <2>6. CheckpointOK'
        BY <2>1, <1>f, <1>g DEF CheckpointOK, OperationOK, NumbersOK, PendingOK, Fallback,
            ApplySteps, DisableSteps, ConfirmSteps, UndoSteps, RestoreSteps, Untouched,
            OnDisk, Begun
    <2>7. RecordIsConfirmed'
        BY <2>1 DEF RecordIsConfirmed, OperationOK, PendingOK, ApplySteps, DisableSteps,
            ConfirmSteps, UndoSteps, RestoreSteps, Untouched, OnDisk
    <2>8. FallbackIsWhole'
        BY <2>1, <1>f, <1>g DEF Fallback, CheckpointOK, OperationOK, NumbersOK, PendingOK,
            ApplySteps, DisableSteps, ConfirmSteps, UndoSteps, RestoreSteps, Untouched,
            OnDisk, Begun
    <2>9. QED
        BY <2>2, <2>3, <2>4, <2>5, <2>6, <2>7, <2>8
<1>15. CASE CleanupPrevious
    <2>1. /\ op.pc = "cleanup" /\ op' = Idle
          /\ files' = files \ {op.change.previous.id} /\ certs' = certs \ {op.change.previous.id}
          /\ UNCHANGED <<current, pending, checkpoint, changes, confirmed>>
          /\ up' \in Nat
        BY <1>15 DEF CleanupPrevious, Without
    <2>2. TypeOK'
        BY <2>1 DEF TypeOK
    <2>3. NumbersOK'
        BY <2>1 DEF NumbersOK
    <2>4. PendingOK'
        BY <2>1 DEF PendingOK, Begun, RecordIsConfirmed, OperationOK, ApplySteps,
            DisableSteps, ConfirmSteps, UndoSteps, RestoreSteps, Untouched, OnDisk
    <2>5. OperationOK'
        BY <2>1 DEF OperationOK, PendingOK, NumbersOK, ApplySteps, DisableSteps,
            ConfirmSteps, UndoSteps, RestoreSteps, Untouched, OnDisk, Begun
    <2>6. CheckpointOK'
        BY <2>1, <1>f, <1>g DEF CheckpointOK, OperationOK, NumbersOK, PendingOK, Fallback,
            ApplySteps, DisableSteps, ConfirmSteps, UndoSteps, RestoreSteps, Untouched,
            OnDisk, Begun
    <2>7. RecordIsConfirmed'
        BY <2>1 DEF RecordIsConfirmed, OperationOK, PendingOK, ApplySteps, DisableSteps,
            ConfirmSteps, UndoSteps, RestoreSteps, Untouched, OnDisk
    <2>8. FallbackIsWhole'
        BY <2>1, <1>f, <1>g DEF Fallback, CheckpointOK, OperationOK, NumbersOK, PendingOK,
            ApplySteps, DisableSteps, ConfirmSteps, UndoSteps, RestoreSteps, Untouched,
            OnDisk, Begun
    <2>9. QED
        BY <2>2, <2>3, <2>4, <2>5, <2>6, <2>7, <2>8
<1>16. CASE StartRollback
    <2>1. /\ op = Idle /\ pending # NoPending
          /\ op' \in Operations /\ op'.pc = "rb checkpoint" /\ op'.change = pending /\ op'.known
          /\ UNCHANGED <<current, pending, files, certs, checkpoint, changes, confirmed>>
          /\ up' = up
        BY <1>16, Values DEF StartRollback, Steps, ApplySteps, DisableSteps, ConfirmSteps,
            UndoSteps, RestoreSteps
    <2>2. TypeOK'
        BY <2>1 DEF TypeOK
    <2>3. NumbersOK'
        BY <2>1 DEF NumbersOK
    <2>4. PendingOK'
        BY <2>1 DEF PendingOK, Begun, RecordIsConfirmed, OperationOK, ApplySteps,
            DisableSteps, ConfirmSteps, UndoSteps, RestoreSteps, Untouched, OnDisk
    <2>5. OperationOK'
        BY <2>1 DEF OperationOK, PendingOK, NumbersOK, ApplySteps, DisableSteps,
            ConfirmSteps, UndoSteps, RestoreSteps, Untouched, OnDisk, Begun
    <2>6. CheckpointOK'
        BY <2>1, <1>f, <1>g DEF CheckpointOK, OperationOK, NumbersOK, PendingOK, Fallback,
            ApplySteps, DisableSteps, ConfirmSteps, UndoSteps, RestoreSteps, Untouched,
            OnDisk, Begun
    <2>7. RecordIsConfirmed'
        BY <2>1 DEF RecordIsConfirmed, OperationOK, PendingOK, ApplySteps, DisableSteps,
            ConfirmSteps, UndoSteps, RestoreSteps, Untouched, OnDisk
    <2>8. FallbackIsWhole'
        BY <2>1, <1>f, <1>g DEF Fallback, CheckpointOK, OperationOK, NumbersOK, PendingOK,
            ApplySteps, DisableSteps, ConfirmSteps, UndoSteps, RestoreSteps, Untouched,
            OnDisk, Begun
    <2>9. QED
        BY <2>2, <2>3, <2>4, <2>5, <2>6, <2>7, <2>8
<1>17. CASE RollbackCheckpoint
    <2>1. /\ op.pc = "rb checkpoint"
          /\ op' \in Operations /\ op'.pc = "rb cleanup" /\ op'.change = op.change /\ op'.known = op.known
          /\ \/ /\ checkpoint.id = op.change.checkpoint
                /\ checkpoint' = NoCheckpoint /\ files' = files \cap checkpoint.files
             \/ checkpoint.id # op.change.checkpoint /\ UNCHANGED <<checkpoint, files>>
          /\ UNCHANGED <<current, pending, certs, changes, confirmed>>
          /\ up' \in Nat
        BY <1>17, GotoFields DEF RollbackCheckpoint, RestoreCheckpoint, Steps, ApplySteps,
            DisableSteps, ConfirmSteps, UndoSteps, RestoreSteps
    <2>2. TypeOK'
        BY <2>1 DEF TypeOK
    <2>3. NumbersOK'
        BY <2>1 DEF NumbersOK
    <2>4. PendingOK'
        BY <2>1 DEF PendingOK, Begun, RecordIsConfirmed, OperationOK, ApplySteps,
            DisableSteps, ConfirmSteps, UndoSteps, RestoreSteps, Untouched, OnDisk
    <2>5. OperationOK'
        BY <2>1 DEF OperationOK, PendingOK, NumbersOK, ApplySteps, DisableSteps,
            ConfirmSteps, UndoSteps, RestoreSteps, Untouched, OnDisk, Begun
    <2>6. CheckpointOK'
        BY <2>1, <1>f, <1>g DEF CheckpointOK, OperationOK, NumbersOK, PendingOK, Fallback,
            ApplySteps, DisableSteps, ConfirmSteps, UndoSteps, RestoreSteps, Untouched,
            OnDisk, Begun
    <2>7. RecordIsConfirmed'
        BY <2>1 DEF RecordIsConfirmed, OperationOK, PendingOK, ApplySteps, DisableSteps,
            ConfirmSteps, UndoSteps, RestoreSteps, Untouched, OnDisk
    <2>8. FallbackIsWhole'
        BY <2>1, <1>f, <1>g DEF Fallback, CheckpointOK, OperationOK, NumbersOK, PendingOK,
            ApplySteps, DisableSteps, ConfirmSteps, UndoSteps, RestoreSteps, Untouched,
            OnDisk, Begun
    <2>9. QED
        BY <2>2, <2>3, <2>4, <2>5, <2>6, <2>7, <2>8
<1>18. CASE RollbackCleanup
    <2>1. /\ op.pc = "rb cleanup"
          /\ op' \in Operations /\ op'.pc = (IF op.known THEN "rb record" ELSE "rb finish")
          /\ op'.change = op.change /\ op'.known = op.known
          /\ files' = files \ {op.change.id}
          /\ UNCHANGED <<current, pending, certs, checkpoint, changes, confirmed>>
          /\ up' \in Nat
        BY <1>18, GotoFields DEF RollbackCleanup, Without, Steps, ApplySteps, DisableSteps,
            ConfirmSteps, UndoSteps, RestoreSteps
    <2>2. TypeOK'
        BY <2>1 DEF TypeOK
    <2>3. NumbersOK'
        BY <2>1 DEF NumbersOK
    <2>4. PendingOK'
        BY <2>1 DEF PendingOK, Begun, RecordIsConfirmed, OperationOK, ApplySteps,
            DisableSteps, ConfirmSteps, UndoSteps, RestoreSteps, Untouched, OnDisk
    <2>5. OperationOK'
        BY <2>1 DEF OperationOK, PendingOK, NumbersOK, ApplySteps, DisableSteps,
            ConfirmSteps, UndoSteps, RestoreSteps, Untouched, OnDisk, Begun
    <2>6. CheckpointOK'
        BY <2>1, <1>f, <1>g DEF CheckpointOK, OperationOK, NumbersOK, PendingOK, Fallback,
            ApplySteps, DisableSteps, ConfirmSteps, UndoSteps, RestoreSteps, Untouched,
            OnDisk, Begun
    <2>7. RecordIsConfirmed'
        BY <2>1 DEF RecordIsConfirmed, OperationOK, PendingOK, ApplySteps, DisableSteps,
            ConfirmSteps, UndoSteps, RestoreSteps, Untouched, OnDisk
    <2>8. FallbackIsWhole'
        <3>1. Fallback' = Fallback
            BY <2>1 DEF Fallback, OperationOK, Untouched, OnDisk, Begun, UndoSteps
        <3>2. Fallback # 0 => Fallback # op.change.id
            <4>1. op.change.id = 0 \/ op.change.id > op.change.previous.id
                BY <2>1 DEF OperationOK, Begun
            <4>2. Fallback = op.change.previous.id
                BY <2>1 DEF Fallback, OperationOK, Begun, Untouched, OnDisk, UndoSteps
            <4>3. QED
                BY <4>1, <4>2
        <3>3. QED
            BY <2>1, <3>1, <3>2, <1>f, <1>g
    <2>9. QED
        BY <2>2, <2>3, <2>4, <2>5, <2>6, <2>7, <2>8
<1>19. CASE RollbackRecord
    <2>1. /\ op.pc = "rb record"
          /\ op' \in Operations
          /\ op'.pc = (IF op.change.previous.id # 0 THEN "rb reconnect" ELSE "rb finish")
          /\ op'.change = op.change
          /\ op'.known = op.known
          /\ current' = op.change.previous
          /\ UNCHANGED <<pending, files, certs, checkpoint, changes, confirmed>>
          /\ up' = up
        BY <1>19, GotoFields DEF RollbackRecord, Steps, ApplySteps, DisableSteps,
            ConfirmSteps, UndoSteps, RestoreSteps
    <2>2. TypeOK'
        BY <2>1 DEF TypeOK
    <2>3. NumbersOK'
        BY <2>1 DEF NumbersOK
    <2>4. PendingOK'
        BY <2>1 DEF PendingOK, Begun, RecordIsConfirmed, OperationOK, ApplySteps,
            DisableSteps, ConfirmSteps, UndoSteps, RestoreSteps, Untouched, OnDisk
    <2>5. OperationOK'
        BY <2>1 DEF OperationOK, PendingOK, NumbersOK, ApplySteps, DisableSteps,
            ConfirmSteps, UndoSteps, RestoreSteps, Untouched, OnDisk, Begun
    <2>6. CheckpointOK'
        BY <2>1, <1>f, <1>g DEF CheckpointOK, OperationOK, NumbersOK, PendingOK, Fallback,
            ApplySteps, DisableSteps, ConfirmSteps, UndoSteps, RestoreSteps, Untouched,
            OnDisk, Begun
    <2>7. RecordIsConfirmed'
        <3>1. pending # NoPending
            BY <2>1 DEF OperationOK, RestoreSteps, OnDisk, Begun
        <3>2. QED
            BY <2>1, <3>1 DEF RecordIsConfirmed
    <2>8. FallbackIsWhole'
        BY <2>1, <1>f, <1>g DEF Fallback, CheckpointOK, OperationOK, NumbersOK, PendingOK,
            ApplySteps, DisableSteps, ConfirmSteps, UndoSteps, RestoreSteps, Untouched,
            OnDisk, Begun
    <2>9. QED
        BY <2>2, <2>3, <2>4, <2>5, <2>6, <2>7, <2>8
<1>20. CASE RollbackReconnect
    <2>1. /\ op.pc = "rb reconnect"
          /\ \/ /\ op' \in Operations /\ op'.pc = "rb finish" /\ op'.change = op.change
                /\ op'.known = op.known
             \/ op' = Idle
          /\ UNCHANGED <<current, pending, files, certs, checkpoint, changes, confirmed>>
          /\ up' \in Nat
        BY <1>20, GotoFields DEF RollbackReconnect, Steps, ApplySteps, DisableSteps,
            ConfirmSteps, UndoSteps, RestoreSteps
    <2>2. TypeOK'
        BY <2>1 DEF TypeOK
    <2>3. NumbersOK'
        <3>1. op'.change.id \in {0, op.change.id}
              /\ op'.change.previous.id \in {0, op.change.previous.id}
            BY <2>1
        <3>2. QED
            BY <2>1, <3>1 DEF NumbersOK
    <2>4. PendingOK'
        BY <2>1 DEF PendingOK, Begun, RecordIsConfirmed, OperationOK, ApplySteps,
            DisableSteps, ConfirmSteps, UndoSteps, RestoreSteps, Untouched, OnDisk
    <2>5. OperationOK'
        BY <2>1 DEF OperationOK, PendingOK, NumbersOK, ApplySteps, DisableSteps,
            ConfirmSteps, UndoSteps, RestoreSteps, Untouched, OnDisk, Begun
    <2>6. CheckpointOK'
        BY <2>1, <1>f, <1>g DEF CheckpointOK, OperationOK, NumbersOK, PendingOK, Fallback,
            ApplySteps, DisableSteps, ConfirmSteps, UndoSteps, RestoreSteps, Untouched,
            OnDisk, Begun
    <2>7. RecordIsConfirmed'
        BY <2>1 DEF RecordIsConfirmed, OperationOK, PendingOK, ApplySteps, DisableSteps,
            ConfirmSteps, UndoSteps, RestoreSteps, Untouched, OnDisk
    <2>8. FallbackIsWhole'
        BY <2>1, <1>f, <1>g DEF Fallback, CheckpointOK, OperationOK, NumbersOK, PendingOK,
            ApplySteps, DisableSteps, ConfirmSteps, UndoSteps, RestoreSteps, Untouched,
            OnDisk, Begun
    <2>9. QED
        BY <2>2, <2>3, <2>4, <2>5, <2>6, <2>7, <2>8
<1>21. CASE RollbackFinish
    <2>1. /\ op.pc = "rb finish" /\ op' = Idle
          /\ pending' = NoPending /\ certs' = certs \ {op.change.id}
          /\ UNCHANGED <<current, files, checkpoint, changes, confirmed>>
          /\ up' = up
        BY <1>21 DEF RollbackFinish
    <2>2. TypeOK'
        BY <2>1 DEF TypeOK
    <2>3. NumbersOK'
        <3>1. op'.change.id = 0 /\ op'.change.previous.id = 0
            BY <2>1
        <3>2. QED
            BY <2>1, <3>1 DEF NumbersOK
    <2>4. PendingOK'
        BY <2>1 DEF PendingOK, Begun, RecordIsConfirmed, OperationOK, ApplySteps,
            DisableSteps, ConfirmSteps, UndoSteps, RestoreSteps, Untouched, OnDisk
    <2>5. OperationOK'
        BY <2>1 DEF OperationOK, PendingOK, NumbersOK, ApplySteps, DisableSteps,
            ConfirmSteps, UndoSteps, RestoreSteps, Untouched, OnDisk, Begun
    <2>6. CheckpointOK'
        BY <2>1, <1>f, <1>g DEF CheckpointOK, OperationOK, NumbersOK, PendingOK, Fallback,
            ApplySteps, DisableSteps, ConfirmSteps, UndoSteps, RestoreSteps, Untouched,
            OnDisk, Begun
    <2>7. RecordIsConfirmed'
        BY <2>1 DEF RecordIsConfirmed, OperationOK, PendingOK, ApplySteps, DisableSteps,
            ConfirmSteps, UndoSteps, RestoreSteps, Untouched, OnDisk
    <2>8. FallbackIsWhole'
        <3>1. Fallback' = Fallback
            BY <2>1 DEF Fallback, OperationOK, Untouched, OnDisk, Begun, UndoSteps
        <3>2. Fallback # 0 => Fallback # op.change.id
            <4>1. op.change.id = 0 \/ op.change.id > op.change.previous.id
                BY <2>1 DEF OperationOK, Begun
            <4>2. Fallback = op.change.previous.id
                BY <2>1 DEF Fallback, OperationOK, Begun, Untouched, OnDisk, UndoSteps
            <4>3. QED
                BY <4>1, <4>2
        <3>3. QED
            BY <2>1, <3>1, <3>2, <1>f, <1>g
    <2>9. QED
        BY <2>2, <2>3, <2>4, <2>5, <2>6, <2>7, <2>8
<1>22. CASE Reconcile
    <2>1. /\ UNCHANGED <<current, pending, files, certs, checkpoint, op, changes, confirmed>>
          /\ up' \in Nat
        BY <1>22 DEF Reconcile
    <2>2. TypeOK'
        BY <2>1 DEF TypeOK
    <2>3. NumbersOK'
        BY <2>1 DEF NumbersOK
    <2>4. PendingOK'
        BY <2>1 DEF PendingOK, Begun, RecordIsConfirmed, OperationOK, ApplySteps,
            DisableSteps, ConfirmSteps, UndoSteps, RestoreSteps, Untouched, OnDisk
    <2>5. OperationOK'
        BY <2>1 DEF OperationOK, PendingOK, NumbersOK, ApplySteps, DisableSteps,
            ConfirmSteps, UndoSteps, RestoreSteps, Untouched, OnDisk, Begun
    <2>6. CheckpointOK'
        BY <2>1, <1>f, <1>g DEF CheckpointOK, OperationOK, NumbersOK, PendingOK, Fallback,
            ApplySteps, DisableSteps, ConfirmSteps, UndoSteps, RestoreSteps, Untouched,
            OnDisk, Begun
    <2>7. RecordIsConfirmed'
        BY <2>1 DEF RecordIsConfirmed, OperationOK, PendingOK, ApplySteps, DisableSteps,
            ConfirmSteps, UndoSteps, RestoreSteps, Untouched, OnDisk
    <2>8. FallbackIsWhole'
        BY <2>1, <1>f, <1>g DEF Fallback, CheckpointOK, OperationOK, NumbersOK, PendingOK,
            ApplySteps, DisableSteps, ConfirmSteps, UndoSteps, RestoreSteps, Untouched,
            OnDisk, Begun
    <2>9. QED
        BY <2>2, <2>3, <2>4, <2>5, <2>6, <2>7, <2>8
<1>23. CASE CheckpointTimeout
    <2>1. /\ checkpoint.id # 0 /\ checkpoint' = NoCheckpoint
          /\ files' = files \cap checkpoint.files
          /\ UNCHANGED <<current, pending, certs, op, changes, confirmed>>
          /\ up' \in Nat
        BY <1>23 DEF CheckpointTimeout, RestoreCheckpoint
    <2>2. TypeOK'
        BY <2>1 DEF TypeOK
    <2>3. NumbersOK'
        BY <2>1 DEF NumbersOK
    <2>4. PendingOK'
        BY <2>1 DEF PendingOK, Begun, RecordIsConfirmed, OperationOK, ApplySteps,
            DisableSteps, ConfirmSteps, UndoSteps, RestoreSteps, Untouched, OnDisk
    <2>5. OperationOK'
        BY <2>1 DEF OperationOK, PendingOK, NumbersOK, ApplySteps, DisableSteps,
            ConfirmSteps, UndoSteps, RestoreSteps, Untouched, OnDisk, Begun
    <2>6. CheckpointOK'
        BY <2>1, <1>f, <1>g DEF CheckpointOK, OperationOK, NumbersOK, PendingOK, Fallback,
            ApplySteps, DisableSteps, ConfirmSteps, UndoSteps, RestoreSteps, Untouched,
            OnDisk, Begun
    <2>7. RecordIsConfirmed'
        BY <2>1 DEF RecordIsConfirmed, OperationOK, PendingOK, ApplySteps, DisableSteps,
            ConfirmSteps, UndoSteps, RestoreSteps, Untouched, OnDisk
    <2>8. FallbackIsWhole'
        BY <2>1, <1>f, <1>g DEF Fallback, CheckpointOK, OperationOK, NumbersOK, PendingOK,
            ApplySteps, DisableSteps, ConfirmSteps, UndoSteps, RestoreSteps, Untouched,
            OnDisk, Begun
    <2>9. QED
        BY <2>2, <2>3, <2>4, <2>5, <2>6, <2>7, <2>8
<1>24. CASE Tick
    <2>1. /\ pending' \in Changes /\ pending'.kind = pending.kind /\ pending'.id = pending.id
          /\ pending'.previous = pending.previous /\ pending'.checkpoint = pending.checkpoint
          /\ pending' = NoPending <=> pending = NoPending
          /\ checkpoint' \in Checkpoints /\ checkpoint'.id = checkpoint.id
          /\ checkpoint'.files = checkpoint.files
          /\ UNCHANGED <<current, files, certs, op, changes, confirmed>>
          /\ up' = up
        BY <1>24, TickFields DEF Tick, PendingOK, Begun
    <2>2. TypeOK'
        BY <2>1 DEF TypeOK
    <2>3. NumbersOK'
        BY <2>1 DEF NumbersOK
    <2>4. PendingOK'
        BY <2>1 DEF PendingOK, Begun, RecordIsConfirmed, OperationOK, ApplySteps,
            DisableSteps, ConfirmSteps, UndoSteps, RestoreSteps, Untouched, OnDisk
    <2>5. OperationOK'
        BY <2>1 DEF OperationOK, PendingOK, NumbersOK, ApplySteps, DisableSteps,
            ConfirmSteps, UndoSteps, RestoreSteps, Untouched, OnDisk, Begun
    <2>6. CheckpointOK'
        BY <2>1, <1>f, <1>g DEF CheckpointOK, OperationOK, NumbersOK, PendingOK, Fallback,
            ApplySteps, DisableSteps, ConfirmSteps, UndoSteps, RestoreSteps, Untouched,
            OnDisk, Begun
    <2>7. RecordIsConfirmed'
        BY <2>1 DEF RecordIsConfirmed, OperationOK, PendingOK, ApplySteps, DisableSteps,
            ConfirmSteps, UndoSteps, RestoreSteps, Untouched, OnDisk
    <2>8. FallbackIsWhole'
        BY <2>1, <1>f, <1>g DEF Fallback, CheckpointOK, OperationOK, NumbersOK, PendingOK,
            ApplySteps, DisableSteps, ConfirmSteps, UndoSteps, RestoreSteps, Untouched,
            OnDisk, Begun
    <2>9. QED
        BY <2>2, <2>3, <2>4, <2>5, <2>6, <2>7, <2>8
<1>25. CASE AdapterChange
    <2>1. /\ UNCHANGED <<current, pending, files, certs, checkpoint, op, changes, confirmed>>
          /\ up' = up
        BY <1>25 DEF AdapterChange
    <2>2. TypeOK'
        BY <2>1 DEF TypeOK
    <2>3. NumbersOK'
        BY <2>1 DEF NumbersOK
    <2>4. PendingOK'
        BY <2>1 DEF PendingOK, Begun, RecordIsConfirmed, OperationOK, ApplySteps,
            DisableSteps, ConfirmSteps, UndoSteps, RestoreSteps, Untouched, OnDisk
    <2>5. OperationOK'
        BY <2>1 DEF OperationOK, PendingOK, NumbersOK, ApplySteps, DisableSteps,
            ConfirmSteps, UndoSteps, RestoreSteps, Untouched, OnDisk, Begun
    <2>6. CheckpointOK'
        BY <2>1, <1>f, <1>g DEF CheckpointOK, OperationOK, NumbersOK, PendingOK, Fallback,
            ApplySteps, DisableSteps, ConfirmSteps, UndoSteps, RestoreSteps, Untouched,
            OnDisk, Begun
    <2>7. RecordIsConfirmed'
        BY <2>1 DEF RecordIsConfirmed, OperationOK, PendingOK, ApplySteps, DisableSteps,
            ConfirmSteps, UndoSteps, RestoreSteps, Untouched, OnDisk
    <2>8. FallbackIsWhole'
        BY <2>1, <1>f, <1>g DEF Fallback, CheckpointOK, OperationOK, NumbersOK, PendingOK,
            ApplySteps, DisableSteps, ConfirmSteps, UndoSteps, RestoreSteps, Untouched,
            OnDisk, Begun
    <2>9. QED
        BY <2>2, <2>3, <2>4, <2>5, <2>6, <2>7, <2>8
<1>26. CASE Crash
    <2>1. /\ op' = Idle
          /\ UNCHANGED <<current, pending, files, certs, checkpoint, changes, confirmed>>
          /\ up' = up
        BY <1>26 DEF Crash
    <2>2. TypeOK'
        BY <2>1 DEF TypeOK
    <2>3. NumbersOK'
        BY <2>1 DEF NumbersOK
    <2>4. PendingOK'
        BY <2>1 DEF PendingOK, Begun, RecordIsConfirmed, OperationOK, ApplySteps,
            DisableSteps, ConfirmSteps, UndoSteps, RestoreSteps, Untouched, OnDisk
    <2>5. OperationOK'
        BY <2>1 DEF OperationOK, PendingOK, NumbersOK, ApplySteps, DisableSteps,
            ConfirmSteps, UndoSteps, RestoreSteps, Untouched, OnDisk, Begun
    <2>6. CheckpointOK'
        BY <2>1, <1>f, <1>g DEF CheckpointOK, OperationOK, NumbersOK, PendingOK, Fallback,
            ApplySteps, DisableSteps, ConfirmSteps, UndoSteps, RestoreSteps, Untouched,
            OnDisk, Begun
    <2>7. RecordIsConfirmed'
        BY <2>1 DEF RecordIsConfirmed, OperationOK, PendingOK, ApplySteps, DisableSteps,
            ConfirmSteps, UndoSteps, RestoreSteps, Untouched, OnDisk
    <2>8. FallbackIsWhole'
        BY <2>1, <1>f, <1>g DEF Fallback, CheckpointOK, OperationOK, NumbersOK, PendingOK,
            ApplySteps, DisableSteps, ConfirmSteps, UndoSteps, RestoreSteps, Untouched,
            OnDisk, Begun
    <2>9. QED
        BY <2>2, <2>3, <2>4, <2>5, <2>6, <2>7, <2>8
<1>27. CASE Reboot
    <2>1. /\ op' = Idle /\ checkpoint' = NoCheckpoint
          /\ UNCHANGED <<current, pending, files, certs, changes, confirmed>>
          /\ up' \in Nat
        BY <1>27 DEF Reboot
    <2>2. TypeOK'
        BY <2>1 DEF TypeOK
    <2>3. NumbersOK'
        BY <2>1 DEF NumbersOK
    <2>4. PendingOK'
        BY <2>1 DEF PendingOK, Begun, RecordIsConfirmed, OperationOK, ApplySteps,
            DisableSteps, ConfirmSteps, UndoSteps, RestoreSteps, Untouched, OnDisk
    <2>5. OperationOK'
        BY <2>1 DEF OperationOK, PendingOK, NumbersOK, ApplySteps, DisableSteps,
            ConfirmSteps, UndoSteps, RestoreSteps, Untouched, OnDisk, Begun
    <2>6. CheckpointOK'
        BY <2>1, <1>f, <1>g DEF CheckpointOK, OperationOK, NumbersOK, PendingOK, Fallback,
            ApplySteps, DisableSteps, ConfirmSteps, UndoSteps, RestoreSteps, Untouched,
            OnDisk, Begun
    <2>7. RecordIsConfirmed'
        BY <2>1 DEF RecordIsConfirmed, OperationOK, PendingOK, ApplySteps, DisableSteps,
            ConfirmSteps, UndoSteps, RestoreSteps, Untouched, OnDisk
    <2>8. FallbackIsWhole'
        BY <2>1, <1>f, <1>g DEF Fallback, CheckpointOK, OperationOK, NumbersOK, PendingOK,
            ApplySteps, DisableSteps, ConfirmSteps, UndoSteps, RestoreSteps, Untouched,
            OnDisk, Begun
    <2>9. QED
        BY <2>2, <2>3, <2>4, <2>5, <2>6, <2>7, <2>8
<1>28. CASE UNCHANGED piVars
    <2>1. TypeOK' /\ NumbersOK' /\ PendingOK' /\ RecordIsConfirmed'
        BY <1>28 DEF piVars, TypeOK, NumbersOK, PendingOK, Begun, RecordIsConfirmed
    <2>2. OperationOK'
        BY <1>28 DEF piVars, OperationOK, Untouched, OnDisk, Begun
    <2>3. CheckpointOK'
        BY <1>28 DEF piVars, CheckpointOK, Fallback
    <2>4. FallbackIsWhole'
        BY <1>28, <1>f, <1>g DEF piVars, Fallback
    <2>5. QED
        BY <2>1, <2>2, <2>3, <2>4
<1>29. QED
    BY <1>1, <1>2, <1>3, <1>4, <1>5, <1>6, <1>7, <1>8, <1>9, <1>10, <1>11, <1>12, <1>13, <1>14,
       <1>15, <1>16, <1>17, <1>18, <1>19, <1>20, <1>21, <1>22, <1>23, <1>24, <1>25, <1>26, <1>27, <1>28
    DEF Next, Step

\* Whenever no change is pending, the managed record is the one confirmed last,
\* wherever the broker or the host went down and whatever failed (the order of
\* confirm's and _rollback_locked's writes).
THEOREM RecordConfirmedAlways == Spec => []RecordIsConfirmed
<1>1. PiInv => RecordIsConfirmed
    BY DEF PiInv
<1>2. QED
    BY PiInit, PiStep, <1>1, PTL DEF Spec

\* The configuration to come back to always has its profile files and its
\* certificates (confirm, _rollback_locked and NetworkManager's checkpoint).
THEOREM FallbackAlwaysWhole == Spec => []FallbackIsWhole
<1>1. PiInv => FallbackIsWhole
    BY DEF PiInv
<1>2. QED
    BY PiInit, PiStep, <1>1, PTL DEF Spec
=============================================================================
