------------------------- MODULE AutomationTriggers -------------------------
(***************************************************************************)
(* What makes an automation queue a job (AutomationStore and the loop of   *)
(* automation_worker.py): calendar occurrences, monitored conditions with  *)
(* their debounce, recovery and cooldown, and startup events. A check is   *)
(* claimed in one transaction, evaluated in a thread and recorded in       *)
(* another; meanwhile the automation may be paused, edited and armed       *)
(* again, and the scheduler may be killed.                                 *)
(*                                                                         *)
(* Occurrences fall on the start of a tick and every step happens later in *)
(* it. The jobs themselves are AutomationJobs; here a job only waits, runs *)
(* and ends.                                                               *)
(***************************************************************************)
EXTENDS Integers, FiniteSets
LOCAL INSTANCE FiniteSetsExt

CONSTANTS
    Automations,
    Occurrences,    \* times of the calendar rules
    Missed,         \* missed_policy: "run_late", "skip" or "grace"
    Grace,          \* ticks an occurrence may be late under "grace"
    RetryAfter,     \* ticks before a claimed occurrence is claimed again
    Interval,       \* interval_seconds of a condition
    TriggerAfter,   \* consecutive met checks that trigger
    RecoverAfter,   \* consecutive clear checks that recover
    Cooldown,       \* cooldown_seconds
    NetworkWait,    \* network_wait_seconds of a startup event
    SkipOverlapping,\* the operational setting skip_overlapping_automations
    MaxTime,        \* horizon of the clock
    MaxWaiting,     \* bound on the jobs that pile up before a check is claimed
    MaxArmings,     \* bound on how often an automation is armed
    MaxErrors,      \* bound on failing checks
    MaxCrashes      \* bound on crashes of the scheduler and on host starts

ASSUME TriggerAssumption ==
    /\ Occurrences \subseteq 1 .. MaxTime
    /\ Missed \in {"run_late", "skip", "grace"}
    /\ {RetryAfter, Interval, TriggerAfter, RecoverAfter, MaxTime,
        MaxWaiting} \subseteq Nat \ {0}
    /\ {Grace, Cooldown, NetworkWait, MaxArmings, MaxErrors, MaxCrashes} \subseteq Nat
    /\ SkipOverlapping \in BOOLEAN

VARIABLES
    now,        \* the clock
    row,        \* automations: the trigger's part of the row
    kind,       \* the type of the automation's condition definition
    check,      \* automation -> kind and arming its running check was claimed in
    event,      \* automation_event_state: the generation seen, 0 when there is no row
    boot,       \* the generation the host or toolkit is in, and since when
    waiting,    \* automation -> jobs queued and not yet claimed
    active,     \* automations whose job has a future in the scheduler
    arming,     \* automation -> how often it was armed
    fired,      \* automation -> the latest occurrence it fired for since it was armed,
                \*   or the latest generation it fired for or was armed in
    incident,   \* automation -> it fired and has not recovered or been paused since
    clears,     \* automation -> clear results in a row since it fired
    errors,
    crashes

triggerVars == <<now, row, kind, check, event, boot, waiting, active, arming, fired,
                 incident, clears, errors, crashes>>

NoTime == 0

Kinds == {"schedule", "condition", "startup"}

NoCheck == [kind |-> "none", arming |-> 0]

\* schedule_occurrence: the first occurrence after t.
NextOccurrence(t) ==
    LET later == {o \in Occurrences : o > t} IN
    IF later = {} THEN NoTime ELSE Min(later)

\* A minute of tolerance is less than a tick.
schedule_should_fire(at) ==
    LET late == Max({0, now - at}) IN
    CASE Missed = "run_late" -> TRUE
      [] Missed = "skip"     -> late = 0
      [] Missed = "grace"    -> late <= Grace

Checking(a) == check[a] # NoCheck

\* Automations with a future of either kind.
ActiveIds == active \cup {a \in Automations : Checking(a)}

-----------------------------------------------------------------------------
(***************************************************************************)
(* Arming and pausing                                                      *)
(***************************************************************************)

\* What set_enabled(a, True) writes, by kind.
Arm(r, a) ==
    LET reset == [r EXCEPT !.met = 0, !.clear = 0, !.pending = NoTime]
        first == NextOccurrence(now) IN
    CASE kind[a] = "condition" ->
           [reset EXCEPT !.enabled = TRUE, !.state = "healthy", !.next = now]
      [] kind[a] = "schedule" ->
           [reset EXCEPT !.enabled = (first # NoTime), !.next = first,
              !.state = IF first # NoTime THEN "scheduled" ELSE "completed"]
      [] kind[a] = "startup" ->
           [reset EXCEPT !.enabled = TRUE, !.state = "armed", !.next = NoTime]

\* Arming a startup automation makes the current generation its baseline.
Baseline(a) == IF kind[a] = "startup" THEN boot.key ELSE event[a]

set_enabled(a) ==
    /\ arming[a] < MaxArmings
    /\ arming' = [arming EXCEPT ![a] = @ + 1]
    /\ row' = [row EXCEPT ![a] = Arm(@, a)]
    /\ event' = [event EXCEPT ![a] = Baseline(a)]
    /\ fired' = [fired EXCEPT ![a] = IF kind[a] = "startup" THEN boot.key ELSE 0]
    /\ incident' = [incident EXCEPT ![a] = FALSE]
    /\ clears' = [clears EXCEPT ![a] = 0]
    /\ UNCHANGED <<now, kind, check, boot, waiting, active, errors, crashes>>

\* set_enabled(a, False), and _pause_automations_for_* when one of the definitions
\* the automation uses is edited.
Paused(r) == [r EXCEPT !.enabled = FALSE, !.state = "disabled", !.met = 0, !.clear = 0,
                       !.next = NoTime, !.pending = NoTime]

Pause(a) ==
    /\ row[a].state # "disabled"
    /\ row' = [row EXCEPT ![a] = Paused(@)]
    /\ incident' = [incident EXCEPT ![a] = FALSE]
    /\ UNCHANGED <<now, kind, check, event, boot, waiting, active, arming, fired,
                   clears, errors, crashes>>

\* save: editing the automation pauses it, may change its kind and forgets the
\* startup event that was seen.
save(a, k) ==
    /\ row[a].state # "disabled" \/ k # kind[a]
    /\ arming[a] < MaxArmings
    /\ row' = [row EXCEPT ![a] = Paused(@)]
    /\ kind' = [kind EXCEPT ![a] = k]
    /\ event' = [event EXCEPT ![a] = 0]
    /\ incident' = [incident EXCEPT ![a] = FALSE]
    /\ UNCHANGED <<now, check, boot, waiting, active, arming, fired, clears, errors,
                   crashes>>

-----------------------------------------------------------------------------
(***************************************************************************)
(* Claiming a check                                                        *)
(***************************************************************************)

Due(a) ==
    /\ row[a].enabled
    /\ kind[a] # "startup"
    /\ ~ Checking(a)
    /\ IF kind[a] = "schedule" THEN row[a].next # NoTime /\ row[a].next <= now
                               ELSE row[a].next <= now

\* _next_interval_check_at keeps the cadence and drops a backlog.
NextCheck(at) ==
    LET from == IF at = NoTime \/ now - at >= Interval THEN now ELSE at IN
    from + Interval

\* A faulty ClaimedRow: a claimed occurrence is not put up for another claim.
ClaimedRowParks(r, a) ==
    IF kind[a] = "schedule"
    THEN [r EXCEPT !.pending = IF @ = NoTime THEN r.next ELSE @, !.next = NoTime]
    ELSE [r EXCEPT !.next = NextCheck(@)]

ClaimedRow(r, a) ==
    IF kind[a] = "schedule"
    THEN [r EXCEPT !.pending = IF @ = NoTime THEN r.next ELSE @,
                   !.next = now + RetryAfter]
    ELSE [r EXCEPT !.next = NextCheck(@)]

\* claim_due, and the loop that starts the check or, while the previous run is
\* active, only notes that it was skipped.
claim_due(a) ==
    /\ Due(a)
    /\ waiting[a] < MaxWaiting
    /\ row' = [row EXCEPT ![a] = ClaimedRow(@, a)]
    /\ check' = [check EXCEPT ![a] = IF SkipOverlapping /\ a \in active
                                     THEN @ ELSE [kind |-> kind[a], arming |-> arming[a]]]
    /\ UNCHANGED <<now, kind, event, boot, waiting, active, arming, fired, incident,
                   clears, errors, crashes>>

-----------------------------------------------------------------------------
(***************************************************************************)
(* Recording what a check found                                            *)
(***************************************************************************)

Queue(a) == waiting' = [waiting EXCEPT ![a] = @ + 1]

Finish(a) == check' = [check EXCEPT ![a] = NoCheck]

\* record_error: a schedule is switched off by it.
Failed(r, a) ==
    IF kind[a] = "schedule"
    THEN [r EXCEPT !.state = "error", !.enabled = FALSE, !.next = NoTime, !.pending = NoTime]
    ELSE [r EXCEPT !.state = "error"]

\* The occurrence a schedule's check is about: the claimed one, unless it was
\* forgotten by a pause, then whatever is next.
Scheduled(a) == IF row[a].pending # NoTime THEN row[a].pending ELSE row[a].next

\* The automation is no schedule any more, or a pause has cleared its times.
Lost(a) == kind[a] # "schedule" \/ Scheduled(a) = NoTime

\* A faulty Following: the cursor stays on the occurrence that has been recorded.
FollowingAgain(at) == NextOccurrence(IF now > at THEN now ELSE at - 1)

\* The occurrence after the recorded one; a backlog is dropped.
Following(at) == NextOccurrence(IF now > at THEN now ELSE at)

record_schedule_occurrence(a) ==
    LET at == Scheduled(a)
        following == Following(at) IN
    /\ check[a].kind = "schedule" /\ ~ Lost(a)
    /\ row' = [row EXCEPT ![a] = [@ EXCEPT !.enabled = (following # NoTime),
                 !.state = IF following # NoTime THEN "scheduled" ELSE "completed",
                 !.next = following, !.pending = NoTime, !.met = 0, !.clear = 0,
                 !.last = IF schedule_should_fire(at) THEN now ELSE @]]
    /\ IF schedule_should_fire(at)
       THEN Queue(a) /\ fired' = [fired EXCEPT ![a] = at]
       ELSE UNCHANGED <<waiting, fired>>
    /\ Finish(a)
    /\ UNCHANGED <<now, kind, event, boot, active, arming, incident, clears, errors, crashes>>

\* The check raises: its occurrence is lost, or evaluating or recording
\* it fails.
record_error(a) ==
    /\ Checking(a)
    /\ \/ check[a].kind = "schedule" /\ Lost(a) /\ UNCHANGED errors
       \/ errors < MaxErrors /\ errors' = errors + 1
    /\ row' = [row EXCEPT ![a] = Failed(@, a)]
    /\ Finish(a)
    /\ UNCHANGED <<now, kind, event, boot, waiting, active, arming, fired, incident,
                   clears, crashes>>

CooldownReady(r) == r.last = 0 \/ now - r.last >= Cooldown

\* A met result; the second component says whether the automation fires. The
\* count is only compared with TriggerAfter and stays there.
OnMet(r) ==
    LET met == Min({r.met + 1, TriggerAfter})
        counted == [r EXCEPT !.met = met, !.clear = 0] IN
    IF r.state \in {"triggered", "recovering"} THEN <<counted, FALSE>>
    ELSE IF met >= TriggerAfter /\ CooldownReady(r)
         THEN <<[counted EXCEPT !.state = "triggered", !.last = now], TRUE>>
         ELSE <<[counted EXCEPT !.state = "suspect"], FALSE>>

\* A faulty OnClear: one clear result is a recovery.
OnClearAtOnce(r) == [r EXCEPT !.met = 0, !.state = "healthy", !.clear = 0]

OnClear(r) ==
    IF r.state \in {"triggered", "recovering"} /\ r.clear + 1 < RecoverAfter
    THEN [r EXCEPT !.met = 0, !.state = "recovering", !.clear = @ + 1]
    ELSE [r EXCEPT !.met = 0, !.state = "healthy", !.clear = 0]

\* record_condition looks at the row's counts and state: not at enabled, and not
\* at what kind of automation it has become.
record_condition(a, isMet) ==
    LET seen == OnMet(row[a])
        run == IF isMet THEN 0 ELSE clears[a] + 1 IN
    /\ check[a].kind = "condition"
    /\ row' = [row EXCEPT ![a] = IF isMet THEN seen[1] ELSE OnClear(@)]
    /\ IF isMet /\ seen[2]
       THEN /\ Queue(a)
            /\ incident' = [incident EXCEPT ![a] = TRUE]
       ELSE /\ UNCHANGED waiting
            /\ incident' = [incident EXCEPT ![a] = @ /\ run < RecoverAfter]
    /\ clears' = [clears EXCEPT ![a] = Min({run, RecoverAfter})]
    /\ Finish(a)
    /\ UNCHANGED <<now, kind, event, boot, active, arming, fired, errors, crashes>>

\* No capacity to evaluate: the check is only noted.
CapacityWait(a) ==
    /\ check[a].kind = "condition"
    /\ Finish(a)
    /\ UNCHANGED <<now, row, kind, event, boot, waiting, active, arming, fired, incident,
                   clears, errors, crashes>>

\* enqueue_startup_events for one automation: a new generation is announced when
\* the network is there or has been waited for. An armed automation always has a
\* baseline to compare with, so the branch that sets one is never taken.
enqueue_startup_events(a) ==
    /\ kind[a] = "startup" /\ row[a].enabled
    /\ event[a] # boot.key
    /\ boot.network \/ now >= boot.since + NetworkWait
    /\ event' = [event EXCEPT ![a] = boot.key]
    /\ Queue(a)
    /\ fired' = [fired EXCEPT ![a] = boot.key]
    /\ row' = [row EXCEPT ![a].state = "armed", ![a].last = now]
    /\ UNCHANGED <<now, kind, check, boot, active, arming, incident, clears, errors, crashes>>

-----------------------------------------------------------------------------
(***************************************************************************)
(* The environment: jobs, time, crashes                                    *)
(***************************************************************************)

claim_jobs(a) ==
    /\ waiting[a] > 0
    /\ a \notin ActiveIds
    /\ waiting' = [waiting EXCEPT ![a] = @ - 1]
    /\ active' = active \cup {a}
    /\ UNCHANGED <<now, row, kind, check, event, boot, arming, fired, incident, clears,
                   errors, crashes>>

JobEnds(a) ==
    /\ a \in active
    /\ active' = active \ {a}
    /\ UNCHANGED <<now, row, kind, check, event, boot, waiting, arming, fired, incident,
                   clears, errors, crashes>>

\* Time passes. At the horizon, when every occurrence is in the past, the clock
\* stays and what lies after it or was last seen before it moves instead.
Tick ==
    /\ IF now < MaxTime
       THEN now' = now + 1 /\ UNCHANGED row
       ELSE /\ now' = now
            /\ row' = [a \in Automations |->
                         [row[a] EXCEPT !.next = IF @ > now THEN @ - 1 ELSE @,
                                        !.last = IF @ > 1 THEN @ - 1 ELSE @]]
    /\ UNCHANGED <<kind, check, event, boot, waiting, active, arming, fired, incident,
                   clears, errors, crashes>>

NetworkUp ==
    /\ ~ boot.network
    /\ boot' = [boot EXCEPT !.network = TRUE]
    /\ UNCHANGED <<now, row, kind, check, event, waiting, active, arming, fired, incident,
                   clears, errors, crashes>>

\* The scheduler is killed, alone or with the host, and started again: checks
\* are forgotten and running jobs go back to the queue when their lease ends.
Crash(hostToo) ==
    /\ crashes < MaxCrashes
    /\ crashes' = crashes + 1
    /\ check' = [a \in Automations |-> NoCheck]
    /\ active' = {}
    /\ waiting' = [a \in Automations |-> waiting[a] + (IF a \in active THEN 1 ELSE 0)]
    /\ boot' = IF hostToo THEN [key |-> boot.key + 1, since |-> now, network |-> FALSE]
                          ELSE boot
    /\ UNCHANGED <<now, row, kind, event, arming, fired, incident, clears, errors>>

-----------------------------------------------------------------------------
NewRow == [enabled |-> FALSE, state |-> "disabled", met |-> 0, clear |-> 0,
           next |-> NoTime, pending |-> NoTime, last |-> 0]

Init ==
    /\ now = 1
    /\ row = [a \in Automations |-> NewRow]
    /\ check = [a \in Automations |-> NoCheck]
    /\ kind \in [Automations -> Kinds]
    /\ event = [a \in Automations |-> 0]
    /\ boot = [key |-> 1, since |-> 1, network |-> TRUE]
    /\ waiting = [a \in Automations |-> 0]
    /\ active = {}
    /\ arming = [a \in Automations |-> 0]
    /\ fired = [a \in Automations |-> 0]
    /\ incident = [a \in Automations |-> FALSE]
    /\ clears = [a \in Automations |-> 0]
    /\ errors = 0
    /\ crashes = 0

Record(a) ==
    \/ record_schedule_occurrence(a)
    \/ record_error(a)
    \/ \E isMet \in BOOLEAN : record_condition(a, isMet)
    \/ CapacityWait(a)

Next ==
    \/ \E a \in Automations :
         \/ set_enabled(a)
         \/ Pause(a)
         \/ \E k \in Kinds : save(a, k)
         \/ claim_due(a)
         \/ Record(a)
         \/ enqueue_startup_events(a)
         \/ claim_jobs(a)
         \/ JobEnds(a)
    \/ Tick
    \/ NetworkUp
    \/ \E hostToo \in BOOLEAN : Crash(hostToo)

Spec == Init /\ [][Next]_triggerVars

\* The loop comes round, checks and jobs end, time passes.
Fairness ==
    /\ WF_triggerVars(Tick)
    /\ \A a \in Automations :
         /\ WF_triggerVars(claim_due(a))
         /\ WF_triggerVars(Record(a))
         /\ WF_triggerVars(enqueue_startup_events(a))
         /\ WF_triggerVars(claim_jobs(a))
         /\ WF_triggerVars(JobEnds(a))

FairSpec == Spec /\ Fairness

-----------------------------------------------------------------------------
(***************************************************************************)
(* Properties                                                              *)
(***************************************************************************)

Fires(a) == waiting'[a] > waiting[a] /\ crashes' = crashes

CheckFires(a, k) == check[a].kind = k /\ check'[a] = NoCheck /\ Fires(a)

\* However often a check is claimed again after crashes, skips and retries, an
\* armed schedule queues its occurrences in order and each at most once, and
\* none before its time; only a check claimed before the automation was armed
\* again may take the first occurrence of the new arming for its own
\* (claim_due, record_schedule_occurrence).
OccurrencesFireInOrder ==
    [][\A a \in Automations : CheckFires(a, "schedule") =>
          /\ fired'[a] > fired[a]
          /\ fired'[a] <= now \/ check[a].arming # arming[a]]_triggerVars

\* After it has fired, a monitored automation fires again only when it has seen
\* RecoverAfter clear results in a row or was paused or armed again in between,
\* whatever crashes and results interleave, as long as no check has failed
\* (record_condition, record_error).
IncidentsFireOnce ==
    [][\A a \in Automations : CheckFires(a, "condition") /\ errors = 0
          => ~ incident[a]]_triggerVars

\* A startup is announced at most once to an armed automation, never for the
\* start it was armed in, and never by a paused one, although edits forget what
\* was seen and the scheduler restarts (set_enabled, save,
\* enqueue_startup_events).
StartupsFireOnce ==
    [][\A a \in Automations : Fires(a) /\ check'[a] = check[a]
          => fired'[a] > fired[a] /\ row[a].enabled]_triggerVars

\* An incident and a startup each fire once, whatever happens around them.
EventsFireOnce == IncidentsFireOnce /\ StartupsFireOnce

\* A claimed occurrence is queued, skipped for being late or given up in the
\* end, although checks are killed and skipped while the previous run is active.
PendingResolves ==
    \A a \in Automations : row[a].pending # NoTime ~> row[a].pending = NoTime

=============================================================================
