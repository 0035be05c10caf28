------------------------ MODULE AutomationJobsProofs ------------------------
(***************************************************************************)
(* Proofs about AutomationJobs, for any number of automations, jobs,       *)
(* threads and faults and any pipeline.                                    *)
(*                                                                         *)
(* A job is worked on by one thread, except when it was claimed over the   *)
(* head of a Run now request, and the thread, the row and the ghosts of a  *)
(* job agree about the stage that comes next and about the delay that is   *)
(* still to be served.                                                     *)
(***************************************************************************)
EXTENDS AutomationJobs, WellFoundedInduction, TLAPS

Statuses == {"none", "queued", "waiting", "running", "completed", "failed"}

Steps == {"idle", "claim", "submitted", "pipeline", "stage", "save", "record", "link",
          "complete", "failing", "done"}

Owners == Automations \cup {NoAutomation}

Progress == [next : 0 .. Stages, delayed : BOOLEAN, results : Seq(0 .. Stages)]

Rows == [status : Statuses, automation : Owners, attempts : Nat, lease : Nat, due : Nat,
         progress : Progress, run : Nat]

Requests == [pc : Steps, job : Nat, automation : Owners, progress : Progress, run : Nat]

TypeOK ==
    /\ queued \in 0 .. MaxJobs
    /\ rows \in [Jobs -> Rows]
    /\ recorded \in [Jobs -> Nat]
    /\ thread \in [Threads -> Requests]
    /\ hold \in [Jobs -> Nat]
    /\ saved \in [Jobs -> 0 .. Stages]

\* A job whose row two threads never worked on: the row knows the stage that was
\* recorded last, and its delay is over when the row is due.
PlaceOK(j) ==
    /\ rows[j].status \in {"queued", "waiting", "running", "failed"} =>
           rows[j].progress.next = saved[j]
    /\ rows[j].status \in {"queued", "running", "failed"} => hold[j] = 0
    /\ rows[j].status = "waiting" => hold[j] <= rows[j].due

JobOK(j) ==
    /\ rows[j].status # "none" => rows[j].automation \in Automations
    /\ j > queued => rows[j] = NoRow /\ hold[j] = 0 /\ saved[j] = 0
    /\ j \notin overlapped => PlaceOK(j)

\* The thread that works on such a job has it for itself.
WorkerOK(t) ==
    LET j == thread[t].job IN
    Working(t) /\ j \notin overlapped =>
        /\ rows[j].status \in {"running", "none"}
        /\ hold[j] = 0
        /\ thread[t].pc \in {"submitted", "pipeline", "stage"} =>
               thread[t].progress.next = saved[j]

ThreadOK(t) ==
    /\ thread[t].pc # "idle" =>
           thread[t].job \in 1 .. queued /\ thread[t].automation \in Automations
    /\ thread[t].pc = "stage" => thread[t].progress.next # Stages
    /\ t \in WebThreads => thread[t].pc \notin {"submitted", "done"}
    /\ t \in Futures => thread[t].pc # "claim"
    /\ thread[t].pc # "idle" /\ rows[thread[t].job].status # "none" =>
           rows[thread[t].job].automation = thread[t].automation
    /\ WorkerOK(t)

\* Two threads at work on one job: it counts as overlapped, and one of them
\* serves a Run now request.
PairOK(t, u) ==
    t # u /\ Working(t) /\ Working(u) /\ thread[t].job = thread[u].job =>
        /\ thread[t].job \in overlapped
        /\ t \in WebThreads \/ u \in WebThreads

JobsInv ==
    /\ TypeOK
    /\ \A j \in Jobs : JobOK(j)
    /\ \A t \in Threads : ThreadOK(t)
    /\ \A t, u \in Threads : PairOK(t, u)
(***************************************************************************)
(* What the operators of the model return.                                 *)
(***************************************************************************)

\* A set of jobs has an oldest one, and Min finds it.
LEMMA MinInSet ==
    ASSUME NEW S \in SUBSET Jobs, S # {}
    PROVE  Min(S) \in S
<1>1. S \subseteq Nat
    BY QueueAssumption DEF Jobs
<1>2. \E x \in S : \A y \in S : ~ (<<y, x>> \in OpToRel(<, Nat))
    BY <1>1, NatLessThanWellFounded, WFMin
<1>3. \A x, y \in Nat : ~ (<<y, x>> \in OpToRel(<, Nat)) => x <= y
    BY DEF OpToRel
<1>4. \E x \in S : \A y \in S : x <= y
    BY <1>1, <1>2, <1>3
<1>5. QED
    BY <1>4 DEF Min

\* Rows, threads and progress at rest.
LEMMA AtRest ==
    /\ NoProgress \in Progress /\ NoProgress.next = 0
    /\ NoRow \in Rows /\ NoRow.status = "none" /\ NoRow.progress = NoProgress
    /\ Idle \in Requests /\ Idle.pc = "idle"
<1>1. NoProgress \in Progress /\ NoProgress.next = 0
    BY PipelineAssumption DEF Progress, NoProgress
<1>2. QED
    BY <1>1 DEF Rows, NoRow, Requests, Idle, Statuses, Steps, Owners

\* The fields of rows and threads.
LEMMA Fields ==
    /\ \A p \in Progress : p.next \in 0 .. Stages
    /\ \A r \in Rows : /\ r.status \in Statuses /\ r.automation \in Owners
                       /\ r.due \in Nat /\ r.progress \in Progress /\ r.run \in Nat
    /\ \A s \in Requests : /\ s.pc \in Steps /\ s.job \in Nat /\ s.automation \in Owners
                           /\ s.progress \in Progress /\ s.run \in Nat
BY DEF Progress, Rows, Requests

\* A queued row.
LEMMA QueuedRowOK ==
    ASSUME NEW a \in Automations
    PROVE  /\ QueuedRow(a) \in Rows /\ QueuedRow(a).status = "queued"
           /\ QueuedRow(a).automation = a /\ QueuedRow(a).progress = NoProgress
BY AtRest DEF QueuedRow, Rows, NoRow, Statuses, Owners

\* A claimed row.
LEMMA ClaimRowOK ==
    ASSUME NEW r \in Rows
    PROVE  /\ ClaimRow(r) \in Rows /\ ClaimRow(r).status = "running"
           /\ ClaimRow(r).automation = r.automation /\ ClaimRow(r).progress = r.progress
<1>1. Lease \in Nat
    BY QueueAssumption
<1>2. r.attempts + 1 \in Nat /\ "running" \in Statuses
    BY DEF Rows, Statuses
<1>3. QED
    BY <1>1, <1>2 DEF ClaimRow, Rows

\* The time before a retry is bounded.
LEMMA BackoffOK == \A n : Backoff(n) \in Nat
BY QueueAssumption DEF Backoff

\* A row whose job failed keeps its progress.
LEMMA FailRowOK ==
    ASSUME NEW r \in Rows
    PROVE  /\ FailRow(r) \in Rows /\ FailRow(r).status \in {"failed", "queued"}
           /\ FailRow(r).automation = r.automation /\ FailRow(r).progress = r.progress
BY BackoffOK DEF FailRow, Rows, Statuses

\* A row left to the queue for a delayed stage.
LEMMA DeferRowOK ==
    ASSUME NEW r \in Rows, NEW p \in Progress
    PROVE  /\ DeferRow(r, p) \in Rows /\ DeferRow(r, p).status = "waiting"
           /\ DeferRow(r, p).automation = r.automation
           /\ DeferRow(r, p).progress.next = p.next /\ DeferRow(r, p).due = StageDelay
<1>1. [p EXCEPT !.delayed = TRUE] \in Progress /\ [p EXCEPT !.delayed = TRUE].next = p.next
    BY DEF Progress
<1>2. QED
    BY <1>1, PipelineAssumption DEF DeferRow, Rows, Statuses

\* The progress after a stage.
LEMMA AfterStageOK ==
    ASSUME NEW p \in Progress, p.next # Stages, NEW statuses
    PROVE  AfterStage(p, statuses) \in Progress
<1>1. p.next + 1 \in 0 .. Stages /\ Stages \in 0 .. Stages
    BY PipelineAssumption DEF Progress
<1>2. Append(p.results, p.next) \in Seq(0 .. Stages)
    BY DEF Progress
<1>3. QED
    BY <1>1, <1>2 DEF AfterStage, Progress

(***************************************************************************)
(* The shapes of steps.                                                    *)
(***************************************************************************)

\* The request of thread t goes on, or ends.
Advances(t) ==
    /\ Working(t)
    /\ thread'[t] \in Requests
    /\ thread'[t].pc = "stage" => thread'[t].progress.next # Stages
    /\ thread'[t].job = thread[t].job
    /\ thread'[t].automation = thread[t].automation
    /\ thread'[t].pc \notin {"idle", "claim", "submitted"}
    /\ thread'[t].pc = "done" => t \in Futures

\* It is where the pipeline was, if it is in the pipeline.
KeepsPlace(t) ==
    thread'[t].pc \in {"pipeline", "stage"} =>
        /\ thread[t].pc \in {"submitted", "pipeline", "stage"}
        /\ thread'[t].progress = thread[t].progress

\* A step of threads alone keeps the invariant when each thread keeps its place.
LEMMA ThreadsOnly ==
    ASSUME JobsInv, UNCHANGED <<rows, queued, hold, saved, overlapped>>,
           recorded' \in [Jobs -> Nat], thread' \in [Threads -> Requests],
           \A t \in Threads : \/ thread'[t] = thread[t]
                              \/ thread'[t] = Idle
                              \/ Advances(t) /\ KeepsPlace(t)
    PROVE  JobsInv'
<1>1. TypeOK'
    BY DEF JobsInv, TypeOK
<1>2. ASSUME NEW j \in Jobs
      PROVE  JobOK(j)'
    BY DEF JobsInv, JobOK, PlaceOK
<1>3. ASSUME NEW t \in Threads
      PROVE  ThreadOK(t)' /\ (Working(t)' => Working(t) /\ thread'[t].job = thread[t].job)
    <2>1. ThreadOK(t)
        BY DEF JobsInv
    <2>2. CASE thread'[t] = thread[t]
        BY <2>1, <2>2 DEF ThreadOK, WorkerOK, Working
    <2>3. CASE thread'[t] = Idle
        BY <2>3, AtRest DEF ThreadOK, WorkerOK, Working
    <2>4. CASE Advances(t) /\ KeepsPlace(t)
        <3>1. WorkerOK(t)'
            BY <2>1, <2>4 DEF Advances, KeepsPlace, ThreadOK, WorkerOK, Working
        <3>2. QED
            BY <2>1, <2>4, <3>1, QueueAssumption DEF Advances, ThreadOK, Working, Threads
    <2>5. QED
        BY <2>2, <2>3, <2>4
<1>4. ASSUME NEW t \in Threads, NEW u \in Threads
      PROVE  PairOK(t, u)'
    BY <1>3 DEF JobsInv, PairOK
<1>5. QED
    BY <1>1, <1>2, <1>3, <1>4 DEF JobsInv

\* The job of a thread is one of the jobs that were queued.
LEMMA JobOfThread ==
    ASSUME JobsInv, NEW t \in Threads, thread[t].pc # "idle"
    PROVE  thread[t].job \in Jobs /\ thread[t].job <= queued
<1>1. thread[t].job \in 1 .. queued /\ queued \in 0 .. MaxJobs
    BY DEF JobsInv, ThreadOK, TypeOK
<1>2. QED
    BY <1>1, QueueAssumption DEF Jobs

\* Thread t writes the row of the job it works on.
LEMMA WorkerWrites ==
    ASSUME JobsInv, NEW t \in Threads, Working(t), NEW j, j = thread[t].job,
           NEW r \in Rows, r.status # "none", rows[j].status # "none",
           r.automation = rows[j].automation,
           rows' = [rows EXCEPT ![j] = r],
           NEW s \in Requests, thread' = [thread EXCEPT ![t] = s], s = Idle \/ Advances(t),
           UNCHANGED <<queued, overlapped, recorded>>,
           hold' \in [Jobs -> Nat], saved' \in [Jobs -> 0 .. Stages],
           \A i \in Jobs \ {j} : hold'[i] = hold[i] /\ saved'[i] = saved[i],
           j \notin overlapped => PlaceOK(j)' /\ WorkerOK(t)'
    PROVE  JobsInv'
<1>0. /\ j \in Jobs /\ ~ (j > queued)
      /\ \A i \in Jobs : JobOK(i)
      /\ \A u \in Threads : ThreadOK(u) /\ PairOK(t, u)
    <2>1. j \in Jobs /\ j <= queued
        BY JobOfThread DEF Working
    <2>2. QED
        BY <2>1, QueueAssumption DEF JobsInv, TypeOK, Jobs
<1>1. /\ rows' \in [Jobs -> Rows] /\ thread' \in [Threads -> Requests]
      /\ rows'[j] = r /\ \A i \in Jobs \ {j} : rows'[i] = rows[i]
      /\ thread'[t] = s /\ \A u \in Threads \ {t} : thread'[u] = thread[u]
    BY <1>0 DEF JobsInv, TypeOK
<1>2. TypeOK'
    BY <1>1 DEF JobsInv, TypeOK
<1>3. ASSUME NEW i \in Jobs
      PROVE  JobOK(i)'
    <2>1. CASE i = j
        BY <1>0, <1>1, <2>1 DEF JobOK
    <2>2. CASE i # j
        BY <1>0, <1>1, <2>2 DEF JobOK, PlaceOK
    <2>3. QED
        BY <2>1, <2>2
<1>4. ASSUME NEW u \in Threads
      PROVE  ThreadOK(u)' /\ (Working(u)' => Working(u) /\ thread'[u].job = thread[u].job)
    <2>1. CASE u # t
        <3>1. thread'[u] = thread[u]
            BY <1>1, <2>1
        <3>2. thread[u].pc # "idle" => thread[u].job \in Jobs
            BY JobOfThread
        <3>3. WorkerOK(u)'
            <4>1. CASE Working(u) /\ thread[u].job = j
                BY <1>0, <3>1, <2>1, <4>1 DEF PairOK, WorkerOK
            <4>2. CASE Working(u) /\ thread[u].job # j
                BY <1>0, <1>1, <3>1, <3>2, <4>2 DEF ThreadOK, WorkerOK, Working
            <4>3. QED
                BY <3>1, <4>1, <4>2 DEF WorkerOK, Working
        <3>4. QED
            BY <1>0, <1>1, <3>1, <3>2, <3>3 DEF ThreadOK, Working
    <2>2. CASE u = t /\ s = Idle
        BY <1>1, <2>2, AtRest DEF ThreadOK, WorkerOK, Working
    <2>3. CASE u = t /\ Advances(t)
        <3>1. WorkerOK(t)'
            BY <2>3 DEF WorkerOK, Advances
        <3>2. QED
            BY <1>0, <1>1, <2>3, <3>1, QueueAssumption DEF Advances, ThreadOK, Working
    <2>4. QED
        BY <2>1, <2>2, <2>3
<1>5. ASSUME NEW u \in Threads, NEW v \in Threads
      PROVE  PairOK(u, v)'
    BY <1>4 DEF JobsInv, PairOK
<1>6. QED
    BY <1>2, <1>3, <1>4, <1>5 DEF JobsInv

\* Rows are renewed, grow older, are tried again or go; no thread moves.
LEMMA RowsOnly ==
    ASSUME JobsInv, UNCHANGED <<thread, queued, saved, overlapped, recorded>>,
           rows' \in [Jobs -> Rows], hold' \in [Jobs -> Nat],
           \A j \in Jobs :
               /\ JobOK(j)'
               /\ hold'[j] <= hold[j]
               /\ \/ rows'[j].status = "none"
                  \/ /\ rows'[j].automation = rows[j].automation
                     /\ rows'[j].status = rows[j].status \/ rows[j].status = "failed"
    PROVE  JobsInv'
<1>1. TypeOK'
    BY DEF JobsInv, TypeOK
<1>2. ASSUME NEW t \in Threads
      PROVE  ThreadOK(t)'
    <2>1. ThreadOK(t)
        BY DEF JobsInv
    <2>2. thread[t].pc # "idle" => thread[t].job \in Jobs
        BY JobOfThread
    <2>3. \A j \in Jobs : hold[j] \in Nat /\ hold'[j] \in Nat /\ (hold[j] = 0 => hold'[j] = 0)
        BY DEF JobsInv, TypeOK
    <2>4. WorkerOK(t)'
        BY <2>1, <2>2, <2>3 DEF ThreadOK, WorkerOK, Working
    <2>5. QED
        BY <2>1, <2>2, <2>4 DEF ThreadOK
<1>3. ASSUME NEW t \in Threads, NEW u \in Threads
      PROVE  PairOK(t, u)'
    BY DEF JobsInv, PairOK, Working
<1>4. QED
    BY <1>1, <1>2, <1>3 DEF JobsInv
\* A thread that does not work takes job j into its hands.
LEMMA ClaimStep ==
    ASSUME JobsInv, NEW t \in Threads, thread[t].pc \in {"idle", "claim"}, NEW j \in Jobs,
           Due(j) \/ Lapsed(j), NEW pc \in {"submitted", "pipeline", "complete"},
           Claim(t, j, pc), pc = "submitted" => t \in Futures,
           t \in Futures => rows[j].automation \notin ActiveIds
    PROVE  JobsInv'
<1> DEFINE c == [pc |-> pc, job |-> j, automation |-> rows[j].automation,
                 progress |-> rows[j].progress, run |-> rows[j].run]
<1>0. /\ rows[j] \in Rows /\ rows[j].status \in {"queued", "waiting", "running"}
      /\ rows[j].automation \in Automations /\ j \in 1 .. queued
      /\ \A i \in Jobs : JobOK(i)
      /\ \A u \in Threads : ThreadOK(u)
    <2>1. rows[j] \in Rows /\ rows[j].status \in {"queued", "waiting", "running"}
        BY DEF JobsInv, TypeOK, Due, Lapsed
    <2>2. ~ (j > queued)
        BY <2>1, AtRest DEF JobsInv, JobOK
    <2>3. j \in 1 .. queued
        BY <2>2, QueueAssumption DEF Jobs, JobsInv, TypeOK
    <2>4. QED
        BY <2>1, <2>3 DEF JobsInv, JobOK
<1>1. c \in Requests
    <2>1. j \in Nat /\ pc \in Steps
        BY QueueAssumption DEF Jobs, Steps
    <2>2. QED
        BY <1>0, <2>1 DEF Rows, Requests
<1>2. /\ rows' \in [Jobs -> Rows] /\ rows'[j] = ClaimRow(rows[j])
      /\ \A i \in Jobs \ {j} : rows'[i] = rows[i]
      /\ thread' \in [Threads -> Requests] /\ thread'[t] = c
      /\ \A u \in Threads \ {t} : thread'[u] = thread[u]
      /\ UNCHANGED <<queued, recorded, hold, saved>>
    BY <1>0, <1>1, ClaimRowOK DEF Claim, JobsInv, TypeOK
<1>3. /\ overlapped \subseteq overlapped'
      /\ \A i : i # j => (i \in overlapped' <=> i \in overlapped)
      /\ \A u \in Threads \ {t} : Working(u) /\ thread[u].job = j => j \in overlapped'
    BY DEF Claim
<1>4. /\ rows'[j].status = "running" /\ rows'[j].automation = rows[j].automation
      /\ rows'[j].progress = rows[j].progress
    BY <1>0, <1>2, ClaimRowOK
<1>5. j \notin overlapped' => rows[j].progress.next = saved[j] /\ hold[j] = 0
    <2>1. hold[j] \in Nat
        BY DEF JobsInv, TypeOK
    <2>2. QED
        BY <1>0, <1>3, <2>1 DEF JobOK, PlaceOK, Due, Lapsed
<1>6. TypeOK'
    BY <1>2 DEF JobsInv, TypeOK
<1>7. ASSUME NEW i \in Jobs
      PROVE  JobOK(i)'
    <2>1. CASE i = j
        <3>1. ~ (j > queued)
            BY <1>0, QueueAssumption DEF JobsInv, TypeOK
        <3>2. QED
            BY <1>0, <1>2, <1>4, <1>5, <2>1, <3>1 DEF JobOK, PlaceOK
    <2>2. CASE i # j
        BY <1>0, <1>2, <1>3, <2>2 DEF JobOK, PlaceOK
    <2>3. QED
        BY <2>1, <2>2
<1>8. ASSUME NEW u \in Threads
      PROVE  ThreadOK(u)'
    <2>1. CASE u = t
        <3>1. /\ thread'[t].pc = pc /\ thread'[t].job = j
              /\ thread'[t].automation = rows[j].automation
              /\ thread'[t].progress = rows[j].progress
            BY <1>2
        <3>2. WorkerOK(t)'
            BY <1>2, <1>4, <1>5, <3>1 DEF WorkerOK
        <3>3. t \in WebThreads => t \notin Futures
            BY QueueAssumption
        <3>4. QED
            BY <1>0, <1>2, <1>4, <2>1, <3>1, <3>2, <3>3 DEF ThreadOK
    <2>2. CASE u # t
        <3>1. thread'[u] = thread[u]
            BY <1>2, <2>2
        <3>2. thread[u].pc # "idle" => thread[u].job \in Jobs
            BY JobOfThread
        <3>3. WorkerOK(u)'
            BY <1>0, <1>2, <1>3, <2>2, <3>1, <3>2 DEF ThreadOK, WorkerOK, Working
        <3>4. QED
            BY <1>0, <1>2, <1>4, <3>1, <3>2, <3>3 DEF ThreadOK
    <2>3. QED
        BY <2>1, <2>2
<1>9. ASSUME NEW u \in Threads \ {t}, Working(u), thread[u].job = j
      PROVE  j \in overlapped' /\ (t \in WebThreads \/ u \in WebThreads)
    <2>1. j \in overlapped'
        BY <1>3, <1>9
    <2>2. CASE t \in Futures /\ u \in Futures
        <3>1. rows[j].automation = thread[u].automation
            BY <1>0, <1>9 DEF ThreadOK, Working
        <3>2. thread[u].automation \in ActiveIds
            BY <1>0, <2>2, <3>1, QueueAssumption DEF ActiveIds
        <3>3. QED
            BY <2>2, <3>1, <3>2
    <2>3. QED
        BY <2>1, <2>2 DEF Threads
<1>10. ASSUME NEW u \in Threads, NEW v \in Threads
       PROVE  PairOK(u, v)'
    <2>1. CASE u = t /\ v # t
        BY <1>2, <1>9, <2>1 DEF PairOK, Working
    <2>2. CASE u # t /\ v = t
        BY <1>2, <1>9, <2>2 DEF PairOK, Working
    <2>3. CASE u # t /\ v # t
        BY <1>2, <1>3, <2>3 DEF JobsInv, PairOK, Working
    <2>4. QED
        BY <2>1, <2>2, <2>3 DEF PairOK
<1>11. QED
    BY <1>6, <1>7, <1>8, <1>10 DEF JobsInv

\* A new row takes the next number, which nobody has used.
LEMMA EnqueueStep ==
    ASSUME JobsInv, NEW a \in Automations, Enqueue(a),
           UNCHANGED <<recorded, hold, saved, overlapped>>,
           thread' \in [Threads -> Requests],
           \A t \in Threads :
               \/ thread'[t] = thread[t]
               \/ /\ t \in WebThreads /\ thread'[t].pc = "claim"
                  /\ thread'[t].job = queued + 1 /\ thread'[t].automation = a
    PROVE  JobsInv'
<1> DEFINE n == queued + 1
<1>0. /\ n \in Jobs /\ n > queued /\ queued' = n /\ n \in 1 .. queued'
      /\ \A i \in Jobs : JobOK(i)
      /\ \A u \in Threads : ThreadOK(u)
    BY QueueAssumption DEF JobsInv, TypeOK, Enqueue, Jobs
<1>1. /\ rows' \in [Jobs -> Rows] /\ rows'[n] = QueuedRow(a)
      /\ \A i \in Jobs \ {n} : rows'[i] = rows[i]
    BY <1>0, QueuedRowOK DEF JobsInv, TypeOK, Enqueue
<1>2. /\ rows'[n].status = "queued" /\ rows'[n].automation = a
      /\ rows'[n].progress.next = 0
    BY <1>1, QueuedRowOK, AtRest
<1>3. TypeOK'
    BY <1>0, <1>1, QueueAssumption DEF JobsInv, TypeOK, Jobs
<1>4. ASSUME NEW i \in Jobs
      PROVE  JobOK(i)'
    <2>1. CASE i = n
        <3>1. saved[n] = 0 /\ hold[n] = 0 /\ ~ (n > queued')
            BY <1>0, QueueAssumption DEF JobOK, JobsInv, TypeOK
        <3>2. QED
            BY <1>2, <2>1, <3>1 DEF JobOK, PlaceOK
    <2>2. CASE i # n
        <3>1. i > queued' => i > queued
            BY <1>0, <2>2, QueueAssumption DEF Jobs, JobsInv, TypeOK
        <3>2. QED
            BY <1>0, <1>1, <2>2, <3>1 DEF JobOK, PlaceOK
    <2>3. QED
        BY <2>1, <2>2
<1>5. ASSUME NEW t \in Threads
      PROVE  ThreadOK(t)' /\ (Working(t)' => thread'[t] = thread[t])
    <2>1. CASE thread'[t] = thread[t]
        <3>1. thread[t].pc # "idle" =>
                  thread[t].job \in Jobs \ {n} /\ thread[t].job \in 1 .. queued'
            BY <1>0, QueueAssumption DEF ThreadOK, Jobs, JobsInv, TypeOK
        <3>2. WorkerOK(t)'
            BY <1>0, <1>1, <2>1, <3>1 DEF ThreadOK, WorkerOK, Working
        <3>3. QED
            BY <1>0, <1>1, <2>1, <3>1, <3>2 DEF ThreadOK
    <2>2. CASE /\ t \in WebThreads /\ thread'[t].pc = "claim"
               /\ thread'[t].job = n /\ thread'[t].automation = a
        <3>1. t \notin Futures
            BY <2>2, QueueAssumption
        <3>2. QED
            BY <1>0, <1>2, <2>2, <3>1 DEF ThreadOK, WorkerOK, Working
    <2>3. QED
        BY <2>1, <2>2
<1>6. ASSUME NEW t \in Threads, NEW u \in Threads
      PROVE  PairOK(t, u)'
    BY <1>5 DEF JobsInv, PairOK, Working
<1>7. QED
    BY <1>3, <1>4, <1>5, <1>6 DEF JobsInv
(***************************************************************************)
(* The invariant holds at the start, and every step keeps it.              *)
(***************************************************************************)
LEMMA JobsInit == Init => JobsInv
<1> SUFFICES ASSUME Init PROVE JobsInv
    OBVIOUS
<1>1. TypeOK
    BY AtRest, QueueAssumption, PipelineAssumption DEF Init, TypeOK
<1>2. ASSUME NEW j \in Jobs
      PROVE  JobOK(j)
    BY AtRest DEF Init, JobOK, PlaceOK
<1>3. ASSUME NEW t \in Threads
      PROVE  ThreadOK(t) /\ ~ Working(t)
    BY AtRest DEF Init, ThreadOK, WorkerOK, Working
<1>4. QED
    BY <1>1, <1>2, <1>3 DEF JobsInv, PairOK

\* Deleting rows and runs.
LEMMA PurgeStep ==
    ASSUME JobsInv, NEW gone, NEW goneRuns, Purge(gone, goneRuns),
           UNCHANGED <<thread, queued, saved, overlapped, recorded, hold>>
    PROVE  JobsInv'
<1>1. ASSUME NEW j \in Jobs
      PROVE  /\ rows'[j] \in Rows
             /\ \/ rows'[j] = NoRow
                \/ /\ rows'[j].status = rows[j].status
                   /\ rows'[j].automation = rows[j].automation
                   /\ rows'[j].progress = rows[j].progress /\ rows'[j].due = rows[j].due
             /\ j > queued => rows'[j] = NoRow
    <2>1. rows[j] \in Rows /\ (j > queued => rows[j] = NoRow)
        BY DEF JobsInv, TypeOK, JobOK
    <2>2. [rows[j] EXCEPT !.run = 0] \in Rows
        BY <2>1 DEF Rows
    <2>3. NoRow = [NoRow EXCEPT !.run = 0]
        BY DEF NoRow
    <2>4. \/ rows'[j] = NoRow
          \/ rows'[j] = [rows[j] EXCEPT !.run = 0]
          \/ rows'[j] = rows[j]
        BY DEF Purge
    <2>5. /\ [rows[j] EXCEPT !.run = 0].status = rows[j].status
          /\ [rows[j] EXCEPT !.run = 0].automation = rows[j].automation
          /\ [rows[j] EXCEPT !.run = 0].progress = rows[j].progress
          /\ [rows[j] EXCEPT !.run = 0].due = rows[j].due
        BY <2>1 DEF Rows
    <2>6. QED
        BY <2>1, <2>2, <2>3, <2>4, <2>5, AtRest
<1>2. rows' \in [Jobs -> Rows] /\ hold' \in [Jobs -> Nat]
    BY <1>1 DEF Purge, JobsInv, TypeOK
<1>3. ASSUME NEW j \in Jobs
      PROVE  JobOK(j)' /\ hold'[j] <= hold[j]
    BY <1>1, AtRest DEF JobsInv, TypeOK, JobOK, PlaceOK
<1>4. QED
    BY <1>1, <1>2, <1>3, AtRest, RowsOnly

\* Every step of the engine, the queue and the web preserves the invariant.
LEMMA JobsStep == JobsInv /\ [Next]_jobVars => JobsInv'
<1> SUFFICES ASSUME JobsInv, [Next]_jobVars PROVE JobsInv'
    OBVIOUS
<1>0. /\ TypeOK
      /\ \A j \in Jobs : JobOK(j) /\ rows[j] \in Rows /\ hold[j] \in Nat
      /\ \A t \in Threads : ThreadOK(t) /\ thread[t] \in Requests
      /\ Futures \subseteq Threads /\ WebThreads \subseteq Threads
    BY DEF JobsInv, TypeOK, Threads
<1>1. ASSUME NEW a \in Automations, Arrive(a)
      PROVE  JobsInv'
    <2>1. Enqueue(a) /\ UNCHANGED <<recorded, hold, saved, overlapped, thread>>
        BY <1>1 DEF Arrive
    <2>2. QED
        BY <1>0, <2>1, EnqueueStep DEF TypeOK
<1>2. ASSUME NEW w \in WebThreads, NEW a \in Automations, RunNow(w, a)
      PROVE  JobsInv'
    <2> DEFINE c == [Idle EXCEPT !.pc = "claim", !.job = queued + 1, !.automation = a]
    <2>1. /\ Enqueue(a) /\ UNCHANGED <<recorded, hold, saved, overlapped>>
          /\ thread' = [thread EXCEPT ![w] = c]
        BY <1>2 DEF RunNow
    <2>2. c \in Requests /\ c.pc = "claim" /\ c.job = queued + 1 /\ c.automation = a
        <3>1. queued + 1 \in Nat /\ a \in Owners /\ "claim" \in Steps
            BY <1>0, QueueAssumption DEF TypeOK, Steps, Owners
        <3>2. QED
            BY <3>1, AtRest DEF Requests
    <2>3. /\ thread' \in [Threads -> Requests] /\ thread'[w] = c
          /\ \A t \in Threads \ {w} : thread'[t] = thread[t]
        BY <1>0, <2>1, <2>2 DEF TypeOK
    <2>4. QED
        BY <1>0, <2>1, <2>2, <2>3, EnqueueStep
<1>3. ASSUME NEW f \in Futures, claim_jobs(f)
      PROVE  JobsInv'
    <2>1. Claimable \in SUBSET Jobs /\ Claimable # {}
        BY <1>3 DEF claim_jobs, Claimable
    <2>2. Min(Claimable) \in Claimable
        BY <2>1, MinInSet
    <2>3. PICK j \in Claimable : Claim(f, j, "submitted")
        BY <1>3, <2>2 DEF claim_jobs
    <2>4. /\ j \in Jobs /\ (Due(j) \/ Lapsed(j)) /\ rows[j].automation \notin ActiveIds
          /\ thread[f].pc = "idle"
        BY <1>3 DEF Claimable, claim_jobs
    <2>5. QED
        BY <1>0, <2>3, <2>4, ClaimStep
<1>4. ASSUME NEW w \in WebThreads, claim_job(w)
      PROVE  JobsInv'
    <2>1. CASE /\ thread[w].pc = "claim" /\ Due(thread[w].job)
               /\ Claim(w, thread[w].job, FirstStep(Row(w).run))
        <3>1. thread[w].job \in Jobs
            BY <1>0, <2>1, JobOfThread
        <3>2. w \notin Futures
            BY QueueAssumption
        <3>3. FirstStep(Row(w).run) \in {"pipeline", "complete"}
            BY DEF FirstStep
        <3>4. QED
            BY <1>0, <2>1, <3>1, <3>2, <3>3, ClaimStep
    <2>2. CASE /\ thread' = [thread EXCEPT ![w] = Idle]
               /\ UNCHANGED <<rows, queued, recorded, hold, overlapped, saved>>
        <3>1. /\ thread' \in [Threads -> Requests] /\ thread'[w] = Idle
              /\ \A t \in Threads \ {w} : thread'[t] = thread[t]
            BY <1>0, <2>2, AtRest DEF TypeOK
        <3>2. QED
            BY <1>0, <2>2, <3>1, ThreadsOnly DEF TypeOK
    <2>3. QED
        BY <1>4, <2>1, <2>2 DEF claim_job
\* A step of one thread that leaves the rows alone.
<1>t. ASSUME NEW t \in Threads, NEW s \in Requests, thread' = [thread EXCEPT ![t] = s],
             thread'[t] = s => s = Idle \/ (Advances(t) /\ KeepsPlace(t)),
             UNCHANGED <<rows, queued, hold, saved, overlapped>>,
             recorded' \in [Jobs -> Nat]
      PROVE  JobsInv'
    <2>1. /\ thread' \in [Threads -> Requests] /\ thread'[t] = s
          /\ \A u \in Threads \ {t} : thread'[u] = thread[u]
        BY <1>0, <1>t DEF TypeOK
    <2>2. QED
        BY <1>0, <1>t, <2>1, ThreadsOnly
\* A request that moves on, or returns.
<1>m. ASSUME NEW t \in Threads, Working(t), NEW pc \in Steps \ {"idle", "claim", "submitted"},
             NEW s, s = [thread[t] EXCEPT !.pc = pc], thread'[t] = s,
             pc = "done" => t \in Futures,
             pc \in {"pipeline", "stage"} =>
                 thread[t].pc \in {"submitted", "pipeline", "stage"},
             pc = "stage" => thread[t].progress.next # Stages
      PROVE  s \in Requests /\ Advances(t) /\ KeepsPlace(t)
    <2>1. /\ s \in Requests /\ s.pc = pc /\ s.job = thread[t].job
          /\ s.automation = thread[t].automation /\ s.progress = thread[t].progress
        BY <1>0, <1>m DEF Requests
    <2>2. QED
        BY <1>m, <2>1 DEF Advances, KeepsPlace
<1>r. ASSUME NEW t \in Threads, Working(t), NEW s, s = Returned(t), thread'[t] = s
      PROVE  s \in Requests /\ (s = Idle \/ (Advances(t) /\ KeepsPlace(t)))
    <2>1. CASE t \in Futures
        <3>1. s = [thread[t] EXCEPT !.pc = "done"]
            BY <1>r, <2>1 DEF Returned
        <3>2. QED
            BY <1>m, <1>r, <2>1, <3>1 DEF Steps
    <2>2. CASE t \notin Futures
        <3>1. s = Idle
            BY <1>r, <2>2 DEF Returned
        <3>2. QED
            BY <3>1, AtRest
    <2>3. QED
        BY <2>1, <2>2
<1>f. ASSUME NEW t \in Threads, Working(t), Fails(t),
             UNCHANGED <<queued, hold, saved, overlapped, recorded>>
      PROVE  JobsInv'
    <2> DEFINE s == [thread[t] EXCEPT !.pc = "failing"]
    <2>1. thread' = [thread EXCEPT ![t] = s] /\ rows' = rows
        BY <1>f DEF Fails
    <2>2. thread'[t] = s
        BY <1>0, <2>1 DEF TypeOK
    <2>3. s \in Requests /\ Advances(t) /\ KeepsPlace(t)
        BY <1>f, <1>m, <2>2 DEF Steps
    <2>4. QED
        BY <1>0, <1>f, <1>t, <2>1, <2>3 DEF TypeOK
<1>5. ASSUME NEW f \in Futures, StartFuture(f)
      PROVE  JobsInv'
    <2> DEFINE pc == FirstStep(thread[f].run)
               s == [thread[f] EXCEPT !.pc = pc]
    <2>1. /\ thread[f].pc = "submitted" /\ thread' = [thread EXCEPT ![f] = s]
          /\ UNCHANGED <<rows, queued, recorded, hold, saved, overlapped>>
        BY <1>5 DEF StartFuture
    <2>2. pc \in {"pipeline", "complete"} /\ Working(f)
        BY <2>1 DEF FirstStep, Working
    <2>3. thread'[f] = s
        BY <1>0, <2>1 DEF TypeOK
    <2>4. s \in Requests /\ Advances(f) /\ KeepsPlace(f)
        BY <1>0, <1>m, <2>1, <2>2, <2>3 DEF Steps
    <2>5. QED
        BY <1>0, <1>t, <2>1, <2>4 DEF TypeOK
<1>6. ASSUME NEW t \in Threads, thread' = [thread EXCEPT ![t] = Idle],
             UNCHANGED <<rows, queued, recorded, hold, saved, overlapped>>
      PROVE  JobsInv'
    <2>1. Idle \in Requests /\ recorded' \in [Jobs -> Nat]
        BY <1>0, <1>6, AtRest DEF TypeOK
    <2>2. QED
        BY <1>6, <1>t, <2>1
<1>7. ASSUME NEW t \in Threads, NextStage(t)
      PROVE  JobsInv'
    <2> DEFINE pc == IF thread[t].progress.next = Stages THEN "record" ELSE "stage"
               s == [thread[t] EXCEPT !.pc = pc]
    <2>1. /\ thread[t].pc = "pipeline" /\ thread' = [thread EXCEPT ![t] = s]
          /\ UNCHANGED <<rows, queued, recorded, hold, saved, overlapped>>
        BY <1>7 DEF NextStage
    <2>2. pc \in {"record", "stage"} /\ Working(t)
        BY <2>1 DEF Working
    <2>3. thread'[t] = s
        BY <1>0, <2>1 DEF TypeOK
    <2>4. s \in Requests /\ Advances(t) /\ KeepsPlace(t)
        BY <1>m, <2>1, <2>2, <2>3 DEF Steps
    <2>5. QED
        BY <1>0, <1>t, <2>1, <2>4 DEF TypeOK
<1>8. ASSUME NEW t \in Threads, FinishStage(t)
      PROVE  JobsInv'
    <2>1. PICK statuses : thread' = [thread EXCEPT ![t].pc = "save",
                                         ![t].progress = AfterStage(@, statuses)]
        BY <1>8 DEF FinishStage
    <2> DEFINE s == [thread[t] EXCEPT !.pc = "save",
                                      !.progress = AfterStage(thread[t].progress, statuses)]
    <2>2. /\ thread[t].pc = "stage" /\ Working(t)
          /\ UNCHANGED <<rows, queued, recorded, hold, saved, overlapped>>
        BY <1>8 DEF FinishStage, Working
    <2>3. AfterStage(thread[t].progress, statuses) \in Progress
        BY <1>0, <2>2, AfterStageOK DEF ThreadOK, Requests
    <2>4. /\ s \in Requests /\ s.pc = "save" /\ s.job = thread[t].job
          /\ s.automation = thread[t].automation
        BY <1>0, <2>3 DEF Requests, Steps
    <2>5. thread' = [thread EXCEPT ![t] = s]
        BY <1>0, <2>1 DEF TypeOK, Requests
    <2>6. thread'[t] = s => Advances(t) /\ KeepsPlace(t)
        BY <2>2, <2>4 DEF Advances, KeepsPlace
    <2>7. QED
        BY <1>0, <1>t, <2>2, <2>4, <2>5, <2>6 DEF TypeOK
\* What the row of a job knows that one thread works on.
<1>w. ASSUME NEW t \in Threads, Working(t), NEW j \in Jobs, j = thread[t].job,
             j \notin overlapped, rows[j].status # "none"
      PROVE  rows[j].status = "running" /\ hold[j] = 0 /\ rows[j].progress.next = saved[j]
    BY <1>0, <1>w DEF ThreadOK, WorkerOK, JobOK, PlaceOK
<1>9. ASSUME NEW t \in Threads, defer_job_for_stage(t)
      PROVE  JobsInv'
    <2> PICK j : j = thread[t].job
        OBVIOUS
    <2> DEFINE p == thread[t].progress
               r == DeferRow(rows[j], p)
    <2>1. thread[t].pc = "pipeline" /\ Working(t) /\ j \in Jobs /\ p \in Progress
        BY <1>0, <1>9, JobOfThread DEF defer_job_for_stage, Working, Requests
    <2>2. CASE /\ IsRunning(t) /\ rows' = [rows EXCEPT ![j] = r]
               /\ thread' = [thread EXCEPT ![t] = Returned(t)]
               /\ hold' = [hold EXCEPT ![j] = StageDelay]
               /\ UNCHANGED <<queued, recorded, overlapped, saved>>
        <3>1. /\ r \in Rows /\ r.status = "waiting" /\ r.automation = rows[j].automation
              /\ r.progress.next = p.next /\ r.due = StageDelay
            BY <1>0, <2>1, DeferRowOK
        <3>2. /\ thread'[t] = Returned(t)
              /\ hold' \in [Jobs -> Nat] /\ saved' \in [Jobs -> 0 .. Stages]
              /\ \A i \in Jobs \ {j} : hold'[i] = hold[i] /\ saved'[i] = saved[i]
              /\ hold'[j] = StageDelay /\ hold'[j] <= r.due /\ saved'[j] = saved[j]
            BY <1>0, <2>1, <2>2, <3>1, PipelineAssumption DEF TypeOK
        <3>3. Returned(t) \in Requests /\ (Returned(t) = Idle \/ Advances(t))
            BY <1>r, <2>1, <3>2
        <3>4. Returned(t).pc \in {"idle", "done"}
            BY <1>0, AtRest DEF Returned, Requests
        <3>5. j \notin overlapped => p.next = saved[j]
            BY <1>0, <2>1 DEF ThreadOK, WorkerOK
        <3>6. rows[j].status # "none" /\ rows'[j] = r
            BY <1>0, <2>1, <2>2 DEF TypeOK, IsRunning, Row
        <3>7. ASSUME j \notin overlapped
              PROVE  PlaceOK(j)' /\ WorkerOK(t)'
            <4>1. rows[j].status = "running" /\ hold[j] = 0 /\ rows[j].progress.next = saved[j]
                BY <1>w, <2>1, <3>6, <3>7
            <4>2. PlaceOK(j)'
                BY <2>1, <3>1, <3>2, <3>5, <3>6, <3>7, <4>1 DEF PlaceOK
            <4>3. WorkerOK(t)'
                BY <3>2, <3>4, <3>6, <4>1 DEF WorkerOK, Working
            <4>4. QED
                BY <4>2, <4>3
        <3>8. QED
            BY <2>1, <2>2, <3>1, <3>2, <3>3, <3>6, <3>7, WorkerWrites
    <2>3. CASE Fails(t) /\ UNCHANGED <<queued, recorded, hold, overlapped, saved>>
        BY <1>f, <2>1, <2>3
    <2>4. QED
        BY <1>9, <2>2, <2>3 DEF defer_job_for_stage
<1>10. ASSUME NEW t \in Threads, save_job_progress(t)
       PROVE  JobsInv'
    <2> PICK j : j = thread[t].job
        OBVIOUS
    <2> DEFINE p == thread[t].progress
               r == SavedRow(rows[j], p)
               s == [thread[t] EXCEPT !.pc = "pipeline"]
    <2>1. thread[t].pc = "save" /\ Working(t) /\ j \in Jobs /\ p \in Progress
        BY <1>0, <1>10, JobOfThread DEF save_job_progress, Working, Requests
    <2>2. CASE /\ IsRunning(t) /\ rows' = [rows EXCEPT ![j] = r]
               /\ thread' = [thread EXCEPT ![t].pc = "pipeline"]
               /\ saved' = [saved EXCEPT ![j] = p.next]
               /\ UNCHANGED <<queued, recorded, hold, overlapped>>
        <3>1. /\ r \in Rows /\ r.status = rows[j].status /\ r.automation = rows[j].automation
              /\ r.progress = p
            BY <1>0, <2>1 DEF SavedRow, Rows
        <3>2. /\ s \in Requests /\ s.pc = "pipeline" /\ s.job = j /\ s.progress = p
              /\ s.automation = thread[t].automation
            BY <1>0 DEF Requests, Steps
        <3>3. /\ hold' \in [Jobs -> Nat] /\ saved' \in [Jobs -> 0 .. Stages]
              /\ \A i \in Jobs \ {j} : hold'[i] = hold[i] /\ saved'[i] = saved[i]
              /\ hold'[j] = hold[j] /\ saved'[j] = p.next
            BY <1>0, <2>1, <2>2, Fields DEF TypeOK
        <3>4. rows[j].status = "running" /\ thread' = [thread EXCEPT ![t] = s]
            BY <2>2 DEF IsRunning, Row
        <3>5. thread'[t] = s /\ Advances(t)
            <4>1. thread'[t] = s
                BY <1>0, <3>2, <3>4 DEF TypeOK
            <4>2. QED
                BY <2>1, <3>2, <4>1 DEF Advances
        <3>6. rows[j].status # "none" /\ rows'[j] = r
            BY <1>0, <2>1, <2>2 DEF TypeOK, IsRunning, Row
        <3>7. ASSUME j \notin overlapped
              PROVE  PlaceOK(j)' /\ WorkerOK(t)'
            <4>1. rows[j].status = "running" /\ hold[j] = 0 /\ rows[j].progress.next = saved[j]
                BY <1>w, <2>1, <3>6, <3>7
            <4>2. PlaceOK(j)'
                BY <2>1, <2>2, <3>1, <3>3, <3>4, <3>6, <4>1 DEF PlaceOK
            <4>3. WorkerOK(t)'
                BY <2>2, <3>1, <3>2, <3>3, <3>4, <3>6, <4>1 DEF WorkerOK, Working
            <4>4. QED
                BY <4>2, <4>3
        <3>9. QED
            BY <2>1, <2>2, <3>1, <3>2, <3>3, <3>4, <3>5, <3>6, <3>7, WorkerWrites
    <2>3. CASE Fails(t) /\ UNCHANGED <<queued, recorded, hold, overlapped, saved>>
        BY <1>f, <2>1, <2>3
    <2>4. QED
        BY <1>10, <2>2, <2>3 DEF save_job_progress
<1>11. ASSUME NEW t \in Threads, record_run(t)
       PROVE  JobsInv'
    <2> DEFINE j == thread[t].job
               n == recorded[j] + 1
               s == [thread[t] EXCEPT !.pc = "link", !.run = n]
    <2>1. thread[t].pc = "record" /\ Working(t) /\ j \in Jobs
        BY <1>0, <1>11, JobOfThread DEF record_run, Working
    <2>2. CASE /\ recorded' = [recorded EXCEPT ![j] = n]
               /\ thread' = [thread EXCEPT ![t].pc = "link", ![t].run = n]
               /\ UNCHANGED <<rows, queued, hold, overlapped, saved>>
        <3>1. n \in Nat /\ recorded' \in [Jobs -> Nat]
            BY <1>0, <2>1, <2>2 DEF TypeOK
        <3>2. /\ s \in Requests /\ s.pc = "link" /\ s.job = j
              /\ s.automation = thread[t].automation
            BY <1>0, <3>1 DEF Requests, Steps
        <3>3. thread' = [thread EXCEPT ![t] = s]
            BY <1>0, <2>2 DEF TypeOK, Requests
        <3>4. thread'[t] = s => Advances(t) /\ KeepsPlace(t)
            BY <2>1, <3>2 DEF Advances, KeepsPlace
        <3>5. QED
            BY <1>t, <2>2, <3>1, <3>2, <3>3, <3>4
    <2>3. CASE Fails(t) /\ UNCHANGED <<queued, recorded, hold, overlapped, saved>>
        BY <1>f, <2>1, <2>3
    <2>4. QED
        BY <1>11, <2>2, <2>3 DEF record_run
<1>12. ASSUME NEW t \in Threads, link_job_run(t)
       PROVE  JobsInv'
    <2> PICK j : j = thread[t].job
        OBVIOUS
    <2> DEFINE r == [rows[j] EXCEPT !.run = thread[t].run]
               s == [thread[t] EXCEPT !.pc = "complete"]
    <2>1. /\ thread[t].pc = "link" /\ Working(t) /\ j \in Jobs
          /\ UNCHANGED <<queued, recorded, hold, overlapped, saved>>
        BY <1>0, <1>12, JobOfThread DEF link_job_run, Working
    <2>2. CASE /\ IsRunning(t) /\ rows' = [rows EXCEPT ![j].run = thread[t].run]
               /\ thread' = [thread EXCEPT ![t].pc = "complete"]
        <3>1. /\ r \in Rows /\ r.status = rows[j].status /\ r.automation = rows[j].automation
              /\ r.progress = rows[j].progress
            BY <1>0, <2>1 DEF Rows, Requests
        <3>2. /\ s \in Requests /\ s.pc = "complete" /\ s.job = j
              /\ s.automation = thread[t].automation
            BY <1>0 DEF Requests, Steps
        <3>3. /\ hold' \in [Jobs -> Nat] /\ saved' \in [Jobs -> 0 .. Stages]
              /\ \A i \in Jobs \ {j} : hold'[i] = hold[i] /\ saved'[i] = saved[i]
              /\ hold'[j] = hold[j] /\ saved'[j] = saved[j]
            BY <1>0, <2>1 DEF TypeOK
        <3>4. /\ rows[j].status = "running" /\ thread' = [thread EXCEPT ![t] = s]
              /\ rows' = [rows EXCEPT ![j] = r]
            BY <2>2 DEF IsRunning, Row
        <3>5. thread'[t] = s /\ Advances(t)
            <4>1. thread'[t] = s
                BY <1>0, <3>2, <3>4 DEF TypeOK
            <4>2. QED
                BY <2>1, <3>2, <4>1 DEF Advances
        <3>6. rows[j].status # "none" /\ rows'[j] = r
            BY <1>0, <2>1, <2>2, <3>4 DEF TypeOK, IsRunning, Row
        <3>7. ASSUME j \notin overlapped
              PROVE  PlaceOK(j)' /\ WorkerOK(t)'
            <4>1. rows[j].status = "running" /\ hold[j] = 0 /\ rows[j].progress.next = saved[j]
                BY <1>w, <2>1, <3>6, <3>7
            <4>2. PlaceOK(j)'
                BY <2>1, <3>1, <3>3, <3>4, <3>6, <4>1 DEF PlaceOK
            <4>3. WorkerOK(t)'
                BY <2>1, <3>1, <3>2, <3>3, <3>4, <3>6, <4>1 DEF WorkerOK, Working
            <4>4. QED
                BY <4>2, <4>3
        <3>8. QED
            BY <2>1, <2>2, <3>1, <3>2, <3>3, <3>4, <3>5, <3>6, <3>7, WorkerWrites
    <2>3. CASE Fails(t)
        BY <1>f, <2>1, <2>3
    <2>4. QED
        BY <1>12, <2>2, <2>3 DEF link_job_run, MayRefer
<1>13. ASSUME NEW t \in Threads, complete_job(t)
       PROVE  JobsInv'
    <2> PICK j : j = thread[t].job
        OBVIOUS
    <2> DEFINE r == [rows[j] EXCEPT !.status = "completed", !.lease = 0,
                                    !.run = thread[t].run, !.progress = NoProgress]
    <2>1. /\ thread[t].pc = "complete" /\ Working(t) /\ j \in Jobs
          /\ UNCHANGED <<queued, recorded, hold, overlapped, saved>>
        BY <1>0, <1>13, JobOfThread DEF complete_job, Working
    <2>2. CASE /\ IsRunning(t) /\ rows' = [rows EXCEPT ![j] = r]
               /\ thread' = [thread EXCEPT ![t] = Returned(t)]
        <3>1. r \in Rows /\ r.status = "completed" /\ r.automation = rows[j].automation
            BY <1>0, <2>1, AtRest DEF Rows, Requests, Statuses
        <3>2. /\ thread'[t] = Returned(t)
              /\ hold' \in [Jobs -> Nat] /\ saved' \in [Jobs -> 0 .. Stages]
              /\ \A i \in Jobs \ {j} : hold'[i] = hold[i] /\ saved'[i] = saved[i]
              /\ hold'[j] = hold[j] /\ saved'[j] = saved[j]
            BY <1>0, <2>1, <2>2 DEF TypeOK
        <3>3. Returned(t) \in Requests /\ (Returned(t) = Idle \/ Advances(t))
            BY <1>r, <2>1, <3>2
        <3>4. Returned(t).pc \in {"idle", "done"}
            BY <1>0, AtRest DEF Returned, Requests
        <3>5. rows[j].status # "none" /\ rows'[j] = r
            BY <1>0, <2>1, <2>2 DEF TypeOK, IsRunning, Row
        <3>6. ASSUME j \notin overlapped
              PROVE  PlaceOK(j)' /\ WorkerOK(t)'
            <4>1. rows[j].status = "running" /\ hold[j] = 0 /\ rows[j].progress.next = saved[j]
                BY <1>w, <2>1, <3>5, <3>6
            <4>2. PlaceOK(j)'
                BY <2>1, <3>1, <3>2, <3>5, <4>1 DEF PlaceOK
            <4>3. WorkerOK(t)'
                BY <3>2, <3>4, <3>5, <4>1 DEF WorkerOK, Working
            <4>4. QED
                BY <4>2, <4>3
        <3>7. QED
            BY <2>1, <2>2, <3>1, <3>2, <3>3, <3>5, <3>6, WorkerWrites
    <2>3. CASE Fails(t)
        BY <1>f, <2>1, <2>3
    <2>4. QED
        BY <1>13, <2>2, <2>3 DEF complete_job, MayRefer
<1>14. ASSUME NEW t \in Threads, fail_job(t)
       PROVE  JobsInv'
    <2> PICK j : j = thread[t].job
        OBVIOUS
    <2> DEFINE r == FailRow(rows[j])
    <2>1. /\ thread[t].pc = "failing" /\ Working(t) /\ j \in Jobs
          /\ thread' = [thread EXCEPT ![t] = Returned(t)]
          /\ UNCHANGED <<queued, recorded, hold, overlapped, saved>>
        BY <1>0, <1>14, JobOfThread DEF fail_job, Working
    <2>2. /\ thread'[t] = Returned(t)
          /\ hold' \in [Jobs -> Nat] /\ saved' \in [Jobs -> 0 .. Stages]
          /\ \A i \in Jobs \ {j} : hold'[i] = hold[i] /\ saved'[i] = saved[i]
          /\ hold'[j] = hold[j] /\ saved'[j] = saved[j]
        BY <1>0, <2>1 DEF TypeOK
    <2>3. /\ Returned(t) \in Requests
          /\ Returned(t) = Idle \/ (Advances(t) /\ KeepsPlace(t))
        BY <1>r, <2>1, <2>2
    <2>4. CASE rows[j].status = "none"
        <3>1. rows' = rows
            BY <1>14, <2>4 DEF fail_job, Row
        <3>2. QED
            BY <1>0, <1>t, <2>1, <2>3, <3>1 DEF TypeOK
    <2>5. CASE rows[j].status # "none"
        <3>1. rows' = [rows EXCEPT ![j] = r]
            BY <1>14, <2>5 DEF fail_job, Row
        <3>2. /\ r \in Rows /\ r.status \in {"failed", "queued"}
              /\ r.automation = rows[j].automation /\ r.progress = rows[j].progress
            BY <1>0, <2>1, FailRowOK
        <3>3. rows'[j] = r
            BY <1>0, <2>1, <3>1 DEF TypeOK
        <3>4. Returned(t).pc \in {"idle", "done"}
            BY <1>0, AtRest DEF Returned, Requests
        <3>5. ASSUME j \notin overlapped
              PROVE  PlaceOK(j)' /\ WorkerOK(t)'
            <4>1. rows[j].status = "running" /\ hold[j] = 0 /\ rows[j].progress.next = saved[j]
                BY <1>w, <2>1, <2>5, <3>5
            <4>2. PlaceOK(j)'
                BY <2>1, <3>2, <3>3, <4>1 DEF PlaceOK
            <4>3. WorkerOK(t)'
                BY <2>2, <3>4 DEF WorkerOK, Working
            <4>4. QED
                BY <4>2, <4>3
        <3>6. QED
            BY <2>1, <2>2, <2>3, <2>5, <3>1, <3>2, <3>5, WorkerWrites
    <2>6. QED
        BY <2>4, <2>5
<1>15. ASSUME NEW t \in Threads, WriteError(t)
       PROVE  JobsInv'
    <2>1. /\ UNCHANGED <<queued, recorded, hold, overlapped, saved>> /\ Working(t)
          /\ \/ Fails(t)
             \/ thread' = [thread EXCEPT ![t] = Returned(t)] /\ UNCHANGED rows
        BY <1>15 DEF WriteError, Working
    <2>2. CASE Fails(t)
        BY <1>f, <2>1, <2>2
    <2>3. CASE thread' = [thread EXCEPT ![t] = Returned(t)] /\ UNCHANGED rows
        <3>1. thread'[t] = Returned(t)
            BY <1>0, <2>3 DEF TypeOK
        <3>2. /\ Returned(t) \in Requests
              /\ Returned(t) = Idle \/ (Advances(t) /\ KeepsPlace(t))
            BY <1>r, <2>1, <3>1
        <3>3. QED
            BY <1>0, <1>t, <2>1, <2>3, <3>2 DEF TypeOK
    <2>4. QED
        BY <2>1, <2>2, <2>3
<1>16. CASE Stop \/ Exit
    <2>1. /\ UNCHANGED <<rows, queued, recorded, hold, overlapped, saved>>
          /\ thread' \in [Threads -> Requests]
          /\ \A t \in Threads : thread'[t] = thread[t] \/ thread'[t] = Idle
        BY <1>0, <1>16, AtRest DEF Stop, Exit, TypeOK
    <2>2. QED
        BY <1>0, <2>1, ThreadsOnly DEF TypeOK
<1>17. CASE renew_job_lease \/ retry_failed_jobs
    <2>1. UNCHANGED <<thread, queued, saved, overlapped, recorded, hold>>
        BY <1>17 DEF renew_job_lease, retry_failed_jobs
    <2>2. ASSUME NEW j \in Jobs
          PROVE  /\ rows'[j] \in Rows /\ rows'[j].automation = rows[j].automation
                 /\ rows'[j].progress = rows[j].progress
                 /\ \/ rows'[j] = rows[j]
                    \/ rows'[j].status = "running" /\ rows[j].status = "running"
                    \/ rows'[j].status = "queued" /\ rows[j].status = "failed"
        <3>1. Lease \in Nat
            BY QueueAssumption
        <3>2. \/ rows'[j] = rows[j]
              \/ rows'[j] = [rows[j] EXCEPT !.lease = Lease] /\ rows[j].status = "running"
              \/ /\ rows'[j] = [rows[j] EXCEPT !.status = "queued", !.attempts = 0, !.due = 0]
                 /\ rows[j].status = "failed"
            BY <1>17 DEF renew_job_lease, retry_failed_jobs
        <3>3. /\ [rows[j] EXCEPT !.lease = Lease] \in Rows
              /\ [rows[j] EXCEPT !.lease = Lease].automation = rows[j].automation
              /\ [rows[j] EXCEPT !.lease = Lease].progress = rows[j].progress
              /\ [rows[j] EXCEPT !.lease = Lease].status = rows[j].status
            BY <1>0, <3>1 DEF Rows
        <3>. DEFINE r == [rows[j] EXCEPT !.status = "queued", !.attempts = 0, !.due = 0]
        <3>4. /\ r \in Rows /\ r.status = "queued"
              /\ r.automation = rows[j].automation /\ r.progress = rows[j].progress
            BY <1>0 DEF Rows, Statuses
        <3>5. QED
            BY <1>0, <3>2, <3>3, <3>4
    <2>3. rows' \in [Jobs -> Rows] /\ hold' \in [Jobs -> Nat]
        BY <1>0, <1>17, <2>1, <2>2 DEF renew_job_lease, retry_failed_jobs, TypeOK
    <2>4. ASSUME NEW j \in Jobs
          PROVE  JobOK(j)' /\ hold'[j] <= hold[j]
        BY <1>0, <2>1, <2>2, AtRest DEF JobOK, PlaceOK
    <2>5. QED
        BY <2>1, <2>2, <2>3, <2>4, RowsOnly
<1>18. CASE Tick
    <2>1. UNCHANGED <<thread, queued, saved, overlapped, recorded>>
        BY <1>18 DEF Tick
    <2>2. \A n \in Nat : Down(n) \in Nat /\ Down(n) <= n /\ \A m \in Nat : m <= n => Down(m) <= Down(n)
        BY DEF Down
    <2>3. ASSUME NEW j \in Jobs
          PROVE  /\ rows'[j] \in Rows /\ rows'[j].automation = rows[j].automation
                 /\ rows'[j].progress = rows[j].progress /\ rows'[j].status = rows[j].status
                 /\ rows'[j].due = Down(rows[j].due) /\ hold'[j] = Down(hold[j])
                 /\ rows[j] = NoRow => rows'[j] = NoRow
        <3>1. rows'[j] = [rows[j] EXCEPT !.lease = Down(@), !.due = Down(@)]
            BY <1>18 DEF Tick
        <3>2. rows[j] = NoRow => rows'[j] = NoRow
            <4>1. NoRow.lease = 0 /\ NoRow.due = 0 /\ Down(0) = 0
                BY DEF NoRow, Down
            <4>2. [NoRow EXCEPT !.lease = NoRow.lease, !.due = NoRow.due] = NoRow
                BY AtRest DEF Rows
            <4>3. QED
                BY <3>1, <4>1, <4>2
        <3>3. hold'[j] = Down(hold[j])
            BY <1>18 DEF Tick
        <3>4. /\ rows[j] \in Rows
              /\ Down(rows[j].lease) \in Nat /\ Down(rows[j].due) \in Nat
            BY <1>0, <2>2 DEF Rows
        <3>5. /\ rows'[j] \in Rows /\ rows'[j].automation = rows[j].automation
              /\ rows'[j].progress = rows[j].progress /\ rows'[j].status = rows[j].status
              /\ rows'[j].due = Down(rows[j].due)
            BY <3>1, <3>4 DEF Rows
        <3>6. QED
            BY <3>2, <3>3, <3>5
    <2>4. rows' \in [Jobs -> Rows] /\ hold' \in [Jobs -> Nat]
        BY <1>0, <1>18, <2>2, <2>3 DEF Tick
    <2>5. ASSUME NEW j \in Jobs
          PROVE  JobOK(j)' /\ hold'[j] <= hold[j]
        <3>1. /\ rows[j].due \in Nat /\ hold[j] \in Nat
              /\ hold[j] = 0 => hold'[j] = 0
              /\ hold[j] <= rows[j].due => hold'[j] <= rows'[j].due
              /\ hold'[j] <= hold[j]
            BY <1>0, <2>2, <2>3, Fields DEF Down
        <3>2. QED
            BY <1>0, <2>1, <2>3, <3>1 DEF JobOK, PlaceOK
    <2>6. QED
        BY <2>1, <2>3, <2>4, <2>5, RowsOnly
<1>19. CASE clear
    <2>1. /\ UNCHANGED <<thread, queued, saved, overlapped, recorded, hold>>
          /\ rows' = [j \in Jobs |-> NoRow]
        BY <1>19 DEF clear
    <2>2. ASSUME NEW j \in Jobs
          PROVE  JobOK(j)' /\ hold'[j] <= hold[j] /\ rows'[j].status = "none"
        BY <1>0, <2>1, AtRest DEF JobOK, PlaceOK
    <2>3. QED
        BY <1>0, <2>1, <2>2, AtRest, RowsOnly DEF TypeOK
<1>20. CASE \/ \E r \in runs : delete_run(r)
            \/ \E a \in Automations : clear_runs(a) \/ Delete(a)
    <2>1. /\ UNCHANGED <<thread, queued, saved, overlapped, recorded, hold>>
          /\ \E gone, goneRuns : Purge(gone, goneRuns)
        BY <1>20 DEF delete_run, clear_runs, Delete
    <2>2. QED
        BY <2>1, PurgeStep
<1>21. ASSUME UNCHANGED <<thread, rows, queued, saved, overlapped, recorded, hold>>
       PROVE  JobsInv'
    BY <1>0, <1>21, ThreadsOnly DEF TypeOK
<1>22. ASSUME NEW t \in Threads, Reap(t) \/ WebCrash(t)
       PROVE  JobsInv'
    BY <1>6, <1>22 DEF Reap, WebCrash
<1>23. CASE StartScheduler \/ \E a \in Automations : CheckDelete(a)
    BY <1>21, <1>23 DEF StartScheduler, CheckDelete
<1>24. CASE UNCHANGED jobVars
    BY <1>21, <1>24 DEF jobVars
<1>25. QED
    BY <1>0, <1>1, <1>2, <1>3, <1>4, <1>5, <1>7, <1>8, <1>9, <1>10, <1>11, <1>12, <1>13,
       <1>14, <1>15, <1>16, <1>17, <1>18, <1>19, <1>20, <1>22, <1>23, <1>24
    DEF Next, Administer, process_job

\* Two threads work on one job only when one of them serves a Run now request:
\* the scheduler never doubles its own work (claim_jobs with active_ids).
THEOREM OverlapOnlyAfterRunNowAlways == Spec => []OverlapOnlyAfterRunNow
<1>1. JobsInv => OverlapOnlyAfterRunNow
    BY DEF JobsInv, PairOK, OverlapOnlyAfterRunNow
<1>2. QED
    BY JobsInit, JobsStep, <1>1, PTL DEF Spec
\* Only the pipeline starts a stage.
LEMMA StageStarts ==
    ASSUME JobsInv, [Next]_jobVars, NEW t \in Threads, Starts(t)
    PROVE  thread[t].pc = "pipeline"
<1>0. /\ thread \in [Threads -> Requests] /\ thread[t].pc # "stage" /\ thread'[t].pc = "stage"
      /\ Futures \subseteq Threads /\ WebThreads \subseteq Threads
      /\ Idle.pc # "stage" /\ Idle.pc = "idle"
    BY AtRest DEF JobsInv, TypeOK, Starts, Threads
<1>1. ASSUME NEW u \in Threads, NEW s, thread' = [thread EXCEPT ![u] = s], s.pc # "stage"
      PROVE  FALSE
    BY <1>0, <1>1
<1>2. ASSUME NEW u \in Threads, NEW pc, thread' = [thread EXCEPT ![u].pc = pc], pc # "stage"
      PROVE  FALSE
    BY <1>0, <1>2 DEF Requests
<1>3. thread' # thread
    BY <1>0
<1>4. \A u \in Threads : Returned(u).pc \in {"idle", "done"}
    BY <1>0 DEF Returned, Requests
<1>5. \A run : FirstStep(run) \in {"pipeline", "complete"}
    BY DEF FirstStep
<1>6. CASE \/ \E a \in Automations : Arrive(a)
           \/ renew_job_lease \/ Tick \/ StartScheduler \/ Administer \/ UNCHANGED jobVars
    BY <1>3, <1>6 DEF Arrive, renew_job_lease, Tick, StartScheduler, Administer,
       retry_failed_jobs, clear, delete_run, clear_runs, CheckDelete, Delete, jobVars
<1>7. ASSUME NEW w \in WebThreads, NEW a \in Automations, RunNow(w, a)
      PROVE  FALSE
    <2> DEFINE c == [Idle EXCEPT !.pc = "claim", !.job = queued + 1, !.automation = a]
    <2>1. thread' = [thread EXCEPT ![w] = c] /\ c.pc = "claim"
        BY <1>7 DEF RunNow, Idle
    <2>2. QED
        BY <1>0, <1>1, <2>1
<1>8. ASSUME NEW u \in Threads, NEW j, NEW pc, Claim(u, j, pc), pc # "stage"
      PROVE  FALSE
    <2> DEFINE c == [pc |-> pc, job |-> j, automation |-> rows[j].automation,
                     progress |-> rows[j].progress, run |-> rows[j].run]
    <2>1. thread' = [thread EXCEPT ![u] = c] /\ c.pc = pc
        BY <1>8 DEF Claim
    <2>2. QED
        BY <1>1, <1>8, <2>1
<1>9. ASSUME NEW f \in Futures, claim_jobs(f) \/ StartFuture(f) \/ Reap(f)
      PROVE  FALSE
    BY <1>0, <1>1, <1>2, <1>5, <1>8, <1>9 DEF claim_jobs, StartFuture, Reap
<1>10. ASSUME NEW w \in WebThreads, claim_job(w) \/ WebCrash(w)
       PROVE  FALSE
    BY <1>0, <1>1, <1>5, <1>8, <1>10 DEF claim_job, WebCrash
<1>11. ASSUME NEW u \in Threads, Fails(u)
       PROVE  FALSE
    BY <1>2, <1>11 DEF Fails
<1>12. ASSUME NEW u \in Threads, thread' = [thread EXCEPT ![u] = Returned(u)]
       PROVE  FALSE
    BY <1>1, <1>4, <1>12
<1>13. ASSUME NEW u \in Threads, FinishStage(u)
       PROVE  FALSE
    <2>1. PICK statuses : thread' = [thread EXCEPT ![u].pc = "save",
                                         ![u].progress = AfterStage(@, statuses)]
        BY <1>13 DEF FinishStage
    <2>2. QED
        BY <1>0, <2>1 DEF Requests
<1>14. ASSUME NEW u \in Threads, record_run(u)
       PROVE  FALSE
    <2>1. CASE thread' = [thread EXCEPT ![u].pc = "link",
                                        ![u].run = recorded[thread[u].job] + 1]
        BY <1>0, <2>1 DEF Requests
    <2>2. QED
        BY <1>11, <1>14, <2>1 DEF record_run
<1>15. ASSUME NEW u \in Threads,
              \/ defer_job_for_stage(u) \/ save_job_progress(u) \/ link_job_run(u)
              \/ complete_job(u) \/ fail_job(u) \/ WriteError(u)
       PROVE  FALSE
    BY <1>2, <1>11, <1>12, <1>15 DEF defer_job_for_stage, save_job_progress, link_job_run,
       complete_job, fail_job, WriteError
<1>16. CASE Stop \/ Exit
    BY <1>0, <1>16 DEF Stop, Exit
<1>17. ASSUME NEW u \in Threads, NextStage(u)
       PROVE  thread[t].pc = "pipeline"
    <2>1. CASE u = t
        BY <1>17, <2>1 DEF NextStage
    <2>2. CASE u # t
        BY <1>0, <1>17, <2>2 DEF NextStage
    <2>3. QED
        BY <2>1, <2>2
<1>18. QED
    BY <1>6, <1>7, <1>9, <1>10, <1>13, <1>14, <1>15, <1>16, <1>17 DEF Next, process_job

\* A stage whose end was recorded is never run again, and a delayed stage never
\* starts before its delay is over, on any job that no two threads worked on
\* (save_job_progress, defer_job_for_stage, fail_job, retry_failed_jobs).
THEOREM StagesAlwaysKeepTheirPlace == Spec => StagesKeepTheirPlace
<1> DEFINE Kept(t) ==
        Starts(t) => LET j == thread[t].job
                         next == thread[t].progress.next IN
                     j \in overlapped \/ (next >= saved[j] /\ (next \in Delayed => hold[j] = 0))
<1>1. ASSUME JobsInv, [Next]_jobVars, NEW t \in Threads, Starts(t)
      PROVE  Kept(t)
    <2>1. thread[t].pc = "pipeline" /\ Working(t)
        BY <1>1, StageStarts DEF Working
    <2>2. thread[t].job \in Jobs
        BY <1>1, <2>1, JobOfThread
    <2>3. ThreadOK(t) /\ saved[thread[t].job] \in Nat
        BY <1>1, <2>2, PipelineAssumption DEF JobsInv, TypeOK
    <2>4. thread[t].job \notin overlapped =>
              hold[thread[t].job] = 0 /\ thread[t].progress.next = saved[thread[t].job]
        BY <2>1, <2>3 DEF ThreadOK, WorkerOK
    <2>5. QED
        BY <2>3, <2>4
<1>2. JobsInv /\ [Next]_jobVars => [\A t \in Threads : Kept(t)]_jobVars
    BY <1>1
<1>3. QED
    BY JobsInit, JobsStep, <1>2, PTL DEF Spec, StagesKeepTheirPlace
=============================================================================
