----------------------- MODULE ReviewedChangesProofs ------------------------
(***************************************************************************)
(* Proofs about ReviewedChanges, for any number of jobs, confirmations,    *)
(* worker slots and change requests.                                       *)
(*                                                                         *)
(* The revision is the name of the job that last announced a change.  It   *)
(* certifies a state because a job announces only inside the lock, before  *)
(* it sends, and because nobody loads that job's name before it has left   *)
(* the lock for good.  A failed job is untouched because the intent is     *)
(* durable before the request leaves.  One confirmation serves one job     *)
(* because its receipt outlives its signature.                             *)
(***************************************************************************)
EXTENDS ReviewedChanges, FiniteSetTheorems, TLAPS

States == {"absent"} \cup ACTIVE \cup TERMINAL

Ended == {"failing", "recording", "exited"}

\* Where a child has announced nothing and sent nothing yet.
Early == {"none", "starting", "waiting", "reading"}

\* Where a child is between the intent of a change and its answer.
Attempting == {"intent", "sending", "sent"}

Names == Jobs \cup {Untouched}

Rows == [state : States, kept : BOOLEAN, token : BOOLEAN,
         review : Reviews \cup {NoReview}, attempted : BOOLEAN]

Processes == [pc : {"none"} \cup Working \cup Ended, rev : Names, seen : Nat \cup {Unseen}]

Confirmations == [issued : BOOLEAN, rev : Names, at : Nat, left : Int]

TypeOK ==
    /\ rows \in [Jobs -> Rows]
    /\ receipts \in [Reviews -> Int]
    /\ revision \in Names
    /\ up \in BOOLEAN /\ active \in SUBSET Jobs /\ spawning \in Names
    /\ child \in [Jobs -> Processes]
    /\ lock \in Names
    /\ log \in Seq(Jobs)
    /\ reviews \in [Reviews -> Confirmations]

IsSent(j) == \E i \in DOMAIN log : log[i] = j

\* What a row says of a child, and of the requests it sent.
JobOK(row, c, sent) ==
    /\ row.state \in {"absent", "queued"} => c.pc = "none"
    /\ row.state = "absent" => row.review = NoReview
    /\ c.pc = "none" => c.seen = Unseen
    /\ row.state = "succeeded" => c.pc \in {"recording", "exited"} /\ c.seen # Unseen
    /\ sent => /\ c.pc \notin Early
               /\ row.attempted
               /\ row.state \in Started \cup {"unknown", "succeeded"}
    /\ c.pc \in Attempting => row.attempted /\ row.state \in Started \cup {"unknown"}

JobsOK == \A j \in Jobs : JobOK(rows[j], child[j], IsSent(j))

\* One child at a time is inside the lock.
LockOK == \A j \in Jobs : lock = j <=> child[j].pc \in Inside

\* The scheduler starts a child once.
SpawnOK ==
    /\ spawning \in Jobs =>
           child[spawning].pc = "none" /\ rows[spawning].state \notin {"absent", "queued"}
    /\ \A j \in active : child[j].pc # "none"

\* A revision is loaded by another job only when the job it names has ended.
NamesOK ==
    /\ revision \in Jobs => child[revision].pc \notin Early
    /\ \A j \in Jobs : child[j].pc \in {"sending", "sent"} => revision = j
    /\ \A j \in Jobs : child[j].rev \in Jobs \ {j} => child[child[j].rev].pc \in Ended
    /\ \A r \in Reviews \ Forms :
           reviews[r].issued /\ reviews[r].rev \in Jobs => child[reviews[r].rev].pc \in Ended

\* A result is the state of the appliance as long as its revision stands.
ResultsOK ==
    \A j \in Jobs :
        rows[j].state = "succeeded" /\ revision = child[j].rev => child[j].seen = Len(log)

\* Inside the lock, what came after the reviewed state is the job's own work.
BasisOK(j, r) ==
    \/ revision = reviews[r].rev
    \/ revision = j /\ \A i \in reviews[r].at + 1 .. Len(log) : log[i] = j

ReviewedOK ==
    \A j \in Jobs :
        child[j].pc \in Inside /\ rows[j].review \in Reviews \ Forms => BasisOK(j, rows[j].review)

\* The receipt of a submitted confirmation outlives its signature.
ReceiptsOK ==
    /\ \A r \in Reviews : reviews[r].left <= MaxAge
    /\ \A j \in Jobs :
           LET r == rows[j].review
           IN  r \in Reviews => reviews[r].issued /\ (Valid(r) => receipts[r] > reviews[r].left)

Entered(j) == child[j].pc \in Inside \/ child[j].seen # Unseen

\* A second job of a confirmation comes when the confirmation has expired.
OneJobOK ==
    \A i, j \in Jobs :
        i # j /\ rows[i].review = rows[j].review /\ rows[i].review \in Reviews
        => ~Valid(rows[i].review) /\ ~(Entered(i) /\ Entered(j))

ReviewedInv ==
    /\ TypeOK
    /\ JobsOK
    /\ LockOK
    /\ SpawnOK
    /\ NamesOK
    /\ ResultsOK
    /\ ReviewedOK
    /\ ReceiptsOK
    /\ OneJobOK
    /\ RevisionCertifiesState

\* What a settling transaction may do to a row.
Settles(row, new) ==
    /\ new.review = row.review /\ new.attempted = row.attempted
    /\ \/ new.state = row.state
       \/ row.state = "queued" /\ new.state \in {"running", "cancelled"}
       \/ row.state \in Started /\ new.state \in {"cancel_requested", "unknown"}
       \/ row.state \in Started /\ ~row.attempted /\ new.state \in {"failed", "cancelled"}

(***************************************************************************)
(* Rows.                                                                   *)
(***************************************************************************)
\* The fields of a row have their types.
LEMMA RowFields ==
    ASSUME NEW row \in Rows
    PROVE  /\ row.state \in States
           /\ row.kept \in BOOLEAN /\ row.token \in BOOLEAN /\ row.attempted \in BOOLEAN
           /\ row.review \in Reviews \cup {NoReview}
BY DEF Rows

\* A child agrees with its row after the row is settled.
LEMMA SettleOK ==
    ASSUME NEW row \in Rows, NEW new \in Rows, NEW c, NEW sent \in BOOLEAN,
           JobOK(row, c, sent), Settles(row, new)
    PROVE  JobOK(new, c, sent)
BY DEF JobOK, Settles, Attempting, Early, Started

\* Releasing a row changes its token only.
LEMMA ReleaseSettles ==
    ASSUME NEW row \in Rows
    PROVE  /\ Released(row) \in Rows
           /\ Released(row).state = row.state
           /\ Released(row).review = row.review
           /\ Released(row).attempted = row.attempted
BY DEF Rows, Released

\* An abort settles a row, as "unknown" when a change was attempted.
LEMMA AbortSettles ==
    ASSUME TypeOK, NEW j \in Jobs, NEW s \in {"failed", "cancelled", "unknown"}
    PROVE  Aborted(j, s) \in Rows /\ Settles(rows[j], Aborted(j, s))
<1>1. rows[j] \in Rows /\ rows[j].attempted \in BOOLEAN
    BY RowFields DEF TypeOK
<1>2. CASE Owned(j) /\ rows[j].state \in Started
    <2>1. Aborted(j, s) = [rows[j] EXCEPT !.state = InterruptionOutcome(j, s)]
        BY <1>2 DEF Aborted
    <2>2. InterruptionOutcome(j, s) \in {"failed", "cancelled", "unknown"}
        BY DEF InterruptionOutcome
    <2>3. /\ Aborted(j, s) \in Rows
          /\ Aborted(j, s).state = InterruptionOutcome(j, s)
          /\ Aborted(j, s).review = rows[j].review
          /\ Aborted(j, s).attempted = rows[j].attempted
        BY <1>1, <2>1, <2>2 DEF Rows, States, TERMINAL
    <2>4. QED
        BY <1>1, <1>2, <2>2, <2>3 DEF Settles, InterruptionOutcome
<1>3. CASE ~(Owned(j) /\ rows[j].state \in Started)
    BY <1>1, <1>3 DEF Aborted, Settles
<1>4. QED
    BY <1>2, <1>3

\* Recovery settles what an earlier scheduler may have started.
LEMMA RecoverSettles ==
    ASSUME NEW row \in Rows
    PROVE  Recovered(row) \in Rows /\ Settles(row, Recovered(row))
<1>1. CASE row.kept /\ row.state \in Started
    <2>1. Recovered(row) = [row EXCEPT !.state = "unknown", !.token = FALSE]
        BY <1>1 DEF Recovered
    <2>2. QED
        BY <1>1, <2>1 DEF Rows, States, TERMINAL, Settles
<1>2. CASE ~(row.kept /\ row.state \in Started)
    BY <1>2, ReleaseSettles DEF Recovered, Settles
<1>3. QED
    BY <1>1, <1>2

\* A deletion keeps everything a row says but that it is kept.
LEMMA WithoutSettles ==
    ASSUME TypeOK, NEW gone
    PROVE  /\ Without(gone) \in [Jobs -> Rows]
           /\ \A j \in Jobs : Settles(rows[j], Without(gone)[j])
<1>1. ASSUME NEW j \in Jobs
      PROVE  /\ Without(gone)[j] \in Rows
             /\ Settles(rows[j], Without(gone)[j])
    <2>1. rows[j] \in Rows
        BY DEF TypeOK
    <2>2. Without(gone)[j] = IF j \in gone THEN [rows[j] EXCEPT !.kept = FALSE] ELSE rows[j]
        BY DEF Without
    <2>3. QED
        BY <2>1, <2>2 DEF Rows, Settles
<1>2. Without(gone) = [j \in Jobs |-> Without(gone)[j]]
    BY DEF Without
<1>3. QED
    BY <1>1, <1>2

\* Untouched names no job.
LEMMA NoJob == Untouched \notin Jobs
BY LimitsAssumption DEF Untouched, Jobs

(***************************************************************************)
(* Two shapes of a step: transactions that settle rows, and the steps of   *)
(* one child that leave the revision and the appliance alone.              *)
(***************************************************************************)
LEMMA RowsStep ==
    ASSUME ReviewedInv,
           rows' \in [Jobs -> Rows], \A j \in Jobs : Settles(rows[j], rows'[j]),
           up' \in BOOLEAN, active' \in SUBSET Jobs, spawning' \in Names, SpawnOK',
           UNCHANGED <<receipts, revision, child, lock, log, reviews>>
    PROVE  ReviewedInv'
<1>1. /\ TypeOK /\ JobsOK /\ LockOK /\ NamesOK /\ ResultsOK /\ ReviewedOK /\ ReceiptsOK
      /\ OneJobOK /\ RevisionCertifiesState
    BY DEF ReviewedInv
<1>2. /\ receipts' = receipts /\ revision' = revision /\ child' = child /\ lock' = lock
      /\ log' = log /\ reviews' = reviews
    OBVIOUS
<1>3. \A j \in Jobs :
          /\ rows[j] \in Rows /\ rows'[j] \in Rows
          /\ rows'[j].review = rows[j].review
          /\ rows'[j].state = "succeeded" => rows[j].state = "succeeded"
    BY <1>1 DEF TypeOK, Settles
<1>4. TypeOK'
    BY <1>1, <1>2 DEF TypeOK
<1>5. JobsOK'
    <2>1. SUFFICES ASSUME NEW j \in Jobs
                   PROVE  JobOK(rows'[j], child'[j], IsSent(j)')
        BY DEF JobsOK
    <2>2. IsSent(j)' = IsSent(j) /\ IsSent(j) \in BOOLEAN
        BY <1>2 DEF IsSent
    <2>3. JobOK(rows[j], child[j], IsSent(j))
        BY <1>1 DEF JobsOK
    <2>4. JobOK(rows'[j], child[j], IsSent(j))
        BY <1>3, <2>2, <2>3, SettleOK
    <2>5. QED
        BY <1>2, <2>2, <2>4
<1>6. LockOK'
    BY <1>1, <1>2 DEF LockOK
<1>7. NamesOK'
    BY <1>1, <1>2 DEF NamesOK
<1>8. ResultsOK'
    BY <1>1, <1>2, <1>3 DEF ResultsOK
<1>9. ReviewedOK'
    BY <1>1, <1>2, <1>3 DEF ReviewedOK, BasisOK
<1>10. ReceiptsOK'
    BY <1>1, <1>2, <1>3 DEF ReceiptsOK, Valid
<1>11. OneJobOK'
    BY <1>1, <1>2, <1>3 DEF OneJobOK, Entered, Valid
<1>12. RevisionCertifiesState'
    BY <1>1, <1>2 DEF RevisionCertifiesState
<1>13. QED
    BY <1>4, <1>5, <1>6, <1>7, <1>8, <1>9, <1>10, <1>11, <1>12 DEF ReviewedInv

\* A child goes on: it keeps agreeing with its row, it enters only a free lock,
\* with a current confirmation, and it loads a revision only there.
LEMMA ChildStep ==
    ASSUME ReviewedInv, NEW j \in Jobs,
           rows' \in [Jobs -> Rows], child' \in [Jobs -> Processes],
           \A i \in Jobs \ {j} : rows'[i] = rows[i] /\ child'[i] = child[i],
           rows'[j].review = rows[j].review,
           JobOK(rows'[j], child'[j], IsSent(j)),
           child[j].pc # "none", child'[j].pc # "none",
           child[j].pc \in Ended => child'[j].pc \in Ended,
           child'[j].pc \in Early => child[j].pc \in Early,
           lock' = IF child'[j].pc \in Inside THEN j ELSE IF lock = j THEN Untouched ELSE lock,
           child'[j].pc \in {"sending", "sent"} => child[j].pc \in {"sending", "sent"},
           child'[j].pc \in Inside =>
               child[j].pc \in Inside \/ (lock = Untouched /\ Current(j)),
           child'[j].rev \in {child[j].rev, Untouched} \/ (lock = Untouched /\ child'[j].rev = revision),
           rows'[j].state = "succeeded" /\ revision = child'[j].rev => child'[j].seen = Len(log),
           child'[j].seen # Unseen => child[j].seen # Unseen \/ child[j].pc \in Inside,
           UNCHANGED <<receipts, revision, schedulerVars, log, reviews>>
    PROVE  ReviewedInv'
<1>1. /\ TypeOK /\ JobsOK /\ LockOK /\ SpawnOK /\ NamesOK /\ ResultsOK /\ ReviewedOK /\ ReceiptsOK
      /\ OneJobOK /\ RevisionCertifiesState
    BY DEF ReviewedInv
<1>2. /\ receipts' = receipts /\ revision' = revision /\ log' = log /\ reviews' = reviews
      /\ up' = up /\ active' = active /\ spawning' = spawning
    BY DEF schedulerVars
<1>3. TypeOK'
    BY <1>1, <1>2 DEF TypeOK, Names
<1>4. JobsOK'
    <2>1. SUFFICES ASSUME NEW i \in Jobs
                   PROVE  JobOK(rows'[i], child'[i], IsSent(i)')
        BY DEF JobsOK
    <2>2. IsSent(i)' = IsSent(i)
        BY <1>2 DEF IsSent
    <2>3. QED
        BY <1>1, <2>2 DEF JobsOK
<1>5. LockOK'
    BY <1>1, NoJob DEF LockOK
<1>6. SpawnOK'
    BY <1>1, <1>2 DEF SpawnOK, TypeOK
<1>7. NamesOK'
    <2>1. \A i \in Jobs : child[i].pc \in Ended => child'[i].pc \in Ended
        OBVIOUS
    <2>2. revision \in Jobs => child'[revision].pc \notin Early
        BY <1>1 DEF NamesOK
    <2>3. \A i \in Jobs : child'[i].pc \in {"sending", "sent"} => revision = i
        BY <1>1 DEF NamesOK
    <2>4. lock = Untouched /\ revision \in Jobs => child[revision].pc \in Ended
        <3>1. SUFFICES ASSUME lock = Untouched, revision \in Jobs
                       PROVE  child[revision].pc \in Ended
            OBVIOUS
        <3>2. child[revision].pc \in {"none"} \cup Working \cup Ended
            BY <3>1, <1>1 DEF TypeOK, Processes
        <3>3. child[revision].pc \notin Inside
            BY <3>1, <1>1, NoJob DEF LockOK
        <3>4. child[revision].pc \notin Early
            BY <3>1, <1>1 DEF NamesOK
        <3>5. QED
            BY <3>2, <3>3, <3>4 DEF Working, Early, Ended
    <2>5. \A i \in Jobs : child'[i].rev \in Jobs \ {i} => child'[child'[i].rev].pc \in Ended
        <3>1. SUFFICES ASSUME NEW i \in Jobs, child'[i].rev \in Jobs \ {i}
                       PROVE  child'[child'[i].rev].pc \in Ended
            OBVIOUS
        <3>2. CASE child'[i].rev = child[i].rev
            BY <1>1, <2>1, <3>1, <3>2 DEF NamesOK
        <3>3. CASE lock = Untouched /\ child'[i].rev = revision
            BY <2>1, <2>4, <3>1, <3>3
        <3>4. QED
            BY <3>1, <3>2, <3>3, NoJob
    <2>6. \A r \in Reviews \ Forms :
              reviews[r].issued /\ reviews[r].rev \in Jobs => child'[reviews[r].rev].pc \in Ended
        BY <1>1, <2>1 DEF NamesOK
    <2>7. QED
        BY <1>2, <2>2, <2>3, <2>5, <2>6 DEF NamesOK
<1>8. ResultsOK'
    BY <1>1, <1>2 DEF ResultsOK
<1>9. ReviewedOK'
    <2>1. SUFFICES ASSUME NEW i \in Jobs, child'[i].pc \in Inside, rows'[i].review \in Reviews \ Forms
                   PROVE  BasisOK(i, rows[i].review)'
        BY DEF ReviewedOK
    <2>2. rows'[i].review = rows[i].review
        OBVIOUS
    <2>3. BasisOK(i, rows[i].review)
        <3>1. CASE child[i].pc \in Inside
            BY <1>1, <2>1, <2>2, <3>1 DEF ReviewedOK
        <3>2. CASE i = j /\ Current(j)
            <4>1. rows[i].review # NoReview
                BY <2>1, <2>2, NoReviewAssumption
            <4>2. QED
                BY <3>2, <4>1 DEF Current, Reviewed, BasisOK
        <3>3. QED
            BY <2>1, <3>1, <3>2
    <2>4. QED
        BY <1>2, <2>2, <2>3 DEF BasisOK
<1>10. ReceiptsOK'
    <2>1. \A i \in Jobs : rows'[i].review = rows[i].review
        OBVIOUS
    <2>2. QED
        BY <1>1, <1>2, <2>1 DEF ReceiptsOK, Valid
<1>11. OneJobOK'
    <2>1. \A i \in Jobs : rows'[i].review = rows[i].review
        OBVIOUS
    <2>2. SUFFICES ASSUME NEW i \in Jobs, NEW k \in Jobs, i # k,
                          rows[i].review = rows[k].review, rows[i].review \in Reviews
                   PROVE  ~Valid(rows[i].review) /\ ~(Entered(i)' /\ Entered(k)')
        BY <1>2, <2>1 DEF OneJobOK, Valid
    <2>3. ~Valid(rows[i].review) /\ ~(Entered(i) /\ Entered(k))
        BY <1>1, <2>2 DEF OneJobOK
    <2>4. rows[i].review # NoReview
        BY <2>2, NoReviewAssumption
    <2>5. ASSUME NEW l \in {i, k}, Entered(l)'
          PROVE  Entered(l)
        <3>1. CASE l # j
            BY <2>5, <3>1 DEF Entered
        <3>2. CASE l = j
            <4>1. ~Current(j)
                BY <2>2, <2>3, <2>4, <3>2 DEF Current
            <4>2. QED
                BY <2>5, <3>2, <4>1 DEF Entered
        <3>3. QED
            BY <3>1, <3>2
    <2>6. QED
        BY <2>3, <2>5
<1>12. RevisionCertifiesState'
    BY <1>1, <1>2 DEF RevisionCertifiesState
<1>13. QED
    BY <1>3, <1>4, <1>5, <1>6, <1>7, <1>8, <1>9, <1>10, <1>11, <1>12 DEF ReviewedInv

(***************************************************************************)
(* The transactions that settle rows.                                      *)
(***************************************************************************)
\* One row is settled; the scheduler may drop the job.
LEMMA OneRowStep ==
    ASSUME ReviewedInv, NEW j \in Jobs, NEW row \in Rows, Settles(rows[j], row),
           rows' = [rows EXCEPT ![j] = row],
           up' = up, active' \in {active, active \ {j}}, spawning' \in {spawning, Untouched},
           UNCHANGED <<receipts, revision, child, lock, log, reviews>>
    PROVE  ReviewedInv'
<1>1. TypeOK /\ SpawnOK
    BY DEF ReviewedInv
<1>2. rows' \in [Jobs -> Rows]
    BY <1>1 DEF TypeOK
<1>3. \A i \in Jobs : Settles(rows[i], rows'[i])
    BY <1>1 DEF TypeOK, Settles
<1>4. up' \in BOOLEAN /\ active' \in SUBSET Jobs /\ spawning' \in Names
    BY <1>1 DEF TypeOK, Names
<1>5. SpawnOK'
    BY <1>1, <1>3, NoJob DEF SpawnOK, Settles, Started
<1>6. QED
    BY <1>2, <1>3, <1>4, <1>5, RowsStep

\* A cancelled job that waits is over; one that runs is only asked to stop.
LEMMA CancelStep ==
    ASSUME ReviewedInv, NEW j \in Jobs, Cancel(j)
    PROVE  ReviewedInv'
<1>1. rows[j] \in Rows
    BY DEF ReviewedInv, TypeOK
<1>2. PICK s \in {"cancelled", "cancel_requested"} :
          /\ rows[j].state = "queued" => s = "cancelled"
          /\ rows[j].state # "queued" => s = "cancel_requested" /\ rows[j].state = "running"
          /\ rows' = [rows EXCEPT ![j].state = s]
    BY DEF Cancel, cancel, Set, InState, Kept
<1>3. PICK row : row = [rows[j] EXCEPT !.state = s]
    OBVIOUS
<1>4. row \in Rows /\ Settles(rows[j], row)
    BY <1>1, <1>2, <1>3 DEF Rows, States, ACTIVE, TERMINAL, Started, Settles
<1>5. rows' = [rows EXCEPT ![j] = row]
    BY <1>2, <1>3
<1>6. QED
    BY <1>4, <1>5, OneRowStep DEF Cancel, cancel, schedulerVars

\* A claimed job has no child yet.
LEMMA ClaimStep ==
    ASSUME ReviewedInv, NEW j \in Jobs, Claim(j)
    PROVE  ReviewedInv'
<1>1. TypeOK /\ JobsOK /\ SpawnOK
    BY DEF ReviewedInv
<1>2. /\ rows[j] \in Rows /\ rows[j].state = "queued"
      /\ rows' = [rows EXCEPT ![j].state = "running", ![j].token = TRUE]
      /\ spawning' = j /\ up' = up /\ active' = active
      /\ UNCHANGED <<receipts, revision, child, lock, log, reviews>>
    BY <1>1 DEF Claim, claim, InState, Kept, TypeOK
<1>3. PICK row : row = [rows[j] EXCEPT !.state = "running", !.token = TRUE]
    OBVIOUS
<1>4. row \in Rows /\ Settles(rows[j], row)
    BY <1>2, <1>3 DEF Rows, States, ACTIVE, Started, Settles
<1>5. rows' = [rows EXCEPT ![j] = row]
    BY <1>2, <1>3
<1>6. /\ rows' \in [Jobs -> Rows]
      /\ \A i \in Jobs : Settles(rows[i], rows'[i])
    BY <1>1, <1>4, <1>5 DEF TypeOK, Settles
<1>7. child[j].pc = "none"
    BY <1>1, <1>2 DEF JobsOK, JobOK
<1>8. SpawnOK'
    BY <1>1, <1>2, <1>3, <1>5, <1>7 DEF SpawnOK, Rows, TypeOK
<1>9. up' \in BOOLEAN /\ active' \in SUBSET Jobs /\ spawning' \in Names
    BY <1>1, <1>2 DEF TypeOK, Names
<1>10. QED
    BY <1>2, <1>6, <1>8, <1>9, RowsStep

\* A job whose child could not be started has attempted nothing.
LEMMA SpawnFailsStep ==
    ASSUME ReviewedInv, NEW j \in Jobs, SpawnFails(j)
    PROVE  ReviewedInv'
<1>1. Aborted(j, "failed") \in Rows /\ Settles(rows[j], Aborted(j, "failed"))
    BY AbortSettles DEF ReviewedInv
<1>2. FailedStart(j) \in Rows /\ Settles(rows[j], FailedStart(j))
    BY <1>1, ReleaseSettles DEF FailedStart, Settles
<1>3. QED
    BY <1>2, OneRowStep DEF SpawnFails

\* The scheduler settles a job whose child is gone, by what the child attempted.
LEMMA ReapStep ==
    ASSUME ReviewedInv, NEW j \in Jobs, Reap(j)
    PROVE  ReviewedInv'
<1>1. PICK s \in {"cancelled", "failed"} : abort(j, s)
    BY DEF Reap
<1>2. Aborted(j, s) \in Rows /\ Settles(rows[j], Aborted(j, s))
    BY AbortSettles DEF ReviewedInv
<1>3. QED
    BY <1>1, <1>2, OneRowStep DEF Reap, abort, schedulerVars

\* A settled row is given up by its owner.
LEMMA ReleaseStep ==
    ASSUME ReviewedInv, NEW j \in Jobs, Release(j)
    PROVE  ReviewedInv'
<1>1. rows[j] \in Rows
    BY DEF ReviewedInv, TypeOK
<1>2. PICK row : row = Released(rows[j])
    OBVIOUS
<1>3. row \in Rows /\ Settles(rows[j], row)
    BY <1>1, <1>2, ReleaseSettles DEF Settles
<1>4. rows' = [rows EXCEPT ![j] = row]
    BY <1>2 DEF Release, release
<1>5. QED
    BY <1>3, <1>4, OneRowStep DEF Release, release

\* A new scheduler settles everything its predecessor may have started.
LEMMA StartStep ==
    ASSUME ReviewedInv, Start
    PROVE  ReviewedInv'
<1>1. TypeOK /\ SpawnOK
    BY DEF ReviewedInv
<1>2. \A j \in Jobs : rows[j] \in Rows /\ rows'[j] = Recovered(rows[j])
    BY <1>1 DEF Start, recover, TypeOK
<1>3. \A j \in Jobs : rows'[j] \in Rows /\ Settles(rows[j], rows'[j])
    BY <1>2, RecoverSettles
<1>4. rows' \in [Jobs -> Rows]
    BY <1>3 DEF Start, recover
<1>5. /\ up' \in BOOLEAN /\ active' \in SUBSET Jobs /\ spawning' \in Names
      /\ SpawnOK'
    BY <1>1, <1>3 DEF Start, TypeOK, SpawnOK, Settles, Started
<1>6. QED
    BY <1>3, <1>4, <1>5, RowsStep DEF Start, recover

\* A killed scheduler forgets its children, which go on.
LEMMA CrashStep ==
    ASSUME ReviewedInv, Crash
    PROVE  ReviewedInv'
<1>1. TypeOK
    BY DEF ReviewedInv
<1>2. /\ rows' = rows /\ up' = FALSE /\ active' = {} /\ spawning' = Untouched
      /\ UNCHANGED <<receipts, revision, child, lock, log, reviews>>
    BY DEF Crash, storeVars
<1>3. rows' \in [Jobs -> Rows] /\ \A j \in Jobs : Settles(rows[j], rows'[j])
    BY <1>1, <1>2 DEF TypeOK, Settles
<1>4. SpawnOK'
    BY <1>2, NoJob DEF SpawnOK
<1>5. up' \in BOOLEAN /\ active' \in SUBSET Jobs /\ spawning' \in Names
    BY <1>2 DEF Names
<1>6. QED
    BY <1>2, <1>3, <1>4, <1>5, RowsStep

\* Old rows are deleted; what they said of the appliance stays true.
LEMMA CleanupStep ==
    ASSUME ReviewedInv, Cleanup
    PROVE  ReviewedInv'
<1>1. TypeOK /\ SpawnOK
    BY DEF ReviewedInv
<1>2. PICK gone : rows' = Without(gone)
    BY DEF Cleanup, cleanup
<1>3. rows' \in [Jobs -> Rows] /\ \A j \in Jobs : Settles(rows[j], rows'[j])
    BY <1>1, <1>2, WithoutSettles
<1>4. /\ up' \in BOOLEAN /\ active' \in SUBSET Jobs /\ spawning' \in Names
      /\ SpawnOK'
    BY <1>1, <1>3 DEF Cleanup, schedulerVars, TypeOK, SpawnOK, Settles, Started
<1>5. QED
    BY <1>3, <1>4, RowsStep DEF Cleanup, cleanup

(***************************************************************************)
(* The steps of a child.                                                   *)
(***************************************************************************)
\* The fields of a child process have their types.
LEMMA ProcessFields ==
    ASSUME NEW c \in Processes
    PROVE  /\ c.pc \in {"none"} \cup Working \cup Ended
           /\ c.rev \in Names /\ c.seen \in Nat \cup {Unseen}
BY DEF Processes

\* What is left of a child that ends.
LEMMA LeftProcess ==
    ASSUME TypeOK, NEW j \in Jobs, NEW pc \in Ended
    PROVE  /\ Left(j, pc) \in Processes
           /\ Left(j, pc).pc = pc
           /\ Left(j, pc).seen = child[j].seen
           /\ Left(j, pc).rev \in {child[j].rev, Untouched}
           /\ rows[j].state = "succeeded" => Left(j, pc).rev = child[j].rev
<1>1. child[j] \in Processes
    BY DEF TypeOK
<1>2. PICK rev \in Names :
          /\ rev \in {child[j].rev, Untouched}
          /\ rows[j].state = "succeeded" => rev = child[j].rev
          /\ Left(j, pc) = [child[j] EXCEPT !.pc = pc, !.rev = rev]
    BY <1>1 DEF Left, Processes, Names
<1>3. QED
    BY <1>1, <1>2 DEF Processes

\* A child that ends agrees with its row if that is not a running success.
LEMMA EndedOK ==
    ASSUME NEW row \in Rows, NEW c, NEW d, NEW sent \in BOOLEAN, JobOK(row, c, sent),
           c.pc # "none", d.pc \in Ended, d.seen = c.seen, row.state = "succeeded" => d.pc \in {"recording", "exited"}
    PROVE  JobOK(row, d, sent)
BY DEF JobOK, Ended, Attempting, Early

\* A child that dies or stops leaves the lock and, of what it loaded, only a result.
LEMMA DieStep ==
    ASSUME ReviewedInv, NEW j \in Jobs, NEW pc \in {"exited", "failing"},
           child[j].pc \in Working \/ (child[j].pc \in {"failing", "recording"} /\ pc = "exited"),
           Leave(j, pc), Unlock(j), UNCHANGED <<storeVars, schedulerVars, log, reviews>>
    PROVE  ReviewedInv'
<1>1. TypeOK /\ JobsOK /\ ResultsOK
    BY DEF ReviewedInv
<1>2. rows' = rows /\ receipts' = receipts /\ revision' = revision
    BY DEF storeVars
<1>3. pc \in Ended
    BY DEF Ended
<1>4. /\ child' \in [Jobs -> Processes]
      /\ child'[j] = Left(j, pc)
      /\ \A i \in Jobs \ {j} : child'[i] = child[i]
    BY <1>1, <1>3, LeftProcess DEF Leave, TypeOK
<1>5. /\ child'[j].pc = pc
      /\ child'[j].seen = child[j].seen
      /\ child'[j].rev \in {child[j].rev, Untouched}
      /\ rows[j].state = "succeeded" => child'[j].rev = child[j].rev
    BY <1>1, <1>3, <1>4, LeftProcess
<1>6. child[j].pc # "none" /\ child'[j].pc # "none"
    BY <1>5 DEF Working, Inside
<1>7. JobOK(rows[j], child'[j], IsSent(j))
    <2>1. rows[j] \in Rows /\ IsSent(j) \in BOOLEAN /\ JobOK(rows[j], child[j], IsSent(j))
        BY <1>1 DEF TypeOK, IsSent, JobsOK
    <2>2. rows[j].state = "succeeded" => child'[j].pc \in {"recording", "exited"}
        BY <1>5, <2>1 DEF JobOK, Working, Inside
    <2>3. QED
        BY <1>3, <1>5, <1>6, <2>1, <2>2, EndedOK
<1>8. rows[j].state = "succeeded" /\ revision = child'[j].rev => child'[j].seen = Len(log)
    BY <1>1, <1>5 DEF ResultsOK
<1>9. /\ child'[j].pc \in Ended
      /\ child'[j].pc \notin Early /\ child'[j].pc \notin Inside
      /\ child'[j].pc \notin {"sending", "sent"}
    BY <1>5 DEF Ended, Early, Inside
<1>10. lock' = IF lock = j THEN Untouched ELSE lock
    BY DEF Unlock
<1>11. rows' \in [Jobs -> Rows]
    BY <1>1, <1>2 DEF TypeOK
<1>12. QED
    BY <1>2, <1>4, <1>5, <1>6, <1>7, <1>8, <1>9, <1>10, <1>11, ChildStep

\* A child that failed settles its own row, by what it attempted.
LEMMA FailStep ==
    ASSUME ReviewedInv, NEW j \in Jobs, Fail(j)
    PROVE  ReviewedInv'
<1>1. TypeOK /\ JobsOK /\ LockOK /\ ResultsOK
    BY DEF ReviewedInv
<1>2. PICK s \in {"failed", "cancelled"} : abort(j, s)
    BY DEF Fail
<1>3. /\ child[j].pc = "failing"
      /\ child' = [child EXCEPT ![j].pc = "exited"]
      /\ rows' = [rows EXCEPT ![j] = Aborted(j, s)]
      /\ lock' = lock
      /\ UNCHANGED <<receipts, revision, schedulerVars, log, reviews>>
    BY <1>2 DEF Fail, At, Goto, abort
<1>4. Aborted(j, s) \in Rows /\ Settles(rows[j], Aborted(j, s))
    BY <1>1, AbortSettles
<1>5. /\ rows' \in [Jobs -> Rows] /\ rows'[j] \in Rows
      /\ Settles(rows[j], rows'[j])
      /\ \A i \in Jobs \ {j} : rows'[i] = rows[i]
    BY <1>1, <1>3, <1>4 DEF TypeOK
<1>6. /\ child' \in [Jobs -> Processes]
      /\ child'[j].pc = "exited" /\ child'[j].rev = child[j].rev /\ child'[j].seen = child[j].seen
      /\ \A i \in Jobs \ {j} : child'[i] = child[i]
    BY <1>1, <1>3 DEF TypeOK, Processes, Ended
<1>7. JobOK(rows'[j], child'[j], IsSent(j))
    <2>1. rows[j] \in Rows /\ IsSent(j) \in BOOLEAN /\ JobOK(rows[j], child[j], IsSent(j))
        BY <1>1 DEF TypeOK, IsSent, JobsOK
    <2>2. JobOK(rows'[j], child[j], IsSent(j))
        BY <1>5, <2>1, SettleOK
    <2>3. QED
        BY <1>3, <1>6, <2>2 DEF JobOK, Attempting, Early
<1>8. rows'[j].state = "succeeded" /\ revision = child'[j].rev => child'[j].seen = Len(log)
    BY <1>1, <1>5, <1>6 DEF ResultsOK, Settles
<1>9. rows'[j].review = rows[j].review
    BY <1>5 DEF Settles
<1>10. lock' = IF lock = j THEN Untouched ELSE lock
    BY <1>1, <1>3 DEF LockOK, Inside
<1>11. "exited" \in Ended /\ "exited" \notin Early /\ "exited" \notin Inside
    BY DEF Ended, Early, Inside
<1>12. QED
    BY <1>3, <1>5, <1>6, <1>7, <1>8, <1>9, <1>10, <1>11, ChildStep

\* A child begins with a clean intent, having sent nothing.
LEMMA BeginStep ==
    ASSUME ReviewedInv, NEW j \in Jobs, Begin(j)
    PROVE  ReviewedInv'
<1>1. TypeOK /\ JobsOK /\ LockOK /\ ResultsOK
    BY DEF ReviewedInv
<1>2. /\ child[j].pc = "starting" /\ rows[j].state = "running"
      /\ child' = [child EXCEPT ![j].pc = "waiting"]
      /\ rows' = [rows EXCEPT ![j].attempted = FALSE]
      /\ lock' = lock
      /\ UNCHANGED <<receipts, revision, schedulerVars, log, reviews>>
    BY DEF Begin, At, Goto, progress, Running
<1>3. /\ rows' \in [Jobs -> Rows]
      /\ rows'[j].state = "running" /\ rows'[j].review = rows[j].review
      /\ \A i \in Jobs \ {j} : rows'[i] = rows[i]
    BY <1>1, <1>2 DEF TypeOK, Rows
<1>4. /\ child' \in [Jobs -> Processes]
      /\ child'[j].pc = "waiting" /\ child'[j].rev = child[j].rev /\ child'[j].seen = child[j].seen
      /\ \A i \in Jobs \ {j} : child'[i] = child[i]
    BY <1>1, <1>2 DEF TypeOK, Processes, Working
<1>5. ~IsSent(j)
    BY <1>1, <1>2 DEF JobsOK, JobOK, Early
<1>6. JobOK(rows'[j], child'[j], IsSent(j))
    BY <1>3, <1>4, <1>5 DEF JobOK, Attempting
<1>7. lock' = IF lock = j THEN Untouched ELSE lock
    BY <1>1, <1>2 DEF LockOK, Inside
<1>8. /\ "waiting" \notin Inside /\ "starting" \notin Ended /\ "starting" \in Early
      /\ "waiting" \notin {"sending", "sent"}
    BY DEF Inside, Ended, Early
<1>9. /\ child[j].pc # "none" /\ child'[j].pc # "none"
      /\ child[j].pc \in Ended => child'[j].pc \in Ended
      /\ child'[j].pc \in Early => child[j].pc \in Early
      /\ child'[j].pc \notin {"sending", "sent"} /\ child'[j].pc \notin Inside
      /\ rows'[j].state # "succeeded"
      /\ child'[j].rev = child[j].rev /\ child'[j].seen = child[j].seen
    BY <1>2, <1>3, <1>4, <1>8
<1>10. lock' = IF child'[j].pc \in Inside THEN j ELSE IF lock = j THEN Untouched ELSE lock
    BY <1>7, <1>9
<1>11. \A i \in Jobs \ {j} : rows'[i] = rows[i] /\ child'[i] = child[i]
    BY <1>3, <1>4
<1>12. rows' \in [Jobs -> Rows] /\ rows'[j].review = rows[j].review /\ child' \in [Jobs -> Processes]
    BY <1>3, <1>4
<1>13. UNCHANGED <<receipts, revision, schedulerVars, log, reviews>>
    BY <1>2
<1>14. QED
    BY <1>6, <1>9, <1>10, <1>11, <1>12, <1>13, ChildStep

\* A child enters the free lock with a current confirmation and loads the revision.
LEMMA EnterStep ==
    ASSUME ReviewedInv, NEW j \in Jobs, Enter(j)
    PROVE  ReviewedInv'
<1>1. TypeOK /\ JobsOK /\ NamesOK
    BY DEF ReviewedInv
<1>2. /\ child[j].pc = "waiting" /\ lock = Untouched /\ Current(j) /\ lock' = j
      /\ child' = [child EXCEPT ![j].pc = "reading", ![j].rev = revision]
      /\ rows' = rows
      /\ UNCHANGED <<receipts, revision, schedulerVars, log, reviews>>
    BY DEF Enter, At, storeVars
<1>3. /\ child' \in [Jobs -> Processes]
      /\ child'[j].pc = "reading" /\ child'[j].rev = revision /\ child'[j].seen = child[j].seen
      /\ \A i \in Jobs \ {j} : child'[i] = child[i]
    BY <1>1, <1>2 DEF TypeOK, Processes, Working, Inside
<1>4. ~IsSent(j) /\ rows[j].state \notin {"absent", "queued", "succeeded"}
    BY <1>1, <1>2 DEF JobsOK, JobOK, Early
<1>5. JobOK(rows'[j], child'[j], IsSent(j))
    BY <1>2, <1>3, <1>4 DEF JobOK, Attempting
<1>6. /\ "reading" \in Inside /\ "waiting" \notin Ended /\ "waiting" \in Early
      /\ "reading" \notin {"sending", "sent"}
    BY DEF Inside, Ended, Early
<1>7. rows' \in [Jobs -> Rows]
    BY <1>1, <1>2 DEF TypeOK
<1>8. QED
    BY <1>2, <1>3, <1>4, <1>5, <1>6, <1>7, ChildStep

\* A child reads the state of the appliance inside the lock.
LEMMA ReadStep ==
    ASSUME ReviewedInv, NEW j \in Jobs, Read(j)
    PROVE  ReviewedInv'
<1>1. TypeOK /\ JobsOK /\ LockOK
    BY DEF ReviewedInv
<1>2. /\ child[j].pc = "reading" /\ rows[j].state = "running"
      /\ child' = [child EXCEPT ![j].pc = "moving", ![j].seen = Len(log)]
      /\ rows' = rows /\ lock' = lock
      /\ UNCHANGED <<receipts, revision, schedulerVars, log, reviews>>
    BY DEF Read, At, Running, storeVars
<1>3. Len(log) \in Nat
    BY <1>1 DEF TypeOK
<1>4. /\ child' \in [Jobs -> Processes]
      /\ child'[j].pc = "moving" /\ child'[j].rev = child[j].rev
      /\ \A i \in Jobs \ {j} : child'[i] = child[i]
    BY <1>1, <1>2, <1>3 DEF TypeOK, Processes, Working, Inside
<1>5. JobOK(rows'[j], child'[j], IsSent(j))
    <2>1. ~IsSent(j)
        BY <1>1, <1>2 DEF JobsOK, JobOK, Early
    <2>2. QED
        BY <1>2, <1>4, <2>1 DEF JobOK, Attempting
<1>6. /\ "reading" \in Inside /\ "moving" \in Inside /\ "reading" \notin Ended /\ "moving" \notin Early
      /\ "moving" \notin {"sending", "sent"}
    BY DEF Inside, Ended, Early
<1>7. lock = j
    BY <1>1, <1>2, <1>6 DEF LockOK
<1>8. rows' \in [Jobs -> Rows]
    BY <1>1, <1>2 DEF TypeOK
<1>9. QED
    BY <1>2, <1>4, <1>5, <1>6, <1>7, <1>8, ChildStep

\* The writes of progress before a change and after its answer.
LEMMA IntendStep ==
    ASSUME ReviewedInv, NEW j \in Jobs, NEW pc \in {"moving", "intent"},
           child[j].pc \in {"moving", "sent"}, progress(j, TRUE), Goto(j, pc),
           UNCHANGED <<schedulerVars, lock, log, reviews>>
    PROVE  ReviewedInv'
<1>1. TypeOK /\ JobsOK /\ LockOK
    BY DEF ReviewedInv
<1>2. /\ rows[j].state = "running"
      /\ child' = [child EXCEPT ![j].pc = pc]
      /\ rows' = [rows EXCEPT ![j].attempted = TRUE]
      /\ lock' = lock
      /\ UNCHANGED <<receipts, revision, schedulerVars, log, reviews>>
    BY DEF Goto, progress, Running
<1>3. /\ rows' \in [Jobs -> Rows]
      /\ rows'[j].state = "running" /\ rows'[j].attempted /\ rows'[j].review = rows[j].review
      /\ \A i \in Jobs \ {j} : rows'[i] = rows[i]
    BY <1>1, <1>2 DEF TypeOK, Rows
<1>4. /\ child' \in [Jobs -> Processes]
      /\ child'[j].pc = pc /\ child'[j].rev = child[j].rev /\ child'[j].seen = child[j].seen
      /\ \A i \in Jobs \ {j} : child'[i] = child[i]
    BY <1>1, <1>2 DEF TypeOK, Processes, Working, Inside
<1>5. JobOK(rows'[j], child'[j], IsSent(j))
    BY <1>3, <1>4 DEF JobOK, Early, Started
<1>6. /\ child[j].pc \in Inside /\ pc \in Inside /\ child[j].pc \notin Ended /\ pc \notin Early
      /\ pc \notin {"sending", "sent"} /\ child[j].pc # "none" /\ pc # "none"
    BY DEF Inside, Ended, Early
<1>7. lock = j
    BY <1>1, <1>6 DEF LockOK
<1>8. /\ child[j].pc # "none" /\ child'[j].pc # "none"
      /\ child[j].pc \notin Ended /\ child'[j].pc \notin Early
      /\ child'[j].pc \notin {"sending", "sent"}
      /\ child[j].pc \in Inside /\ child'[j].pc \in Inside
      /\ rows'[j].state # "succeeded"
    BY <1>3, <1>4, <1>6
<1>9. lock' = IF child'[j].pc \in Inside THEN j ELSE IF lock = j THEN Untouched ELSE lock
    BY <1>2, <1>7, <1>8
<1>10. \A i \in Jobs \ {j} : rows'[i] = rows[i] /\ child'[i] = child[i]
    BY <1>3, <1>4
<1>11. QED
    BY <1>2, <1>3, <1>4, <1>5, <1>8, <1>9, <1>10, ChildStep

\* A result is committed inside the lock, with the state read back there.
LEMMA FinishStep ==
    ASSUME ReviewedInv, NEW j \in Jobs, Finish(j)
    PROVE  ReviewedInv'
<1>1. TypeOK /\ JobsOK /\ LockOK
    BY DEF ReviewedInv
<1>2. /\ child[j].pc = "moving" /\ rows[j].state = "running"
      /\ child' = [child EXCEPT ![j].pc = "recording", ![j].seen = Len(log)]
      /\ rows' = [rows EXCEPT ![j].state = "succeeded"]
      /\ lock' = IF lock = j THEN Untouched ELSE lock
      /\ UNCHANGED <<receipts, revision, schedulerVars, log, reviews>>
    BY DEF Finish, At, finish, Set, Running, Unlock
<1>3. /\ rows' \in [Jobs -> Rows]
      /\ rows'[j].state = "succeeded"
      /\ rows'[j].attempted = rows[j].attempted /\ rows'[j].review = rows[j].review
      /\ \A i \in Jobs \ {j} : rows'[i] = rows[i]
    BY <1>1, <1>2 DEF TypeOK, Rows, States, TERMINAL
<1>4. Len(log) \in Nat
    BY <1>1 DEF TypeOK
<1>5. /\ child' \in [Jobs -> Processes]
      /\ child'[j].pc = "recording" /\ child'[j].rev = child[j].rev /\ child'[j].seen = Len(log)
      /\ \A i \in Jobs \ {j} : child'[i] = child[i]
    BY <1>1, <1>2, <1>4 DEF TypeOK, Processes, Ended
<1>6. JobOK(rows'[j], child'[j], IsSent(j))
    <2>1. JobOK(rows[j], child[j], IsSent(j))
        BY <1>1 DEF JobsOK
    <2>2. child'[j].seen # Unseen
        BY <1>4, <1>5 DEF Unseen
    <2>3. QED
        BY <1>2, <1>3, <1>5, <2>1, <2>2 DEF JobOK, Attempting, Early
<1>7. /\ "moving" \in Inside /\ "recording" \in Ended /\ "recording" \notin Early
      /\ "recording" \notin Inside /\ "recording" \notin {"sending", "sent"}
    BY DEF Inside, Ended, Early
<1>8. QED
    BY <1>2, <1>3, <1>5, <1>6, <1>7, ChildStep

\* The child of a claimed job starts.
LEMMA SpawnStep ==
    ASSUME ReviewedInv, NEW j \in Jobs, Spawn(j)
    PROVE  ReviewedInv'
<1>1. /\ TypeOK /\ JobsOK /\ LockOK /\ SpawnOK /\ NamesOK /\ ResultsOK /\ ReviewedOK /\ ReceiptsOK
      /\ OneJobOK /\ RevisionCertifiesState
    BY DEF ReviewedInv
<1>2. /\ spawning = j /\ spawning' = Untouched /\ active' = active \cup {j} /\ up' = up
      /\ child' = [child EXCEPT ![j].pc = "starting"]
      /\ rows' = rows /\ receipts' = receipts /\ revision' = revision
      /\ lock' = lock /\ log' = log /\ reviews' = reviews
    BY DEF Spawn, storeVars
<1>3. child[j].pc = "none" /\ rows[j].state \notin {"absent", "queued"}
    BY <1>1, <1>2 DEF SpawnOK
<1>4. /\ child' \in [Jobs -> Processes]
      /\ child'[j].pc = "starting" /\ child'[j].rev = child[j].rev /\ child'[j].seen = child[j].seen
      /\ \A i \in Jobs \ {j} : child'[i] = child[i]
    BY <1>1, <1>2 DEF TypeOK, Processes, Working
<1>5. \A i \in Jobs : /\ child'[i].rev = child[i].rev /\ child'[i].seen = child[i].seen
                      /\ child[i].pc \in Ended <=> child'[i].pc \in Ended
                      /\ child[i].pc \in Early <=> child'[i].pc \in Early
                      /\ child[i].pc \in Inside <=> child'[i].pc \in Inside
    BY <1>3, <1>4 DEF Ended, Early, Inside
<1>6. TypeOK'
    BY <1>1, <1>2, <1>4 DEF TypeOK, Names
<1>7. JobsOK'
    <2>1. SUFFICES ASSUME NEW i \in Jobs
                   PROVE  JobOK(rows[i], child'[i], IsSent(i)')
        BY <1>2 DEF JobsOK
    <2>2. IsSent(i)' = IsSent(i) /\ JobOK(rows[i], child[i], IsSent(i))
        BY <1>1, <1>2 DEF IsSent, JobsOK
    <2>3. CASE i = j
        BY <1>3, <1>4, <2>2, <2>3 DEF JobOK, Early, Attempting
    <2>4. CASE i # j
        BY <1>4, <2>2, <2>4
    <2>5. QED
        BY <2>3, <2>4
<1>8. LockOK'
    BY <1>1, <1>2, <1>5 DEF LockOK
<1>9. SpawnOK'
    BY <1>1, <1>2, <1>4, NoJob DEF SpawnOK, TypeOK
<1>10. NamesOK'
    <2>1. revision \in Jobs => child'[revision].pc \notin Early
        BY <1>1, <1>5 DEF NamesOK
    <2>2. \A i \in Jobs : child'[i].pc \in {"sending", "sent"} => revision = i
        BY <1>1, <1>4 DEF NamesOK
    <2>3. QED
        BY <1>1, <1>2, <1>5, <2>1, <2>2 DEF NamesOK
<1>11. ResultsOK'
    BY <1>1, <1>2, <1>5 DEF ResultsOK
<1>12. ReviewedOK'
    BY <1>1, <1>2, <1>5 DEF ReviewedOK, BasisOK
<1>13. ReceiptsOK'
    BY <1>1, <1>2 DEF ReceiptsOK, Valid
<1>14. OneJobOK'
    BY <1>1, <1>2, <1>5 DEF OneJobOK, Entered, Valid
<1>15. RevisionCertifiesState'
    BY <1>1, <1>2 DEF RevisionCertifiesState
<1>16. QED
    BY <1>6, <1>7, <1>8, <1>9, <1>10, <1>11, <1>12, <1>13, <1>14, <1>15 DEF ReviewedInv

\* The name of a job inside the lock was loaded by nobody else, so no result and
\* no confirmation speaks of it.
LEMMA FreshName ==
    ASSUME ReviewedInv, NEW j \in Jobs, child[j].pc \in Inside
    PROVE  /\ \A i \in Jobs : rows[i].state = "succeeded" => child[i].rev # j
           /\ \A i \in Jobs \ {j} : child[i].rev # j
           /\ \A r \in Reviews \ Forms : reviews[r].issued => reviews[r].rev # j
<1>1. child[j].pc \notin Ended
    BY DEF Inside, Ended
<1>2. \A i \in Jobs \ {j} : child[i].rev # j
    BY <1>1 DEF ReviewedInv, NamesOK
<1>3. rows[j].state # "succeeded"
    BY <1>1 DEF ReviewedInv, JobsOK, JobOK, Ended
<1>4. \A r \in Reviews \ Forms : reviews[r].issued => reviews[r].rev # j
    BY <1>1 DEF ReviewedInv, NamesOK
<1>5. QED
    BY <1>2, <1>3, <1>4

\* A change is announced inside the lock, under the name of its job.
LEMMA AdvanceStep ==
    ASSUME ReviewedInv, NEW j \in Jobs, Advance(j)
    PROVE  ReviewedInv'
<1>1. /\ TypeOK /\ JobsOK /\ LockOK /\ SpawnOK /\ NamesOK /\ ResultsOK /\ ReviewedOK /\ ReceiptsOK
      /\ OneJobOK /\ RevisionCertifiesState
    BY DEF ReviewedInv
<1>2. /\ child[j].pc = "intent" /\ revision' = j
      /\ child' = [child EXCEPT ![j].pc = "sending", ![j].rev = j]
      /\ rows' = rows /\ receipts' = receipts
      /\ spawning' = spawning /\ active' = active /\ up' = up
      /\ lock' = lock /\ log' = log /\ reviews' = reviews
    BY DEF Advance, At, advance_mutation_revision, schedulerVars
<1>3. /\ child' \in [Jobs -> Processes]
      /\ child'[j].pc = "sending" /\ child'[j].rev = j /\ child'[j].seen = child[j].seen
      /\ \A i \in Jobs \ {j} : child'[i] = child[i]
    BY <1>1, <1>2 DEF TypeOK, Processes, Working, Inside, Names
<1>4. \A i \in Jobs : /\ child'[i].seen = child[i].seen
                      /\ child[i].pc \in Ended <=> child'[i].pc \in Ended
                      /\ child[i].pc \in Early <=> child'[i].pc \in Early
                      /\ child[i].pc \in Inside <=> child'[i].pc \in Inside
    BY <1>2, <1>3 DEF Ended, Early, Inside
<1>5. child[j].pc \in Inside /\ lock = j /\ \A i \in Jobs : child[i].pc \in Inside => i = j
    BY <1>1, <1>2 DEF LockOK, Inside
<1>6. /\ \A i \in Jobs : rows[i].state = "succeeded" => child[i].rev # j
      /\ \A i \in Jobs \ {j} : child[i].rev # j
      /\ \A r \in Reviews \ Forms : reviews[r].issued => reviews[r].rev # j
    BY <1>5, FreshName
<1>7. TypeOK'
    BY <1>1, <1>2, <1>3 DEF TypeOK, Names
<1>8. JobsOK'
    <2>1. SUFFICES ASSUME NEW i \in Jobs
                   PROVE  JobOK(rows[i], child'[i], IsSent(i)')
        BY <1>2 DEF JobsOK
    <2>2. IsSent(i)' = IsSent(i) /\ JobOK(rows[i], child[i], IsSent(i))
        BY <1>1, <1>2 DEF IsSent, JobsOK
    <2>3. CASE i = j
        BY <1>2, <1>3, <2>2, <2>3 DEF JobOK, Early, Attempting
    <2>4. CASE i # j
        BY <1>3, <2>2, <2>4
    <2>5. QED
        BY <2>3, <2>4
<1>9. LockOK'
    BY <1>1, <1>2, <1>4 DEF LockOK
<1>10. SpawnOK'
    BY <1>1, <1>2, <1>3 DEF SpawnOK, TypeOK
<1>11. NamesOK'
    <2>1. child'[j].pc \notin Early
        BY <1>3 DEF Early
    <2>2. \A i \in Jobs : child'[i].pc \in {"sending", "sent"} => i = j
        BY <1>4, <1>5 DEF Inside
    <2>3. \A i \in Jobs : child'[i].rev \in Jobs \ {i} => child'[child'[i].rev].pc \in Ended
        BY <1>1, <1>3, <1>4 DEF NamesOK
    <2>4. QED
        BY <1>1, <1>2, <1>4, <2>1, <2>2, <2>3 DEF NamesOK
<1>12. ResultsOK'
    BY <1>1, <1>2, <1>3, <1>6, JobsOK DEF ResultsOK, JobsOK, JobOK
<1>13. ReviewedOK'
    <2>1. SUFFICES ASSUME rows[j].review \in Reviews \ Forms
                   PROVE  \A i \in reviews[rows[j].review].at + 1 .. Len(log) : log[i] = j
        BY <1>2, <1>4, <1>5 DEF ReviewedOK, BasisOK
    <2>2. PICK r \in Reviews \ Forms : r = rows[j].review
        BY <2>1
    <2>3. reviews[r].issued /\ BasisOK(j, r)
        BY <1>1, <1>5, <2>2 DEF ReviewedOK, ReceiptsOK
    <2>4. revision = reviews[r].rev => reviews[r].at = Len(log)
        BY <1>1, <2>3 DEF RevisionCertifiesState
    <2>5. Len(log) \in Nat
        BY <1>1 DEF TypeOK
    <2>6. QED
        BY <2>2, <2>3, <2>4, <2>5 DEF BasisOK
<1>14. ReceiptsOK'
    BY <1>1, <1>2 DEF ReceiptsOK, Valid
<1>15. OneJobOK'
    <2>1. \A i \in Jobs : Entered(i)' <=> Entered(i)
        BY <1>4 DEF Entered
    <2>2. \A i \in Jobs : rows'[i] = rows[i] /\ (Valid(rows[i].review)' <=> Valid(rows[i].review))
        BY <1>2 DEF Valid
    <2>3. QED
        BY <1>1, <2>1, <2>2 DEF OneJobOK
<1>16. RevisionCertifiesState'
    BY <1>2, <1>6 DEF RevisionCertifiesState
<1>17. QED
    BY <1>7, <1>8, <1>9, <1>10, <1>11, <1>12, <1>13, <1>14, <1>15, <1>16 DEF ReviewedInv

\* The request reaches the appliance; the child waits for its end or is gone.
LEMMA SendStep ==
    ASSUME ReviewedInv, NEW j \in Jobs, Send(j)
    PROVE  ReviewedInv'
<1>1. /\ TypeOK /\ JobsOK /\ LockOK /\ SpawnOK /\ NamesOK /\ ResultsOK /\ ReviewedOK /\ ReceiptsOK
      /\ OneJobOK /\ RevisionCertifiesState
    BY DEF ReviewedInv
<1>2. /\ child[j].pc = "sending" /\ log' = Append(log, j)
      /\ rows' = rows /\ receipts' = receipts /\ revision' = revision
      /\ spawning' = spawning /\ active' = active /\ up' = up /\ reviews' = reviews
    BY DEF Send, At, storeVars, schedulerVars
<1>3. child[j].pc \in Inside /\ lock = j /\ \A i \in Jobs : child[i].pc \in Inside => i = j
    BY <1>1, <1>2 DEF LockOK, Inside
<1>4. revision = j
    BY <1>1, <1>2 DEF NamesOK
<1>5. PICK c \in Processes :
          /\ child' = [child EXCEPT ![j] = c]
          /\ c.pc \in {"sent", "failing"} /\ c.rev \in {child[j].rev, Untouched} /\ c.seen = child[j].seen
          /\ lock' = IF c.pc = "sent" THEN j ELSE Untouched
    <2>1. CASE Goto(j, "sent") /\ UNCHANGED lock
        <3>1. PICK c : c = [child[j] EXCEPT !.pc = "sent"]
            OBVIOUS
        <3>2. c \in Processes /\ c.pc = "sent" /\ c.rev = child[j].rev /\ c.seen = child[j].seen
            BY <1>1, <3>1 DEF TypeOK, Processes, Working, Inside
        <3>3. child' = [child EXCEPT ![j] = c]
            BY <2>1, <3>1 DEF Goto
        <3>4. QED
            BY <1>3, <2>1, <3>2, <3>3
    <2>2. CASE Leave(j, "failing") /\ Unlock(j)
        <3>1. "failing" \in Ended
            BY DEF Ended
        <3>2. QED
            BY <1>1, <1>3, <2>2, <3>1, LeftProcess DEF Leave, Unlock
    <2>3. QED
        BY <2>1, <2>2 DEF Send
<1>6. /\ child' \in [Jobs -> Processes] /\ child'[j] = c
      /\ \A i \in Jobs \ {j} : child'[i] = child[i]
    BY <1>1, <1>5 DEF TypeOK
<1>7. \A i \in Jobs : /\ child'[i].seen = child[i].seen
                      /\ child'[i].rev \in {child[i].rev, Untouched}
                      /\ child[i].pc \in Ended => child'[i].pc \in Ended
                      /\ child'[i].pc \in Early => child[i].pc \in Early
                      /\ child'[i].pc \in Inside => child[i].pc \in Inside
    BY <1>3, <1>5, <1>6, <1>2 DEF Ended, Early, Inside
<1>8. /\ \A i \in Jobs : rows[i].state = "succeeded" => child[i].rev # j
      /\ \A r \in Reviews \ Forms : reviews[r].issued => reviews[r].rev # j
    BY <1>3, FreshName
<1>9. /\ log' \in Seq(Jobs) /\ Len(log') = Len(log) + 1 /\ Len(log) \in Nat
      /\ log'[Len(log) + 1] = j
      /\ \A i \in 1 .. Len(log) : log'[i] = log[i]
      /\ DOMAIN log = 1 .. Len(log) /\ DOMAIN log' = 1 .. Len(log) + 1
    BY <1>1, <1>2 DEF TypeOK
<1>10. TypeOK'
    BY <1>1, <1>2, <1>5, <1>6, <1>9 DEF TypeOK, Names
<1>11. JobsOK'
    <2>1. SUFFICES ASSUME NEW i \in Jobs
                   PROVE  JobOK(rows[i], child'[i], IsSent(i)')
        BY <1>2 DEF JobsOK
    <2>2. JobOK(rows[i], child[i], IsSent(i))
        BY <1>1 DEF JobsOK
    <2>3. CASE i = j
        BY <1>2, <1>5, <1>6, <2>2, <2>3 DEF JobOK, Early, Attempting
    <2>4. CASE i # j
        <3>1. IsSent(i)' = IsSent(i)
            BY <1>9, <2>4 DEF IsSent
        <3>2. QED
            BY <1>6, <2>2, <2>4, <3>1
    <2>5. QED
        BY <2>3, <2>4
<1>12. LockOK'
    BY <1>3, <1>5, <1>6, NoJob DEF LockOK, Inside
<1>13. SpawnOK'
    BY <1>1, <1>2, <1>5, <1>6 DEF SpawnOK, TypeOK
<1>14. NamesOK'
    <2>1. child'[j].pc \notin Early
        BY <1>5, <1>6 DEF Early
    <2>2. \A i \in Jobs : child'[i].pc \in {"sending", "sent"} => i = j
        BY <1>3, <1>7 DEF Inside
    <2>3. \A i \in Jobs : child'[i].rev \in Jobs \ {i} => child'[child'[i].rev].pc \in Ended
        BY <1>1, <1>7, NoJob DEF NamesOK
    <2>4. QED
        BY <1>1, <1>2, <1>4, <1>7, <2>1, <2>2, <2>3 DEF NamesOK
<1>15. ResultsOK'
    BY <1>2, <1>4, <1>7, <1>8, NoJob DEF ResultsOK
<1>16. ReviewedOK'
    <2>1. SUFFICES ASSUME rows[j].review \in Reviews \ Forms
                   PROVE  \A i \in reviews[rows[j].review].at + 1 .. Len(log') : log'[i] = j
        BY <1>2, <1>3, <1>4, <1>7 DEF ReviewedOK, BasisOK
    <2>2. PICK r \in Reviews \ Forms : r = rows[j].review
        BY <2>1
    <2>3. reviews[r].issued /\ BasisOK(j, r)
        BY <1>1, <1>3, <2>2 DEF ReviewedOK, ReceiptsOK
    <2>4. \A i \in reviews[r].at + 1 .. Len(log) : log[i] = j
        BY <1>4, <1>8, <2>3 DEF BasisOK
    <2>5. reviews[r].at \in Nat
        BY <1>1 DEF TypeOK, Confirmations
    <2>6. QED
        BY <1>9, <2>2, <2>4, <2>5
<1>17. ReceiptsOK'
    BY <1>1, <1>2 DEF ReceiptsOK, Valid
<1>18. OneJobOK'
    BY <1>1, <1>2, <1>7 DEF OneJobOK, Entered, Valid
<1>19. RevisionCertifiesState'
    BY <1>2, <1>4, <1>8 DEF RevisionCertifiesState
<1>20. QED
    BY <1>10, <1>11, <1>12, <1>13, <1>14, <1>15, <1>16, <1>17, <1>18, <1>19 DEF ReviewedInv

\* Every child the scheduler knows is ended, and its row settled.
LEMMA CloseStep ==
    ASSUME ReviewedInv, Close
    PROVE  ReviewedInv'
<1>1. /\ TypeOK /\ JobsOK /\ LockOK /\ SpawnOK /\ NamesOK /\ ResultsOK /\ ReviewedOK /\ ReceiptsOK
      /\ OneJobOK /\ RevisionCertifiesState
    BY DEF ReviewedInv
<1>2. /\ spawning' = Untouched /\ active' = {} /\ up' = FALSE
      /\ lock' = IF lock \in active THEN Untouched ELSE lock
      /\ receipts' = receipts /\ revision' = revision /\ log' = log /\ reviews' = reviews
    BY DEF Close
<1>3. "exited" \in Ended
    BY DEF Ended
<1>4. ASSUME NEW j \in Jobs
      PROVE  /\ child'[j] \in Processes
             /\ j \notin active => child'[j] = child[j]
             /\ j \in active => /\ child'[j].pc = "exited"
                                /\ child'[j].rev \in {child[j].rev, Untouched}
                                /\ rows[j].state = "succeeded" => child'[j].rev = child[j].rev
                                /\ child'[j].seen = child[j].seen
    <2>1. child'[j] = IF j \in active THEN Left(j, "exited") ELSE child[j]
        BY DEF Close
    <2>2. child[j] \in Processes
        BY <1>1 DEF TypeOK
    <2>3. QED
        BY <1>1, <1>3, <2>1, <2>2, LeftProcess
<1>5. child' \in [Jobs -> Processes]
    BY <1>4 DEF Close
<1>6. ASSUME NEW j \in Jobs
      PROVE  rows'[j] \in Rows /\ Settles(rows[j], rows'[j])
    <2>1. rows'[j] = IF j \in active THEN Released(Aborted(j, "unknown")) ELSE rows[j]
        BY DEF Close
    <2>2. rows[j] \in Rows
        BY <1>1 DEF TypeOK
    <2>3. Aborted(j, "unknown") \in Rows /\ Settles(rows[j], Aborted(j, "unknown"))
        BY <1>1, AbortSettles
    <2>4. CASE j \in active
        BY <2>1, <2>3, <2>4, ReleaseSettles DEF Settles
    <2>5. CASE j \notin active
        BY <2>1, <2>2, <2>5 DEF Settles
    <2>6. QED
        BY <2>4, <2>5
<1>7. rows' \in [Jobs -> Rows]
    BY <1>6 DEF Close
<1>8. \A j \in Jobs : /\ child'[j].seen = child[j].seen
                      /\ child'[j].rev \in {child[j].rev, Untouched}
                      /\ rows[j].state = "succeeded" => child'[j].rev = child[j].rev
                      /\ child[j].pc \in Ended => child'[j].pc \in Ended
                      /\ child'[j].pc \in Early => child[j].pc \in Early
                      /\ child'[j].pc \in {"sending", "sent"} => child[j].pc \in {"sending", "sent"}
                      /\ child'[j].pc \in Inside <=> child[j].pc \in Inside /\ j \notin active
                      /\ rows'[j].review = rows[j].review
                      /\ rows'[j].state = "succeeded" => rows[j].state = "succeeded"
    BY <1>4, <1>6 DEF Ended, Early, Inside, Settles
<1>9. TypeOK'
    BY <1>1, <1>2, <1>5, <1>7 DEF TypeOK, Names
<1>10. JobsOK'
    <2>1. SUFFICES ASSUME NEW j \in Jobs
                   PROVE  JobOK(rows'[j], child'[j], IsSent(j)')
        BY DEF JobsOK
    <2>2. rows[j] \in Rows /\ rows'[j] \in Rows
        BY <1>1, <1>6 DEF TypeOK
    <2>3. IsSent(j)' = IsSent(j) /\ IsSent(j) \in BOOLEAN /\ JobOK(rows[j], child[j], IsSent(j))
        BY <1>1, <1>2 DEF IsSent, JobsOK
    <2>4. JobOK(rows'[j], child[j], IsSent(j))
        BY <1>6, <2>2, <2>3, SettleOK
    <2>5. CASE j \in active
        <3>1. child[j].pc # "none"
            BY <1>1, <2>5 DEF SpawnOK
        <3>2. JobOK(rows'[j], child'[j], IsSent(j))
            BY <1>4, <2>4, <2>5, <3>1 DEF JobOK, Early, Attempting
        <3>3. QED
            BY <2>3, <3>2
    <2>6. CASE j \notin active
        BY <1>4, <2>3, <2>4, <2>6
    <2>7. QED
        BY <2>5, <2>6
<1>11. LockOK'
    BY <1>1, <1>2, <1>8, NoJob DEF LockOK
<1>12. SpawnOK'
    BY <1>2, NoJob DEF SpawnOK
<1>13. NamesOK'
    <2>1. \A j \in Jobs : child'[j].rev \in Jobs \ {j} => child'[child'[j].rev].pc \in Ended
        BY <1>1, <1>8, NoJob DEF NamesOK
    <2>2. revision \in Jobs => child'[revision].pc \notin Early
        BY <1>1, <1>8 DEF NamesOK
    <2>3. QED
        BY <1>1, <1>2, <1>8, <2>1, <2>2 DEF NamesOK
<1>14. ResultsOK'
    BY <1>1, <1>2, <1>8 DEF ResultsOK
<1>15. ReviewedOK'
    BY <1>1, <1>2, <1>8 DEF ReviewedOK, BasisOK
<1>16. ReceiptsOK'
    BY <1>1, <1>2, <1>8 DEF ReceiptsOK, Valid
<1>17. OneJobOK'
    BY <1>1, <1>2, <1>8 DEF OneJobOK, Entered, Valid
<1>18. RevisionCertifiesState'
    BY <1>1, <1>2 DEF RevisionCertifiesState
<1>19. QED
    BY <1>9, <1>10, <1>11, <1>12, <1>13, <1>14, <1>15, <1>16, <1>17, <1>18 DEF ReviewedInv

(***************************************************************************)
(* Users, confirmations and their receipts.                                *)
(***************************************************************************)
\* A job is created, under a confirmation that was issued or under none.
LEMMA SubmitStep ==
    ASSUME ReviewedInv, NEW j \in Jobs, NEW r \in Reviews \cup {NoReview},
           r \in Reviews => reviews[r].issued, enqueue(j, r),
           UNCHANGED <<schedulerVars, child, lock, log, reviews>>
    PROVE  ReviewedInv'
<1>1. /\ TypeOK /\ JobsOK /\ LockOK /\ SpawnOK /\ NamesOK /\ ResultsOK /\ ReviewedOK /\ ReceiptsOK
      /\ OneJobOK /\ RevisionCertifiesState
    BY DEF ReviewedInv
<1>2. /\ rows[j].state = "absent"
      /\ r \in Reviews => receipts[r] < 0
      /\ receipts' = [s \in Reviews |-> IF s = r THEN ReceiptAge ELSE receipts[s]]
      /\ revision' = revision /\ child' = child /\ lock' = lock /\ log' = log /\ reviews' = reviews
      /\ up' = up /\ active' = active /\ spawning' = spawning
    BY NoReviewAssumption DEF enqueue, schedulerVars
<1>3. PICK gone : rows' = [Without(gone) EXCEPT ![j] = QueuedRow(r)]
    BY DEF enqueue
<1>4. /\ QueuedRow(r) \in Rows
      /\ QueuedRow(r).state = "queued" /\ QueuedRow(r).review = r
    BY DEF QueuedRow, AbsentRow, Rows, States, ACTIVE
<1>5. /\ Without(gone) \in [Jobs -> Rows]
      /\ \A i \in Jobs : Settles(rows[i], Without(gone)[i])
    BY <1>1, WithoutSettles
<1>6. /\ rows' \in [Jobs -> Rows]
      /\ rows'[j].state = "queued" /\ rows'[j].review = r
      /\ \A i \in Jobs \ {j} : Settles(rows[i], rows'[i])
    BY <1>3, <1>4, <1>5
<1>7. \A i \in Jobs \ {j} : /\ rows'[i].review = rows[i].review
                            /\ rows'[i].state = "succeeded" => rows[i].state = "succeeded"
                            /\ rows[i].state \notin {"absent", "queued"} =>
                                   rows'[i].state \notin {"absent", "queued"}
    BY <1>6 DEF Settles, Started
<1>8. child[j].pc = "none" /\ child[j].seen = Unseen /\ ~IsSent(j)
    BY <1>1, <1>2 DEF JobsOK, JobOK, Started
<1>9. ReceiptAge \in Int /\ ReceiptAge > MaxAge /\ MaxAge \in Int
    BY LimitsAssumption DEF ReceiptAge
<1>10. TypeOK'
    <2>1. receipts' \in [Reviews -> Int]
        BY <1>1, <1>2, <1>9 DEF TypeOK
    <2>2. QED
        BY <1>1, <1>2, <1>6, <2>1 DEF TypeOK
<1>11. JobsOK'
    <2>1. SUFFICES ASSUME NEW i \in Jobs
                   PROVE  JobOK(rows'[i], child[i], IsSent(i)')
        BY <1>2 DEF JobsOK
    <2>2. /\ IsSent(i)' = IsSent(i) /\ IsSent(i) \in BOOLEAN /\ JobOK(rows[i], child[i], IsSent(i))
          /\ rows[i] \in Rows /\ rows'[i] \in Rows
        BY <1>1, <1>2, <1>6 DEF IsSent, JobsOK, TypeOK
    <2>3. CASE i = j
        BY <1>6, <1>8, <2>2, <2>3 DEF JobOK, Attempting
    <2>4. CASE i # j
        <3>1. JobOK(rows'[i], child[i], IsSent(i))
            BY <1>6, <2>2, <2>4, SettleOK
        <3>2. QED
            BY <2>2, <3>1
    <2>5. QED
        BY <2>3, <2>4
<1>12. LockOK'
    BY <1>1, <1>2 DEF LockOK
<1>13. SpawnOK'
    BY <1>1, <1>2, <1>7 DEF SpawnOK
<1>14. NamesOK'
    BY <1>1, <1>2 DEF NamesOK
<1>15. ResultsOK'
    BY <1>1, <1>2, <1>6, <1>7 DEF ResultsOK
<1>16. ReviewedOK'
    <2>1. child[j].pc \notin Inside
        BY <1>8 DEF Inside
    <2>2. QED
        BY <1>1, <1>2, <1>7, <2>1 DEF ReviewedOK, BasisOK
<1>17. ReceiptsOK'
    <2>1. \A s \in Reviews : reviews[s].left <= MaxAge /\ reviews[s].left \in Int
        BY <1>1 DEF ReceiptsOK, TypeOK, Confirmations
    <2>2. ASSUME NEW i \in Jobs, NEW s \in Reviews, rows'[i].review = s
          PROVE  reviews[s].issued /\ (Valid(s) => receipts'[s] > reviews[s].left)
        <3>1. CASE s = r
            BY <1>2, <1>9, <2>1, <3>1
        <3>2. CASE s # r
            <4>1. i # j /\ rows[i].review = s
                BY <1>6, <1>7, <2>2, <3>2
            <4>2. QED
                BY <1>1, <1>2, <3>2, <4>1 DEF ReceiptsOK
        <3>3. QED
            BY <3>1, <3>2
    <2>3. QED
        BY <1>2, <2>1, <2>2 DEF ReceiptsOK, Valid
<1>18. OneJobOK'
    <2>1. ~Entered(j)
        BY <1>8 DEF Entered, Inside
    <2>2. ASSUME NEW i \in Jobs \ {j}, rows[i].review = r, r \in Reviews
          PROVE  ~Valid(r)
        <3>1. Valid(r) => receipts[r] > reviews[r].left /\ reviews[r].left >= 0
            BY <1>1, <2>2 DEF ReceiptsOK, Valid
        <3>2. receipts[r] \in Int /\ reviews[r].left \in Int
            BY <1>1, <2>2 DEF TypeOK, Confirmations
        <3>3. QED
            BY <1>2, <2>2, <3>1, <3>2
    <2>3. ASSUME NEW i \in Jobs, NEW k \in Jobs, i # k,
                 rows'[i].review = rows'[k].review, rows'[i].review \in Reviews
          PROVE  ~Valid(rows'[i].review) /\ ~(Entered(i) /\ Entered(k))
        <3>1. CASE i # j /\ k # j
            BY <1>1, <1>7, <2>3, <3>1 DEF OneJobOK
        <3>2. CASE i = j \/ k = j
            BY <1>6, <1>7, <2>1, <2>2, <2>3, <3>2
        <3>3. QED
            BY <3>1, <3>2
    <2>4. QED
        BY <1>2, <2>3 DEF OneJobOK, Entered, Valid
<1>19. RevisionCertifiesState'
    BY <1>1, <1>2 DEF RevisionCertifiesState
<1>20. QED
    BY <1>10, <1>11, <1>12, <1>13, <1>14, <1>15, <1>16, <1>17, <1>18, <1>19 DEF ReviewedInv

\* A confirmation is issued for a state that was loaded inside the lock, or for
\* a form.
LEMMA IssueStep ==
    ASSUME ReviewedInv, NEW r \in Reviews, NEW rev \in Names, NEW at \in Nat, Issue(r, rev, at),
           r \notin Forms => /\ revision = rev => at = Len(log)
                             /\ rev \in Jobs => child[rev].pc \in Ended
    PROVE  ReviewedInv'
<1>1. /\ TypeOK /\ JobsOK /\ LockOK /\ SpawnOK /\ NamesOK /\ ResultsOK /\ ReviewedOK /\ ReceiptsOK
      /\ OneJobOK /\ RevisionCertifiesState
    BY DEF ReviewedInv
<1>2. /\ ~reviews[r].issued
      /\ reviews' = [reviews EXCEPT ![r] = [issued |-> TRUE, rev |-> rev, at |-> at, left |-> MaxAge]]
      /\ rows' = rows /\ receipts' = receipts
      /\ revision' = revision /\ child' = child /\ lock' = lock /\ log' = log
      /\ up' = up /\ active' = active /\ spawning' = spawning
    BY DEF Issue, storeVars, schedulerVars
<1>3. MaxAge \in Int /\ MaxAge <= MaxAge
    BY LimitsAssumption
<1>4. /\ reviews' \in [Reviews -> Confirmations]
      /\ reviews'[r] = [issued |-> TRUE, rev |-> rev, at |-> at, left |-> MaxAge]
      /\ \A s \in Reviews \ {r} : reviews'[s] = reviews[s]
    BY <1>1, <1>2, <1>3 DEF TypeOK, Confirmations
<1>5. \A j \in Jobs : rows[j].review # r
    BY <1>1, <1>2 DEF ReceiptsOK
<1>6. TypeOK'
    BY <1>1, <1>2, <1>4 DEF TypeOK
<1>7. JobsOK'
    BY <1>1, <1>2 DEF JobsOK, IsSent
<1>8. LockOK' /\ SpawnOK' /\ ResultsOK'
    BY <1>1, <1>2 DEF LockOK, SpawnOK, ResultsOK
<1>9. NamesOK'
    BY <1>1, <1>2, <1>4 DEF NamesOK
<1>10. ReviewedOK'
    BY <1>1, <1>2, <1>4, <1>5 DEF ReviewedOK, BasisOK
<1>11. ReceiptsOK'
    BY <1>1, <1>2, <1>3, <1>4, <1>5 DEF ReceiptsOK, Valid
<1>12. OneJobOK'
    BY <1>1, <1>2, <1>4, <1>5 DEF OneJobOK, Entered, Valid
<1>13. RevisionCertifiesState'
    BY <1>1, <1>2, <1>4 DEF RevisionCertifiesState
<1>14. QED
    BY <1>6, <1>7, <1>8, <1>9, <1>10, <1>11, <1>12, <1>13 DEF ReviewedInv

\* The confirmation of a result inherits what the result certifies.
LEMMA ConfirmStep ==
    ASSUME ReviewedInv, NEW r \in Reviews, NEW j \in Jobs, Confirm(r, j)
    PROVE  ReviewedInv'
<1>1. r \notin Forms /\ rows[j].state = "succeeded" /\ Issue(r, child[j].rev, child[j].seen)
    BY DEF Confirm, InState, Kept
<1>2. child[j].pc \in Ended /\ child[j].seen # Unseen
    BY <1>1 DEF ReviewedInv, JobsOK, JobOK, Ended
<1>3. child[j].rev \in Names /\ child[j].seen \in Nat
    BY <1>2, ProcessFields DEF ReviewedInv, TypeOK
<1>4. revision = child[j].rev => child[j].seen = Len(log)
    BY <1>1 DEF ReviewedInv, ResultsOK
<1>5. child[j].rev \in Jobs => child[child[j].rev].pc \in Ended
    BY <1>2 DEF ReviewedInv, NamesOK
<1>6. QED
    BY <1>1, <1>3, <1>4, <1>5, IssueStep

\* A rename form is issued outside the lock and certifies nothing.
LEMMA PreviewRenameStep ==
    ASSUME ReviewedInv, NEW r \in Reviews, PreviewRename(r)
    PROVE  ReviewedInv'
<1>1. revision \in Names /\ Len(log) \in Nat
    BY DEF ReviewedInv, TypeOK
<1>2. QED
    BY <1>1, IssueStep DEF PreviewRename

\* A clock that runs down stops one below zero.
LEMMA MaxDown ==
    ASSUME NEW n \in Int
    PROVE  /\ Max({n - 1, -1}) \in Int
           /\ n >= 0 => Max({n - 1, -1}) = n - 1
           /\ n < 0 => Max({n - 1, -1}) = -1
<1>1. \E x \in {n - 1, -1} : \A y \in {n - 1, -1} : x >= y
    BY n - 1 >= -1 \/ n - 1 <= -1
<1>2. Max({n - 1, -1}) \in {n - 1, -1} /\ \A y \in {n - 1, -1} : Max({n - 1, -1}) >= y
    BY <1>1 DEF Max
<1>3. QED
    BY <1>2

\* Time passes or a receipt is dropped: no confirmation gets ahead of its receipt.
LEMMA ClockStep ==
    ASSUME ReviewedInv, receipts' \in [Reviews -> Int], reviews' \in [Reviews -> Confirmations],
           \A r \in Reviews : /\ reviews'[r].issued = reviews[r].issued
                              /\ reviews'[r].rev = reviews[r].rev /\ reviews'[r].at = reviews[r].at
                              /\ reviews'[r].left <= MaxAge
                              /\ reviews'[r].left >= 0 =>
                                     /\ reviews[r].left >= 0
                                     /\ receipts[r] > reviews[r].left => receipts'[r] > reviews'[r].left,
           UNCHANGED <<rows, revision, schedulerVars, child, lock, log>>
    PROVE  ReviewedInv'
<1>1. /\ TypeOK /\ JobsOK /\ LockOK /\ SpawnOK /\ NamesOK /\ ResultsOK /\ ReviewedOK /\ ReceiptsOK
      /\ OneJobOK /\ RevisionCertifiesState
    BY DEF ReviewedInv
<1>2. /\ rows' = rows /\ revision' = revision /\ child' = child /\ lock' = lock /\ log' = log
      /\ up' = up /\ active' = active /\ spawning' = spawning
    BY DEF schedulerVars
<1>3. TypeOK'
    BY <1>1, <1>2 DEF TypeOK
<1>4. JobsOK'
    BY <1>1, <1>2 DEF JobsOK, IsSent
<1>5. LockOK' /\ SpawnOK' /\ ResultsOK'
    BY <1>1, <1>2 DEF LockOK, SpawnOK, ResultsOK
<1>6. NamesOK'
    BY <1>1, <1>2 DEF NamesOK
<1>7. ReviewedOK'
    BY <1>1, <1>2 DEF ReviewedOK, BasisOK
<1>8. ReceiptsOK'
    BY <1>1, <1>2 DEF ReceiptsOK, Valid
<1>9. OneJobOK'
    BY <1>1, <1>2 DEF OneJobOK, Entered, Valid
<1>10. RevisionCertifiesState'
    BY <1>1, <1>2 DEF RevisionCertifiesState
<1>11. QED
    BY <1>3, <1>4, <1>5, <1>6, <1>7, <1>8, <1>9, <1>10 DEF ReviewedInv

\* Time passes for confirmations and receipts alike.
LEMMA TickStep ==
    ASSUME ReviewedInv, Tick
    PROVE  ReviewedInv'
<1>1. TypeOK /\ ReceiptsOK
    BY DEF ReviewedInv
<1>2. /\ reviews' = [r \in Reviews |-> [reviews[r] EXCEPT !.left = Max({reviews[r].left - 1, -1})]]
      /\ receipts' = [r \in Reviews |-> Max({receipts[r] - 1, -1})]
      /\ UNCHANGED <<rows, revision, schedulerVars, child, lock, log>>
    BY DEF Tick, ReceiptsAge
<1>3. ASSUME NEW r \in Reviews
      PROVE  /\ receipts[r] \in Int /\ reviews[r].left \in Int /\ reviews[r].left <= MaxAge
             /\ Max({receipts[r] - 1, -1}) \in Int
             /\ Max({reviews[r].left - 1, -1}) \in Int
    BY <1>1, MaxDown DEF TypeOK, Confirmations, ReceiptsOK
<1>4. ASSUME NEW r \in Reviews
      PROVE  /\ reviews'[r] \in Confirmations
             /\ reviews'[r].issued = reviews[r].issued
             /\ reviews'[r].rev = reviews[r].rev /\ reviews'[r].at = reviews[r].at
             /\ reviews'[r].left = Max({reviews[r].left - 1, -1})
    BY <1>1, <1>2, <1>3 DEF TypeOK, Confirmations
<1>5. reviews' \in [Reviews -> Confirmations] /\ receipts' \in [Reviews -> Int]
    BY <1>2, <1>3, <1>4
<1>6. ASSUME NEW r \in Reviews
      PROVE  /\ reviews'[r].left <= MaxAge
             /\ reviews'[r].left >= 0 =>
                    /\ reviews[r].left >= 0
                    /\ receipts[r] > reviews[r].left => receipts'[r] > reviews'[r].left
    <2>1. receipts'[r] = Max({receipts[r] - 1, -1}) /\ reviews'[r].left = Max({reviews[r].left - 1, -1})
        BY <1>2, <1>4
    <2>2. MaxAge \in Nat
        BY LimitsAssumption
    <2>3. QED
        BY <1>3, <2>1, <2>2, MaxDown
<1>7. QED
    BY <1>2, <1>4, <1>5, <1>6, ClockStep

\* A receipt expires only when its confirmation has.
LEMMA ReceiptExpiresStep ==
    ASSUME ReviewedInv, NEW r \in Reviews, ReceiptExpires(r)
    PROVE  ReviewedInv'
<1>1. TypeOK /\ ReceiptsOK
    BY DEF ReviewedInv
<1>2. /\ receipts[r] = 0 /\ receipts' = [receipts EXCEPT ![r] = -1] /\ reviews' = reviews
      /\ UNCHANGED <<rows, revision, schedulerVars, child, lock, log>>
    BY DEF ReceiptExpires, ExpireReceipt
<1>3. receipts' \in [Reviews -> Int] /\ \A s \in Reviews \ {r} : receipts'[s] = receipts[s]
    BY <1>1, <1>2 DEF TypeOK
<1>4. \A s \in Reviews : reviews[s].left \in Int /\ reviews[s].left <= MaxAge
    BY <1>1 DEF TypeOK, Confirmations, ReceiptsOK
<1>5. ~(reviews[r].left >= 0 /\ receipts[r] > reviews[r].left)
    BY <1>2, <1>4
<1>6. reviews' \in [Reviews -> Confirmations]
    BY <1>1, <1>2 DEF TypeOK
<1>7. QED
    BY <1>2, <1>3, <1>4, <1>5, <1>6, ClockStep

(***************************************************************************)
(* The invariant.                                                          *)
(***************************************************************************)
LEMMA ReviewedInit == Init => ReviewedInv
<1>1. SUFFICES ASSUME Init
               PROVE  ReviewedInv
    OBVIOUS
<1>2. /\ rows = [j \in Jobs |-> AbsentRow] /\ receipts = [r \in Reviews |-> -1]
      /\ revision = Untouched /\ up = FALSE /\ active = {} /\ spawning = Untouched
      /\ child = [j \in Jobs |-> [pc |-> "none", rev |-> Untouched, seen |-> Unseen]]
      /\ lock = Untouched /\ log = <<>>
    BY <1>1 DEF Init, StoreInit
<1>3. PICK R : reviews = [r \in Reviews |-> [issued |-> r \in R, rev |-> Untouched, at |-> 0,
                                           left |-> IF r \in R THEN MaxAge ELSE -1]]
    BY <1>1 DEF Init
<1>4. MaxAge \in Nat
    BY LimitsAssumption
<1>5. AbsentRow \in Rows /\ AbsentRow.state = "absent" /\ AbsentRow.review = NoReview
    BY DEF AbsentRow, Rows, States
<1>6. /\ reviews \in [Reviews -> Confirmations]
      /\ \A r \in Reviews : reviews[r].left <= MaxAge /\ reviews[r].rev = Untouched /\ reviews[r].at = 0
    <2>1. ASSUME NEW r \in Reviews
          PROVE  /\ reviews[r] \in Confirmations
                 /\ reviews[r].left <= MaxAge /\ reviews[r].rev = Untouched /\ reviews[r].at = 0
        <3>1. (r \in R) \in BOOLEAN /\ Untouched \in Names
            BY DEF Names
        <3>2. (IF r \in R THEN MaxAge ELSE -1) \in Int /\ (IF r \in R THEN MaxAge ELSE -1) <= MaxAge
            BY <1>4
        <3>3. QED
            BY <1>3, <3>1, <3>2 DEF Confirmations
    <2>2. QED
        BY <1>3, <2>1
<1>7. \A j \in Jobs : /\ child[j] = [pc |-> "none", rev |-> Untouched, seen |-> Unseen]
                      /\ rows[j] = AbsentRow
    BY <1>2
<1>8. TypeOK
    <2>1. Untouched \in Names /\ Unseen \in Nat \cup {Unseen} /\ -1 \in Int
        BY DEF Names
    <2>2. rows \in [Jobs -> Rows] /\ receipts \in [Reviews -> Int]
        BY <1>2, <1>5, <2>1
    <2>3. [pc |-> "none", rev |-> Untouched, seen |-> Unseen] \in Processes
        BY <2>1 DEF Processes
    <2>4. child \in [Jobs -> Processes]
        BY <1>2, <2>3
    <2>5. log \in Seq(Jobs)
        BY <1>2
    <2>6. QED
        BY <1>2, <1>6, <2>1, <2>2, <2>4, <2>5 DEF TypeOK
<1>9. Len(log) = 0 /\ \A j \in Jobs : ~IsSent(j)
    BY <1>2 DEF IsSent
<1>10. JobsOK
    BY <1>5, <1>7, <1>9 DEF JobsOK, JobOK, Attempting
<1>11. LockOK /\ SpawnOK
    BY <1>2, <1>7, NoJob DEF LockOK, SpawnOK, Inside
<1>12. NamesOK
    BY <1>2, <1>6, <1>7, NoJob DEF NamesOK
<1>13. ResultsOK
    BY <1>5, <1>7 DEF ResultsOK
<1>14. ReviewedOK
    BY <1>7 DEF ReviewedOK, Inside
<1>15. ReceiptsOK /\ OneJobOK
    BY <1>5, <1>6, <1>7, NoReviewAssumption DEF ReceiptsOK, OneJobOK
<1>16. RevisionCertifiesState
    BY <1>6, <1>9 DEF RevisionCertifiesState
<1>17. QED
    BY <1>8, <1>10, <1>11, <1>12, <1>13, <1>14, <1>15, <1>16 DEF ReviewedInv

\* Every step of the web, the scheduler and the children preserves the invariant.
LEMMA ReviewedStep ==
    ASSUME ReviewedInv, [Next]_vars
    PROVE  ReviewedInv'
<1>1. CASE \E j \in Jobs : Web(j)
    <2>1. PICK j \in Jobs : Web(j)
        BY <1>1
    <2>2. CASE Cancel(j)
        BY <2>2, CancelStep
    <2>3. CASE SubmitRead(j)
        BY <2>3, SubmitStep, NoReviewAssumption DEF SubmitRead
    <2>4. CASE \E r \in Reviews : Submit(j, r)
        BY <2>4, SubmitStep DEF Submit
    <2>5. CASE \E r \in Reviews : Confirm(r, j)
        BY <2>5, ConfirmStep
    <2>6. QED
        BY <2>1, <2>2, <2>3, <2>4, <2>5 DEF Web
<1>2. CASE \E j \in Jobs : Scheduler(j)
    BY <1>2, ClaimStep, SpawnStep, SpawnFailsStep, ReapStep, ReleaseStep DEF Scheduler
<1>3. CASE \E j \in Jobs : Child(j)
    <2>1. PICK j \in Jobs : Child(j)
        BY <1>3
    <2>2. CASE Die(j)
        BY <2>2, DieStep DEF Die
    <2>3. CASE Stop(j)
        BY <2>3, DieStep DEF Stop
    <2>4. CASE Intend(j)
        BY <2>4, IntendStep DEF Intend, At
    <2>5. CASE Acknowledged(j)
        BY <2>5, IntendStep DEF Acknowledged, At
    <2>6. QED
        BY <2>1, <2>2, <2>3, <2>4, <2>5, FailStep, BeginStep, EnterStep, ReadStep, AdvanceStep,
           SendStep, FinishStep DEF Child
<1>4. CASE \E r \in Reviews : PreviewRename(r) \/ ReceiptExpires(r)
    BY <1>4, PreviewRenameStep, ReceiptExpiresStep
<1>5. CASE Tick \/ Start \/ Crash \/ Close \/ Cleanup
    BY <1>5, TickStep, StartStep, CrashStep, CloseStep, CleanupStep
<1>6. CASE UNCHANGED vars
    <2>1. UNCHANGED <<rows, receipts, revision, up, active, spawning, child, lock, log, reviews>>
        BY <1>6 DEF vars, storeVars, schedulerVars
    <2>2. ReviewedInv /\ TypeOK
        BY DEF ReviewedInv
    <2>3. rows' \in [Jobs -> Rows] /\ \A j \in Jobs : Settles(rows[j], rows'[j])
        BY <2>1, <2>2 DEF TypeOK, Settles
    <2>4. up' \in BOOLEAN /\ active' \in SUBSET Jobs /\ spawning' \in Names /\ SpawnOK'
        BY <2>1, <2>2 DEF ReviewedInv, TypeOK, SpawnOK
    <2>5. QED
        BY <2>1, <2>3, <2>4, RowsStep
<1>7. QED
    BY <1>1, <1>2, <1>3, <1>4, <1>5, <1>6 DEF Next

\* The invariant holds in every reachable state.
THEOREM ReviewedAlwaysOK == Spec => []ReviewedInv
BY ReviewedInit, ReviewedStep, PTL DEF Spec

\* A job shown as failed or cancelled sent nothing to the appliance and never
\* will, whichever process wrote the outcome.
THEOREM FailedAlwaysMeansUntouched == Spec => []FailedMeansUntouched
<1>1. ReviewedInv => FailedMeansUntouched
    BY DEF ReviewedInv, JobsOK, JobOK, IsSent, FailedMeansUntouched, Started
<1>2. QED
    BY <1>1, ReviewedAlwaysOK, PTL

\* As long as the revision is the reviewed one, no change request was sent since
\* that state was loaded.
THEOREM RevisionAlwaysCertifiesState == Spec => []RevisionCertifiesState
<1>1. ReviewedInv => RevisionCertifiesState
    BY DEF ReviewedInv
<1>2. QED
    BY <1>1, ReviewedAlwaysOK, PTL

\* One confirmation lets at most one job reach the appliance, across deleted
\* rows and repeated requests.
THEOREM OneJobPerReviewAlways == Spec => []OneJobPerReview
<1>1. ASSUME ReviewedInv
      PROVE  OneJobPerReview
    <2>1. \A i \in Jobs : rows[i].review \in Reviews \cup {NoReview}
        BY <1>1, RowFields DEF ReviewedInv, TypeOK
    <2>2. OneJobOK
        BY <1>1 DEF ReviewedInv
    <2>3. QED
        BY <2>1, <2>2 DEF OneJobOK, Entered, OneJobPerReview
<1>2. QED
    BY <1>1, ReviewedAlwaysOK, PTL

\* A change is sent only if nobody else sent one since the state was loaded that
\* the user reviewed.
THEOREM ReviewsAlwaysCurrent == Spec => ReviewsAreCurrent
<1>1. ASSUME ReviewedInv
      PROVE  \A j \in Jobs :
                 LET r == rows[j].review
                 IN  Send(j) /\ r \notin Forms \cup {NoReview}
                     => \A i \in reviews[r].at + 1..Len(log) : log[i] = j
    <2>1. SUFFICES ASSUME NEW j \in Jobs, NEW r, r = rows[j].review,
                          Send(j), r \notin Forms \cup {NoReview}
                   PROVE  \A i \in reviews[r].at + 1..Len(log) : log[i] = j
        OBVIOUS
    <2>2. r \in Reviews \ Forms
        BY <1>1, <2>1, RowFields DEF ReviewedInv, TypeOK
    <2>3. child[j].pc \in Inside /\ revision = j
        BY <1>1, <2>1 DEF Send, At, Inside, ReviewedInv, NamesOK
    <2>4. reviews[r].issued /\ BasisOK(j, r)
        BY <1>1, <2>1, <2>2, <2>3 DEF ReviewedInv, ReviewedOK, ReceiptsOK
    <2>5. reviews[r].rev # j
        BY <1>1, <2>2, <2>3, <2>4, FreshName
    <2>6. QED
        BY <2>3, <2>4, <2>5 DEF BasisOK
<1>2. QED
    BY <1>1, ReviewedAlwaysOK, PTL DEF ReviewsAreCurrent

=============================================================================
