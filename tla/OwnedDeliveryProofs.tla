------------------------ MODULE OwnedDeliveryProofs -------------------------
(***************************************************************************)
(* Proofs about OwnedDelivery, for any number of jobs, lanes, activations, *)
(* timeouts and restarts, on top of the row invariant of                   *)
(* DistributedJobsProofs.                                                  *)
(*                                                                         *)
(* A job leaves the queue once, so at most one lane ever carries it, as    *)
(* the answer to a poll or as the work in hand.  The carrier invokes the   *)
(* capability when its open start request was answered "running", and the  *)
(* row gives that answer once.  What a lane, a receipt or a report says of *)
(* the outcome is therefore true when it is written and stays true.        *)
(***************************************************************************)
EXTENDS OwnedDelivery, DistributedJobsProofs

Outcomes == {"succeeded", "failed", "unknown"}

Works == [job : Jobs \cup {NoJob}, token : Nat, act : Epochs]

Results == [job : Jobs \cup {NoJob}, token : Nat, outcome : Outcomes]

Requests == [kind : {"poll", "status", "start", "renew"}, lane : Lanes, try : Nat, open : BOOLEAN,
             step : {"activate", "accept", "claim", "control", "reply"}, act : Epochs,
             result : Results, ack : {"none", "accepted", "rejected"}, work : Works,
             reply : RowStates \cup {"none", "refused"}]

Steps == {"idle", "calling", "delivered", "starting", "executing", "ending"}

Activities == [pc : Steps, work : Works, outcome : Outcomes, renewing : BOOLEAN]

Entries == [phase : {"none", "open", "result", "acked"}, token : Nat, act : Epochs, outcome : Outcomes]

DeliveryTypeOK ==
    /\ epoch \in Activations
    /\ lane \in [Lanes -> Activities]
    /\ receipts \in [Jobs -> Entries]
    /\ calls \in SUBSET Requests
    /\ execs \in [Jobs -> Nat]

\* The states before anybody was told to execute.
Unasked == {"absent", "queued", "claimed"}

Busy == {"delivered", "starting", "executing", "ending"}

\* The lane has the work in hand or in the answer it waits for.
Carries(l, j) ==
    \/ lane[l].pc \in Busy /\ lane[l].work.job = j
    \/ \E c \in calls : c.open /\ c.lane = l /\ c.kind = "poll" /\ c.work.job = j

\* A job that was handed out is carried by one lane at most.
CarriersOK ==
    \A j \in Jobs :
        /\ \A l, m \in Lanes : Carries(l, j) /\ Carries(m, j) => l = m
        /\ jobs[j].state \in {"absent", "queued"} => \A l \in Lanes : ~Carries(l, j)

\* Nobody will invoke the capability of the job any more, and nobody did.
Never(j) ==
    /\ execs[j] = 0
    /\ jobs[j].state \notin Unasked
    /\ \A l \in Lanes : Carries(l, j) => lane[l].pc = "ending"

TrueOutcome(j, o) ==
    j \in Jobs => /\ o = "succeeded" => execs[j] = 1
                  /\ o = "failed" => Never(j)

\* What a lane does agrees with its receipt and with the history.
LaneOK(l) ==
    LET w == lane[l].work
    IN  /\ lane[l].pc \in Busy => w.job \in Jobs
        /\ lane[l].pc \in {"starting", "executing", "ending"} =>
               receipts[w.job] = [phase |-> "open", token |-> w.token, act |-> w.act,
                                  outcome |-> "unknown"]
        /\ lane[l].pc \in {"delivered", "starting"} => execs[w.job] = 0
        /\ lane[l].pc = "executing" => execs[w.job] = 1
        /\ lane[l].pc = "ending" => TrueOutcome(w.job, lane[l].outcome)

LanesOK == \A l \in Lanes : LaneOK(l)

\* A request is at one of the steps of its kind.
ShapeOK(c) ==
    /\ c.kind \in {"poll", "status"} =>
           /\ c.act \in Activations
           /\ c.step \in {"activate", "accept", "claim", "reply"}
           /\ c.result # NoResult => c.result.job \in Jobs
           /\ c.step = "accept" => c.result # NoResult
           /\ c.step = "claim" => c.kind = "poll"
           /\ c.work # NoWork => c.kind = "poll" /\ c.step = "reply" /\ c.work.job \in Jobs
    /\ c.kind \in {"start", "renew"} =>
           /\ c.step \in {"control", "reply"}
           /\ c.work.job \in Jobs

\* An open request is what its lane waits for; an answered start tells what
\* became of the row.
OpenOK(c) ==
    /\ c.kind \in {"poll", "status"} => lane[c.lane].pc = "calling"
    /\ c.kind = "poll" /\ c.work # NoWork => execs[c.work.job] = 0
    /\ c.kind = "start" => lane[c.lane].pc = "starting" /\ c.work = lane[c.lane].work
    /\ c.kind = "start" /\ c.step = "reply" /\ c.reply # "refused" =>
           jobs[c.work.job].state \notin Unasked
    /\ Grant(c) => jobs[c.work.job].state \notin {"cancelled", "failed", "deleted"}
    /\ c.kind = "renew" => lane[c.lane].pc \in {"executing", "ending"}

CallsOK ==
    /\ \A c \in calls : /\ ShapeOK(c)
                        /\ TrueOutcome(c.result.job, c.result.outcome)
                        /\ c.open => OpenOK(c)
    /\ \A c, d \in calls : c.open /\ d.open /\ c.lane = d.lane => c = d

ReceiptsOK == \A j \in Jobs : TrueOutcome(j, receipts[j].outcome)

\* OutcomesAreTrue, and nothing is executed before it was submitted.
OutcomesOK ==
    \A j \in Jobs :
        /\ jobs[j].state \in Unasked \cup {"cancelled", "failed"} => execs[j] = 0
        /\ jobs[j].state = "succeeded" => execs[j] = 1
        /\ execs[j] <= 1

DeliveryInv ==
    /\ IInv
    /\ DeliveryTypeOK
    /\ CarriersOK
    /\ LanesOK
    /\ CallsOK
    /\ ReceiptsOK
    /\ OutcomesOK

(***************************************************************************)
(* What the store does to the state of a row.                              *)
(***************************************************************************)
\* A row is queued, retired or deleted, but neither handed out nor resolved.
Retires(s, t) ==
    \/ t = s
    \/ s = "absent" /\ t = "queued"
    \/ s \in {"queued", "claimed"} /\ t \in {"cancelled", "deleted"}
    \/ s \in {"running", "cancel_requested"} /\ t \in {"cancel_requested", "unknown"}
    \/ s \in Final /\ t = "deleted"

QuietStep == \A i \in Jobs : Retires(jobs[i].state, jobs'[i].state)

\* The sweep cancels what was not started and leaves the rest in doubt.
LEMMA SweepRetires ==
    ASSUME IInv, NEW S \in SUBSET Jobs, NEW i \in Jobs
    PROVE  LET t == Expire(S)[i].state
           IN  /\ RowOK(Expire(S)[i], activation)
               /\ Expire(S)[i].token = jobs[i].token
               /\ \/ t = jobs[i].state
                  \/ jobs[i].state \in {"queued", "claimed"} /\ t = "cancelled"
                  \/ jobs[i].state \in {"running", "cancel_requested"} /\ t = "unknown"
<1>1. RowOK(jobs[i], activation) /\ RowOK(Expire(S)[i], activation) /\ Expired(jobs[i], Expire(S)[i])
    BY SweepOK DEF IInv
<1>2. QED
    BY <1>1 DEF RowOK, Expired, Active, Owned, Unstarted

\* The requests, queries and sweeps of the Mainframe hand nothing out.
LEMMA MainframeRetires ==
    ASSUME IInv, MainframeStep
    PROVE  IInv' /\ QuietStep
<1>1. Self \in Agents /\ Capability \in Capabilities
    BY SelfAssumption DEF Capability, Capabilities
<1>2. Next
    BY <1>1 DEF MainframeStep, Next, Call
<1>3. IInv'
    BY <1>2, NextOK
<1>4. CASE \E j \in Jobs : Enqueue(j, Self, Capability)
    <2>1. PICK j \in Jobs : Enqueue(j, Self, Capability)
        BY <1>4
    <2>2. PICK q : /\ jobs[j].state = "absent" /\ q.state = "queued"
                   /\ jobs' = [jobs EXCEPT ![j] = q]
        BY <2>1 DEF Enqueue, QueuedRow, NoRow
    <2>3. QED
        BY <1>3, <2>2 DEF IInv, QuietStep, Retires
<1>5. CASE \E j \in Jobs : Cancel(j)
    <2>1. PICK j \in Jobs : Cancel(j)
        BY <1>5
    <2>2. PICK q : q = CancelRow(Expire({j})[j])
        OBVIOUS
    <2>3. Expire({j}) \in [Jobs -> Row]
        BY SweepOK
    <2>4. jobs'[j] = q /\ \A i \in Jobs \ {j} : jobs'[i] = Expire({j})[i]
        BY <2>1, <2>2, <2>3 DEF Cancel
    <2>5. PICK r \in Row : r = Expire({j})[j]
        BY <2>3
    <2>6. q.state = CASE r.state \in {"queued", "claimed"} -> "cancelled"
                      [] r.state = "running" -> "cancel_requested"
                      [] OTHER -> r.state
        <3>1. WipeTunnel(r) \in Row
            BY <2>5, WipeTunnelFields
        <3>2. QED
            BY <2>2, <2>5, <3>1 DEF CancelRow, Row
    <2>7. Retires(jobs[j].state, q.state)
        <3>1. \/ r.state = jobs[j].state
              \/ jobs[j].state \in {"queued", "claimed"} /\ r.state = "cancelled"
              \/ jobs[j].state \in {"running", "cancel_requested"} /\ r.state = "unknown"
            BY <2>5, SweepRetires
        <3>2. QED
            BY <2>6, <3>1 DEF Retires
    <2>8. ASSUME NEW i \in Jobs \ {j}
          PROVE  Retires(jobs[i].state, jobs'[i].state)
        BY <2>4, SweepRetires DEF Retires
    <2>9. QED
        BY <1>3, <2>4, <2>7, <2>8 DEF QuietStep
<1>6. CASE \E j \in Jobs : Delete(j)
    <2>1. PICK j \in Jobs : Delete(j)
        BY <1>6
    <2>2. Expire({j}) \in [Jobs -> Row]
        BY SweepOK
    <2>3. /\ \A i \in Jobs \ {j} : jobs'[i] = Expire({j})[i]
          /\ \/ jobs'[j] = Expire({j})[j]
             \/ Expire({j})[j].state \in Final /\ jobs'[j].state = "deleted"
        BY <2>1, <2>2 DEF Delete, NoRow
    <2>4. ASSUME NEW i \in Jobs
          PROVE  Retires(jobs[i].state, jobs'[i].state)
        <3>1. PICK t : t = Expire({j})[i].state
            OBVIOUS
        <3>2. \/ t = jobs[i].state
              \/ jobs[i].state \in {"queued", "claimed"} /\ t = "cancelled"
              \/ jobs[i].state \in {"running", "cancel_requested"} /\ t = "unknown"
            BY <3>1, SweepRetires
        <3>3. jobs'[i].state = t \/ (t \in Final /\ jobs'[i].state = "deleted")
            BY <2>3, <3>1
        <3>4. QED
            BY <3>2, <3>3 DEF Retires, Final
    <2>5. QED
        BY <1>3, <2>4 DEF QuietStep
<1>7. CASE PrunePayloads
    <2>1. jobs' = Expire(Jobs)
        BY <1>7 DEF PrunePayloads, ReadCurrent
    <2>2. QED
        BY <1>3, <2>1, SweepRetires DEF QuietStep, Retires
<1>8. CASE Tick
    <2>1. \A i \in Jobs : jobs'[i].state = jobs[i].state
        BY <1>8 DEF Tick, IInv, Row
    <2>2. QED
        BY <1>3, <2>1 DEF QuietStep, Retires
<1>9. QED
    BY <1>4, <1>5, <1>6, <1>7, <1>8 DEF MainframeStep

\* A new activation fences the rows of another one.
LEMMA ActivateRetires ==
    ASSUME IInv, NEW act \in Activations, ActivateAgent(Self, act)
    PROVE  IInv' /\ QuietStep
<1>1. Self \in Agents /\ act \in Epochs
    BY SelfAssumption DEF Epochs
<1>2. IInv'
    BY <1>1, NextOK DEF Next
<1>3. ASSUME NEW i \in Jobs
      PROVE  Retires(jobs[i].state, jobs'[i].state)
    <2>1. PICK r \in Row : r = jobs[i]
        BY DEF IInv
    <2>2. jobs'[i] = BindOrFence(Self, act, r)
        BY <2>1 DEF ActivateAgent
    <2>3. [r EXCEPT !.act = act].state = r.state
        BY <2>1 DEF Row
    <2>4. r.state \in Active => Retires(r.state, FenceRow(r).state)
        <3>1. WipeTunnel(r) \in Row
            BY <2>1, WipeTunnelFields
        <3>2. QED
            BY <2>1, <3>1 DEF FenceRow, Row, Active, Owned, Retires
    <2>5. QED
        BY <2>1, <2>2, <2>3, <2>4 DEF BindOrFence, Retires
<1>4. QED
    BY <1>2, <1>3 DEF QuietStep

\* A claim that finds nothing only sweeps.
LEMMA EmptyRetires ==
    ASSUME IInv, NEW act \in Activations, ClaimNothing(Self, act, Channel)
    PROVE  IInv' /\ QuietStep
<1>1. Self \in Agents /\ act \in Epochs /\ Channel \in Channels
    BY SelfAssumption, ChannelAssumption DEF Epochs, Channels
<1>2. IInv'
    BY <1>1, NextOK DEF Next
<1>3. QED
    BY <1>2, SweepRetires DEF ClaimNothing, QuietStep, Retires

\* A claim takes one queued row.
LEMMA ClaimTakes ==
    ASSUME IInv, NEW act \in Activations, NEW j \in Jobs, Claim(Self, act, Channel, j)
    PROVE  /\ IInv' /\ issued' \in Nat
           /\ jobs[j].state = "queued" /\ jobs'[j].state = "claimed"
           /\ \A i \in Jobs \ {j} : Retires(jobs[i].state, jobs'[i].state)
<1>1. Self \in Agents /\ act \in Epochs /\ Channel \in Channels
    BY SelfAssumption, ChannelAssumption DEF Epochs, Channels
<1>2. IInv'
    BY <1>1, NextOK DEF Next
<1>3. Expire(Jobs) \in [Jobs -> Row]
    BY SweepOK
<1>4. Expire(Jobs)[j].state = "queued"
    BY DEF Claim, Oldest, Eligible
<1>5. PICK r \in Row : r = Expire(Jobs)[j]
    BY <1>3
<1>6. ClaimRow(r, issued + 1).state = "claimed"
    <2>1. WipeTunnel(r) \in Row
        BY <1>5, WipeTunnelFields
    <2>2. QED
        BY <2>1 DEF ClaimRow, Row
<1>7. jobs'[j].state = "claimed" /\ \A i \in Jobs \ {j} : jobs'[i] = Expire(Jobs)[i]
    BY <1>3, <1>5, <1>6 DEF Claim
<1>8. jobs[j].state = "queued"
    BY <1>4, SweepRetires
<1>9. ASSUME NEW i \in Jobs \ {j}
      PROVE  Retires(jobs[i].state, jobs'[i].state)
    BY <1>7, SweepRetires DEF Retires
<1>10. QED
    BY <1>2, <1>7, <1>8, <1>9 DEF IInv

\* A start is granted to a claimed row; any other allowed one is over.
LEMMA StartGrants ==
    ASSUME IInv, NEW j \in Jobs, NEW tok, NEW act, Start(j, Self, tok, act)
    PROVE  /\ IInv'
           /\ \A i \in Jobs \ {j} : Retires(jobs[i].state, jobs'[i].state)
           /\ \/ jobs[j].state = "claimed" /\ jobs'[j].state = "running"
              \/ /\ Retires(jobs[j].state, jobs'[j].state)
                 /\ jobs'[j].state \in {"unknown", "succeeded", "failed", "cancelled"}
<1>1. Self \in Agents /\ Expire({j}) \in [Jobs -> Row]
    BY SelfAssumption, SweepOK
<1>2. PICK r \in Row : r = Expire({j})[j]
    BY <1>1
<1>3. /\ RowOK(r, activation) /\ r.token = jobs[j].token
      /\ \/ r.state = jobs[j].state
         \/ jobs[j].state \in {"queued", "claimed"} /\ r.state = "cancelled"
         \/ jobs[j].state \in {"running", "cancel_requested"} /\ r.state = "unknown"
    BY <1>2, SweepRetires
<1>4. StartAllowed(r, Self, tok, act)
    BY <1>2 DEF Start
<1>5. r.state \in {"claimed", "unknown", "succeeded", "failed", "cancelled"}
    BY <1>3, <1>4 DEF StartAllowed, Owns, RowOK, JobStates
<1>6. IInv'
    <2>1. /\ tok = r.token /\ tok # 0 /\ act = r.act
          /\ r.token \in Nat /\ r.act \in Epochs
        BY <1>2, <1>4 DEF StartAllowed, Owns, Row, NoToken
    <2>2. r.token <= issued /\ issued \in Nat
        BY <1>3 DEF IInv
    <2>3. tok \in 1 .. issued /\ act \in Epochs
        BY <2>1, <2>2
    <2>4. QED
        BY <1>1, <2>3, NextOK DEF Next, Call
<1>7. ASSUME NEW i \in Jobs \ {j}
      PROVE  Retires(jobs[i].state, jobs'[i].state)
    <2>1. jobs'[i] = Expire({j})[i]
        BY <1>1 DEF Start
    <2>2. QED
        BY <2>1, SweepRetires DEF Retires
<1>8. CASE r.state = "claimed"
    <2>1. StartRow(r).state = "running"
        BY DEF StartRow, Row
    <2>2. jobs'[j].state = "running"
        BY <1>1, <1>2, <1>8, <2>1 DEF Start
    <2>3. QED
        BY <1>3, <1>6, <1>7, <1>8, <2>2
<1>9. CASE r.state # "claimed"
    <2>1. jobs'[j] = r
        BY <1>2, <1>9 DEF Start
    <2>2. QED
        BY <1>3, <1>5, <1>6, <1>7, <1>9, <2>1 DEF Retires
<1>10. QED
    BY <1>8, <1>9

\* A renewal only sweeps.
LEMMA RenewRetires ==
    ASSUME IInv, NEW j \in Jobs, NEW tok, NEW act, Renew(j, Self, tok, act)
    PROVE  IInv' /\ QuietStep /\ jobs'[j].state \in RowStates
<1>1. Self \in Agents /\ Expire({j}) \in [Jobs -> Row]
    BY SelfAssumption, SweepOK
<1>2. PICK r \in Row : r = Expire({j})[j]
    BY <1>1
<1>3. Owns(r, Self, tok, act) /\ r.token = jobs[j].token
    BY <1>2, SweepRetires DEF Renew
<1>4. IInv'
    <2>1. /\ tok = r.token /\ tok # 0 /\ act = r.act
          /\ r.token \in Nat /\ r.act \in Epochs
        BY <1>2, <1>3 DEF Owns, Row, NoToken
    <2>2. r.token <= issued /\ issued \in Nat
        BY <1>3 DEF IInv
    <2>3. tok \in 1 .. issued /\ act \in Epochs
        BY <2>1, <2>2
    <2>4. QED
        BY <1>1, <2>3, NextOK DEF Next, Call
<1>5. RenewRow(r).state = r.state
    BY DEF RenewRow, Row
<1>6. jobs'[j].state = Expire({j})[j].state /\ \A i \in Jobs \ {j} : jobs'[i] = Expire({j})[i]
    BY <1>1, <1>2, <1>5 DEF Renew
<1>7. ASSUME NEW i \in Jobs
      PROVE  Retires(jobs[i].state, jobs'[i].state)
    BY <1>6, SweepRetires DEF Retires
<1>8. QED
    BY <1>4, <1>7 DEF QuietStep, IInv, Row

\* A result resolves a row that was started and is not settled.
LEMMA CompleteResolves ==
    ASSUME IInv, NEW j \in Jobs, NEW tok, NEW act, NEW o \in Outcomes, Complete(j, Self, tok, act, o)
    PROVE  /\ IInv'
           /\ \A i \in Jobs \ {j} : Retires(jobs[i].state, jobs'[i].state)
           /\ \/ Retires(jobs[j].state, jobs'[j].state)
              \/ /\ jobs[j].state \in {"running", "cancel_requested", "unknown"}
                 /\ jobs'[j].state = o
<1>1. Self \in Agents /\ Expire({j}) \in [Jobs -> Row]
    BY SelfAssumption, SweepOK
<1>2. PICK r \in Row : r = Expire({j})[j]
    BY <1>1
<1>3. /\ RowOK(r, activation) /\ r.token = jobs[j].token
      /\ \/ r.state = jobs[j].state
         \/ jobs[j].state \in {"queued", "claimed"} /\ r.state = "cancelled"
         \/ jobs[j].state \in {"running", "cancel_requested"} /\ r.state = "unknown"
    BY <1>2, SweepRetires
<1>4. CompleteAllowed(r, Self, tok, act)
    BY <1>2 DEF Complete
<1>5. IInv'
    <2>1. /\ tok = r.token /\ tok # 0 /\ act = r.act
          /\ r.token \in Nat /\ r.act \in Epochs
        BY <1>2, <1>4 DEF CompleteAllowed, Owns, Row, NoToken
    <2>2. r.token <= issued /\ issued \in Nat
        BY <1>3 DEF IInv
    <2>3. tok \in 1 .. issued /\ act \in Epochs
        BY <2>1, <2>2
    <2>4. QED
        BY <1>1, <2>3, NextOK DEF Next, Call, Outcomes
<1>6. ASSUME NEW i \in Jobs \ {j}
      PROVE  Retires(jobs[i].state, jobs'[i].state)
    <2>1. jobs'[i] = Expire({j})[i]
        BY <1>1 DEF Complete
    <2>2. QED
        BY <2>1, SweepRetires DEF Retires
<1>7. CASE r.state \in Final
    <2>1. jobs'[j] = r
        BY <1>2, <1>7 DEF Complete
    <2>2. QED
        BY <1>3, <1>5, <1>6, <2>1 DEF Retires
<1>8. CASE r.state \notin Final
    <2>1. CompleteRow(r, o).state = o
        BY DEF CompleteRow, Row
    <2>2. jobs'[j].state = o
        BY <1>1, <1>2, <1>8, <2>1 DEF Complete
    <2>3. r.state \in {"running", "cancel_requested", "unknown"}
        BY <1>4, <1>8 DEF CompleteAllowed, Owns, JobStates, Final
    <2>4. QED
        BY <1>3, <1>5, <1>6, <2>2, <2>3
<1>9. QED
    BY <1>7, <1>8

(***************************************************************************)
(* What is true of an outcome stays true.                                  *)
(***************************************************************************)
\* Nobody begins to carry a job that was told to execute, or goes back to it
\* from its end.
CarryFrame ==
    \A l \in Lanes, j \in Jobs :
        jobs[j].state \notin Unasked /\ Carries(l, j)' =>
            Carries(l, j) /\ (lane[l].pc = "ending" => lane'[l].pc = "ending")

HistoryFrame ==
    \A j \in Jobs :
        /\ jobs[j].state \notin Unasked => jobs'[j].state \notin Unasked
        /\ execs[j] = 1 => execs'[j] = 1
        /\ Never(j) => execs'[j] = 0

\* Within that frame a true outcome stays true.
LEMMA TrueKept ==
    ASSUME CarryFrame, HistoryFrame, NEW j, NEW o, TrueOutcome(j, o)
    PROVE  TrueOutcome(j, o)'
<1>1. SUFFICES ASSUME j \in Jobs
               PROVE  (o = "succeeded" => execs'[j] = 1) /\ (o = "failed" => Never(j)')
    BY DEF TrueOutcome
<1>2. o = "succeeded" => execs'[j] = 1
    BY <1>1 DEF TrueOutcome, HistoryFrame
<1>3. Never(j) => Never(j)'
    <2>1. SUFFICES ASSUME Never(j)
                   PROVE  Never(j)'
        OBVIOUS
    <2>2. execs'[j] = 0 /\ jobs[j].state \notin Unasked /\ jobs'[j].state \notin Unasked
        BY <1>1, <2>1 DEF HistoryFrame, Never
    <2>3. \A l \in Lanes : Carries(l, j)' => lane'[l].pc = "ending"
        BY <1>1, <2>1, <2>2 DEF CarryFrame, Never
    <2>4. QED
        BY <2>2, <2>3 DEF Never
<1>4. QED
    BY <1>1, <1>2, <1>3 DEF TrueOutcome

\* A lane that waits for the answer to a start, or executes, carries its job.
LEMMA Carrying ==
    ASSUME NEW l \in Lanes, lane[l].pc \in Busy
    PROVE  Carries(l, lane[l].work.job)
BY DEF Carries

(***************************************************************************)
(* Steps of the store, alone or answering a request.                       *)
(***************************************************************************)
StoreFrame ==
    \A i \in Jobs :
        /\ jobs[i].state \notin Unasked => jobs'[i].state \notin Unasked
        /\ jobs'[i].state \in {"absent", "queued"} => jobs[i].state \in {"absent", "queued"}
        /\ jobs'[i].state \in {"cancelled", "failed"} =>
               jobs[i].state \in Unasked \cup {"cancelled", "failed"} \/ Never(i)
        /\ jobs'[i].state = "succeeded" => execs[i] = 1
        /\ jobs'[i].state = "deleted" =>
               jobs[i].state \in Unasked \cup {"cancelled", "failed", "deleted"} \/ execs[i] = 1

\* A row that retires disturbs nobody.
LEMMA QuietFrame ==
    ASSUME OutcomesOK, NEW i \in Jobs, Retires(jobs[i].state, jobs'[i].state)
    PROVE  /\ jobs[i].state \notin Unasked => jobs'[i].state \notin Unasked
           /\ jobs'[i].state \in {"absent", "queued"} => jobs[i].state \in {"absent", "queued"}
           /\ jobs'[i].state \in {"cancelled", "failed"} =>
                  jobs[i].state \in Unasked \cup {"cancelled", "failed"}
           /\ jobs'[i].state = "succeeded" => execs[i] = 1
           /\ jobs'[i].state = "deleted" =>
                  jobs[i].state \in Unasked \cup {"cancelled", "failed", "deleted"} \/ execs[i] = 1
BY DEF Retires, Unasked, Final, OutcomesOK

\* A step of the store alone keeps lanes, receipts and outcomes in order.
LEMMA StoreKeeps ==
    ASSUME DeliveryInv, IInv', StoreFrame, CarryFrame,
           UNCHANGED <<epoch, lane, receipts, execs>>
    PROVE  /\ LanesOK' /\ ReceiptsOK' /\ OutcomesOK'
           /\ \A j, o : TrueOutcome(j, o) => TrueOutcome(j, o)'
           /\ \A c \in calls : c.open => OpenOK(c)'
<1>1. lane' = lane /\ receipts' = receipts /\ execs' = execs
    OBVIOUS
<1>2. DeliveryTypeOK /\ LanesOK /\ CallsOK /\ ReceiptsOK /\ OutcomesOK
    BY DEF DeliveryInv
<1>3. HistoryFrame
    BY <1>1 DEF HistoryFrame, StoreFrame, Never
<1>4. \A j, o : TrueOutcome(j, o) => TrueOutcome(j, o)'
    BY <1>3, TrueKept
<1>5. LanesOK'
    <2>1. SUFFICES ASSUME NEW l \in Lanes
                   PROVE  LaneOK(l)'
        BY DEF LanesOK
    <2>2. LaneOK(l)
        BY <1>2 DEF LanesOK
    <2>3. TrueOutcome(lane[l].work.job, lane[l].outcome) =>
              TrueOutcome(lane[l].work.job, lane[l].outcome)'
        <3>1. PICK j, o : j = lane[l].work.job /\ o = lane[l].outcome
            OBVIOUS
        <3>2. TrueOutcome(j, o) => TrueOutcome(j, o)'
            BY <1>4
        <3>3. j = lane'[l].work.job /\ o = lane'[l].outcome
            BY <1>1, <3>1
        <3>4. QED
            BY <3>1, <3>2, <3>3
    <2>4. QED
        BY <1>1, <2>2, <2>3 DEF LaneOK
<1>6. ReceiptsOK'
    BY <1>1, <1>2, <1>4 DEF ReceiptsOK
<1>7. OutcomesOK'
    <2>1. SUFFICES ASSUME NEW j \in Jobs
                   PROVE  /\ jobs'[j].state \in Unasked \cup {"cancelled", "failed"} => execs[j] = 0
                          /\ jobs'[j].state = "succeeded" => execs[j] = 1
                          /\ execs[j] <= 1
        BY <1>1 DEF OutcomesOK
    <2>2. QED
        BY <1>2 DEF OutcomesOK, StoreFrame, Never
<1>8. ASSUME NEW c \in calls, c.open
      PROVE  OpenOK(c)'
    <2>1. OpenOK(c) /\ ShapeOK(c)
        BY <1>2, <1>8 DEF CallsOK
    <2>2. ASSUME c.kind = "start"
          PROVE  /\ c.work.job \in Jobs /\ lane[c.lane].pc = "starting" /\ ~Never(c.work.job)
                 /\ execs[c.work.job] = 0
                 /\ jobs[c.work.job].state \notin Unasked => jobs'[c.work.job].state \notin Unasked
        <3>1. c.work.job \in Jobs /\ lane[c.lane].pc = "starting" /\ c.lane \in Lanes
              /\ c.work.job = lane[c.lane].work.job
            BY <1>2, <2>1, <2>2 DEF ShapeOK, OpenOK, DeliveryTypeOK, Requests
        <3>2. Carries(c.lane, c.work.job)
            BY <3>1, Carrying DEF Busy
        <3>3. QED
            BY <1>2, <3>1, <3>2 DEF Never, StoreFrame, LanesOK, LaneOK
    <2>3. Grant(c) => jobs'[c.work.job].state \notin {"cancelled", "failed", "deleted"}
        BY <2>1, <2>2 DEF Grant, OpenOK, StoreFrame
    <2>4. QED
        BY <1>1, <2>1, <2>2, <2>3 DEF OpenOK, Grant
<1>9. QED
    BY <1>4, <1>5, <1>6, <1>7, <1>8

\* What the Mainframe does by itself.
LEMMA MainframeKeeps ==
    ASSUME DeliveryInv, MainframeStep
    PROVE  DeliveryInv'
<1>1. IInv' /\ QuietStep
    BY MainframeRetires DEF DeliveryInv
<1>2. UNCHANGED <<epoch, lane, receipts, execs>> /\ calls' = calls
    BY DEF MainframeStep, agentVars
<1>3. DeliveryTypeOK /\ CarriersOK /\ CallsOK /\ OutcomesOK
    BY DEF DeliveryInv
<1>4. \A l \in Lanes, j \in Jobs : Carries(l, j)' <=> Carries(l, j)
    BY <1>2 DEF Carries
<1>5. CarryFrame
    BY <1>2, <1>4 DEF CarryFrame
<1>6. StoreFrame
    BY <1>1, <1>3, QuietFrame DEF StoreFrame, QuietStep
<1>7. /\ LanesOK' /\ ReceiptsOK' /\ OutcomesOK'
      /\ \A j, o : TrueOutcome(j, o) => TrueOutcome(j, o)'
      /\ \A c \in calls : c.open => OpenOK(c)'
    BY <1>1, <1>2, <1>5, <1>6, StoreKeeps
<1>8. DeliveryTypeOK'
    BY <1>2, <1>3 DEF DeliveryTypeOK
<1>9. CarriersOK'
    BY <1>3, <1>4, <1>6 DEF CarriersOK, StoreFrame
<1>10. CallsOK'
    BY <1>2, <1>3, <1>7 DEF CallsOK
<1>11. QED
    BY <1>1, <1>7, <1>8, <1>9, <1>10 DEF DeliveryInv

\* A request moves on while the store answers it.
LEMMA ServeKeeps ==
    ASSUME DeliveryInv, IInv', StoreFrame, UNCHANGED <<epoch, lane, receipts, execs>>,
           NEW c \in calls, NEW d \in Requests, Advance(c, d), ShapeOK(d),
           d.open = c.open, d.lane = c.lane, d.kind = c.kind, d.result = c.result,
           d.kind \in {"start", "renew"} => d.work = c.work,
           d.open /\ d.kind = "poll" /\ d.work # c.work =>
               jobs[d.work.job].state = "queued" /\ jobs'[d.work.job].state = "claimed",
           d.open /\ d.kind = "start" /\ d.step = "reply" /\ d.reply # "refused" =>
               jobs'[d.work.job].state \notin Unasked,
           d.open /\ Grant(d) => jobs'[d.work.job].state \notin {"cancelled", "failed", "deleted"}
    PROVE  DeliveryInv'
<1>1. lane' = lane /\ receipts' = receipts /\ execs' = execs /\ epoch' = epoch
    OBVIOUS
<1>2. DeliveryTypeOK /\ CarriersOK /\ CallsOK /\ OutcomesOK
    BY DEF DeliveryInv
<1>3. \A e \in calls' : e = d \/ (e \in calls /\ e # c)
    BY DEF Advance
<1>4. calls' \in SUBSET Requests
    BY <1>2, <1>3 DEF DeliveryTypeOK
<1>5. d.open /\ d.kind = "poll" /\ d.work # NoWork => d.work.job \in Jobs
    BY DEF ShapeOK
<1>6. ASSUME NEW l \in Lanes, NEW j \in Jobs, Carries(l, j)'
      PROVE  \/ Carries(l, j)
             \/ l = d.lane /\ jobs[j].state = "queued" /\ jobs'[j].state = "claimed"
    <2>1. CASE lane'[l].pc \in Busy /\ lane'[l].work.job = j
        BY <1>1, <2>1 DEF Carries
    <2>2. CASE \E e \in calls' : e.open /\ e.lane = l /\ e.kind = "poll" /\ e.work.job = j
        <3>1. PICK e \in calls' : e.open /\ e.lane = l /\ e.kind = "poll" /\ e.work.job = j
            BY <2>2
        <3>2. CASE e \in calls
            BY <3>1, <3>2 DEF Carries
        <3>3. CASE e = d
            BY <3>1, <3>3 DEF Carries
        <3>4. QED
            BY <1>3, <3>2, <3>3
    <2>3. QED
        BY <1>6, <2>1, <2>2 DEF Carries
<1>7. CarryFrame
    BY <1>1, <1>6 DEF CarryFrame, Unasked
<1>8. /\ LanesOK' /\ ReceiptsOK' /\ OutcomesOK'
      /\ \A j, o : TrueOutcome(j, o) => TrueOutcome(j, o)'
      /\ \A e \in calls : e.open => OpenOK(e)'
    BY <1>7, StoreKeeps
<1>9. DeliveryTypeOK'
    BY <1>1, <1>2, <1>4 DEF DeliveryTypeOK
<1>10. CarriersOK'
    <2>1. ASSUME NEW j \in Jobs, NEW l \in Lanes, NEW m \in Lanes, Carries(l, j)', Carries(m, j)'
          PROVE  l = m
        <3>1. CASE jobs[j].state = "queued"
            BY <1>2, <1>6, <2>1, <3>1 DEF CarriersOK
        <3>2. CASE jobs[j].state # "queued"
            BY <1>2, <1>6, <2>1, <3>2 DEF CarriersOK
        <3>3. QED
            BY <3>1, <3>2
    <2>2. ASSUME NEW j \in Jobs, jobs'[j].state \in {"absent", "queued"}, NEW l \in Lanes
          PROVE  ~Carries(l, j)'
        BY <1>2, <1>6, <2>2 DEF CarriersOK, StoreFrame
    <2>3. QED
        BY <2>1, <2>2 DEF CarriersOK
<1>11. CallsOK'
    <2>1. TrueOutcome(d.result.job, d.result.outcome)'
        <3>1. TrueOutcome(c.result.job, c.result.outcome)
            BY <1>2 DEF CallsOK
        <3>2. QED
            BY <1>8, <3>1
    <2>2. d.open => OpenOK(d)'
        <3>1. SUFFICES ASSUME d.open
                       PROVE  OpenOK(d)'
            OBVIOUS
        <3>2. OpenOK(c) /\ OpenOK(c)' /\ ShapeOK(c)
            BY <1>2, <1>8, <3>1 DEF CallsOK
        <3>3. d.kind = "poll" /\ d.work # NoWork => execs'[d.work.job] = 0
            <4>1. CASE d.work = c.work
                BY <1>1, <3>2, <4>1 DEF OpenOK
            <4>2. CASE d.work # c.work
                BY <1>1, <1>2, <1>5, <3>1, <4>2 DEF OutcomesOK, Unasked
            <4>3. QED
                BY <4>1, <4>2
        <3>4. QED
            BY <1>1, <3>1, <3>2, <3>3 DEF OpenOK, Grant
    <2>3. ASSUME NEW e \in calls'
          PROVE  ShapeOK(e) /\ TrueOutcome(e.result.job, e.result.outcome)' /\ (e.open => OpenOK(e)')
        <3>1. CASE e = d
            BY <2>1, <2>2, <3>1
        <3>2. CASE e \in calls
            BY <1>2, <1>8, <3>2 DEF CallsOK
        <3>3. QED
            BY <1>3, <3>1, <3>2
    <2>4. ASSUME NEW e \in calls', NEW f \in calls', e.open, f.open, e.lane = f.lane
          PROVE  e = f
        BY <1>2, <1>3, <2>4 DEF CallsOK
    <2>5. QED
        BY <2>3, <2>4 DEF CallsOK, ShapeOK
<1>12. QED
    BY <1>8, <1>9, <1>10, <1>11 DEF DeliveryInv

\* Values of the constants' types.
LEMMA NoWorkFacts ==
    /\ NoWork \in Works /\ NoWork.job = NoJob /\ NoJob \notin Jobs
    /\ NoResult \in Results /\ NoResult.outcome = "unknown" /\ NoResult.job = NoJob
    /\ Self \in Agents /\ Activations \subseteq Epochs
BY NoJobAssumption, SelfAssumption DEF NoWork, NoResult, Works, Results, Outcomes, NoToken, Epochs

\* The fields of a request have their types.
LEMMA RequestFields ==
    ASSUME NEW c \in Requests
    PROVE  /\ c.kind \in {"poll", "status", "start", "renew"} /\ c.lane \in Lanes /\ c.try \in Nat
           /\ c.open \in BOOLEAN /\ c.act \in Epochs /\ c.result \in Results /\ c.work \in Works
           /\ c.step \in {"activate", "accept", "claim", "control", "reply"}
BY DEF Requests

\* The store does not change: nothing is disturbed.
LEMMA StoreStutter ==
    ASSUME DeliveryInv, UNCHANGED storeVars
    PROVE  IInv' /\ StoreFrame
<1>1. jobs' = jobs /\ activation' = activation /\ issued' = issued
    BY DEF storeVars, vars
<1>2. IInv'
    BY <1>1 DEF DeliveryInv, IInv, TokensIdentifyAttempts
<1>3. StoreFrame
    BY <1>1 DEF StoreFrame, DeliveryInv, OutcomesOK
<1>4. QED
    BY <1>2, <1>3

\* A heartbeat presents its activation.
LEMMA ServeActivateKeeps ==
    ASSUME DeliveryInv, NEW c \in calls, ServeActivate(c)
    PROVE  DeliveryInv'
<1>1. DeliveryTypeOK /\ CallsOK /\ OutcomesOK /\ IInv
    BY DEF DeliveryInv
<1>2. c \in Requests /\ ShapeOK(c)
    BY <1>1 DEF DeliveryTypeOK, CallsOK
<1>3. /\ c.step = "activate" /\ ActivateAgent(Self, c.act)
      /\ UNCHANGED <<epoch, lane, receipts, execs>>
    BY DEF ServeActivate, agentVars
<1>4. c.kind \in {"poll", "status"} /\ c.act \in Activations
    BY <1>2, <1>3, RequestFields DEF ShapeOK
<1>5. IInv' /\ QuietStep
    BY <1>1, <1>3, <1>4, ActivateRetires
<1>6. StoreFrame
    BY <1>1, <1>5, QuietFrame DEF StoreFrame, QuietStep
<1>7. PICK step \in {"accept", "claim", "reply"} :
          /\ Advance(c, [c EXCEPT !.step = step])
          /\ step = "accept" => c.result # NoResult
          /\ step = "claim" => c.kind = "poll"
    BY DEF ServeActivate, AfterAccept
<1>8. PICK d : d = [c EXCEPT !.step = step]
    OBVIOUS
<1>9. /\ d \in Requests /\ d.step = step /\ d.work = c.work /\ d.reply = c.reply
      /\ d.open = c.open /\ d.lane = c.lane /\ d.kind = c.kind /\ d.result = c.result
      /\ d.act = c.act
    BY <1>2, <1>7, <1>8 DEF Requests
<1>10. c.result # NoResult => c.result.job \in Jobs
    BY <1>2, <1>3, <1>4 DEF ShapeOK
<1>11. ShapeOK(d)
    BY <1>2, <1>3, <1>4, <1>7, <1>9, <1>10 DEF ShapeOK
<1>12. ~Grant(d)
    BY <1>4, <1>9 DEF Grant
<1>13. QED
    BY <1>3, <1>4, <1>5, <1>6, <1>7, <1>8, <1>9, <1>11, <1>12, ServeKeeps

\* A result is accepted or rejected; an accepted one is true.
LEMMA ServeAcceptKeeps ==
    ASSUME DeliveryInv, NEW c \in calls, ServeAccept(c)
    PROVE  DeliveryInv'
<1>1. DeliveryTypeOK /\ CallsOK /\ OutcomesOK /\ IInv
    BY DEF DeliveryInv
<1>2. c \in Requests /\ ShapeOK(c) /\ TrueOutcome(c.result.job, c.result.outcome)
    BY <1>1 DEF DeliveryTypeOK, CallsOK
<1>3. c.step = "accept" /\ UNCHANGED <<epoch, lane, receipts, execs>>
    BY DEF ServeAccept, agentVars
<1>4. c.kind \in {"poll", "status"} /\ c.result.job \in Jobs /\ c.result.outcome \in Outcomes
    BY <1>2, <1>3, RequestFields DEF ShapeOK, Results
<1>5. PICK ack \in {"accepted", "rejected"} :
          /\ Advance(c, [c EXCEPT !.step = AfterAccept(c), !.ack = ack])
          /\ \/ Complete(c.result.job, Self, c.result.token, c.act, c.result.outcome)
             \/ UNCHANGED storeVars
    BY DEF ServeAccept
<1>6. IInv' /\ StoreFrame
    <2>1. CASE Complete(c.result.job, Self, c.result.token, c.act, c.result.outcome)
        <3>1. PICK j \in Jobs, o \in Outcomes : j = c.result.job /\ o = c.result.outcome
            BY <1>4
        <3>2. /\ IInv'
              /\ \A i \in Jobs \ {j} : Retires(jobs[i].state, jobs'[i].state)
              /\ \/ Retires(jobs[j].state, jobs'[j].state)
                 \/ /\ jobs[j].state \in {"running", "cancel_requested", "unknown"}
                    /\ jobs'[j].state = o
            BY <1>1, <2>1, <3>1, CompleteResolves
        <3>3. (o = "succeeded" => execs[j] = 1) /\ (o = "failed" => Never(j))
            BY <1>2, <3>1 DEF TrueOutcome
        <3>4. CASE Retires(jobs[j].state, jobs'[j].state)
            BY <1>1, <3>2, <3>4, QuietFrame DEF StoreFrame
        <3>5. CASE /\ jobs[j].state \in {"running", "cancel_requested", "unknown"}
                   /\ jobs'[j].state = o
            <4>1. o \notin Unasked /\ o # "cancelled" /\ o # "deleted"
                BY DEF Outcomes, Unasked
            <4>2. \A i \in Jobs \ {j} :
                      /\ jobs[i].state \notin Unasked => jobs'[i].state \notin Unasked
                      /\ jobs'[i].state \in {"absent", "queued"} => jobs[i].state \in {"absent", "queued"}
                      /\ jobs'[i].state \in {"cancelled", "failed"} =>
                             jobs[i].state \in Unasked \cup {"cancelled", "failed"}
                      /\ jobs'[i].state = "succeeded" => execs[i] = 1
                      /\ jobs'[i].state = "deleted" =>
                             jobs[i].state \in Unasked \cup {"cancelled", "failed", "deleted"} \/ execs[i] = 1
                BY <1>1, <3>2, QuietFrame
            <4>3. QED
                BY <3>2, <3>3, <3>5, <4>1, <4>2 DEF StoreFrame, Unasked
        <3>6. QED
            BY <3>2, <3>4, <3>5
    <2>2. CASE UNCHANGED storeVars
        BY <2>2, StoreStutter
    <2>3. QED
        BY <1>5, <2>1, <2>2
<1>7. PICK d : d = [c EXCEPT !.step = AfterAccept(c), !.ack = ack]
    OBVIOUS
<1>8. AfterAccept(c) \in {"claim", "reply"} /\ (AfterAccept(c) = "claim" => c.kind = "poll")
    BY DEF AfterAccept
<1>9. /\ d \in Requests /\ d.step = AfterAccept(c) /\ d.work = c.work /\ d.reply = c.reply
      /\ d.open = c.open /\ d.lane = c.lane /\ d.kind = c.kind /\ d.result = c.result
      /\ d.act = c.act
    BY <1>2, <1>7, <1>8 DEF Requests
<1>10. ShapeOK(d)
    BY <1>2, <1>3, <1>4, <1>8, <1>9 DEF ShapeOK
<1>11. ~Grant(d)
    BY <1>4, <1>9 DEF Grant
<1>12. QED
    BY <1>3, <1>4, <1>5, <1>6, <1>7, <1>9, <1>10, <1>11, ServeKeeps

\* A poll takes a queued job.
LEMMA ServeClaimKeeps ==
    ASSUME DeliveryInv, NEW c \in calls, ServeClaim(c)
    PROVE  DeliveryInv'
<1>1. DeliveryTypeOK /\ CallsOK /\ OutcomesOK /\ IInv
    BY DEF DeliveryInv
<1>2. c \in Requests /\ ShapeOK(c)
    BY <1>1 DEF DeliveryTypeOK, CallsOK
<1>3. c.step = "claim" /\ UNCHANGED <<epoch, lane, receipts, execs>>
    BY DEF ServeClaim, agentVars
<1>4. c.kind = "poll" /\ c.act \in Activations
    BY <1>2, <1>3, RequestFields DEF ShapeOK
<1>5. PICK j \in Jobs :
          /\ Claim(Self, c.act, Channel, j)
          /\ Advance(c, [c EXCEPT !.step = "reply",
                            !.work = [job |-> j, token |-> issued', act |-> jobs[j].act]])
    BY DEF ServeClaim
<1>6. /\ IInv' /\ issued' \in Nat
      /\ jobs[j].state = "queued" /\ jobs'[j].state = "claimed"
      /\ \A i \in Jobs \ {j} : Retires(jobs[i].state, jobs'[i].state)
    BY <1>1, <1>4, <1>5, ClaimTakes
<1>7. StoreFrame
    <2>1. \A i \in Jobs \ {j} :
              /\ jobs[i].state \notin Unasked => jobs'[i].state \notin Unasked
              /\ jobs'[i].state \in {"absent", "queued"} => jobs[i].state \in {"absent", "queued"}
              /\ jobs'[i].state \in {"cancelled", "failed"} =>
                     jobs[i].state \in Unasked \cup {"cancelled", "failed"}
              /\ jobs'[i].state = "succeeded" => execs[i] = 1
              /\ jobs'[i].state = "deleted" =>
                     jobs[i].state \in Unasked \cup {"cancelled", "failed", "deleted"} \/ execs[i] = 1
        BY <1>1, <1>6, QuietFrame
    <2>2. QED
        BY <1>6, <2>1 DEF StoreFrame, Unasked
<1>8. PICK w : w = [job |-> j, token |-> issued', act |-> jobs[j].act]
    OBVIOUS
<1>9. w \in Works /\ w.job = j
    BY <1>1, <1>6, <1>8 DEF Works, IInv, Row
<1>10. PICK d : d = [c EXCEPT !.step = "reply", !.work = w]
    OBVIOUS
<1>11. /\ d \in Requests /\ d.step = "reply" /\ d.work = w /\ d.reply = c.reply
       /\ d.open = c.open /\ d.lane = c.lane /\ d.kind = c.kind /\ d.result = c.result
       /\ d.act = c.act
    BY <1>2, <1>9, <1>10 DEF Requests
<1>12. ShapeOK(d)
    BY <1>2, <1>4, <1>9, <1>11 DEF ShapeOK
<1>13. ~Grant(d)
    BY <1>4, <1>11 DEF Grant
<1>14. Advance(c, d)
    BY <1>5, <1>8, <1>10
<1>15. QED
    BY <1>3, <1>4, <1>6, <1>7, <1>9, <1>11, <1>12, <1>13, <1>14, ServeKeeps

\* A poll ends empty-handed.
LEMMA ServeEmptyKeeps ==
    ASSUME DeliveryInv, NEW c \in calls, ServeEmpty(c)
    PROVE  DeliveryInv'
<1>1. DeliveryTypeOK /\ CallsOK /\ OutcomesOK /\ IInv
    BY DEF DeliveryInv
<1>2. c \in Requests /\ ShapeOK(c)
    BY <1>1 DEF DeliveryTypeOK, CallsOK
<1>3. /\ c.step = "claim" /\ UNCHANGED <<epoch, lane, receipts, execs>>
      /\ Advance(c, [c EXCEPT !.step = "reply"])
      /\ UNCHANGED storeVars \/ ClaimNothing(Self, c.act, Channel)
    BY DEF ServeEmpty, agentVars
<1>4. c.kind = "poll" /\ c.act \in Activations
    BY <1>2, <1>3, RequestFields DEF ShapeOK
<1>5. IInv' /\ StoreFrame
    <2>1. CASE UNCHANGED storeVars
        BY <2>1, StoreStutter
    <2>2. CASE ClaimNothing(Self, c.act, Channel)
        BY <1>1, <1>4, <2>2, EmptyRetires, QuietFrame DEF StoreFrame, QuietStep
    <2>3. QED
        BY <1>3, <2>1, <2>2
<1>6. PICK d : d = [c EXCEPT !.step = "reply"]
    OBVIOUS
<1>7. /\ d \in Requests /\ d.step = "reply" /\ d.work = c.work /\ d.reply = c.reply
      /\ d.open = c.open /\ d.lane = c.lane /\ d.kind = c.kind /\ d.result = c.result
      /\ d.act = c.act
    BY <1>2, <1>6 DEF Requests
<1>8. ShapeOK(d) /\ ~Grant(d)
    BY <1>2, <1>3, <1>4, <1>7 DEF ShapeOK, Grant
<1>9. QED
    BY <1>3, <1>4, <1>5, <1>6, <1>7, <1>8, ServeKeeps

\* A start is granted once; a renewal changes no state but by the sweep.
LEMMA ServeControlKeeps ==
    ASSUME DeliveryInv, NEW c \in calls, ServeControl(c)
    PROVE  DeliveryInv'
<1>1. DeliveryTypeOK /\ CallsOK /\ OutcomesOK /\ IInv
    BY DEF DeliveryInv
<1>2. c \in Requests /\ ShapeOK(c)
    BY <1>1 DEF DeliveryTypeOK, CallsOK
<1>3. c.step = "control" /\ UNCHANGED <<epoch, lane, receipts, execs>>
    BY DEF ServeControl, agentVars
<1>4. c.kind \in {"start", "renew"} /\ c.work.job \in Jobs
    BY <1>2, <1>3, RequestFields DEF ShapeOK
<1>5. PICK j \in Jobs : j = c.work.job
    BY <1>4
<1>6. PICK reply :
          /\ Advance(c, [c EXCEPT !.step = "reply", !.reply = reply])
          /\ \/ reply = "refused" /\ UNCHANGED storeVars
             \/ reply = jobs'[j].state /\ c.kind = "start" /\ Start(j, Self, c.work.token, c.work.act)
             \/ reply = jobs'[j].state /\ c.kind # "start" /\ Renew(j, Self, c.work.token, c.work.act)
    BY <1>5 DEF ServeControl
<1>7. /\ IInv' /\ StoreFrame
      /\ reply \in RowStates \cup {"none", "refused"}
      /\ c.kind = "start" /\ reply # "refused" => jobs'[j].state \notin Unasked
      /\ c.kind = "start" /\ reply = "running" => jobs'[j].state \notin {"cancelled", "failed", "deleted"}
    <2>1. CASE reply = "refused" /\ UNCHANGED storeVars
        BY <2>1, StoreStutter
    <2>2. CASE reply = jobs'[j].state /\ c.kind = "start" /\ Start(j, Self, c.work.token, c.work.act)
        <3>1. /\ IInv'
              /\ \A i \in Jobs \ {j} : Retires(jobs[i].state, jobs'[i].state)
              /\ \/ jobs[j].state = "claimed" /\ jobs'[j].state = "running"
                 \/ /\ Retires(jobs[j].state, jobs'[j].state)
                    /\ jobs'[j].state \in {"unknown", "succeeded", "failed", "cancelled"}
            BY <1>1, <2>2, StartGrants
        <3>2. \A i \in Jobs :
                  Retires(jobs[i].state, jobs'[i].state) =>
                      /\ jobs[i].state \notin Unasked => jobs'[i].state \notin Unasked
                      /\ jobs'[i].state \in {"absent", "queued"} => jobs[i].state \in {"absent", "queued"}
                      /\ jobs'[i].state \in {"cancelled", "failed"} =>
                             jobs[i].state \in Unasked \cup {"cancelled", "failed"}
                      /\ jobs'[i].state = "succeeded" => execs[i] = 1
                      /\ jobs'[i].state = "deleted" =>
                             jobs[i].state \in Unasked \cup {"cancelled", "failed", "deleted"} \/ execs[i] = 1
            BY <1>1, QuietFrame
        <3>3. StoreFrame
            BY <3>1, <3>2 DEF StoreFrame, Unasked
        <3>4. jobs'[j].state \in {"running", "unknown", "succeeded", "failed", "cancelled"}
            BY <3>1
        <3>5. QED
            BY <2>2, <3>1, <3>3, <3>4, StateFacts DEF Unasked
    <2>3. CASE reply = jobs'[j].state /\ c.kind # "start" /\ Renew(j, Self, c.work.token, c.work.act)
        <3>1. IInv' /\ QuietStep /\ jobs'[j].state \in RowStates
            BY <1>1, <2>3, RenewRetires
        <3>2. StoreFrame
            BY <1>1, <3>1, QuietFrame DEF StoreFrame, QuietStep
        <3>3. QED
            BY <2>3, <3>1, <3>2
    <2>4. QED
        BY <1>6, <2>1, <2>2, <2>3
<1>8. PICK d : d = [c EXCEPT !.step = "reply", !.reply = reply]
    OBVIOUS
<1>9. /\ d \in Requests /\ d.step = "reply" /\ d.work = c.work /\ d.reply = reply
      /\ d.open = c.open /\ d.lane = c.lane /\ d.kind = c.kind /\ d.result = c.result
      /\ d.act = c.act
    BY <1>2, <1>7, <1>8 DEF Requests
<1>10. ShapeOK(d)
    BY <1>4, <1>9 DEF ShapeOK
<1>11. Grant(d) => d.kind = "start" /\ d.reply = "running"
    BY DEF Grant
<1>12. QED
    BY <1>3, <1>4, <1>5, <1>6, <1>7, <1>8, <1>9, <1>10, <1>11, ServeKeeps

(***************************************************************************)
(* Steps of one lane of the agent.                                         *)
(***************************************************************************)
\* The capability of the job is invoked by the lane whose start was granted.
Invoked(l, j) ==
    /\ lane[l].pc = "starting" /\ lane[l].work.job = j /\ lane'[l].pc = "executing"
    /\ execs[j] = 0 /\ execs'[j] = 1
    /\ jobs[j].state \notin Unasked \cup {"cancelled", "failed", "deleted"}

\* The other lanes and their open requests are left alone, the lane takes up no
\* job it does not carry, and only its granted job is executed.
LaneFrame(l) ==
    /\ \A m \in Lanes \ {l} : lane'[m] = lane[m]
    /\ \A c \in calls' : c.open /\ c.lane # l => c \in calls
    /\ \A j \in Jobs : Carries(l, j)' =>
           Carries(l, j) /\ (lane[l].pc = "ending" => lane'[l].pc = "ending")
    /\ \A j \in Jobs : execs'[j] = execs[j] \/ Invoked(l, j)

\* No job changes hands and no outcome becomes false.
LEMMA LaneFrames ==
    ASSUME DeliveryInv, UNCHANGED storeVars, NEW l \in Lanes, LaneFrame(l)
    PROVE  /\ \A m \in Lanes, j \in Jobs : Carries(m, j)' => Carries(m, j)
           /\ \A j, o : TrueOutcome(j, o) => TrueOutcome(j, o)'
<1>1. jobs' = jobs
    BY DEF storeVars, vars
<1>2. ASSUME NEW m \in Lanes, NEW j \in Jobs, Carries(m, j)'
      PROVE  Carries(m, j) /\ (lane[m].pc = "ending" => lane'[m].pc = "ending")
    <2>1. CASE m = l
        BY <1>2, <2>1 DEF LaneFrame
    <2>2. CASE m # l
        <3>1. lane'[m] = lane[m] /\ \A c \in calls' : c.open /\ c.lane = m => c \in calls
            BY <2>2 DEF LaneFrame
        <3>2. QED
            BY <1>2, <3>1 DEF Carries
    <2>3. QED
        BY <2>1, <2>2
<1>3. CarryFrame
    BY <1>2 DEF CarryFrame
<1>4. ASSUME NEW j \in Jobs
      PROVE  (execs[j] = 1 => execs'[j] = 1) /\ (Never(j) => execs'[j] = 0)
    <2>1. CASE execs'[j] = execs[j]
        BY <2>1 DEF Never
    <2>2. CASE Invoked(l, j)
        BY <2>2, Carrying DEF Invoked, Never, Busy
    <2>3. QED
        BY <2>1, <2>2 DEF LaneFrame
<1>5. HistoryFrame
    BY <1>1, <1>4 DEF HistoryFrame
<1>6. QED
    BY <1>2, <1>3, <1>5, TrueKept

\* The step of a lane that keeps to its frame and leaves itself in order.
LEMMA LaneKeeps ==
    ASSUME DeliveryInv, UNCHANGED storeVars, NEW l \in Lanes, LaneFrame(l), DeliveryTypeOK',
           LaneOK(l)',
           \A c \in calls' : ShapeOK(c) /\ TrueOutcome(c.result.job, c.result.outcome),
           \A c \in calls' : c.open /\ c.lane = l => OpenOK(c)',
           \A c, d \in calls' : c.open /\ d.open /\ c.lane = l /\ d.lane = l => c = d,
           \A j \in Jobs : receipts[j].phase = "open" => receipts'[j] = receipts[j] \/ Carries(l, j),
           \A j \in Jobs : TrueOutcome(j, receipts'[j].outcome)
    PROVE  DeliveryInv'
<1>1. jobs' = jobs /\ IInv'
    BY StoreStutter DEF storeVars, vars
<1>2. DeliveryTypeOK /\ CarriersOK /\ LanesOK /\ CallsOK /\ OutcomesOK
    BY DEF DeliveryInv
<1>3. /\ \A m \in Lanes, j \in Jobs : Carries(m, j)' => Carries(m, j)
      /\ \A j, o : TrueOutcome(j, o) => TrueOutcome(j, o)'
    BY LaneFrames
<1>4. CarriersOK'
    BY <1>1, <1>2, <1>3 DEF CarriersOK
<1>5. ASSUME NEW m \in Lanes \ {l}, NEW j \in Jobs, Carries(m, j)
      PROVE  ~Carries(l, j) /\ execs'[j] = execs[j]
    <2>1. ~Carries(l, j)
        BY <1>2, <1>5 DEF CarriersOK
    <2>2. ~Invoked(l, j)
        BY <2>1, Carrying DEF Invoked, Busy
    <2>3. QED
        BY <2>1, <2>2 DEF LaneFrame
<1>6. ASSUME NEW m \in Lanes \ {l}
      PROVE  LaneOK(m)'
    <2>1. LaneOK(m) /\ lane'[m] = lane[m]
        BY <1>2 DEF LanesOK, LaneFrame
    <2>2. CASE lane[m].pc \notin Busy
        BY <2>1, <2>2 DEF LaneOK, Busy
    <2>3. CASE lane[m].pc \in Busy
        <3>1. PICK j \in Jobs : j = lane[m].work.job
            BY <2>1, <2>3 DEF LaneOK
        <3>2. ~Carries(l, j) /\ execs'[j] = execs[j]
            BY <1>5, <2>3, <3>1, Carrying
        <3>3. receipts[j].phase = "open" => receipts'[j] = receipts[j]
            BY <3>2
        <3>4. PICK o : o = lane[m].outcome
            OBVIOUS
        <3>5. lane[m].pc = "ending" => TrueOutcome(j, o)'
            BY <1>3, <2>1, <3>1, <3>4 DEF LaneOK
        <3>6. QED
            BY <2>1, <3>1, <3>2, <3>3, <3>4, <3>5 DEF LaneOK
    <2>4. QED
        BY <2>2, <2>3
<1>7. LanesOK'
    BY <1>6 DEF LanesOK
<1>8. ASSUME NEW c \in calls', c.open
      PROVE  OpenOK(c)'
    <2>1. CASE c.lane = l
        BY <1>8, <2>1
    <2>2. CASE c.lane # l
        <3>1. c \in calls /\ c.lane \in Lanes \ {l} /\ OpenOK(c) /\ ShapeOK(c)
            BY <1>2, <1>8, <2>2 DEF LaneFrame, CallsOK, DeliveryTypeOK, Requests
        <3>2. lane'[c.lane] = lane[c.lane]
            BY <3>1 DEF LaneFrame
        <3>3. c.kind = "poll" /\ c.work # NoWork => execs'[c.work.job] = 0
            <4>1. SUFFICES ASSUME c.kind = "poll" /\ c.work # NoWork
                           PROVE  execs'[c.work.job] = 0
                OBVIOUS
            <4>2. c.work.job \in Jobs /\ Carries(c.lane, c.work.job)
                BY <1>8, <3>1, <4>1 DEF ShapeOK, Carries
            <4>3. QED
                BY <1>5, <3>1, <4>1, <4>2 DEF OpenOK
        <3>4. QED
            BY <1>1, <3>1, <3>2, <3>3 DEF OpenOK, Grant
    <2>3. QED
        BY <2>1, <2>2
<1>9. CallsOK'
    <2>1. ASSUME NEW c \in calls', NEW d \in calls', c.open, d.open, c.lane = d.lane
          PROVE  c = d
        BY <1>2, <2>1 DEF CallsOK, LaneFrame
    <2>2. \A c \in calls' : ShapeOK(c) /\ TrueOutcome(c.result.job, c.result.outcome)'
        BY <1>3
    <2>3. QED
        BY <1>8, <2>1, <2>2 DEF CallsOK, ShapeOK
<1>10. ReceiptsOK'
    <2>1. ASSUME NEW j \in Jobs
          PROVE  TrueOutcome(j, receipts[j].outcome)'
        <3>1. PICK o : o = receipts'[j].outcome
            OBVIOUS
        <3>2. TrueOutcome(j, o)'
            BY <1>3, <3>1
        <3>3. QED
            BY <3>1, <3>2
    <2>2. QED
        BY <2>1 DEF ReceiptsOK
<1>11. OutcomesOK'
    <2>1. ASSUME NEW j \in Jobs
          PROVE  /\ jobs'[j].state \in Unasked \cup {"cancelled", "failed"} => execs'[j] = 0
                 /\ jobs'[j].state = "succeeded" => execs'[j] = 1
                 /\ execs'[j] <= 1
        <3>1. CASE execs'[j] = execs[j]
            BY <1>1, <1>2, <3>1 DEF OutcomesOK
        <3>2. CASE Invoked(l, j)
            BY <1>1, <3>2 DEF Invoked
        <3>3. QED
            BY <3>1, <3>2 DEF LaneFrame
    <2>2. QED
        BY <2>1 DEF OutcomesOK
<1>12. QED
    BY <1>1, <1>4, <1>7, <1>9, <1>10, <1>11 DEF DeliveryInv

\* What is known of a request its lane waits for.
LEMMA OpenCall ==
    ASSUME DeliveryInv, NEW l \in Lanes, NEW c \in Open(l)
    PROVE  /\ c \in calls /\ c \in Requests /\ c.open /\ c.lane = l
           /\ ShapeOK(c) /\ OpenOK(c) /\ TrueOutcome(c.result.job, c.result.outcome)
           /\ \A d \in calls : d.open /\ d.lane = l => d = c
BY DEF DeliveryInv, DeliveryTypeOK, CallsOK, Open

\* What is known of a lane, of its job and of the other requests.
LEMMA LaneFacts ==
    ASSUME DeliveryInv, NEW l \in Lanes
    PROVE  /\ lane \in [Lanes -> Activities] /\ lane[l] \in Activities /\ LaneOK(l)
           /\ lane[l].work \in Works /\ lane[l].outcome \in Outcomes /\ lane[l].renewing \in BOOLEAN
           /\ receipts \in [Jobs -> Entries] /\ calls \subseteq Requests /\ execs \in [Jobs -> Nat]
           /\ epoch \in Activations
           /\ \A c \in calls : ShapeOK(c) /\ TrueOutcome(c.result.job, c.result.outcome)
           /\ \A j \in Jobs : TrueOutcome(j, receipts[j].outcome)
           /\ lane[l].pc \in {"idle", "delivered"} => \A c \in calls : ~(c.open /\ c.lane = l)
<1>1. DeliveryTypeOK /\ LanesOK /\ CallsOK /\ ReceiptsOK
    BY DEF DeliveryInv
<1>2. lane \in [Lanes -> Activities] /\ lane[l] \in Activities
    BY <1>1 DEF DeliveryTypeOK
<1>3. lane[l].work \in Works /\ lane[l].outcome \in Outcomes /\ lane[l].renewing \in BOOLEAN
    BY <1>2 DEF Activities
<1>4. ASSUME lane[l].pc \in {"idle", "delivered"}, NEW c \in calls
      PROVE  ~(c.open /\ c.lane = l)
    <2>1. c.kind \in {"poll", "status", "start", "renew"}
        BY <1>1 DEF DeliveryTypeOK, Requests
    <2>2. QED
        BY <1>1, <1>4, <2>1 DEF CallsOK, OpenOK
<1>5. QED
    BY <1>1, <1>2, <1>3, <1>4 DEF DeliveryTypeOK, LanesOK, CallsOK, ReceiptsOK

\* Nothing is claimed of an unknown outcome.
LEMMA UnknownIsTrue ==
    ASSUME NEW j
    PROVE  TrueOutcome(j, "unknown")
BY DEF TrueOutcome

\* The idle lane is a lane.
LEMMA IdleFacts ==
    /\ Idle \in Activities /\ Idle.pc = "idle" /\ Idle.work = NoWork
    /\ "idle" \notin Busy /\ "calling" \notin Busy
BY NoWorkFacts DEF Idle, Activities, Steps, Outcomes, Busy

\* An idle lane polls or reports.
LEMMA SendHeartbeatKeeps ==
    ASSUME DeliveryInv, NEW l \in Lanes, NEW kind \in {"poll", "status"}, SendHeartbeat(l, kind)
    PROVE  DeliveryInv'
<1>1. /\ lane[l].pc = "idle" /\ UNCHANGED storeVars
      /\ epoch' = epoch /\ receipts' = receipts /\ execs' = execs
      /\ lane' = [lane EXCEPT ![l].pc = "calling"]
    BY DEF SendHeartbeat
<1>2. PICK res : /\ res = NoResult \/ \E j \in Jobs : res = Report(j)
                 /\ calls' = calls \cup {Heartbeat(l, kind, epoch, res, 1)}
    BY DEF SendHeartbeat, Pending, Phase
<1>3. /\ res \in Results /\ (res # NoResult => res.job \in Jobs)
      /\ TrueOutcome(res.job, res.outcome)
    <2>1. CASE res = NoResult
        BY <2>1, NoWorkFacts, UnknownIsTrue
    <2>2. CASE \E j \in Jobs : res = Report(j)
        <3>1. PICK j \in Jobs : res = Report(j)
            BY <2>2
        <3>2. receipts[j] \in Entries /\ TrueOutcome(j, receipts[j].outcome)
            BY LaneFacts
        <3>3. QED
            BY <3>1, <3>2 DEF Report, Results, Entries
    <2>3. QED
        BY <1>2, <2>1, <2>2
<1>4. PICK c : c = Heartbeat(l, kind, epoch, res, 1)
    OBVIOUS
<1>5. /\ c \in Requests /\ c.open /\ c.lane = l /\ c.kind = kind /\ c.step = "activate"
      /\ c.act = epoch /\ c.result = res /\ c.work = NoWork
    BY <1>3, <1>4, NoWorkFacts, LaneFacts DEF Heartbeat, Requests, Epochs
<1>6. ShapeOK(c)
    BY <1>3, <1>5, LaneFacts DEF ShapeOK
<1>7. lane'[l].pc = "calling" /\ lane' \in [Lanes -> Activities] /\ \A m \in Lanes \ {l} : lane'[m] = lane[m]
    BY <1>1, LaneFacts DEF Activities, Steps
<1>8. OpenOK(c)'
    BY <1>5, <1>7 DEF OpenOK, Grant
<1>9. calls' = calls \cup {c} /\ \A d \in calls : ~(d.open /\ d.lane = l)
    BY <1>1, <1>2, <1>4, LaneFacts
<1>10. LaneFrame(l)
    <2>1. \A j \in Jobs : ~Carries(l, j)'
        BY <1>5, <1>7, <1>9, IdleFacts, NoWorkFacts DEF Carries
    <2>2. QED
        BY <1>1, <1>5, <1>7, <1>9, <2>1 DEF LaneFrame
<1>11. DeliveryTypeOK'
    BY <1>1, <1>5, <1>7, <1>9, LaneFacts DEF DeliveryTypeOK
<1>12. LaneOK(l)'
    BY <1>7, IdleFacts DEF LaneOK
<1>13. \A d \in calls' : ShapeOK(d) /\ TrueOutcome(d.result.job, d.result.outcome)
    BY <1>3, <1>5, <1>6, <1>9, LaneFacts
<1>14. \A d \in calls' : d.open /\ d.lane = l => d = c
    BY <1>9
<1>15. \A j \in Jobs : TrueOutcome(j, receipts'[j].outcome)
    BY <1>1, LaneFacts
<1>16. \A d \in calls' : d.open /\ d.lane = l => OpenOK(d)'
    BY <1>8, <1>14
<1>17. QED
    BY <1>1, <1>10, <1>11, <1>12, <1>13, <1>14, <1>15, <1>16, LaneKeeps

\* The answer to a heartbeat acknowledges a result and may bring work.
LEMMA HeartbeatReplyKeeps ==
    ASSUME DeliveryInv, NEW l \in Lanes, HeartbeatReply(l)
    PROVE  DeliveryInv'
<1>1. PICK c \in Open(l) :
          /\ c.kind \in {"poll", "status"} /\ c.step = "reply"
          /\ Acknowledge(c.result, c.ack)
          /\ lane' = [lane EXCEPT ![l] =
                 IF c.work = NoWork THEN Idle ELSE [Idle EXCEPT !.pc = "delivered", !.work = c.work]]
          /\ calls' = calls \ {c}
    BY DEF HeartbeatReply, Waiting
<1>2. UNCHANGED storeVars /\ epoch' = epoch /\ execs' = execs
    BY DEF HeartbeatReply
<1>3. /\ c \in calls /\ c \in Requests /\ c.open /\ c.lane = l
      /\ ShapeOK(c) /\ OpenOK(c)
      /\ \A d \in calls : d.open /\ d.lane = l => d = c
    BY OpenCall
<1>4. /\ lane[l].pc = "calling"
      /\ c.work # NoWork => c.kind = "poll" /\ c.work.job \in Jobs /\ execs[c.work.job] = 0
    BY <1>1, <1>3 DEF ShapeOK, OpenOK
<1>5. PICK a : a = IF c.work = NoWork THEN Idle ELSE [Idle EXCEPT !.pc = "delivered", !.work = c.work]
    OBVIOUS
<1>6. /\ a \in Activities
      /\ \/ a.pc = "idle"
         \/ a.pc = "delivered" /\ a.work = c.work /\ c.work # NoWork
    BY <1>3, <1>5, IdleFacts, RequestFields DEF Activities, Steps
<1>7. lane'[l] = a /\ lane' \in [Lanes -> Activities] /\ \A m \in Lanes \ {l} : lane'[m] = lane[m]
    BY <1>1, <1>5, <1>6, LaneFacts
<1>8. LaneFrame(l)
    <2>1. ASSUME NEW j \in Jobs, Carries(l, j)'
          PROVE  Carries(l, j)
        <3>1. \A d \in calls' : ~(d.open /\ d.lane = l)
            BY <1>1, <1>3
        <3>2. a.pc = "delivered" /\ c.work.job = j /\ c.work # NoWork
            BY <1>6, <1>7, <2>1, <3>1, IdleFacts DEF Carries
        <3>3. QED
            BY <1>3, <1>4, <3>2 DEF Carries
    <2>2. QED
        BY <1>1, <1>2, <1>4, <1>7, <2>1 DEF LaneFrame
<1>9. /\ receipts' \in [Jobs -> Entries]
      /\ \A j \in Jobs : /\ receipts[j].phase = "open" => receipts'[j] = receipts[j]
                         /\ receipts'[j].outcome = receipts[j].outcome
    <2>1. receipts \in [Jobs -> Entries]
        BY LaneFacts
    <2>2. \A r \in Entries : /\ [r EXCEPT !.phase = "acked"] \in Entries
                             /\ [r EXCEPT !.phase = "acked"].outcome = r.outcome
        BY DEF Entries
    <2>3. CASE receipts' = receipts
        BY <2>1, <2>3
    <2>4. CASE receipts' # receipts
        <3>1. PICK k, t : receipts' = [receipts EXCEPT ![k] =
                              IF @.phase \in {"result", "acked"} /\ @.token = t
                              THEN [@ EXCEPT !.phase = "acked"] ELSE @]
            BY <1>1, <2>4 DEF Acknowledge
        <3>2. ASSUME NEW j \in Jobs
              PROVE  \/ receipts'[j] = receipts[j]
                     \/ receipts[j].phase # "open" /\ receipts'[j] = [receipts[j] EXCEPT !.phase = "acked"]
            <4>1. CASE j = k
                BY <2>1, <3>1, <4>1
            <4>2. CASE j # k
                BY <2>1, <3>1, <4>2
            <4>3. QED
                BY <4>1, <4>2
        <3>3. \A j \in Jobs : receipts[j] \in Entries
            BY <2>1
        <3>4. ASSUME NEW j \in Jobs
              PROVE  /\ receipts'[j] \in Entries /\ receipts'[j].outcome = receipts[j].outcome
                     /\ receipts[j].phase = "open" => receipts'[j] = receipts[j]
            <4>1. PICK r \in Entries : r = receipts[j]
                BY <3>3
            <4>2. QED
                BY <2>2, <3>2, <4>1
        <3>5. receipts' \in [Jobs -> Entries]
            <4>1. receipts' = [j \in Jobs |-> receipts'[j]]
                BY <2>1, <3>1
            <4>2. QED
                BY <3>4, <4>1
        <3>6. QED
            BY <3>4, <3>5
    <2>5. QED
        BY <2>3, <2>4
<1>10. DeliveryTypeOK'
    BY <1>1, <1>2, <1>7, <1>9, LaneFacts DEF DeliveryTypeOK
<1>11. LaneOK(l)'
    BY <1>2, <1>4, <1>6, <1>7, IdleFacts DEF LaneOK, Busy
<1>12. \A d \in calls' : /\ ShapeOK(d) /\ TrueOutcome(d.result.job, d.result.outcome)
                         /\ ~(d.open /\ d.lane = l)
    BY <1>1, <1>3, LaneFacts
<1>13. \A j \in Jobs : TrueOutcome(j, receipts'[j].outcome)
    BY <1>9, LaneFacts
<1>14. QED
    BY <1>2, <1>8, <1>9, <1>10, <1>11, <1>12, <1>13, LaneKeeps

\* A receipt is recorded and the start is asked for.
LEMMA AcceptKeeps ==
    ASSUME DeliveryInv, NEW l \in Lanes, Accept(l)
    PROVE  DeliveryInv'
<1>1. /\ lane[l].pc = "delivered" /\ UNCHANGED storeVars
      /\ epoch' = epoch /\ execs' = execs
      /\ lane' = [lane EXCEPT ![l].pc = "starting"]
    BY DEF Accept
<1>2. PICK w \in Works : w = lane[l].work
    BY LaneFacts
<1>3. PICK E \in SUBSET Jobs : Begin(w, E)
    BY <1>2 DEF Accept
<1>4. PICK c : c = JobControl(l, "start", w, 1)
    OBVIOUS
<1>5. calls' = calls \cup {c}
    BY <1>2, <1>4 DEF Accept
<1>6. w.job \in Jobs /\ execs[w.job] = 0
    BY <1>1, <1>2, LaneFacts DEF LaneOK, Busy
<1>7. /\ c \in Requests /\ c.open /\ c.lane = l /\ c.kind = "start" /\ c.step = "control"
      /\ c.result = NoResult /\ c.work = w
    BY <1>2, <1>4, NoWorkFacts DEF JobControl, Requests, Works
<1>8. ShapeOK(c) /\ TrueOutcome(c.result.job, c.result.outcome)
    BY <1>6, <1>7, NoWorkFacts, UnknownIsTrue DEF ShapeOK
<1>9. /\ lane'[l].pc = "starting" /\ lane'[l].work = w /\ lane' \in [Lanes -> Activities]
      /\ \A m \in Lanes \ {l} : lane'[m] = lane[m]
    BY <1>1, <1>2, LaneFacts DEF Activities, Steps
<1>10. OpenOK(c)'
    BY <1>7, <1>9 DEF OpenOK, Grant
<1>11. \A d \in calls : ~(d.open /\ d.lane = l)
    BY <1>1, LaneFacts
<1>12. LaneFrame(l)
    <2>1. ASSUME NEW j \in Jobs, Carries(l, j)'
          PROVE  Carries(l, j)
        <3>1. j = w.job
            BY <1>5, <1>7, <1>9, <1>11, <2>1 DEF Carries
        <3>2. QED
            BY <1>1, <1>2, <3>1, Carrying DEF Busy
    <2>2. QED
        BY <1>1, <1>5, <1>7, <1>9, <2>1 DEF LaneFrame
<1>13. /\ receipts' \in [Jobs -> Entries]
       /\ receipts'[w.job] = [phase |-> "open", token |-> w.token, act |-> w.act, outcome |-> "unknown"]
       /\ \A j \in Jobs : /\ receipts[j].phase = "open" => receipts'[j] = receipts[j]
                          /\ receipts'[j].outcome \in {receipts[j].outcome, "unknown"}
    <2>1. NoReceipt \in Entries /\ NoReceipt.outcome = "unknown"
        BY DEF NoReceipt, Entries, NoToken, Epochs, Outcomes
    <2>2. [phase |-> "open", token |-> w.token, act |-> w.act, outcome |-> "unknown"] \in Entries
        BY DEF Works, Entries, Outcomes
    <2>3. receipts[w.job].phase = "none" /\ \A j \in E : receipts[j].phase = "acked"
        BY <1>3 DEF Begin, Phase
    <2>4. QED
        BY <1>3, <1>6, <2>1, <2>2, <2>3, LaneFacts DEF Begin
<1>14. DeliveryTypeOK'
    BY <1>1, <1>5, <1>7, <1>9, <1>13, LaneFacts DEF DeliveryTypeOK
<1>15. LaneOK(l)'
    BY <1>1, <1>6, <1>9, <1>13 DEF LaneOK, Busy
<1>16. \A d \in calls' : ShapeOK(d) /\ TrueOutcome(d.result.job, d.result.outcome)
    BY <1>5, <1>8, LaneFacts
<1>17. \A d \in calls' : d.open /\ d.lane = l => d = c /\ OpenOK(d)'
    BY <1>5, <1>10, <1>11
<1>18. \A j \in Jobs : TrueOutcome(j, receipts'[j].outcome)
    BY <1>13, LaneFacts, UnknownIsTrue
<1>19. QED
    BY <1>1, <1>12, <1>13, <1>14, <1>15, <1>16, <1>17, <1>18, LaneKeeps

\* Work that cannot be recorded is dropped.
LEMMA SkipKeeps ==
    ASSUME DeliveryInv, NEW l \in Lanes, Skip(l)
    PROVE  DeliveryInv'
<1>1. /\ lane[l].pc = "delivered" /\ UNCHANGED storeVars
      /\ epoch' = epoch /\ execs' = execs /\ receipts' = receipts /\ calls' = calls
      /\ lane' = [lane EXCEPT ![l] = Idle]
    BY DEF Skip
<1>2. lane'[l].pc = "idle" /\ lane' \in [Lanes -> Activities] /\ \A m \in Lanes \ {l} : lane'[m] = lane[m]
    BY <1>1, LaneFacts, IdleFacts
<1>3. \A d \in calls : ~(d.open /\ d.lane = l)
    BY <1>1, LaneFacts
<1>4. LaneFrame(l)
    <2>1. \A j \in Jobs : ~Carries(l, j)'
        BY <1>1, <1>2, <1>3, IdleFacts DEF Carries
    <2>2. QED
        BY <1>1, <1>2, <2>1 DEF LaneFrame
<1>5. DeliveryTypeOK'
    BY <1>1, <1>2, LaneFacts DEF DeliveryTypeOK
<1>6. LaneOK(l)'
    BY <1>2, IdleFacts DEF LaneOK
<1>7. QED
    BY <1>1, <1>3, <1>4, <1>5, <1>6, LaneFacts, LaneKeeps

\* The answer to a start: the capability is invoked, or the attempt ends
\* without it.
LEMMA StartReplyKeeps ==
    ASSUME DeliveryInv, NEW l \in Lanes, StartReply(l)
    PROVE  DeliveryInv' /\ \A j \in Jobs : execs'[j] = execs[j] \/ Invoked(l, j)
<1>1. PICK c \in Open(l) :
          /\ c.kind = "start" /\ c.step = "reply" /\ calls' = calls \ {c}
          /\ IF Grant(c)
             THEN /\ lane' = [lane EXCEPT ![l].pc = "executing", ![l].renewing = TRUE]
                  /\ execs' = [execs EXCEPT ![lane[l].work.job] = @ + 1]
             ELSE /\ lane' = [lane EXCEPT ![l].pc = "ending",
                          ![l].outcome = IF c.reply = "refused" THEN "unknown" ELSE "failed"]
                  /\ execs' = execs
    BY DEF StartReply, Waiting
<1>2. UNCHANGED storeVars /\ epoch' = epoch /\ receipts' = receipts /\ jobs' = jobs
    BY DEF StartReply, storeVars, vars
<1>3. /\ c \in calls /\ c.open /\ c.lane = l /\ ShapeOK(c) /\ OpenOK(c)
      /\ \A d \in calls : d.open /\ d.lane = l => d = c
    BY OpenCall
<1>4. PICK w \in Works : w = lane[l].work
    BY LaneFacts
<1>5. lane[l].pc = "starting" /\ c.work = w
    BY <1>1, <1>3, <1>4 DEF OpenOK
<1>6. /\ w.job \in Jobs /\ execs[w.job] = 0
      /\ receipts[w.job] = [phase |-> "open", token |-> w.token, act |-> w.act, outcome |-> "unknown"]
    BY <1>4, <1>5, LaneFacts DEF LaneOK, Busy
<1>7. /\ c.reply # "refused" => jobs[w.job].state \notin Unasked
      /\ Grant(c) => jobs[w.job].state \notin Unasked \cup {"cancelled", "failed", "deleted"}
    BY <1>1, <1>3, <1>5 DEF OpenOK, Grant
<1>8. /\ lane' \in [Lanes -> Activities] /\ \A m \in Lanes \ {l} : lane'[m] = lane[m]
      /\ lane'[l].work = w /\ lane'[l].pc = IF Grant(c) THEN "executing" ELSE "ending"
      /\ ~Grant(c) => lane'[l].outcome = IF c.reply = "refused" THEN "unknown" ELSE "failed"
    <2>1. lane \in [Lanes -> Activities] /\ lane[l] \in Activities
        BY LaneFacts
    <2>2. CASE Grant(c)
        BY <1>1, <1>4, <2>1, <2>2 DEF Activities, Steps
    <2>3. CASE ~Grant(c)
        BY <1>1, <1>4, <2>1, <2>3 DEF Activities, Steps, Outcomes
    <2>4. QED
        BY <2>2, <2>3
<1>9. /\ execs' \in [Jobs -> Nat] /\ execs'[w.job] = IF Grant(c) THEN 1 ELSE 0
      /\ \A j \in Jobs \ {w.job} : execs'[j] = execs[j]
    BY <1>1, <1>4, <1>6, LaneFacts
<1>10. \A d \in calls' : ~(d.open /\ d.lane = l)
    BY <1>1, <1>3
<1>11. LaneFrame(l)
    <2>1. ASSUME NEW j \in Jobs, Carries(l, j)'
          PROVE  Carries(l, j)
        <3>1. j = w.job
            BY <1>8, <1>10, <2>1 DEF Carries
        <3>2. QED
            BY <1>4, <1>5, <3>1, Carrying DEF Busy
    <2>2. ASSUME NEW j \in Jobs
          PROVE  execs'[j] = execs[j] \/ Invoked(l, j)
        <3>1. CASE j # w.job \/ ~Grant(c)
            BY <1>6, <1>9, <3>1
        <3>2. CASE j = w.job /\ Grant(c)
            BY <1>4, <1>5, <1>6, <1>7, <1>8, <1>9, <3>2 DEF Invoked
        <3>3. QED
            BY <3>1, <3>2
    <2>3. QED
        BY <1>1, <1>5, <1>8, <2>1, <2>2 DEF LaneFrame
<1>12. DeliveryTypeOK'
    BY <1>1, <1>2, <1>8, <1>9, LaneFacts DEF DeliveryTypeOK
<1>13. ~Grant(c) => TrueOutcome(w.job, lane[l].outcome)'
    <2>1. SUFFICES ASSUME ~Grant(c), c.reply # "refused"
                   PROVE  Never(w.job)'
        BY <1>8 DEF TrueOutcome
    <2>2. execs'[w.job] = 0 /\ jobs'[w.job].state \notin Unasked
        BY <1>2, <1>7, <1>9, <2>1
    <2>3. ASSUME NEW m \in Lanes, Carries(m, w.job)'
          PROVE  lane'[m].pc = "ending"
        <3>1. Carries(m, w.job)
            BY <1>2, <1>6, <1>11, <2>3, LaneFrames
        <3>2. Carries(l, w.job)
            BY <1>4, <1>5, Carrying DEF Busy
        <3>3. m = l
            BY <1>6, <3>1, <3>2 DEF DeliveryInv, CarriersOK
        <3>4. QED
            BY <1>8, <2>1, <3>3
    <2>4. QED
        BY <2>2, <2>3 DEF Never
<1>14. LaneOK(l)'
    BY <1>2, <1>6, <1>8, <1>9, <1>13 DEF LaneOK, Busy
<1>15. DeliveryInv'
    BY <1>1, <1>2, <1>10, <1>11, <1>12, <1>14, LaneFacts, LaneKeeps
<1>16. QED
    BY <1>11, <1>15 DEF LaneFrame

\* The lane of a running capability keeps its place: only the renewals change.
LEMMA RenewalKeeps ==
    ASSUME DeliveryInv, NEW l \in Lanes, UNCHANGED storeVars,
           epoch' = epoch, receipts' = receipts, execs' = execs,
           lane' \in [Lanes -> Activities], \A m \in Lanes \ {l} : lane'[m] = lane[m],
           lane[l].pc \in {"executing", "ending"}, lane'[l].pc = lane[l].pc,
           lane'[l].work = lane[l].work, lane'[l].outcome = lane[l].outcome,
           calls' \subseteq Requests,
           \A c \in calls' : \/ c \in calls
                             \/ /\ ShapeOK(c) /\ TrueOutcome(c.result.job, c.result.outcome)
                                /\ c.open => c.lane = l /\ c.kind = "renew",
           \A c, d \in calls' : c.open /\ d.open /\ c.lane = l /\ d.lane = l => c = d
    PROVE  DeliveryInv'
<1>1. LaneOK(l) /\ \A c \in calls : ShapeOK(c) /\ TrueOutcome(c.result.job, c.result.outcome)
    BY LaneFacts
<1>2. ASSUME NEW c \in calls', c.open, c.lane = l
      PROVE  c.kind = "renew"
    <2>1. CASE c \in calls
        <3>1. OpenOK(c) /\ c.kind \in {"poll", "status", "start", "renew"}
            BY <1>2, <2>1, OpenCall, RequestFields DEF Open
        <3>2. QED
            BY <1>2, <3>1 DEF OpenOK
    <2>2. QED
        BY <1>2, <2>1
<1>3. \A c \in calls' : c.open /\ c.lane = l => OpenOK(c)'
    BY <1>2 DEF OpenOK, Grant
<1>4. LaneFrame(l)
    <2>1. ASSUME NEW j \in Jobs, Carries(l, j)'
          PROVE  Carries(l, j)
        BY <1>2, <2>1 DEF Carries
    <2>2. QED
        BY <2>1 DEF LaneFrame
<1>5. DeliveryTypeOK'
    BY LaneFacts DEF DeliveryTypeOK
<1>6. lane[l].pc = "ending" => TrueOutcome(lane[l].work.job, lane[l].outcome)'
    <2>1. PICK j, o : j = lane[l].work.job /\ o = lane[l].outcome
        OBVIOUS
    <2>2. lane[l].pc = "ending" => TrueOutcome(j, o)'
        BY <1>1, <1>4, <2>1, LaneFrames DEF LaneOK
    <2>3. j = lane'[l].work.job /\ o = lane'[l].outcome
        BY <2>1
    <2>4. QED
        BY <2>2, <2>3
<1>7. LaneOK(l)'
    BY <1>1, <1>6 DEF LaneOK
<1>8. QED
    BY <1>1, <1>3, <1>4, <1>5, <1>7, LaneFacts, LaneKeeps

\* The renewer asks for a longer lease.
LEMMA SendRenewKeeps ==
    ASSUME DeliveryInv, NEW l \in Lanes, SendRenew(l)
    PROVE  DeliveryInv'
<1>1. /\ lane[l].pc = "executing" /\ UNCHANGED storeVars
      /\ epoch' = epoch /\ execs' = execs /\ receipts' = receipts /\ lane' = lane
      /\ calls' = calls \cup {JobControl(l, "renew", lane[l].work, 1)}
      /\ \A d \in calls : ~(d.open /\ d.lane = l)
    BY DEF SendRenew, agentVars, Open
<1>2. PICK w \in Works : w = lane[l].work /\ w.job \in Jobs
    BY <1>1, LaneFacts DEF LaneOK, Busy
<1>3. PICK c : c = JobControl(l, "renew", w, 1)
    OBVIOUS
<1>4. /\ c \in Requests /\ c.open /\ c.lane = l /\ c.kind = "renew" /\ c.step = "control"
      /\ c.result = NoResult /\ c.work = w
    BY <1>3, NoWorkFacts DEF JobControl, Requests, Works
<1>5. ShapeOK(c) /\ TrueOutcome(c.result.job, c.result.outcome)
    BY <1>2, <1>4, NoWorkFacts, UnknownIsTrue DEF ShapeOK
<1>6. calls' = calls \cup {c}
    BY <1>1, <1>2, <1>3
<1>7. QED
    BY <1>1, <1>4, <1>5, <1>6, LaneFacts, RenewalKeeps

\* The answer to a renewal may end the renewals.
LEMMA RenewReplyKeeps ==
    ASSUME DeliveryInv, NEW l \in Lanes, RenewReply(l)
    PROVE  DeliveryInv'
<1>1. PICK c \in Open(l) :
          /\ c.kind = "renew" /\ calls' = calls \ {c}
          /\ lane' = [lane EXCEPT ![l].renewing = @ /\ c.reply = "running"]
    BY DEF RenewReply, Waiting
<1>2. UNCHANGED storeVars /\ epoch' = epoch /\ receipts' = receipts /\ execs' = execs
    BY DEF RenewReply
<1>3. lane[l].pc \in {"executing", "ending"}
    BY <1>1, OpenCall DEF OpenOK
<1>4. PICK b \in BOOLEAN : b = (lane[l].renewing /\ c.reply = "running")
    BY LaneFacts
<1>5. lane' = [lane EXCEPT ![l].renewing = b]
    BY <1>1, <1>4
<1>6. /\ lane' \in [Lanes -> Activities] /\ \A m \in Lanes \ {l} : lane'[m] = lane[m]
      /\ lane'[l].pc = lane[l].pc /\ lane'[l].work = lane[l].work
      /\ lane'[l].outcome = lane[l].outcome
    BY <1>5, LaneFacts DEF Activities
<1>7. \A e, d \in calls' : e.open /\ d.open /\ e.lane = l /\ d.lane = l => e = d
    BY <1>1, OpenCall
<1>8. QED
    BY <1>1, <1>2, <1>3, <1>6, <1>7, LaneFacts, RenewalKeeps

\* The capability returns or raises.
LEMMA ReturnKeeps ==
    ASSUME DeliveryInv, NEW l \in Lanes, Return(l)
    PROVE  DeliveryInv'
<1>1. /\ lane[l].pc = "executing" /\ UNCHANGED storeVars
      /\ epoch' = epoch /\ execs' = execs /\ receipts' = receipts /\ calls' = calls
    BY DEF Return
<1>2. PICK o \in {"succeeded", "unknown"} :
          lane' = [lane EXCEPT ![l].pc = "ending", ![l].outcome = o]
    BY DEF Return
<1>3. /\ lane' \in [Lanes -> Activities] /\ \A m \in Lanes \ {l} : lane'[m] = lane[m]
      /\ lane'[l].pc = "ending" /\ lane'[l].work = lane[l].work /\ lane'[l].outcome = o
    BY <1>2, LaneFacts DEF Activities, Steps, Outcomes
<1>4. ASSUME NEW c \in calls, c.open, c.lane = l
      PROVE  c.kind = "renew"
    <2>1. OpenOK(c) /\ c.kind \in {"poll", "status", "start", "renew"}
        BY <1>4, OpenCall, RequestFields DEF Open
    <2>2. QED
        BY <1>1, <1>4, <2>1 DEF OpenOK
<1>5. \A c \in calls' : c.open /\ c.lane = l => OpenOK(c)'
    BY <1>1, <1>3, <1>4 DEF OpenOK, Grant
<1>6. LaneFrame(l)
    <2>1. ASSUME NEW j \in Jobs, Carries(l, j)'
          PROVE  Carries(l, j)
        BY <1>1, <1>3, <1>4, <2>1 DEF Carries, Busy
    <2>2. QED
        BY <1>1, <1>3, <2>1 DEF LaneFrame
<1>7. DeliveryTypeOK'
    BY <1>1, <1>3, LaneFacts DEF DeliveryTypeOK
<1>8. LaneOK(l)'
    BY <1>1, <1>3, LaneFacts DEF LaneOK, Busy, TrueOutcome
<1>9. \A c, d \in calls' : c.open /\ d.open /\ c.lane = l /\ d.lane = l => c = d
    BY <1>1 DEF DeliveryInv, CallsOK
<1>10. QED
    BY <1>1, <1>5, <1>6, <1>7, <1>8, <1>9, LaneFacts, LaneKeeps

\* The result is stored and the lane is idle.
LEMMA ConcludeKeeps ==
    ASSUME DeliveryInv, NEW l \in Lanes, Conclude(l)
    PROVE  DeliveryInv'
<1>1. /\ lane[l].pc = "ending" /\ UNCHANGED storeVars
      /\ epoch' = epoch /\ execs' = execs /\ calls' = calls
      /\ lane' = [lane EXCEPT ![l] = Idle]
      /\ \A d \in calls : ~(d.open /\ d.lane = l)
    BY DEF Conclude, Open
<1>2. PICK o \in {lane[l].outcome, "unknown"} : Finish(lane[l].work, o)
    BY DEF Conclude
<1>3. PICK j \in Jobs : j = lane[l].work.job
    BY <1>1, LaneFacts DEF LaneOK, Busy
<1>4. o \in Outcomes /\ TrueOutcome(j, o)
    BY <1>1, <1>2, <1>3, LaneFacts, UnknownIsTrue DEF LaneOK, Outcomes
<1>5. /\ receipts' \in [Jobs -> Entries]
      /\ \A i \in Jobs \ {j} : receipts'[i] = receipts[i]
      /\ receipts'[j].outcome \in {receipts[j].outcome, o}
    <2>1. receipts \in [Jobs -> Entries]
        BY LaneFacts
    <2>2. CASE receipts[j].phase # "none" /\ receipts[j].token = lane[l].work.token
        <3>1. receipts' = [receipts EXCEPT ![j] = [@ EXCEPT !.phase = "result", !.outcome = o]]
            BY <1>2, <1>3, <2>2 DEF Finish
        <3>2. QED
            BY <1>4, <2>1, <3>1 DEF Entries
    <2>3. CASE ~(receipts[j].phase # "none" /\ receipts[j].token = lane[l].work.token)
        <3>1. receipts' = [receipts EXCEPT ![j] = @]
            BY <1>2, <1>3, <2>3 DEF Finish
        <3>2. QED
            BY <2>1, <3>1
    <2>4. QED
        BY <2>2, <2>3
<1>6. lane'[l].pc = "idle" /\ lane' \in [Lanes -> Activities] /\ \A m \in Lanes \ {l} : lane'[m] = lane[m]
    BY <1>1, LaneFacts, IdleFacts
<1>7. LaneFrame(l)
    <2>1. \A i \in Jobs : ~Carries(l, i)'
        BY <1>1, <1>6, IdleFacts DEF Carries
    <2>2. QED
        BY <1>1, <1>6, <2>1 DEF LaneFrame
<1>8. DeliveryTypeOK'
    BY <1>1, <1>5, <1>6, LaneFacts DEF DeliveryTypeOK
<1>9. LaneOK(l)'
    BY <1>6, IdleFacts DEF LaneOK
<1>10. \A i \in Jobs : receipts[i].phase = "open" => receipts'[i] = receipts[i] \/ Carries(l, i)
    <2>1. Carries(l, j)
        BY <1>1, <1>3, Carrying DEF Busy
    <2>2. QED
        BY <1>5, <2>1
<1>11. \A i \in Jobs : TrueOutcome(i, receipts'[i].outcome)
    <2>1. \A i \in Jobs : receipts'[i].outcome \in {receipts[i].outcome} \/ (i = j /\ receipts'[i].outcome = o)
        BY <1>5
    <2>2. QED
        BY <1>4, <2>1, LaneFacts
<1>12. QED
    BY <1>1, <1>7, <1>8, <1>9, <1>10, <1>11, LaneFacts, LaneKeeps

\* A call fails or times out: its copy stays behind, and it is tried again or
\* given up.
LEMMA TimeoutKeeps ==
    ASSUME DeliveryInv, NEW l \in Lanes, Timeout(l)
    PROVE  DeliveryInv'
<1>1. PICK c \in Open(l) :
          /\ calls' = (calls \ {c}) \cup {[c EXCEPT !.open = FALSE]}
                          \cup (IF c.try = 1 THEN {Retry(c)} ELSE {})
          /\ lane' = IF c.try = 1 THEN lane ELSE [lane EXCEPT ![l] = Failed(l, c)]
    BY DEF Timeout
<1>2. UNCHANGED storeVars /\ epoch' = epoch /\ receipts' = receipts /\ execs' = execs
    BY DEF Timeout
<1>3. /\ c \in calls /\ c \in Requests /\ c.open /\ c.lane = l
      /\ ShapeOK(c) /\ OpenOK(c) /\ TrueOutcome(c.result.job, c.result.outcome)
      /\ \A d \in calls : d.open /\ d.lane = l => d = c
    BY OpenCall
<1>4. c.kind \in {"poll", "status", "start", "renew"}
    BY <1>3, RequestFields
<1>5. PICK b : b = [c EXCEPT !.open = FALSE]
    OBVIOUS
<1>6. /\ b \in Requests /\ ~b.open /\ b.kind = c.kind /\ b.step = c.step /\ b.act = c.act
      /\ b.result = c.result /\ b.work = c.work /\ b.lane = c.lane
    BY <1>3, <1>5 DEF Requests
<1>7. ShapeOK(b) /\ TrueOutcome(b.result.job, b.result.outcome)
    BY <1>3, <1>6 DEF ShapeOK
<1>8. PICK r : r = Retry(c)
    OBVIOUS
<1>9. /\ r \in Requests /\ r.open /\ r.kind = c.kind /\ r.act = c.act /\ r.lane = l
      /\ r.result = c.result
      /\ IF c.kind \in {"poll", "status"} THEN r.step = "activate" /\ r.work = NoWork
                                          ELSE r.step = "control" /\ r.work = c.work
    <2>1. CASE c.kind \in {"poll", "status"}
        BY <1>3, <1>8, <2>1, NoWorkFacts DEF Retry, Requests
    <2>2. CASE c.kind \notin {"poll", "status"}
        BY <1>3, <1>8, <2>2 DEF Retry, Requests
    <2>3. QED
        BY <2>1, <2>2
<1>10. ShapeOK(r) /\ TrueOutcome(r.result.job, r.result.outcome)
    BY <1>3, <1>4, <1>9 DEF ShapeOK
<1>11. \A d \in calls' : \/ d \in calls /\ d # c
                         \/ d = b
                         \/ c.try = 1 /\ d = r
    BY <1>1, <1>5, <1>8
<1>12. \A d \in calls' : /\ d \in Requests /\ ShapeOK(d)
                         /\ TrueOutcome(d.result.job, d.result.outcome)
                         /\ d.open /\ d.lane = l => c.try = 1 /\ d = r
                         /\ d.open /\ d.lane # l => d \in calls
    BY <1>3, <1>6, <1>7, <1>9, <1>10, <1>11, LaneFacts
<1>13. CASE c.try = 1
    <2>1. lane' = lane
        BY <1>1, <1>13
    <2>2. OpenOK(r)'
        BY <1>2, <1>3, <1>4, <1>9, <2>1 DEF OpenOK, Grant
    <2>3. LaneFrame(l)
        <3>1. ASSUME NEW j \in Jobs, Carries(l, j)'
              PROVE  Carries(l, j)
            <4>1. CASE lane'[l].pc \in Busy /\ lane'[l].work.job = j
                BY <2>1, <4>1 DEF Carries
            <4>2. ASSUME NEW d \in calls', d.open, d.lane = l, d.kind = "poll", d.work.job = j
                  PROVE  FALSE
                BY <1>9, <1>12, <4>2, NoWorkFacts
            <4>3. QED
                BY <3>1, <4>1, <4>2 DEF Carries
        <3>2. QED
            BY <1>2, <1>12, <2>1, <3>1 DEF LaneFrame
    <2>4. DeliveryTypeOK'
        BY <1>2, <1>12, <2>1, LaneFacts DEF DeliveryTypeOK
    <2>5. LaneOK(l)'
        <3>1. LaneOK(l)
            BY LaneFacts
        <3>2. PICK j, o : j = lane[l].work.job /\ o = lane[l].outcome
            OBVIOUS
        <3>3. j = lane'[l].work.job /\ o = lane'[l].outcome
            BY <2>1, <3>2
        <3>4. lane[l].pc = "ending" => TrueOutcome(j, o)'
            BY <1>2, <2>3, <3>1, <3>2, LaneFrames DEF LaneOK
        <3>5. QED
            BY <1>2, <2>1, <3>1, <3>2, <3>3, <3>4 DEF LaneOK
    <2>6. QED
        BY <1>2, <1>12, <2>2, <2>3, <2>4, <2>5, LaneFacts, LaneKeeps
<1>14. CASE c.try # 1
    <2>1. PICK a : a = Failed(l, c)
        OBVIOUS
    <2>2. lane[l] \in Activities /\ lane \in [Lanes -> Activities] /\ LaneOK(l)
        BY LaneFacts
    <2>3. /\ a \in Activities
          /\ \/ a.pc = "idle"
             \/ /\ lane[l].pc = "starting" /\ a.pc = "ending" /\ a.outcome = "unknown"
                /\ a.work = lane[l].work
             \/ /\ lane[l].pc \in {"executing", "ending"} /\ a.pc = lane[l].pc
                /\ a.outcome = lane[l].outcome /\ a.work = lane[l].work
        <3>1. CASE c.kind = "start"
            BY <1>3, <2>1, <2>2, <3>1 DEF Failed, OpenOK, Activities, Steps, Outcomes
        <3>2. CASE c.kind = "renew"
            BY <1>3, <2>1, <2>2, <3>2 DEF Failed, OpenOK, Activities
        <3>3. CASE c.kind \in {"poll", "status"}
            BY <2>1, <3>3, IdleFacts DEF Failed
        <3>4. QED
            BY <1>4, <3>1, <3>2, <3>3
    <2>4. /\ lane'[l] = a /\ lane' \in [Lanes -> Activities]
          /\ \A m \in Lanes \ {l} : lane'[m] = lane[m]
        BY <1>1, <1>14, <2>1, <2>2, <2>3
    <2>5. LaneFrame(l)
        <3>1. ASSUME NEW j \in Jobs, Carries(l, j)'
              PROVE  Carries(l, j) /\ (lane[l].pc = "ending" => lane'[l].pc = "ending")
            <4>1. a.pc \in Busy /\ a.work.job = j
                BY <1>12, <1>14, <2>4, <3>1 DEF Carries
            <4>2. QED
                BY <2>3, <2>4, <4>1, IdleFacts DEF Carries, Busy
        <3>2. QED
            BY <1>2, <1>12, <2>4, <3>1 DEF LaneFrame
    <2>6. DeliveryTypeOK'
        BY <1>2, <1>12, <2>4, LaneFacts DEF DeliveryTypeOK
    <2>7. LaneOK(l)'
        <3>1. PICK j, o : j = lane'[l].work.job /\ o = lane'[l].outcome
            OBVIOUS
        <3>2. a.pc = "ending" => TrueOutcome(j, o)
            BY <2>2, <2>3, <2>4, <3>1, UnknownIsTrue DEF LaneOK
        <3>3. a.pc = "ending" => TrueOutcome(j, o)'
            BY <1>2, <2>5, <3>2, LaneFrames
        <3>4. a.pc = "ending" => TrueOutcome(lane[l].work.job, lane[l].outcome)'
            BY <3>1, <3>3
        <3>5. QED
            BY <1>2, <2>2, <2>3, <2>4, <3>4, IdleFacts DEF LaneOK, Busy
    <2>8. QED
        BY <1>2, <1>12, <1>14, <2>5, <2>6, <2>7, LaneFacts, LaneKeeps
<1>15. QED
    BY <1>13, <1>14

\* An acknowledged receipt is forgotten: no lane depends on it.
LEMMA ForgetKeeps ==
    ASSUME DeliveryInv, NEW k \in Jobs, ForgetAcknowledged(k)
    PROVE  DeliveryInv'
<1>1. /\ UNCHANGED storeVars /\ jobs' = jobs /\ epoch' = epoch /\ lane' = lane /\ calls' = calls
      /\ execs' = execs
      /\ receipts[k].phase = "acked" /\ receipts' = [receipts EXCEPT ![k] = NoReceipt]
    BY DEF ForgetAcknowledged, storeVars, vars
<1>2. DeliveryTypeOK /\ CarriersOK /\ LanesOK /\ CallsOK /\ ReceiptsOK /\ OutcomesOK
    BY DEF DeliveryInv
<1>3. IInv'
    BY <1>1, StoreStutter
<1>4. \A l \in Lanes, j \in Jobs : Carries(l, j)' <=> Carries(l, j)
    BY <1>1 DEF Carries
<1>5. CarryFrame /\ HistoryFrame
    BY <1>1, <1>4 DEF CarryFrame, HistoryFrame, Never
<1>6. \A j, o : TrueOutcome(j, o) => TrueOutcome(j, o)'
    BY <1>5, TrueKept
<1>7. /\ receipts' \in [Jobs -> Entries]
      /\ \A j \in Jobs : /\ receipts[j].phase = "open" => receipts'[j] = receipts[j]
                         /\ receipts'[j].outcome \in {receipts[j].outcome, "unknown"}
    <2>1. NoReceipt \in Entries /\ NoReceipt.outcome = "unknown"
        BY DEF NoReceipt, Entries, NoToken, Epochs, Outcomes
    <2>2. QED
        BY <1>1, <1>2, <2>1 DEF DeliveryTypeOK
<1>8. DeliveryTypeOK' /\ CarriersOK' /\ OutcomesOK'
    BY <1>1, <1>2, <1>4, <1>7 DEF DeliveryTypeOK, CarriersOK, OutcomesOK
<1>9. ASSUME NEW l \in Lanes
      PROVE  LaneOK(l)'
    <2>1. LaneOK(l)
        BY <1>2 DEF LanesOK
    <2>2. PICK j, o : j = lane[l].work.job /\ o = lane[l].outcome
        OBVIOUS
    <2>3. j = lane'[l].work.job /\ o = lane'[l].outcome
        BY <1>1, <2>2
    <2>4. lane[l].pc = "ending" => TrueOutcome(j, o)'
        BY <1>6, <2>1, <2>2 DEF LaneOK
    <2>5. lane[l].pc \in {"starting", "executing", "ending"} =>
              j \in Jobs /\ receipts[j].phase = "open" /\ receipts'[j] = receipts[j]
        BY <1>7, <2>1, <2>2 DEF LaneOK, Busy
    <2>6. QED
        BY <1>1, <2>1, <2>2, <2>3, <2>4, <2>5 DEF LaneOK
<1>10. CallsOK'
    <2>1. \A c \in calls : c.open => OpenOK(c)'
        BY <1>1, <1>2 DEF CallsOK, OpenOK, Grant
    <2>2. QED
        BY <1>1, <1>2, <1>6, <2>1 DEF CallsOK, ShapeOK
<1>11. ReceiptsOK'
    <2>1. ASSUME NEW j \in Jobs
          PROVE  TrueOutcome(j, receipts[j].outcome)'
        <3>1. PICK o : o = receipts'[j].outcome
            OBVIOUS
        <3>2. TrueOutcome(j, o)
            BY <1>2, <1>7, <3>1, UnknownIsTrue DEF ReceiptsOK
        <3>3. QED
            BY <1>6, <3>1, <3>2
    <2>2. QED
        BY <2>1 DEF ReceiptsOK
<1>12. QED
    BY <1>3, <1>8, <1>9, <1>10, <1>11 DEF DeliveryInv, LanesOK

\* A restart drops what every lane carried; what was recorded stays true.
LEMMA RestartKeeps ==
    ASSUME DeliveryInv, NEW e \in Activations, Restart(e)
    PROVE  DeliveryInv'
<1>1. /\ UNCHANGED storeVars /\ jobs' = jobs /\ epoch' = e /\ execs' = execs
      /\ lane' = [l \in Lanes |-> Idle]
      /\ calls' = {[c EXCEPT !.open = FALSE] : c \in calls}
    BY DEF Restart, storeVars, vars
<1>2. DeliveryTypeOK /\ CallsOK /\ ReceiptsOK /\ OutcomesOK
    BY DEF DeliveryInv
<1>3. IInv'
    BY <1>1, StoreStutter
<1>4. ASSUME NEW d \in calls'
      PROVE  d \in Requests /\ ~d.open /\ ShapeOK(d) /\ TrueOutcome(d.result.job, d.result.outcome)
    <2>1. PICK c \in calls : d = [c EXCEPT !.open = FALSE]
        BY <1>1, <1>4
    <2>2. c \in Requests /\ ShapeOK(c) /\ TrueOutcome(c.result.job, c.result.outcome)
        BY <1>2 DEF DeliveryTypeOK, CallsOK
    <2>3. /\ d \in Requests /\ ~d.open /\ d.kind = c.kind /\ d.step = c.step /\ d.act = c.act
          /\ d.result = c.result /\ d.work = c.work
        BY <2>1, <2>2 DEF Requests
    <2>4. QED
        BY <2>2, <2>3 DEF ShapeOK
<1>5. \A l \in Lanes : lane'[l].pc = "idle"
    BY <1>1, IdleFacts
<1>6. \A l \in Lanes, j \in Jobs : ~Carries(l, j)'
    BY <1>4, <1>5, IdleFacts DEF Carries
<1>7. CarryFrame /\ HistoryFrame
    BY <1>1, <1>6 DEF CarryFrame, HistoryFrame, Never
<1>8. \A j, o : TrueOutcome(j, o) => TrueOutcome(j, o)'
    BY <1>7, TrueKept
<1>9. receipts' \in [Jobs -> Entries] /\ \A j \in Jobs : receipts'[j].outcome = receipts[j].outcome
    <2>1. /\ DOMAIN receipts' = Jobs /\ receipts' = [j \in Jobs |-> receipts'[j]]
          /\ \A j \in Jobs : \/ receipts'[j] = receipts[j]
                             \/ \E p \in {"result", "acked"} : receipts'[j] = [receipts[j] EXCEPT !.phase = p]
        BY DEF Restart
    <2>2. \A j \in Jobs : receipts'[j] \in Entries /\ receipts'[j].outcome = receipts[j].outcome
        BY <1>2, <2>1 DEF DeliveryTypeOK, Entries
    <2>3. QED
        BY <2>1, <2>2
<1>10. DeliveryTypeOK'
    BY <1>1, <1>2, <1>4, <1>9, IdleFacts DEF DeliveryTypeOK
<1>11. CarriersOK' /\ LanesOK' /\ OutcomesOK'
    BY <1>1, <1>2, <1>5, <1>6, IdleFacts DEF CarriersOK, LanesOK, LaneOK, OutcomesOK
<1>12. CallsOK'
    BY <1>4, <1>8 DEF CallsOK, ShapeOK
<1>13. ReceiptsOK'
    BY <1>2, <1>8, <1>9 DEF ReceiptsOK
<1>14. QED
    BY <1>3, <1>10, <1>11, <1>12, <1>13 DEF DeliveryInv

\* Nobody carries anything at first.
LEMMA DeliveryInitOK ==
    ASSUME DeliveryInit
    PROVE  DeliveryInv
<1>1. /\ Init /\ epoch = 1 /\ lane = [l \in Lanes |-> Idle] /\ receipts = [j \in Jobs |-> NoReceipt]
      /\ calls = {} /\ execs = [j \in Jobs |-> 0]
    BY DEF DeliveryInit
<1>2. IInv
    BY <1>1, InitOK
<1>3. NoReceipt \in Entries /\ NoReceipt.outcome = "unknown"
    BY DEF NoReceipt, Entries, NoToken, Epochs, Outcomes
<1>4. DeliveryTypeOK
    BY <1>1, <1>3, EpochsAssumption, IdleFacts DEF DeliveryTypeOK
<1>5. \A j \in Jobs : jobs[j].state = "absent" /\ execs[j] = 0 /\ receipts[j].outcome = "unknown"
    BY <1>1, <1>3 DEF Init, NoRow
<1>6. \A l \in Lanes : lane[l].pc = "idle"
    BY <1>1, IdleFacts
<1>7. CarriersOK /\ LanesOK /\ CallsOK /\ ReceiptsOK
    BY <1>1, <1>5, <1>6, IdleFacts, UnknownIsTrue
       DEF CarriersOK, Carries, LanesOK, LaneOK, CallsOK, ReceiptsOK
<1>8. OutcomesOK
    BY <1>5 DEF OutcomesOK
<1>9. QED
    BY <1>2, <1>4, <1>7, <1>8 DEF DeliveryInv

\* Nothing happens: nothing is disturbed.
LEMMA StutterKeeps ==
    ASSUME DeliveryInv, UNCHANGED allVars
    PROVE  DeliveryInv'
<1>1. /\ UNCHANGED storeVars /\ jobs' = jobs /\ epoch' = epoch /\ lane' = lane /\ receipts' = receipts
      /\ calls' = calls /\ execs' = execs
    BY DEF allVars, storeVars, vars
<1>2. IInv' /\ StoreFrame
    BY <1>1, StoreStutter
<1>3. \A l \in Lanes, j \in Jobs : Carries(l, j)' <=> Carries(l, j)
    BY <1>1 DEF Carries
<1>4. CarryFrame
    BY <1>1, <1>3 DEF CarryFrame
<1>5. /\ LanesOK' /\ ReceiptsOK' /\ OutcomesOK'
      /\ \A j, o : TrueOutcome(j, o) => TrueOutcome(j, o)'
      /\ \A c \in calls : c.open => OpenOK(c)'
    BY <1>1, <1>2, <1>4, StoreKeeps
<1>6. DeliveryTypeOK' /\ CarriersOK'
    BY <1>1, <1>3 DEF DeliveryInv, DeliveryTypeOK, CarriersOK
<1>7. CallsOK'
    BY <1>1, <1>5 DEF DeliveryInv, CallsOK, ShapeOK
<1>8. QED
    BY <1>2, <1>5, <1>6, <1>7 DEF DeliveryInv

\* Every step keeps the invariant.
LEMMA DeliveryStepOK ==
    ASSUME DeliveryInv, [DeliveryNext]_allVars
    PROVE  DeliveryInv'
<1>1. ASSUME NEW l \in Lanes, AgentStep(l)
      PROVE  DeliveryInv'
    BY <1>1, SendHeartbeatKeeps, HeartbeatReplyKeeps, AcceptKeeps, SkipKeeps, StartReplyKeeps,
       SendRenewKeeps, RenewReplyKeeps, ReturnKeeps, ConcludeKeeps, TimeoutKeeps DEF AgentStep
<1>2. CASE Serve
    BY <1>2, ServeActivateKeeps, ServeAcceptKeeps, ServeClaimKeeps, ServeEmptyKeeps,
       ServeControlKeeps DEF Serve
<1>3. ASSUME NEW j \in Jobs, ForgetAcknowledged(j)
      PROVE  DeliveryInv'
    BY <1>3, ForgetKeeps
<1>4. ASSUME NEW e \in Activations, Restart(e)
      PROVE  DeliveryInv'
    BY <1>4, RestartKeeps
<1>5. CASE MainframeStep
    BY <1>5, MainframeKeeps
<1>6. CASE UNCHANGED allVars
    BY <1>6, StutterKeeps
<1>7. QED
    BY <1>1, <1>2, <1>3, <1>4, <1>5, <1>6 DEF DeliveryNext

\* The inductive invariant holds in every reachable state of owned delivery.
THEOREM DeliveryAlwaysOK == DeliverySpec => []DeliveryInv
<1>1. DeliveryInit => DeliveryInv
    BY DeliveryInitOK
<1>2. DeliveryInv /\ [DeliveryNext]_allVars => DeliveryInv'
    BY DeliveryStepOK
<1>3. QED
    BY <1>1, <1>2, PTL DEF DeliverySpec

\* Whatever is delayed, repeated, timed out or restarted, the outcome the
\* Mainframe shows tells the truth about the execution.
THEOREM OutcomesAlwaysTrue == DeliverySpec => []OutcomesAreTrue
<1>1. DeliveryInv => OutcomesAreTrue
    BY DEF DeliveryInv, OutcomesOK, OutcomesAreTrue, Unasked
<1>2. QED
    BY <1>1, DeliveryAlwaysOK, PTL

\* A capability runs only under its own durable receipt.
THEOREM ExecutionAlwaysHasReceipt == DeliverySpec => []ExecutionHasReceipt
<1>1. DeliveryInv => ExecutionHasReceipt
    BY DEF DeliveryInv, LanesOK, LaneOK, ExecutionHasReceipt, Lanes
<1>2. QED
    BY <1>1, DeliveryAlwaysOK, PTL

(***************************************************************************)
(* The contract with the administrator.                                    *)
(***************************************************************************)
\* What one step may do to the state of a row.
Moves(s, t) ==
    \/ Retires(s, t)
    \/ s = "queued" /\ t = "claimed"
    \/ s = "claimed" /\ t = "running"
    \/ s \in {"running", "cancel_requested", "unknown"} /\ t \in Outcomes

\* The Mainframe moves rows, answering a request.
LEMMA ServeMoves ==
    ASSUME DeliveryInv, NEW c \in calls,
           ServeActivate(c) \/ ServeAccept(c) \/ ServeClaim(c) \/ ServeEmpty(c) \/ ServeControl(c)
    PROVE  execs' = execs /\ \A j \in Jobs : Moves(jobs[j].state, jobs'[j].state)
<1>1. IInv /\ c \in Requests /\ ShapeOK(c) /\ c.kind \in {"poll", "status", "start", "renew"}
    BY RequestFields DEF DeliveryInv, DeliveryTypeOK, CallsOK
<1>2. execs' = execs
    BY DEF ServeActivate, ServeAccept, ServeClaim, ServeEmpty, ServeControl
<1>3. QuietStep => \A j \in Jobs : Moves(jobs[j].state, jobs'[j].state)
    BY DEF QuietStep, Moves
<1>4. UNCHANGED storeVars => \A j \in Jobs : Moves(jobs[j].state, jobs'[j].state)
    BY DEF storeVars, vars, Moves, Retires
<1>5. CASE ServeActivate(c)
    <2>1. c.act \in Activations /\ ActivateAgent(Self, c.act)
        BY <1>1, <1>5 DEF ServeActivate, ShapeOK
    <2>2. QED
        BY <1>1, <1>2, <1>3, <2>1, ActivateRetires
<1>6. CASE ServeAccept(c)
    <2>1. c.result.job \in Jobs /\ c.result.outcome \in Outcomes
        BY <1>1, <1>6, RequestFields DEF ServeAccept, ShapeOK, Results
    <2>2. \/ Complete(c.result.job, Self, c.result.token, c.act, c.result.outcome)
          \/ UNCHANGED storeVars
        BY <1>6 DEF ServeAccept
    <2>3. CASE Complete(c.result.job, Self, c.result.token, c.act, c.result.outcome)
        <3>1. PICK j \in Jobs, o \in Outcomes : j = c.result.job /\ o = c.result.outcome
            BY <2>1
        <3>2. /\ \A i \in Jobs \ {j} : Retires(jobs[i].state, jobs'[i].state)
              /\ \/ Retires(jobs[j].state, jobs'[j].state)
                 \/ /\ jobs[j].state \in {"running", "cancel_requested", "unknown"}
                    /\ jobs'[j].state = o
            BY <1>1, <2>3, <3>1, CompleteResolves
        <3>3. QED
            BY <1>2, <3>2 DEF Moves
    <2>4. QED
        BY <1>2, <1>4, <2>2, <2>3
<1>7. CASE ServeClaim(c)
    <2>1. c.act \in Activations
        BY <1>1, <1>7 DEF ServeClaim, ShapeOK
    <2>2. PICK j \in Jobs : Claim(Self, c.act, Channel, j)
        BY <1>7 DEF ServeClaim
    <2>3. /\ jobs[j].state = "queued" /\ jobs'[j].state = "claimed"
          /\ \A i \in Jobs \ {j} : Retires(jobs[i].state, jobs'[i].state)
        BY <1>1, <2>1, <2>2, ClaimTakes
    <2>4. QED
        BY <1>2, <2>3 DEF Moves
<1>8. CASE ServeEmpty(c)
    <2>1. c.act \in Activations
        BY <1>1, <1>8 DEF ServeEmpty, ShapeOK
    <2>2. UNCHANGED storeVars \/ ClaimNothing(Self, c.act, Channel)
        BY <1>8 DEF ServeEmpty
    <2>3. QED
        BY <1>1, <1>2, <1>3, <1>4, <2>1, <2>2, EmptyRetires
<1>9. CASE ServeControl(c)
    <2>1. PICK j \in Jobs : j = c.work.job
        BY <1>1, <1>9 DEF ServeControl, ShapeOK
    <2>2. \/ UNCHANGED storeVars
          \/ Start(j, Self, c.work.token, c.work.act)
          \/ Renew(j, Self, c.work.token, c.work.act)
        BY <1>9, <2>1 DEF ServeControl
    <2>3. CASE Start(j, Self, c.work.token, c.work.act)
        <3>1. /\ \A i \in Jobs \ {j} : Retires(jobs[i].state, jobs'[i].state)
              /\ \/ jobs[j].state = "claimed" /\ jobs'[j].state = "running"
                 \/ Retires(jobs[j].state, jobs'[j].state)
            BY <1>1, <2>3, StartGrants
        <3>2. QED
            BY <1>2, <3>1 DEF Moves
    <2>4. CASE Renew(j, Self, c.work.token, c.work.act)
        BY <1>1, <1>2, <1>3, <2>4, RenewRetires
    <2>5. QED
        BY <1>2, <1>4, <2>2, <2>3, <2>4
<1>10. QED
    BY <1>5, <1>6, <1>7, <1>8, <1>9

\* A step moves rows or invokes one capability, never both.
LEMMA StepMoves ==
    ASSUME DeliveryInv, DeliveryNext, NEW j \in Jobs
    PROVE  \/ execs'[j] = execs[j] /\ Moves(jobs[j].state, jobs'[j].state)
           \/ jobs'[j] = jobs[j] /\ \E l \in Lanes : Invoked(l, j)
<1>1. UNCHANGED storeVars => jobs' = jobs /\ Moves(jobs[j].state, jobs'[j].state)
    BY DEF storeVars, vars, Moves, Retires
<1>2. ASSUME NEW l \in Lanes, AgentStep(l)
      PROVE  \/ execs'[j] = execs[j] /\ Moves(jobs[j].state, jobs'[j].state)
             \/ jobs'[j] = jobs[j] /\ Invoked(l, j)
    <2>1. UNCHANGED storeVars
        BY <1>2 DEF AgentStep, SendHeartbeat, HeartbeatReply, Accept, Skip, StartReply, SendRenew,
                    RenewReply, Return, Conclude, Timeout
    <2>2. execs' = execs \/ StartReply(l)
        BY <1>2 DEF AgentStep, SendHeartbeat, HeartbeatReply, Accept, Skip, SendRenew,
                    RenewReply, Return, Conclude, Timeout
    <2>3. QED
        BY <1>1, <2>1, <2>2, StartReplyKeeps
<1>3. CASE Serve
    BY <1>3, ServeMoves DEF Serve
<1>4. ASSUME NEW k \in Jobs, ForgetAcknowledged(k)
      PROVE  execs'[j] = execs[j] /\ Moves(jobs[j].state, jobs'[j].state)
    BY <1>1, <1>4 DEF ForgetAcknowledged
<1>5. ASSUME NEW e \in Activations, Restart(e)
      PROVE  execs'[j] = execs[j] /\ Moves(jobs[j].state, jobs'[j].state)
    BY <1>1, <1>5 DEF Restart
<1>6. CASE MainframeStep
    <2>1. QuietStep /\ execs' = execs
        BY <1>6, MainframeRetires DEF DeliveryInv, MainframeStep
    <2>2. QED
        BY <2>1 DEF QuietStep, Moves
<1>7. QED
    BY <1>2, <1>3, <1>4, <1>5, <1>6 DEF DeliveryNext

\* What the administrator is shown.
LEMMA Views ==
    ASSUME NEW s \in RowStates
    PROVE  /\ View(s) \in Contract!Shown
           /\ s = "absent" => View(s) = "none"
           /\ s \in {"queued", "claimed", "running", "cancel_requested"} => View(s) = "open"
           /\ s = "unknown" => View(s) = "unresolved"
           /\ s = "deleted" => View(s) = "gone"
           /\ s \in Final => View(s) = s
BY DEF View, Contract!Shown, RowStates, JobStates, Active, Owned, Final

\* One job, one step: a step of the contract.
LEMMA JobContract ==
    ASSUME DeliveryInv, DeliveryInv', DeliveryNext, NEW j \in Jobs
    PROVE  \/ Contract!Same(j) \/ Contract!Submit(j) \/ Contract!Effect(j) \/ Contract!Settle(j)
           \/ Contract!Forget(j)
<1>1. PICK s \in RowStates, t \in RowStates : s = jobs[j].state /\ t = jobs'[j].state
    BY DEF DeliveryInv, IInv, Row
<1>2. PICK m \in Nat, n \in Nat : m = execs[j] /\ n = execs'[j]
    BY DEF DeliveryInv, DeliveryTypeOK
<1>3. PICK u, v : u = View(s) /\ v = View(t)
    OBVIOUS
<1>4. /\ [i \in Jobs |-> View(jobs[i].state)][j] = u
      /\ [i \in Jobs |-> View(jobs[i].state)]'[j] = v
    BY <1>1, <1>3
<1>5. /\ s \in Unasked \cup {"cancelled", "failed"} => m = 0
      /\ s = "succeeded" => m = 1
      /\ t \in Unasked \cup {"cancelled", "failed"} => n = 0
      /\ t = "succeeded" => n = 1
    BY <1>1, <1>2 DEF DeliveryInv, OutcomesOK
<1>6. CASE jobs'[j] = jobs[j] /\ \E l \in Lanes : Invoked(l, j)
    <2>1. m = 0 /\ n = 1 /\ s = t /\ s \in {"running", "cancel_requested", "unknown"}
        BY <1>1, <1>2, <1>5, <1>6 DEF Invoked, Unasked, RowStates, JobStates
    <2>2. u \in {"open", "unresolved"} /\ u = v
        BY <1>3, <2>1, Views
    <2>3. Contract!Effect(j)
        BY <1>2, <1>4, <2>1, <2>2 DEF Contract!Effect
    <2>4. QED
        BY <2>3
<1>7. CASE execs'[j] = execs[j] /\ Moves(jobs[j].state, jobs'[j].state)
    <2>1. m = n /\ Moves(s, t)
        BY <1>1, <1>2, <1>7
    <2>2. \/ u = v
          \/ u = "none" /\ v = "open"
          \/ u = "open" /\ v = "unresolved"
          \/ u = "open" /\ v = "cancelled" /\ m = 0
          \/ u \in {"open", "unresolved"} /\ v = "failed" /\ m = 0
          \/ u \in {"open", "unresolved"} /\ v = "succeeded" /\ m = 1
          \/ u = "open" /\ v = "gone" /\ m = 0
          \/ u \in {"cancelled", "failed", "succeeded"} /\ v = "gone"
        BY <1>3, <1>5, <2>1, Views DEF Moves, Retires, Outcomes, Unasked, Final
    <2>3. QED
        BY <1>2, <1>4, <2>1, <2>2
           DEF Contract!Same, Contract!Submit, Contract!Settle, Contract!Forget
<1>8. QED
    BY <1>6, <1>7, StepMoves

\* Owned delivery implements the contract with the administrator: an operation
\* takes effect at most once, only while it is unsettled, and a settled outcome
\* is true.
THEOREM DeliveryImplementsContract == DeliverySpec => ImplementsContract
<1>1. DeliveryInit => Contract!ContractInit
    <2>1. SUFFICES ASSUME DeliveryInit
                   PROVE  Contract!ContractInit
        OBVIOUS
    <2>2. \A j \in Jobs : jobs[j].state = "absent"
        BY <2>1 DEF DeliveryInit, Init, NoRow
    <2>3. \A j \in Jobs : View(jobs[j].state) = "none"
        BY <2>2, Views DEF RowStates
    <2>4. QED
        BY <2>1, <2>3 DEF DeliveryInit, Contract!ContractInit
<1>2. DeliveryInv /\ DeliveryInv' /\ [DeliveryNext]_allVars =>
          [Contract!ContractNext]_(Contract!contractVars)
    <2>1. SUFFICES ASSUME DeliveryInv, DeliveryInv', [DeliveryNext]_allVars
                   PROVE  [Contract!ContractNext]_(Contract!contractVars)
        OBVIOUS
    <2>2. CASE DeliveryNext
        <3>1. [j \in Jobs |-> View(jobs[j].state)]' \in [Jobs -> Contract!Shown]
            <4>1. \A j \in Jobs : jobs'[j].state \in RowStates
                BY <2>1 DEF DeliveryInv, IInv, Row
            <4>2. QED
                BY <4>1, Views
        <3>2. execs' \in [Jobs -> Nat]
            BY <2>1 DEF DeliveryInv, DeliveryTypeOK
        <3>3. Contract!ContractNext
            BY <2>1, <2>2, <3>1, <3>2, JobContract DEF Contract!ContractNext
        <3>4. QED
            BY <3>3
    <2>3. CASE UNCHANGED allVars
        BY <2>3 DEF allVars, vars, Contract!contractVars
    <2>4. QED
        BY <2>1, <2>2, <2>3
<1>3. QED
    BY <1>1, <1>2, DeliveryAlwaysOK, PTL DEF DeliverySpec, ImplementsContract, Contract!ContractSpec

=============================================================================
