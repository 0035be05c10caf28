----------------------- MODULE DistributedJobsProofs -----------------------
(***************************************************************************)
(* Proofs about DistributedJobStore, for any number of jobs, agents and    *)
(* activations and any lease, retention and quota: the queue               *)
(* (DistributedJobs) first, then the response transfers that               *)
(* ResponseChunksMixin adds to it (ResponseTransfer).                      *)
(*                                                                         *)
(* The inductive invariant is a property of each row by itself (RowOK),    *)
(* relative to the activation table, plus the fact that attempt tokens are *)
(* fresh.  Every operation updates rows with a few row functions, so the   *)
(* proof is one lemma per row function and one step per operation.         *)
(***************************************************************************)
EXTENDS ResponseTransfer, FiniteSetTheorems, TLAPS

RowOK(r, acts) ==
    /\ r \in Row
    /\ r.lease \in NULL..Lease
    /\ r.keep \in NULL..Retention
    /\ r.starts = IF r.state \in Unstarted \cup {"absent", "deleted"} THEN 0 ELSE 1
    /\ r.state \in Active => r.act = acts[r.agent]
    /\ r.state \in Owned => r.token # NoToken /\ r.lease # NULL
    /\ r.state \in {"queued", "absent", "deleted"} => r.token = NoToken
    /\ r.payload # {} => r.keep # NULL
    /\ r.cap = "tunnel" /\ r.state # "queued" => "input" \notin r.payload

\* A row may move from r to s.
RowStep(r, s) ==
    /\ r.state \notin {"absent", "queued"} => s.state # "queued"
    /\ s.state = "claimed" /\ r.state # "claimed" => r.state = "queued"
    /\ r.starts > 0 => s.state # "cancelled"
    /\ r.state \in Final => s.state \in {r.state, "deleted"}
    /\ r.state = "unknown" =>
          /\ s.state \in {"unknown", "succeeded", "failed"}
          /\ r.token = NoToken => s.state = "unknown"
    /\ s.state = "absent" => r.state = "absent"
    /\ r.state = "deleted" => s.state = "deleted"
    /\ s.token \in {r.token, NoToken} \/ r.state = "queued"

\* s is r after an expiry sweep.
Expired(r, s) ==
    /\ s.token = r.token
    /\ s.starts = r.starts
    /\ \/ s.state = r.state
       \/ r.state \in Active /\ s.state \in {"cancelled", "unknown"}

USE LeaseAssumption, RetentionAssumption, AgentsAssumption DEF NoToken

\* NULL, the model of SQL NULL, is an integer below every deadline a policy
\* sets.
LEMMA NullFacts ==
    /\ NULL \in Int /\ NULL < 0
    /\ \A n \in Nat : n \in Int /\ n # NULL /\ n \in NULL..n /\ NULL \in NULL..n
    /\ Lease \in Int /\ Retention \in Int
BY DEF NULL

\* The states the operations write are states of the table.
LEMMA StateFacts ==
    /\ JobStates \subseteq RowStates
    /\ {"queued", "claimed", "running", "cancel_requested", "unknown", "succeeded", "failed",
        "cancelled", "deleted"} \subseteq RowStates
BY DEF JobStates, RowStates

\* The row of an unused or deleted identifier satisfies the row invariant.
LEMMA NoRowOK ==
    ASSUME NEW acts, NEW s \in {"absent", "deleted"}
    PROVE  RowOK(NoRow(s), acts) /\ NoRow(s).token = NoToken
BY NullFacts DEF RowOK, NoRow, Row, RowStates, JobStates, Unstarted, Active, Owned,
    Epochs, Capabilities

\* Wiping a tunnelled request body touches the payload column only.
LEMMA WipeTunnelFields ==
    ASSUME NEW r \in Row, NEW w, w = WipeTunnel(r)
    PROVE  /\ w \in Row
           /\ w.payload \subseteq r.payload
           /\ r.cap = "tunnel" => "input" \notin w.payload
           /\ w.state = r.state /\ w.agent = r.agent /\ w.act = r.act /\ w.cap = r.cap
           /\ w.token = r.token /\ w.lease = r.lease /\ w.keep = r.keep
           /\ w.starts = r.starts
BY DEF WipeTunnel, Row

(***************************************************************************)
(* The sweep preserves RowOK and only retires active rows.                 *)
(***************************************************************************)
\* The lease part of _expire keeps a row well formed and retires owned rows
\* only.
LEMMA ExpireLeaseOK ==
    ASSUME NEW acts, NEW r, RowOK(r, acts)
    PROVE  RowOK(ExpireLease(r), acts) /\ Expired(r, ExpireLease(r))
<1> DEFINE q == ExpireLease(r)
           w == WipeTunnel(r)
<1>0. r \in Row
    BY DEF RowOK
<1>1. CASE ~(r.state \in Owned /\ r.lease = 0)
    BY <1>1 DEF ExpireLease, Expired
<1>2. CASE r.state \in Owned /\ r.lease = 0
    <2>1. /\ w \in Row /\ w.payload \subseteq r.payload
          /\ (r.cap = "tunnel" => "input" \notin w.payload)
          /\ w.agent = r.agent /\ w.act = r.act /\ w.cap = r.cap /\ w.token = r.token
          /\ w.keep = r.keep /\ w.starts = r.starts
        BY <1>0, WipeTunnelFields
    <2>2. /\ q \in Row
          /\ q.state = IF r.state = "claimed" THEN "cancelled" ELSE "unknown"
          /\ q.lease = NULL
          /\ q.agent = w.agent /\ q.act = w.act /\ q.cap = w.cap /\ q.token = w.token
          /\ q.keep = w.keep /\ q.starts = w.starts /\ q.payload = w.payload
        BY <1>2, <2>1, NullFacts DEF ExpireLease, Row, RowStates, JobStates
    <2> HIDE DEF q, w
    <2>3. RowOK(q, acts)
        BY <1>2, <2>1, <2>2, NullFacts DEF RowOK, Unstarted, Active, Owned
    <2>4. Expired(r, q)
        BY <1>2, <2>1, <2>2 DEF Expired, Active
    <2>5. QED
        BY <2>3, <2>4 DEF q
<1>3. QED
    BY <1>1, <1>2

\* The retention part of _expire keeps a row well formed and retires queued
\* rows only.
LEMMA ExpirePayloadOK ==
    ASSUME NEW acts, NEW r, RowOK(r, acts)
    PROVE  RowOK(ExpirePayload(r), acts) /\ Expired(r, ExpirePayload(r))
<1> DEFINE q == ExpirePayload(r)
<1>0. r \in Row
    BY DEF RowOK
<1>1. CASE r.keep # 0
    BY <1>1 DEF ExpirePayload, Expired
<1>2. CASE r.keep = 0
    <2>1. /\ q \in Row
          /\ q.state = IF r.state = "queued" THEN "cancelled" ELSE r.state
          /\ q.payload = {} /\ q.keep = NULL
          /\ q.agent = r.agent /\ q.act = r.act /\ q.cap = r.cap /\ q.token = r.token
          /\ q.lease = r.lease /\ q.starts = r.starts
        BY <1>0, <1>2, NullFacts DEF ExpirePayload, Row, RowStates, JobStates
    <2> HIDE DEF q
    <2>2. RowOK(q, acts)
        BY <1>2, <2>1, NullFacts DEF RowOK, Unstarted, Active, Owned
    <2>3. Expired(r, q)
        BY <2>1 DEF Expired, Active
    <2>4. QED
        BY <2>2, <2>3 DEF q
<1>3. QED
    BY <1>1, <1>2

\* The whole sweep keeps a row well formed and retires active rows only.
LEMMA ExpireRowOK ==
    ASSUME NEW acts, NEW r, RowOK(r, acts)
    PROVE  RowOK(ExpireRow(r), acts) /\ Expired(r, ExpireRow(r))
<1>1. RowOK(ExpireLease(r), acts) /\ Expired(r, ExpireLease(r))
    BY ExpireLeaseOK
<1>2. RowOK(ExpireRow(r), acts) /\ Expired(ExpireLease(r), ExpireRow(r))
    BY <1>1, ExpirePayloadOK DEF ExpireRow
<1>3. QED
    BY <1>1, <1>2 DEF Expired, Active, Owned

\* An allowed step from the swept row is an allowed step from the row before
\* the sweep.
LEMMA StepAfterExpiry ==
    ASSUME NEW r, NEW q, NEW s, Expired(r, q), RowStep(q, s)
    PROVE  RowStep(r, s)
BY DEF RowStep, Expired, Active, Owned, Final

(***************************************************************************)
(* The row functions of the operations.                                    *)
(***************************************************************************)
\* claim takes a queued row to a leased one that carries the new attempt
\* token.
LEMMA ClaimRowOK ==
    ASSUME NEW acts, NEW r, RowOK(r, acts), r.state = "queued", NEW t \in Nat \ {0}
    PROVE  RowOK(ClaimRow(r, t), acts) /\ RowStep(r, ClaimRow(r, t)) /\ ClaimRow(r, t).token = t
<1> DEFINE q == ClaimRow(r, t)
           w == WipeTunnel(r)
<1>1. r \in Row
    BY DEF RowOK
<1>2. /\ w \in Row /\ w.payload \subseteq r.payload
      /\ (r.cap = "tunnel" => "input" \notin w.payload)
      /\ w.agent = r.agent /\ w.act = r.act /\ w.cap = r.cap
      /\ w.keep = r.keep /\ w.starts = r.starts
    BY <1>1, WipeTunnelFields
<1>3. /\ q \in Row
      /\ q.state = "claimed" /\ q.token = t /\ q.lease = Lease
      /\ q.agent = w.agent /\ q.act = w.act /\ q.cap = w.cap
      /\ q.keep = w.keep /\ q.starts = w.starts /\ q.payload = w.payload
    BY <1>2, NullFacts, StateFacts DEF ClaimRow, Row
<1> HIDE DEF q, w
<1>4. RowOK(q, acts)
    BY <1>2, <1>3, NullFacts DEF RowOK, Unstarted, Active, Owned
<1>5. RowStep(r, q)
    BY <1>2, <1>3 DEF RowOK, RowStep, Final, Unstarted
<1>6. QED
    BY <1>3, <1>4, <1>5 DEF q

\* control(start) takes a claimed row to its one and only start.
LEMMA StartRowOK ==
    ASSUME NEW acts, NEW r, RowOK(r, acts), r.state = "claimed"
    PROVE  RowOK(StartRow(r), acts) /\ RowStep(r, StartRow(r)) /\ StartRow(r).token = r.token
<1> DEFINE q == StartRow(r)
<1>1. r \in Row
    BY DEF RowOK
<1> r.starts + 1 \in Nat
    BY <1>1 DEF Row
<1>2. /\ q \in Row
      /\ q.state = "running" /\ q.starts = r.starts + 1 /\ q.lease = Lease
      /\ q.agent = r.agent /\ q.act = r.act /\ q.cap = r.cap /\ q.token = r.token
      /\ q.keep = r.keep /\ q.payload = r.payload
    BY <1>1, NullFacts, StateFacts DEF StartRow, Row
<1> HIDE DEF q
<1>3. RowOK(q, acts)
    BY <1>2, NullFacts DEF RowOK, Unstarted, Active, Owned
<1>4. RowStep(r, q)
    BY <1>2 DEF RowStep, Final
<1>5. QED
    BY <1>2, <1>3, <1>4 DEF q

\* control(renew) moves nothing but the lease of an owned row.
LEMMA RenewRowOK ==
    ASSUME NEW acts, NEW r, RowOK(r, acts), r.state \in Owned
    PROVE  RowOK(RenewRow(r), acts) /\ RowStep(r, RenewRow(r)) /\ RenewRow(r).token = r.token
<1> DEFINE q == RenewRow(r)
<1>1. r \in Row
    BY DEF RowOK
<1>2. /\ q \in Row
      /\ q.state = r.state /\ q.starts = r.starts /\ q.lease = Lease
      /\ q.agent = r.agent /\ q.act = r.act /\ q.cap = r.cap /\ q.token = r.token
      /\ q.keep = r.keep /\ q.payload = r.payload
    BY <1>1 DEF RenewRow, Row
<1> HIDE DEF q
<1>3. RowOK(q, acts)
    BY <1>2, NullFacts DEF RowOK
<1>4. RowStep(r, q)
    BY <1>2 DEF RowOK, RowStep, Final, Owned, Unstarted
<1>5. QED
    BY <1>2, <1>3, <1>4 DEF q

\* complete gives a started, unsettled row its outcome and a retention
\* deadline.
LEMMA CompleteRowOK ==
    ASSUME NEW acts, NEW r, RowOK(r, acts),
           r.state \in {"running", "cancel_requested", "unknown"}, r.token # NoToken,
           NEW o \in {"succeeded", "failed", "unknown"}
    PROVE  /\ RowOK(CompleteRow(r, o), acts)
           /\ RowStep(r, CompleteRow(r, o))
           /\ CompleteRow(r, o).token = r.token
<1> DEFINE q == CompleteRow(r, o)
<1>1. r \in Row /\ r.payload \cup {"output"} \in SUBSET {"input", "output"} /\ o \in RowStates
    BY StateFacts DEF RowOK, Row
<1>2. /\ q \in Row
      /\ q.state = o /\ q.payload = r.payload \cup {"output"} /\ q.keep = Retention
      /\ q.lease = NULL
      /\ q.agent = r.agent /\ q.act = r.act /\ q.cap = r.cap /\ q.token = r.token
      /\ q.starts = r.starts
    BY <1>1, NullFacts DEF CompleteRow, Row
<1> HIDE DEF q
<1>3. RowOK(q, acts)
    BY <1>2, NullFacts DEF RowOK, Unstarted, Active, Owned
<1>4. RowStep(r, q)
    BY <1>2 DEF RowStep, Final
<1>5. QED
    BY <1>2, <1>3, <1>4 DEF q

\* cancel settles what has not started and only marks what is running.
LEMMA CancelRowOK ==
    ASSUME NEW acts, NEW r, RowOK(r, acts)
    PROVE  RowOK(CancelRow(r), acts) /\ RowStep(r, CancelRow(r)) /\ CancelRow(r).token = r.token
<1> DEFINE q == CancelRow(r)
           w == WipeTunnel(r)
<1>1. r \in Row
    BY DEF RowOK
<1>2. CASE r.state \in {"queued", "claimed"}
    <2>1. /\ w \in Row /\ w.payload \subseteq r.payload
          /\ (r.cap = "tunnel" => "input" \notin w.payload)
          /\ w.agent = r.agent /\ w.act = r.act /\ w.cap = r.cap /\ w.token = r.token
          /\ w.lease = r.lease /\ w.keep = r.keep /\ w.starts = r.starts
        BY <1>1, WipeTunnelFields
    <2>2. q = [w EXCEPT !.state = "cancelled"]
        BY <1>2 DEF CancelRow
    <2>3. /\ q \in Row
          /\ q.state = "cancelled" /\ q.lease = w.lease
          /\ q.agent = w.agent /\ q.act = w.act /\ q.cap = w.cap /\ q.token = w.token
          /\ q.keep = w.keep /\ q.starts = w.starts /\ q.payload = w.payload
        BY <2>1, <2>2, StateFacts DEF Row
    <2> HIDE DEF q, w
    <2>4. RowOK(q, acts)
        BY <1>2, <2>1, <2>3, NullFacts DEF RowOK, Unstarted, Active, Owned
    <2>5. RowStep(r, q)
        BY <1>2, <2>1, <2>3 DEF RowOK, RowStep, Final, Unstarted
    <2>6. QED
        BY <2>1, <2>3, <2>4, <2>5 DEF q
<1>3. CASE r.state = "running"
    <2>1. q = [r EXCEPT !.state = "cancel_requested"]
        BY <1>3 DEF CancelRow
    <2>2. /\ q \in Row
          /\ q.state = "cancel_requested" /\ q.lease = r.lease
          /\ q.agent = r.agent /\ q.act = r.act /\ q.cap = r.cap /\ q.token = r.token
          /\ q.keep = r.keep /\ q.starts = r.starts /\ q.payload = r.payload
        BY <1>1, <2>1, StateFacts DEF Row
    <2> HIDE DEF q
    <2>3. RowOK(q, acts)
        BY <1>3, <2>2 DEF RowOK, Unstarted, Active, Owned
    <2>4. RowStep(r, q)
        BY <1>3, <2>2 DEF RowStep, Final
    <2>5. QED
        BY <2>2, <2>3, <2>4 DEF q
<1>4. CASE r.state \notin {"queued", "claimed", "running"}
    <2>1. q = r
        BY <1>4 DEF CancelRow
    <2>2. QED
        BY <1>4, <2>1 DEF RowOK, RowStep, Unstarted, Final
<1>5. QED
    BY <1>2, <1>3, <1>4

\* Fencing an active row settles it and takes its attempt token away.
LEMMA FenceRowOK ==
    ASSUME NEW acts, NEW acts2, NEW r, RowOK(r, acts), r.state \in Active
    PROVE  /\ RowOK(FenceRow(r), acts2)
           /\ RowStep(r, FenceRow(r))
           /\ FenceRow(r).token = NoToken
<1> DEFINE q == FenceRow(r)
           w == WipeTunnel(r)
<1>1. r \in Row
    BY DEF RowOK
<1>2. /\ w \in Row /\ w.payload \subseteq r.payload
      /\ (r.cap = "tunnel" => "input" \notin w.payload)
      /\ w.agent = r.agent /\ w.act = r.act /\ w.cap = r.cap
      /\ w.keep = r.keep /\ w.starts = r.starts
    BY <1>1, WipeTunnelFields
<1>3. /\ q \in Row
      /\ q.state = IF r.state \in {"queued", "claimed"} THEN "cancelled" ELSE "unknown"
      /\ q.token = 0 /\ q.lease = NULL
      /\ q.agent = w.agent /\ q.act = w.act /\ q.cap = w.cap
      /\ q.keep = w.keep /\ q.starts = w.starts /\ q.payload = w.payload
    BY <1>2, NullFacts, StateFacts DEF FenceRow, Row
<1> HIDE DEF q, w
<1>4. RowOK(q, acts2)
    BY <1>2, <1>3, NullFacts DEF RowOK, Unstarted, Active, Owned
<1>5. RowStep(r, q)
    BY <1>2, <1>3 DEF RowOK, RowStep, Final, Unstarted, Active, Owned
<1>6. QED
    BY <1>3, <1>4, <1>5 DEF q

\* The first activation adopts a row, a changed one fences it off: either way
\* an active row ends up on the activation just presented.
LEMMA BindOrFenceOK ==
    ASSUME activation \in [Agents -> Epochs],
           NEW r, RowOK(r, activation),
           NEW a \in Agents, NEW act \in Epochs, act # NoActivation
    PROVE  LET q == BindOrFence(a, act, r)
           IN  /\ RowOK(q, [activation EXCEPT ![a] = act])
               /\ RowStep(r, q)
               /\ q.token \in {r.token, NoToken}
<1> DEFINE q == BindOrFence(a, act, r)
           acts2 == [activation EXCEPT ![a] = act]
<1>1. r \in Row /\ r.agent \in Agents
    BY DEF RowOK, Row
<1>2. acts2[a] = act /\ \A b \in Agents : b # a => acts2[b] = activation[b]
    OBVIOUS
<1>3. RowStep(r, r)
    BY DEF RowOK, RowStep, Unstarted, Final
<1> HIDE DEF acts2
<1>4. CASE r.agent # a \/ r.state \notin Active
    <2>1. q = r
        BY <1>4 DEF BindOrFence
    <2>2. r.state \in Active => r.act = acts2[r.agent]
        BY <1>1, <1>2, <1>4 DEF RowOK
    <2>3. RowOK(r, acts2)
        BY <2>2 DEF RowOK
    <2>4. QED
        BY <1>3, <2>1, <2>3 DEF acts2
<1>5. CASE r.agent = a /\ r.state \in Active /\ activation[a] = NoActivation
    <2>1. r.act = NoActivation
        BY <1>5 DEF RowOK
    <2>2. q = [r EXCEPT !.act = act]
        BY <1>5, <2>1 DEF BindOrFence
    <2>3. /\ q \in Row
          /\ q.act = act
          /\ q.state = r.state /\ q.lease = r.lease /\ q.agent = r.agent /\ q.cap = r.cap
          /\ q.token = r.token /\ q.keep = r.keep /\ q.starts = r.starts
          /\ q.payload = r.payload
        BY <1>1, <2>2 DEF Row
    <2> HIDE DEF q
    <2>4. RowOK(q, acts2)
        BY <1>2, <1>5, <2>3 DEF RowOK
    <2>5. RowStep(r, q)
        BY <1>3, <2>3 DEF RowStep
    <2>6. QED
        BY <2>3, <2>4, <2>5 DEF q, acts2
<1>6. CASE r.agent = a /\ r.state \in Active /\ activation[a] # NoActivation
    <2>1. r.act = activation[a]
        BY <1>6 DEF RowOK
    <2>2. CASE activation[a] = act
        <3>1. q = r
            BY <1>6, <2>2 DEF BindOrFence
        <3>2. RowOK(r, acts2)
            BY <1>2, <1>6, <2>1, <2>2 DEF RowOK
        <3>3. QED
            BY <1>3, <3>1, <3>2 DEF acts2
    <2>3. CASE activation[a] # act
        <3>1. q = FenceRow(r)
            BY <1>6, <2>1, <2>3 DEF BindOrFence
        <3>2. QED
            BY <1>6, <3>1, FenceRowOK DEF acts2
    <2>4. QED
        BY <2>2, <2>3
<1>7. QED
    BY <1>4, <1>5, <1>6

\* The passage of time keeps deadlines within their policies and moves no
\* state.
LEMMA TickRowOK ==
    ASSUME NEW acts, NEW r, RowOK(r, acts), NEW q,
           q = [r EXCEPT !.lease = Countdown(@), !.keep = Countdown(@)]
    PROVE  RowOK(q, acts) /\ RowStep(r, q) /\ q.token = r.token
<1>1. /\ r \in Row
      /\ Countdown(r.lease) \in NULL..Lease /\ Countdown(r.keep) \in NULL..Retention
      /\ Countdown(r.lease) \in Int /\ Countdown(r.keep) \in Int
      /\ r.lease # NULL => Countdown(r.lease) # NULL
      /\ r.keep # NULL => Countdown(r.keep) # NULL
    BY DEF RowOK, Countdown, NULL
<1>2. /\ q \in Row
      /\ q.lease = Countdown(r.lease) /\ q.keep = Countdown(r.keep)
      /\ q.state = r.state /\ q.agent = r.agent /\ q.act = r.act /\ q.cap = r.cap
      /\ q.token = r.token /\ q.starts = r.starts /\ q.payload = r.payload
    BY <1>1 DEF Row
<1>3. RowOK(q, acts)
    BY <1>1, <1>2 DEF RowOK
<1>4. RowStep(r, q)
    BY <1>2 DEF RowOK, RowStep, Unstarted, Final
<1>5. QED
    BY <1>2, <1>3, <1>4

\* Dropping a stored output keeps a row well formed and moves no state.
LEMMA DiscardRowOK ==
    ASSUME NEW acts, NEW r, RowOK(r, acts), NEW q,
           q = [r EXCEPT !.payload = @ \ {"output"}]
    PROVE  RowOK(q, acts) /\ RowStep(r, q) /\ q.token = r.token
<1>1. r \in Row
    BY DEF RowOK
<1>2. /\ q \in Row
      /\ q.payload = r.payload \ {"output"}
      /\ q.state = r.state /\ q.agent = r.agent /\ q.act = r.act /\ q.cap = r.cap
      /\ q.token = r.token /\ q.starts = r.starts /\ q.lease = r.lease /\ q.keep = r.keep
    BY <1>1 DEF Row
<1>3. RowOK(q, acts)
    BY <1>2 DEF RowOK
<1>4. RowStep(r, q)
    BY <1>2 DEF RowOK, RowStep, Unstarted, Final
<1>5. QED
    BY <1>2, <1>3, <1>4

\* A row just queued for an agent is bound to the agent's current activation.
LEMMA EnqueueRowOK ==
    ASSUME activation \in [Agents -> Epochs], NEW a \in Agents, NEW c \in Capabilities,
           NEW n \in Nat
    PROVE  /\ RowOK(QueuedRow(a, activation[a], c, n), activation)
           /\ QueuedRow(a, activation[a], c, n).token = NoToken
           /\ QueuedRow(a, activation[a], c, n).state = "queued"
<1> DEFINE q == QueuedRow(a, activation[a], c, n)
<1>1. activation[a] \in Epochs /\ {"input"} \in SUBSET {"input", "output"}
    OBVIOUS
<1>2. NoRow("queued") \in Row
    BY NullFacts, StateFacts DEF NoRow, Row, Epochs, Capabilities
<1>3. /\ NoRow("queued").state = "queued" /\ NoRow("queued").token = 0
      /\ NoRow("queued").lease = NULL /\ NoRow("queued").starts = 0
    BY DEF NoRow
<1>4. /\ q \in Row
      /\ q.agent = a /\ q.act = activation[a] /\ q.cap = c /\ q.payload = {"input"}
      /\ q.keep = Retention /\ q.state = "queued" /\ q.token = 0 /\ q.lease = NULL
      /\ q.starts = 0
    BY <1>1, <1>2, <1>3, NullFacts DEF Row, QueuedRow
<1> HIDE DEF q
<1>5. RowOK(q, activation) /\ q.token = NoToken /\ q.state = "queued"
    BY <1>4, NullFacts DEF RowOK, Unstarted, Active, Owned
<1>6. QED
    BY <1>5 DEF q

(***************************************************************************)
(* The inductive invariant, and what every step does to every row.         *)
(***************************************************************************)
IInv ==
    /\ jobs \in [Jobs -> Row]
    /\ activation \in [Agents -> Epochs]
    /\ issued \in Nat
    /\ \A j \in Jobs : RowOK(jobs[j], activation)
    /\ \A j \in Jobs : jobs[j].token <= issued
    /\ TokensIdentifyAttempts

RowsStep == \A j \in Jobs : RowStep(jobs[j], jobs'[j])

\* Steps that issue no token.
LEMMA NoNewToken ==
    ASSUME IInv, jobs' \in [Jobs -> Row], activation' \in [Agents -> Epochs],
           issued' = issued,
           \A j \in Jobs : RowOK(jobs'[j], activation'),
           \A j \in Jobs : jobs'[j].token \in {jobs[j].token, NoToken}
    PROVE  IInv'
<1>1. \A j \in Jobs : jobs'[j].token <= issued'
    BY DEF IInv
<1>2. TokensIdentifyAttempts'
    BY DEF IInv, TokensIdentifyAttempts
<1>3. QED
    BY <1>1, <1>2 DEF IInv

\* After a sweep over any set of jobs every row is well formed and only active
\* ones were retired.
LEMMA SweepOK ==
    ASSUME IInv, NEW S \in SUBSET Jobs
    PROVE  /\ Expire(S) \in [Jobs -> Row]
           /\ \A j \in Jobs : RowOK(Expire(S)[j], activation) /\ Expired(jobs[j], Expire(S)[j])
<1>1. ASSUME NEW j \in Jobs
      PROVE  RowOK(Expire(S)[j], activation) /\ Expired(jobs[j], Expire(S)[j])
    <2>1. RowOK(jobs[j], activation)
        BY DEF IInv
    <2>2. Expire(S)[j] = IF j \in S THEN ExpireRow(jobs[j]) ELSE jobs[j]
        BY DEF Expire
    <2>3. CASE j \in S
        BY <2>1, <2>2, <2>3, ExpireRowOK
    <2>4. CASE j \notin S
        BY <2>1, <2>2, <2>4 DEF Expired
    <2>5. QED
        BY <2>3, <2>4
<1>2. \A j \in Jobs : Expire(S)[j] \in Row
    BY <1>1 DEF RowOK
<1>3. Expire(S) = [j \in Jobs |-> Expire(S)[j]]
    BY DEF Expire
<1>4. Expire(S) \in [Jobs -> Row]
    BY <1>2, <1>3
<1>5. QED
    BY <1>1, <1>4

\* A row that does not move makes an allowed step.
LEMMA StepReflexive ==
    ASSUME NEW acts, NEW r, RowOK(r, acts)
    PROVE  RowStep(r, r)
BY DEF RowOK, RowStep, Unstarted, Final

\* A transaction that only sweeps (get, recent, prune_payloads) preserves the
\* invariant.
LEMMA SweepStep ==
    ASSUME IInv, NEW S \in SUBSET Jobs, jobs' = Expire(S), UNCHANGED <<activation, issued>>
    PROVE  IInv' /\ RowsStep
<1>1. /\ Expire(S) \in [Jobs -> Row]
      /\ \A j \in Jobs : RowOK(Expire(S)[j], activation) /\ Expired(jobs[j], Expire(S)[j])
    BY SweepOK
<1>2. RowsStep
    <2> SUFFICES ASSUME NEW j \in Jobs PROVE RowStep(jobs[j], jobs'[j])
        BY DEF RowsStep
    <2>1. RowStep(Expire(S)[j], Expire(S)[j])
        BY <1>1, StepReflexive
    <2>2. QED
        BY <1>1, <2>1, StepAfterExpiry
<1>3. \A j \in Jobs : jobs'[j].token = jobs[j].token
    BY <1>1 DEF Expired
<1>4. \A j \in Jobs : RowOK(jobs'[j], activation')
    BY <1>1
<1>5. jobs' \in [Jobs -> Row] /\ activation' \in [Agents -> Epochs] /\ issued' = issued
    BY <1>1 DEF IInv
<1>6. QED
    BY <1>2, <1>3, <1>4, <1>5, NoNewToken

\* A sweep followed by the update of one row.
LEMMA SweepThenUpdate ==
    ASSUME IInv, NEW S \in SUBSET Jobs, NEW k \in Jobs, NEW s,
           jobs' = [Expire(S) EXCEPT ![k] = s], UNCHANGED <<activation, issued>>,
           RowOK(s, activation), RowStep(Expire(S)[k], s),
           s.token \in {Expire(S)[k].token, NoToken}
    PROVE  IInv' /\ RowsStep
<1>1. /\ Expire(S) \in [Jobs -> Row]
      /\ \A j \in Jobs : RowOK(Expire(S)[j], activation) /\ Expired(jobs[j], Expire(S)[j])
    BY SweepOK
<1>2. jobs'[k] = s /\ \A j \in Jobs : j # k => jobs'[j] = Expire(S)[j]
    BY <1>1
<1>3. \A j \in Jobs : RowStep(Expire(S)[j], jobs'[j])
    BY <1>1, <1>2, StepReflexive
<1>4. RowsStep
    BY <1>1, <1>3, StepAfterExpiry DEF RowsStep
<1>5. \A j \in Jobs : jobs'[j].token \in {jobs[j].token, NoToken}
    BY <1>1, <1>2 DEF Expired
<1>6. \A j \in Jobs : RowOK(jobs'[j], activation')
    BY <1>1, <1>2
<1>7. s \in Row
    BY DEF RowOK
<1>8. jobs' \in [Jobs -> Row] /\ activation' \in [Agents -> Epochs] /\ issued' = issued
    BY <1>1, <1>7 DEF IInv
<1>9. QED
    BY <1>4, <1>5, <1>6, <1>8, NoNewToken

\* claim preserves the invariant: the token it issues is larger than any
\* issued before.
LEMMA ClaimStep ==
    ASSUME IInv, NEW a \in Agents, NEW act \in Epochs, NEW ch \in Channels, NEW k \in Jobs,
           Claim(a, act, ch, k)
    PROVE  IInv' /\ RowsStep
<1> DEFINE rows == Expire(Jobs)
           s == ClaimRow(rows[k], issued + 1)
<1>1. /\ rows \in [Jobs -> Row]
      /\ \A j \in Jobs : RowOK(rows[j], activation) /\ Expired(jobs[j], rows[j])
    BY SweepOK
<1>2. rows[k].state = "queued"
    BY DEF Claim, Oldest, Eligible
<1>3. issued + 1 \in Nat \ {0}
    BY DEF IInv
<1>4. RowOK(s, activation) /\ RowStep(rows[k], s) /\ s.token = issued + 1
    BY <1>1, <1>2, <1>3, ClaimRowOK
<1>5. /\ jobs' = [rows EXCEPT ![k] = s]
      /\ issued' = issued + 1 /\ activation' = activation
    BY DEF Claim
<1> HIDE DEF rows, s
<1>6. jobs'[k] = s /\ \A j \in Jobs : j # k => jobs'[j] = rows[j]
    BY <1>1, <1>5
<1>7. RowsStep
    <2>1. \A j \in Jobs : RowStep(rows[j], jobs'[j])
        BY <1>1, <1>4, <1>6, StepReflexive
    <2>2. QED
        BY <1>1, <2>1, StepAfterExpiry DEF RowsStep
<1>8. \A j \in Jobs : jobs'[j].token = IF j = k THEN issued + 1 ELSE jobs[j].token
    BY <1>1, <1>4, <1>6 DEF Expired
<1>9. \A j \in Jobs : jobs[j].token \in Nat /\ jobs[j].token <= issued
    BY DEF IInv, Row
<1>10. \A j \in Jobs : jobs'[j].token <= issued'
    BY <1>3, <1>5, <1>8, <1>9 DEF IInv
<1>11. TokensIdentifyAttempts'
    BY <1>8, <1>9 DEF IInv, TokensIdentifyAttempts
<1>12. s \in Row
    BY <1>4 DEF RowOK
<1>13. jobs' \in [Jobs -> Row]
    BY <1>1, <1>5, <1>12
<1>14. \A j \in Jobs : RowOK(jobs'[j], activation')
    BY <1>1, <1>4, <1>5, <1>6
<1>15. QED
    BY <1>3, <1>5, <1>7, <1>10, <1>11, <1>13, <1>14 DEF IInv

\* The empty store satisfies the invariant.
LEMMA InitOK == Init => IInv
<1> SUFFICES ASSUME Init PROVE IInv
    OBVIOUS
<1>1. activation \in [Agents -> Epochs] /\ issued = 0
    BY DEF Init, Epochs
<1>2. RowOK(NoRow("absent"), activation) /\ NoRow("absent").token = 0
    BY NoRowOK
<1>3. \A j \in Jobs : jobs[j] = NoRow("absent")
    BY DEF Init
<1>4. jobs \in [Jobs -> Row]
    BY <1>2 DEF Init, RowOK
<1>5. TokensIdentifyAttempts
    BY <1>2, <1>3 DEF TokensIdentifyAttempts
<1>6. QED
    BY <1>1, <1>2, <1>3, <1>4, <1>5 DEF IInv

\* Every step preserves the invariant and moves every row as allowed.
LEMMA NextOK ==
    ASSUME IInv, Next
    PROVE  IInv' /\ RowsStep
<1>1. ASSUME NEW j \in Jobs, NEW a \in Agents, NEW c \in Capabilities, Enqueue(j, a, c)
      PROVE  IInv' /\ RowsStep
    <2> DEFINE n == Cardinality({k \in Jobs : jobs[k].state # "absent"})
               q == QueuedRow(a, activation[a], c, n)
    <2>1. n \in Nat
        BY JobsAssumption, FS_Subset, FS_CardinalityType
    <2>2. jobs[j].state = "absent" /\ jobs' = [jobs EXCEPT ![j] = q]
          /\ activation' = activation /\ issued' = issued
        BY <1>1 DEF Enqueue
    <2> HIDE DEF n
    <2>3. RowOK(q, activation) /\ q.token = NoToken /\ q.state = "queued"
        <3>1. activation \in [Agents -> Epochs]
            BY DEF IInv
        <3>2. QED
            BY <2>1, <3>1, EnqueueRowOK
    <2> HIDE DEF q
    <2>4. jobs'[j] = q /\ \A k \in Jobs : k # j => jobs'[k] = jobs[k]
        BY <2>2 DEF IInv
    <2>5. RowStep(jobs[j], q)
        BY <2>2, <2>3 DEF IInv, RowOK, RowStep, Final
    <2>6. RowsStep
        BY <2>4, <2>5, StepReflexive DEF RowsStep, IInv
    <2>7. \A k \in Jobs : RowOK(jobs'[k], activation')
        BY <2>2, <2>3, <2>4 DEF IInv
    <2>8. \A k \in Jobs : jobs'[k].token \in {jobs[k].token, NoToken}
        BY <2>3, <2>4
    <2>9. jobs' \in [Jobs -> Row] /\ activation' \in [Agents -> Epochs]
        BY <2>2, <2>3 DEF IInv, RowOK
    <2>10. QED
        BY <2>2, <2>6, <2>7, <2>8, <2>9, NoNewToken
<1>2. ASSUME NEW j \in Jobs, NEW a \in Agents, NEW tok, NEW act, Start(j, a, tok, act)
      PROVE  IInv' /\ RowsStep
    <2> DEFINE rows == Expire({j})
    <2>1. RowOK(rows[j], activation)
        BY SweepOK
    <2>2. CASE rows[j].state = "claimed"
        BY <1>2, <2>1, <2>2, StartRowOK, SweepThenUpdate DEF Start
    <2>3. CASE rows[j].state # "claimed"
        BY <1>2, <2>3, SweepStep DEF Start
    <2>4. QED
        BY <2>2, <2>3
<1>3. ASSUME NEW j \in Jobs, NEW a \in Agents, NEW tok, NEW act, Renew(j, a, tok, act)
      PROVE  IInv' /\ RowsStep
    <2> DEFINE rows == Expire({j})
    <2>1. RowOK(rows[j], activation)
        BY SweepOK
    <2>2. CASE rows[j].state \in Owned
        BY <1>3, <2>1, <2>2, RenewRowOK, SweepThenUpdate DEF Renew
    <2>3. CASE rows[j].state \notin Owned
        BY <1>3, <2>3, SweepStep DEF Renew
    <2>4. QED
        BY <2>2, <2>3
<1>4. ASSUME NEW j \in Jobs, NEW a \in Agents, NEW tok, NEW act,
             NEW o \in {"succeeded", "failed", "unknown"}, Complete(j, a, tok, act, o)
      PROVE  IInv' /\ RowsStep
    <2> DEFINE rows == Expire({j})
    <2>1. RowOK(rows[j], activation)
        BY SweepOK
    <2>2. rows[j].token # NoToken /\ rows[j].state \in JobStates \ {"queued", "claimed"}
        BY <1>4 DEF Complete, CompleteAllowed, Owns
    <2>3. CASE rows[j].state \in Final
        BY <1>4, <2>3, SweepStep DEF Complete
    <2>4. CASE rows[j].state \notin Final
        <3>1. rows[j].state \in {"running", "cancel_requested", "unknown"}
            BY <2>2, <2>4 DEF JobStates, Final
        <3>2. /\ RowOK(CompleteRow(rows[j], o), activation)
              /\ RowStep(rows[j], CompleteRow(rows[j], o))
              /\ CompleteRow(rows[j], o).token = rows[j].token
            BY <2>1, <2>2, <3>1, CompleteRowOK
        <3>3. QED
            BY <1>4, <2>4, <3>2, SweepThenUpdate DEF Complete
    <2>5. QED
        BY <2>3, <2>4
<1>5. ASSUME NEW j \in Jobs, Cancel(j)
      PROVE  IInv' /\ RowsStep
    <2>1. RowOK(Expire({j})[j], activation)
        BY SweepOK
    <2>2. QED
        BY <1>5, <2>1, CancelRowOK, SweepThenUpdate DEF Cancel
<1>6. ASSUME NEW j \in Jobs, Delete(j)
      PROVE  IInv' /\ RowsStep
    <2> DEFINE rows == Expire({j})
    <2>1. RowOK(NoRow("deleted"), activation) /\ NoRow("deleted").token = NoToken
        BY NoRowOK
    <2>2. CASE rows[j].state \in Final
        <3>1. RowStep(rows[j], NoRow("deleted"))
            BY <2>2 DEF RowStep, NoRow, Final
        <3>2. QED
            BY <1>6, <2>1, <2>2, <3>1, SweepThenUpdate DEF Delete
    <2>3. CASE rows[j].state \notin Final
        BY <1>6, <2>3, SweepStep DEF Delete
    <2>4. QED
        BY <2>2, <2>3
<1>7. ASSUME NEW j \in Jobs, DiscardTunnelOutput(j)
      PROVE  IInv' /\ RowsStep
    <2> DEFINE q == [jobs[j] EXCEPT !.payload = @ \ {"output"}]
    <2>1. RowOK(q, activation) /\ RowStep(jobs[j], q) /\ q.token = jobs[j].token
        BY DiscardRowOK DEF IInv
    <2>2. jobs' = [jobs EXCEPT ![j] = q] /\ UNCHANGED <<activation, issued>>
        BY <1>7 DEF DiscardTunnelOutput, IInv
    <2>3. Expire({}) = jobs
        BY DEF Expire, IInv
    <2> HIDE DEF q
    <2>4. QED
        BY <2>1, <2>2, <2>3, SweepThenUpdate
<1>8. ASSUME NEW a \in Agents, NEW act \in Epochs, ActivateAgent(a, act)
      PROVE  IInv' /\ RowsStep
    <2>1. /\ act # NoActivation
          /\ jobs' = [j \in Jobs |-> BindOrFence(a, act, jobs[j])]
          /\ activation' = [activation EXCEPT ![a] = act] /\ issued' = issued
        BY <1>8 DEF ActivateAgent
    <2>2. ASSUME NEW j \in Jobs
          PROVE  /\ RowOK(jobs'[j], activation') /\ RowStep(jobs[j], jobs'[j])
                 /\ jobs'[j].token \in {jobs[j].token, NoToken}
        BY <2>1, BindOrFenceOK DEF IInv
    <2>3. jobs' \in [Jobs -> Row]
        BY <2>1, <2>2 DEF RowOK
    <2>4. activation' \in [Agents -> Epochs]
        BY <2>1 DEF IInv
    <2>5. QED
        BY <2>1, <2>2, <2>3, <2>4, NoNewToken DEF RowsStep
<1>9. ASSUME NEW a \in Agents, NEW act \in Epochs, NEW ch \in Channels, NEW j \in Jobs,
             Claim(a, act, ch, j)
      PROVE  IInv' /\ RowsStep
    BY <1>9, ClaimStep
<1>10. ASSUME NEW a \in Agents, NEW act \in Epochs, NEW ch \in Channels,
              ClaimNothing(a, act, ch)
      PROVE  IInv' /\ RowsStep
    BY <1>10, SweepStep DEF ClaimNothing
<1>11. ASSUME NEW S \in SUBSET Jobs, ReadCurrent(S)
      PROVE  IInv' /\ RowsStep
    BY <1>11, SweepStep DEF ReadCurrent
<1>12. ASSUME Tick
      PROVE  IInv' /\ RowsStep
    <2>1. ASSUME NEW j \in Jobs
          PROVE  /\ RowOK(jobs'[j], activation') /\ RowStep(jobs[j], jobs'[j])
                 /\ jobs'[j].token = jobs[j].token
        BY <1>12, TickRowOK DEF Tick, IInv
    <2>2. jobs' \in [Jobs -> Row] /\ activation' \in [Agents -> Epochs] /\ issued' = issued
        BY <1>12, <2>1 DEF RowOK, Tick, IInv
    <2>3. QED
        BY <2>1, <2>2, NoNewToken DEF RowsStep
<1>13. QED
    BY <1>1, <1>2, <1>3, <1>4, <1>5, <1>6, <1>7, <1>8, <1>9, <1>10, <1>11, <1>12
       DEF Next, Call, PrunePayloads

(***************************************************************************)
(* The theorems.                                                           *)
(***************************************************************************)

\* The inductive invariant holds in every state of the store.
LEMMA InvariantHolds == Spec => []IInv
<1>1. Init => IInv
    BY InitOK
<1>2. IInv /\ [Next]_vars => IInv'
    <2>1. CASE Next
        BY <2>1, NextOK
    <2>2. CASE UNCHANGED vars
        BY <2>2 DEF vars, IInv, TokensIdentifyAttempts
    <2>3. QED
        BY <2>1, <2>2
<1>3. QED
    BY <1>1, <1>2, PTL DEF Spec

\* The table of DistributedJobStore keeps its shape, with deadlines no further
\* ahead than the lease and retention policies allow.
THEOREM TypeCorrect == Spec => []TypeOK
<1>1. IInv => TypeOK
    BY DEF IInv, TypeOK, RowOK
<1>2. QED
    BY <1>1, InvariantHolds, PTL

\* The state column tells whether a start was ever granted, and no job is
\* granted two: resubmitting a cancelled operation cannot repeat an effect.
THEOREM StartedIsVisible == Spec => []StateTellsStarted
<1>1. IInv => StateTellsStarted
    <2> SUFFICES ASSUME IInv, NEW j \in Jobs, jobs[j].state \in JobStates
                 PROVE  jobs[j].starts = IF jobs[j].state \in Unstarted THEN 0 ELSE 1
        BY DEF StateTellsStarted
    <2>1. RowOK(jobs[j], activation)
        BY DEF IInv
    <2>2. QED
        BY <2>1 DEF RowOK, JobStates
<1>2. QED
    BY <1>1, InvariantHolds, PTL

\* activate_agent leaves no active job behind on an older activation, a job out
\* with an agent has a lease that _expire will find, and no two share a token.
THEOREM OwnershipFenced == Spec => []OwnershipIsFenced
<1>1. IInv => ActiveOnCurrentActivation
    BY DEF IInv, ActiveOnCurrentActivation, RowOK
<1>2. IInv => OwnedWorkIsLeased /\ TokensIdentifyAttempts
    BY DEF IInv, OwnedWorkIsLeased, RowOK
<1>3. IInv => OwnershipIsFenced
    BY <1>1, <1>2 DEF OwnershipIsFenced
<1>4. QED
    BY <1>3, InvariantHolds, PTL

\* No stored payload escapes the retention sweep, and a tunnelled request body
\* never outlives its time in the queue.
THEOREM PayloadsRetire == Spec => []PayloadsAreRetired
<1>1. IInv => PayloadsAreRetired
    BY DEF IInv, PayloadsAreRetired, RowOK
<1>2. QED
    BY <1>1, InvariantHolds, PTL

\* No step puts a delivered job back in the queue, hands it out again, or
\* cancels a started one.
THEOREM NoRepeat == Spec => NeverRepeated
<1>1. IInv /\ [Next]_vars => [NeverRepeatedStep]_vars
    <2>1. RowsStep => NeverRepeatedStep
        BY DEF RowsStep, NeverRepeatedStep, RowStep
    <2>2. QED
        BY <2>1, NextOK
<1>2. QED
    BY <1>1, InvariantHolds, PTL DEF Spec, NeverRepeated

\* No step revises a settled outcome, resolves a fenced unknown one, or deletes
\* an unknown one.
THEOREM OutcomesFinal == Spec => OutcomesAreFinal
<1>1. IInv /\ [Next]_vars => [OutcomesAreFinalStep]_vars
    <2>1. RowsStep => OutcomesAreFinalStep
        BY DEF RowsStep, OutcomesAreFinalStep, RowStep
    <2>2. QED
        BY <2>1, NextOK
<1>2. QED
    BY <1>1, InvariantHolds, PTL DEF Spec, OutcomesAreFinal

(***************************************************************************)
(* Response transfers, the part of the store in ResponseChunksMixin.       *)
(*                                                                         *)
(* What is stored and what is read is always a body that starts with the   *)
(* first chunk and has no gap.  A reader exists only once the outcome is   *)
(* final, when the count of accepted chunks and the descriptor no longer   *)
(* move; chunks belong to the attempt of a transfer, which only a job that *)
(* was started can have.                                                   *)
(***************************************************************************)
Bodies == {FirstN(n) : n \in 0..MaxBody}

NotStarted == {"absent", "queued", "claimed"}

Transfers == [token : Nat, left : NULL..ResponseRetention]

Outputs == {"none", "inline", "transfer", "unknown"}

Streams == [sent : 0..MaxBody, acked : 0..MaxBody, result : Outputs]

Readers == [state : {"idle", "reading", "done", "aborted"}, count : 0..MaxBody, got : Bodies]

TransferTypeOK ==
    /\ chunks \in [Jobs -> Bodies]
    /\ transfers \in [Jobs -> Transfers]
    /\ output \in [Jobs -> Outputs]
    /\ writer \in [Jobs -> Streams]
    /\ reader \in [Jobs -> Readers]

\* What the transfer t and the chunks stored for it say of the row r.
TransferOK(r, t, body) ==
    /\ t # NoTransfer => t.left # NULL /\ r.state \notin NotStarted
    /\ body # <<>> => t # NoTransfer /\ (t.token = r.token \/ r.token = NoToken)

\* What a reader d says of the row r, of the stream w and of the descriptor o.
ReaderOK(r, w, o, d) ==
    /\ d.state # "idle" => r.state \in {"succeeded", "deleted"}
    /\ d.state # "idle" /\ o = "transfer" => d.count = w.acked
    /\ d.state = "done" => Len(d.got) = d.count

TransfersOK == \A j \in Jobs : TransferOK(jobs[j], transfers[j], chunks[j])
ReadersOK == \A j \in Jobs : ReaderOK(jobs[j], writer[j], output[j], reader[j])

TransferInv ==
    /\ IInv
    /\ TransferTypeOK
    /\ TransfersOK
    /\ ReadersOK
    /\ Stored(chunks) <= Quota

USE BodyAssumption, ResponseRetentionAssumption

(***************************************************************************)
(* Bodies and the storage they take.                                       *)
(***************************************************************************)
\* The first n chunks of a response.
LEMMA FirstChunks ==
    ASSUME NEW n \in Nat
    PROVE  /\ FirstN(n) \in Seq(Nat)
           /\ Len(FirstN(n)) = n
           /\ DOMAIN FirstN(n) = 1..n
           /\ \A i \in 1..n : FirstN(n)[i] = i
           /\ FirstN(n) = <<>> <=> n = 0
           /\ Append(FirstN(n), n + 1) = FirstN(n + 1)
<1>1. FirstN(n) \in [1..n -> Nat] /\ \A i \in 1..n : FirstN(n)[i] = i
    BY DEF FirstN
<1>2. FirstN(n) \in Seq(Nat) /\ Len(FirstN(n)) = n
    BY <1>1
<1>3. FirstN(n) = <<>> <=> n = 0
    BY <1>2
<1>4. /\ n + 1 \in Nat
      /\ FirstN(n + 1) \in [1..n + 1 -> Nat] /\ \A i \in 1..n + 1 : FirstN(n + 1)[i] = i
    BY DEF FirstN
<1>5. FirstN(n + 1) \in Seq(Nat) /\ Len(FirstN(n + 1)) = n + 1
    BY <1>4
<1>6. Append(FirstN(n), n + 1) = FirstN(n + 1)
    BY <1>1, <1>2, <1>4, <1>5
<1> QED
    BY <1>1, <1>2, <1>3, <1>6

\* A stored body is its first chunks.
LEMMA BodyFacts ==
    /\ <<>> \in Bodies /\ Len(<<>>) = 0
    /\ \A b \in Bodies : /\ Len(b) \in 0..MaxBody
                         /\ b = FirstN(Len(b))
                         /\ b = <<>> <=> Len(b) = 0
                         /\ DOMAIN b = 1..Len(b)
                         /\ \A i \in 1..Len(b) : b[i] = i
                         /\ Len(b) < MaxBody => Append(b, Len(b) + 1) \in Bodies
    /\ \A b \in Bodies, p \in 1..MaxBody :
           p = Len(b) + 1 => /\ Len(Append(b, p)) = Len(b) + 1
                             /\ DOMAIN Append(b, p) = 1..p
<1>1. <<>> \in Bodies /\ Len(<<>>) = 0
    <2>1. FirstN(0) = <<>>
        BY FirstChunks
    <2> QED
        BY <2>1 DEF Bodies
<1>2. ASSUME NEW b \in Bodies
      PROVE  \E n \in 0..MaxBody : b = FirstN(n)
    BY DEF Bodies
<1>3. ASSUME NEW b \in Bodies
      PROVE  /\ Len(b) \in 0..MaxBody
             /\ b = FirstN(Len(b))
             /\ b = <<>> <=> Len(b) = 0
             /\ DOMAIN b = 1..Len(b)
             /\ \A i \in 1..Len(b) : b[i] = i
             /\ Append(b, Len(b) + 1) = FirstN(Len(b) + 1)
             /\ Len(FirstN(Len(b) + 1)) = Len(b) + 1
             /\ DOMAIN FirstN(Len(b) + 1) = 1..Len(b) + 1
    <2>1. PICK n \in 0..MaxBody : b = FirstN(n)
        BY <1>2
    <2>2. n \in Nat /\ n + 1 \in Nat
        OBVIOUS
    <2> QED
        BY <2>1, <2>2, FirstChunks
<1>4. ASSUME NEW b \in Bodies, Len(b) < MaxBody
      PROVE  Append(b, Len(b) + 1) \in Bodies
    <2>1. Len(b) + 1 \in 0..MaxBody
        BY <1>3, <1>4
    <2> QED
        BY <1>3, <2>1 DEF Bodies
<1> QED
    BY <1>1, <1>3, <1>4

\* The rows of the chunk table.
Places(ch) == UNION {{j} \X DOMAIN ch[j] : j \in Jobs}

\* The table is finite, shrinks with the bodies and grows by one with a chunk.
LEMMA StorageFacts ==
    ASSUME NEW ch \in [Jobs -> Bodies]
    PROVE  /\ Stored(ch) \in Nat
           /\ \A sub \in [Jobs -> Bodies] :
                  (\A j \in Jobs : sub[j] \in {<<>>, ch[j]}) => Stored(sub) <= Stored(ch)
           /\ \A j \in Jobs, p \in 1..MaxBody :
                  \A c : p = Len(ch[j]) + 1 /\ c = [ch EXCEPT ![j] = Append(@, p)] =>
                             Stored(c) = Stored(ch) + 1
<1>1. ASSUME NEW c \in [Jobs -> Bodies]
      PROVE  /\ IsFiniteSet(Places(c)) /\ Cardinality(Places(c)) \in Nat
             /\ Stored(c) = Cardinality(Places(c))
             /\ \A x : x \in Places(c) <=> \E k \in Jobs : \E i \in 1..Len(c[k]) : x = <<k, i>>
    <2>1. \A k \in Jobs : DOMAIN c[k] = 1..Len(c[k]) /\ Len(c[k]) \in 0..MaxBody
        BY BodyFacts
    <2>2. \A x : x \in Places(c) <=> \E k \in Jobs : \E i \in 1..Len(c[k]) : x = <<k, i>>
        BY <2>1 DEF Places
    <2>3. IsFiniteSet(Jobs \X (1..MaxBody))
        <3>1. IsFiniteSet(1..MaxBody)
            BY FS_Interval
        <3> QED
            BY <3>1, JobsAssumption, FS_Product
    <2>4. Places(c) \subseteq Jobs \X (1..MaxBody)
        BY <2>1, <2>2
    <2>5. IsFiniteSet(Places(c)) /\ Cardinality(Places(c)) \in Nat
        BY <2>3, <2>4, FS_Subset, FS_CardinalityType
    <2> QED
        BY <2>2, <2>5 DEF Stored, Places
<1>2. ASSUME NEW sub \in [Jobs -> Bodies], \A j \in Jobs : sub[j] \in {<<>>, ch[j]}
      PROVE  Stored(sub) <= Stored(ch)
    <2>1. \A k \in Jobs : \A i \in 1..Len(sub[k]) : i \in 1..Len(ch[k])
        BY <1>2, BodyFacts
    <2>2. Places(sub) \subseteq Places(ch)
        BY <1>1, <2>1
    <2> QED
        BY <1>1, <2>2, FS_Subset
<1>3. ASSUME NEW j \in Jobs, NEW p \in 1..MaxBody, p = Len(ch[j]) + 1,
             NEW c, c = [ch EXCEPT ![j] = Append(@, p)]
      PROVE  Stored(c) = Stored(ch) + 1
    <2>1. ch[j] \in Bodies /\ Len(ch[j]) \in Nat /\ Len(ch[j]) < MaxBody
        BY <1>3, BodyFacts
    <2>2. c \in [Jobs -> Bodies] /\ c[j] = Append(ch[j], p)
          /\ \A k \in Jobs : k # j => c[k] = ch[k]
        BY <1>3, <2>1, BodyFacts
    <2>3. Len(c[j]) = p
        BY <1>3, <2>1, <2>2, BodyFacts
    <2>4. \A k \in Jobs : Len(c[k]) = IF k = j THEN p ELSE Len(ch[k])
        BY <2>2, <2>3
    <2>5. Places(c) = Places(ch) \cup {<<j, p>>}
        <3>1. ASSUME NEW k \in Jobs, NEW i
              PROVE  i \in 1..Len(c[k]) <=> i \in 1..Len(ch[k]) \/ (k = j /\ i = p)
            BY <1>3, <2>1, <2>4
        <3>2. \A x : x \in Places(c) <=> x \in Places(ch) \/ x = <<j, p>>
            BY <1>1, <2>2, <3>1
        <3> QED
            BY <3>2
    <2>6. <<j, p>> \notin Places(ch)
        BY <1>1, <1>3, <2>1
    <2>7. Cardinality(Places(c)) = Cardinality(Places(ch)) + 1
        <3>1. IsFiniteSet(Places(ch))
            BY <1>1
        <3> QED
            BY <2>5, <2>6, <3>1, FS_AddElement
    <2> QED
        BY <1>1, <2>2, <2>7
<1> QED
    BY <1>1, <1>2, <1>3

(***************************************************************************)
(* Steps of the transfer.                                                  *)
(***************************************************************************)
\* A row that moves as rows may takes its transfer and its reader along.
LEMMA MovedRow ==
    ASSUME NEW r, NEW s, RowStep(r, s)
    PROVE  /\ \A t, body : TransferOK(r, t, body) => TransferOK(s, t, body)
           /\ \A w, o, d : ReaderOK(r, w, o, d) => ReaderOK(s, w, o, d)
<1>1. r.state \notin NotStarted => s.state \notin NotStarted
    BY DEF RowStep, NotStarted
<1>2. r.state \notin NotStarted => s.token \in {r.token, NoToken}
    BY DEF RowStep, NotStarted
<1>3. r.state \in {"succeeded", "deleted"} => s.state \in {"succeeded", "deleted"}
    BY DEF RowStep, Final
<1>4. ASSUME NEW t, NEW body, TransferOK(r, t, body)
      PROVE  TransferOK(s, t, body)
    BY <1>1, <1>2, <1>4 DEF TransferOK
<1> QED
    BY <1>3, <1>4 DEF ReaderOK

\* A step of the queue, seen by the transfers and readers of before the step.
LEMMA MovedRows ==
    ASSUME TransferInv, RowsStep
    PROVE  \A j \in Jobs : /\ TransferOK(jobs'[j], transfers[j], chunks[j])
                           /\ ReaderOK(jobs'[j], writer[j], output[j], reader[j])
<1> SUFFICES ASSUME NEW j \in Jobs
             PROVE  /\ TransferOK(jobs'[j], transfers[j], chunks[j])
                    /\ ReaderOK(jobs'[j], writer[j], output[j], reader[j])
    OBVIOUS
<1>1. RowStep(jobs[j], jobs'[j])
    BY DEF RowsStep
<1>2. TransferOK(jobs[j], transfers[j], chunks[j]) /\ ReaderOK(jobs[j], writer[j], output[j], reader[j])
    BY DEF TransferInv, TransfersOK, ReadersOK
<1> QED
    BY <1>1, <1>2, MovedRow

\* The operations of the queue leave chunks, streams and readers alone.
LEMMA QueueOnly ==
    ASSUME TransferInv, IInv', RowsStep, UNCHANGED transferVars
    PROVE  TransferInv'
<1>1. /\ chunks' = chunks /\ transfers' = transfers /\ output' = output
      /\ writer' = writer /\ reader' = reader
    BY DEF transferVars
<1>2. TransferTypeOK'
    BY <1>1 DEF TransferInv, TransferTypeOK
<1>3. TransfersOK' /\ ReadersOK'
    BY <1>1, MovedRows DEF TransfersOK, ReadersOK
<1>4. (Stored(chunks) <= Quota)'
    BY <1>1 DEF TransferInv
<1> QED
    BY <1>2, <1>3, <1>4 DEF TransferInv

\* No row moves, and the invariant of the rows does not look further.
LEMMA RowsStay ==
    ASSUME TransferInv, UNCHANGED vars
    PROVE  IInv' /\ RowsStep
<1>1. jobs' = jobs /\ activation' = activation /\ issued' = issued
    BY DEF vars
<1>2. IInv'
    BY <1>1 DEF TransferInv, IInv, TokensIdentifyAttempts
<1>3. RowsStep
    BY <1>1, StepReflexive DEF RowsStep, TransferInv, IInv
<1> QED
    BY <1>2, <1>3

\* _prune_response_chunks clears outputs and moves no row otherwise.
LEMMA PruneStep ==
    ASSUME IInv, NEW S \in SUBSET Jobs, jobs' = PrunedRows(Expire(S)),
           UNCHANGED <<activation, issued>>
    PROVE  /\ IInv' /\ RowsStep
           /\ \A j \in Jobs : /\ jobs'[j].state = Expire(S)[j].state
                              /\ jobs'[j].token = Expire(S)[j].token
<1>1. /\ Expire(S) \in [Jobs -> Row]
      /\ \A j \in Jobs : RowOK(Expire(S)[j], activation) /\ Expired(jobs[j], Expire(S)[j])
    BY SweepOK
<1>2. ASSUME NEW j \in Jobs
      PROVE  /\ RowOK(jobs'[j], activation) /\ RowStep(Expire(S)[j], jobs'[j])
             /\ jobs'[j].token = Expire(S)[j].token
             /\ jobs'[j].state = Expire(S)[j].state
    <2> DEFINE r == Expire(S)[j]
               q == [r EXCEPT !.payload = @ \ {"output"}]
    <2>1. RowOK(r, activation) /\ RowStep(r, r) /\ r \in Row
        BY <1>1, StepReflexive
    <2>2. RowOK(q, activation) /\ RowStep(r, q) /\ q.token = r.token
        BY <2>1, DiscardRowOK
    <2>3. q.state = r.state
        BY <2>1 DEF Row
    <2>4. jobs'[j] \in {r, q}
        BY DEF PrunedRows
    <2> HIDE DEF q, r
    <2>5. /\ RowOK(jobs'[j], activation) /\ RowStep(r, jobs'[j])
          /\ jobs'[j].token = r.token /\ jobs'[j].state = r.state
        BY <2>1, <2>2, <2>3, <2>4
    <2> QED
        BY <2>5 DEF r
<1>3. RowsStep
    BY <1>1, <1>2, StepAfterExpiry DEF RowsStep
<1>4. \A j \in Jobs : jobs'[j].token = jobs[j].token
    BY <1>1, <1>2 DEF Expired
<1>5. jobs' \in [Jobs -> Row]
    <2>1. \A j \in Jobs : jobs'[j] \in Row
        BY <1>2 DEF RowOK
    <2>2. jobs' = [j \in Jobs |-> jobs'[j]]
        BY DEF PrunedRows
    <2> QED
        BY <2>1, <2>2
<1>6. \A j \in Jobs : RowOK(jobs'[j], activation')
    BY <1>2
<1>7. activation' \in [Agents -> Epochs] /\ issued' = issued
    BY DEF IInv
<1> QED
    BY <1>2, <1>3, <1>4, <1>5, <1>6, <1>7, NoNewToken

\* What is left of the transfers after the sweep: chunks go with their transfer,
\* or before it.
LEMMA PrunedOK ==
    ASSUME TransferInv, NEW S \in SUBSET Jobs, NEW rows, rows = Expire(S)
    PROVE  /\ PrunedChunks(rows) \in [Jobs -> Bodies]
           /\ PrunedTransfers(rows) \in [Jobs -> Transfers]
           /\ Stored(PrunedChunks(rows)) <= Quota
           /\ Stored(PrunedChunks(rows)) \in Nat
           /\ \A j \in Jobs :
                  \A r : TransferOK(r, transfers[j], chunks[j]) =>
                             TransferOK(r, PrunedTransfers(rows)[j], PrunedChunks(rows)[j])
<1> DEFINE ch == PrunedChunks(rows)
           tr == PrunedTransfers(rows)
<1>1. \A j \in Jobs : /\ ch[j] \in {<<>>, chunks[j]}
                      /\ tr[j] = transfers[j] \/ (tr[j] = NoTransfer /\ ch[j] = <<>>)
    BY DEF PrunedChunks, PrunedTransfers
<1>2. NoTransfer \in Transfers
    BY NullFacts DEF NoTransfer, Transfers
<1>3. chunks \in [Jobs -> Bodies] /\ transfers \in [Jobs -> Transfers] /\ <<>> \in Bodies
    BY BodyFacts DEF TransferInv, TransferTypeOK
<1>4. ch \in [Jobs -> Bodies]
    BY <1>1, <1>3 DEF PrunedChunks
<1>5. tr \in [Jobs -> Transfers]
    BY <1>1, <1>2, <1>3 DEF PrunedTransfers
<1> HIDE DEF ch, tr
<1>6. Stored(ch) <= Quota /\ Stored(ch) \in Nat
    <2>1. Stored(ch) <= Stored(chunks) /\ Stored(ch) \in Nat /\ Stored(chunks) \in Nat
        BY <1>1, <1>3, <1>4, StorageFacts
    <2> QED
        BY <2>1 DEF TransferInv
<1>7. \A j \in Jobs : \A r : TransferOK(r, transfers[j], chunks[j]) => TransferOK(r, tr[j], ch[j])
    BY <1>1 DEF TransferOK
<1> QED
    BY <1>4, <1>5, <1>6, <1>7 DEF ch, tr

\* append_response_chunk: only a running job appends, so nobody reads it, and
\* the chunk extends the first chunks of the same attempt.
LEMMA AppendStep ==
    ASSUME TransferInv, NEW j \in Jobs, NEW a \in Agents, NEW tok \in 1..issued,
           NEW act \in Activations, NEW p \in 1..MaxBody, AppendChunk(j, a, tok, act, p)
    PROVE  TransferInv'
<1> PICK swept : swept = Expire({j})
    OBVIOUS
<1> PICK rows : rows = PrunedRows(swept)
    OBVIOUS
<1> PICK ch : ch = PrunedChunks(swept)
    OBVIOUS
<1> PICK tr : tr = PrunedTransfers(swept)
    OBVIOUS
<1>1. /\ p \in 1..writer[j].sent
      /\ AppendAllowed(rows[j], tr[j], a, tok, act)
      /\ p > Len(ch[j]) => p = Len(ch[j]) + 1 /\ Fits(ch, p)
      /\ jobs' = rows
      /\ chunks' = IF p <= Len(ch[j]) THEN ch ELSE [ch EXCEPT ![j] = Append(@, p)]
      /\ transfers' = IF p <= Len(ch[j]) THEN tr ELSE [tr EXCEPT ![j] = Window(@, tok)]
      /\ writer' = [writer EXCEPT ![j].acked = IF p > @ THEN p ELSE @]
      /\ activation' = activation /\ issued' = issued /\ output' = output /\ reader' = reader
    <2>1. /\ ch \in [Jobs -> Bodies] /\ Len(ch[j]) \in Nat
        BY PrunedOK, BodyFacts
    <2>2. p > Len(ch[j]) => ~(p <= Len(ch[j]))
        BY <2>1
    <2> QED
        BY <2>2 DEF AppendChunk
<1>2. /\ IInv' /\ RowsStep
      /\ jobs'[j].state = swept[j].state /\ jobs'[j].token = swept[j].token
    <2>1. jobs' = PrunedRows(Expire({j})) /\ {j} \in SUBSET Jobs
        BY <1>1
    <2>2. IInv /\ UNCHANGED <<activation, issued>>
        BY <1>1 DEF TransferInv
    <2> QED
        BY <2>1, <2>2, PruneStep
<1>3. /\ ch \in [Jobs -> Bodies] /\ tr \in [Jobs -> Transfers]
      /\ Stored(ch) <= Quota /\ Stored(ch) \in Nat
      /\ \A k \in Jobs : \A r : TransferOK(r, transfers[k], chunks[k]) => TransferOK(r, tr[k], ch[k])
    BY PrunedOK
<1>4. \A k \in Jobs : /\ TransferOK(jobs'[k], tr[k], ch[k])
                      /\ ReaderOK(jobs'[k], writer[k], output[k], reader[k])
    BY <1>2, <1>3, MovedRows
<1>5. /\ jobs'[j].state = "running" /\ jobs'[j].token = tok /\ tok \in Nat \ {0}
      /\ tr[j] # NoTransfer => tr[j].token = tok
    BY <1>1 DEF AppendAllowed, Owns, TransferInv, IInv
<1>6. /\ Len(ch[j]) \in 0..MaxBody /\ ch[j] \in Bodies /\ tr[j] \in Transfers
    BY <1>3, BodyFacts
<1>7. /\ writer' \in [Jobs -> Streams]
      /\ \A k \in Jobs : k # j => writer'[k] = writer[k]
    <2>1. writer \in [Jobs -> Streams] /\ writer[j] \in Streams
        BY DEF TransferInv, TransferTypeOK
    <2>2. \A v \in 0..MaxBody : [writer[j] EXCEPT !.acked = v] \in Streams
        BY <2>1 DEF Streams
    <2>3. (IF p > writer[j].acked THEN p ELSE writer[j].acked) \in 0..MaxBody
        BY <2>1 DEF Streams
    <2> QED
        BY <1>1, <2>1, <2>2, <2>3
<1>8. ReadersOK'
    <2>1. reader[j].state = "idle"
        BY <1>4, <1>5 DEF ReaderOK
    <2>2. ReaderOK(jobs'[j], writer'[j], output'[j], reader'[j])
        BY <1>1, <2>1 DEF ReaderOK
    <2> QED
        BY <1>1, <1>4, <1>7, <2>2 DEF ReadersOK
<1>9. CASE p <= Len(ch[j])
    <2>1. chunks' = ch /\ transfers' = tr
        BY <1>1, <1>9
    <2>2. TransferTypeOK'
        BY <1>1, <1>3, <1>7, <2>1 DEF TransferInv, TransferTypeOK
    <2>3. TransfersOK'
        BY <1>4, <2>1 DEF TransfersOK
    <2>4. (Stored(chunks) <= Quota)'
        BY <1>3, <2>1
    <2> QED
        BY <1>2, <1>8, <2>2, <2>3, <2>4 DEF TransferInv
<1>10. CASE p > Len(ch[j])
    <2>1. /\ p = Len(ch[j]) + 1 /\ p <= MaxBody /\ Stored(ch) < Quota
          /\ chunks' = [ch EXCEPT ![j] = Append(@, p)]
          /\ transfers' = [tr EXCEPT ![j] = Window(@, tok)]
        <3>1. ~(p <= Len(ch[j]))
            BY <1>6, <1>10
        <3> QED
            BY <1>1, <1>10, <3>1 DEF Fits
    <2>2. /\ Append(ch[j], p) \in Bodies
          /\ chunks' \in [Jobs -> Bodies]
          /\ \A k \in Jobs : k # j => chunks'[k] = ch[k]
        <3>1. Len(ch[j]) < MaxBody
            BY <1>6, <2>1
        <3>2. Append(ch[j], p) \in Bodies
            BY <1>6, <2>1, <3>1, BodyFacts
        <3> QED
            BY <1>3, <2>1, <3>2
    <2>3. PICK t : t = Window(tr[j], tok)
        OBVIOUS
    <2>4. t \in Transfers /\ t.token = tok /\ t.left # NULL
        <3>1. CASE tr[j] # NoTransfer
            BY <1>4, <1>5, <1>6, <2>3, <3>1 DEF Window, TransferOK
        <3>2. CASE tr[j] = NoTransfer
            <4>1. t = [token |-> tok, left |-> ResponseRetention]
                BY <2>3, <3>2 DEF Window
            <4> QED
                BY <1>5, <4>1 DEF Transfers, NULL
        <3> QED
            BY <3>1, <3>2
    <2>5. /\ transfers' \in [Jobs -> Transfers] /\ transfers'[j] = t
          /\ \A k \in Jobs : k # j => transfers'[k] = tr[k]
        BY <1>3, <2>1, <2>3, <2>4
    <2>6. TransferTypeOK'
        BY <1>1, <1>7, <2>2, <2>5 DEF TransferInv, TransferTypeOK
    <2>7. TransferOK(jobs'[j], t, chunks'[j])
        <3>1. t # NoTransfer
            BY <2>4 DEF NoTransfer
        <3> QED
            BY <1>5, <2>4, <3>1 DEF TransferOK, NotStarted
    <2>8. TransfersOK'
        BY <1>4, <2>2, <2>5, <2>7 DEF TransfersOK
    <2>9. (Stored(chunks) <= Quota)'
        <3>1. Stored(chunks') = Stored(ch) + 1
            <4>1. ch \in [Jobs -> Bodies]
                BY <1>3
            <4>2. \A k \in Jobs, n \in 1..MaxBody :
                      \A c : n = Len(ch[k]) + 1 /\ c = [ch EXCEPT ![k] = Append(@, n)] =>
                                 Stored(c) = Stored(ch) + 1
                BY <4>1, StorageFacts
            <4> QED
                BY <2>1, <4>2
        <3>2. Stored(chunks') <= Quota
            BY <1>3, <2>1, <3>1
        <3> QED
            BY <3>2 DEF Stored
    <2> QED
        BY <1>2, <1>8, <2>6, <2>8, <2>9 DEF TransferInv
<1> QED
    BY <1>6, <1>9, <1>10

\* complete: the descriptor is written while nobody reads the job.
LEMMA CompleteTransferStep ==
    ASSUME TransferInv, NEW j \in Jobs, NEW a \in Agents, NEW tok \in 1..issued,
           NEW act \in Activations, CompleteTransfer(j, a, tok, act)
    PROVE  TransferInv'
<1> PICK rows : rows = Expire({j})
    OBVIOUS
<1> PICK o : o = IF writer[j].result = "unknown" THEN "none" ELSE writer[j].result
    OBVIOUS
<1>1. /\ Complete(j, a, tok, act, IF o = "none" THEN "unknown" ELSE "succeeded")
      /\ output' = IF rows[j].state \in Final THEN output ELSE [output EXCEPT ![j] = o]
      /\ chunks' = chunks /\ transfers' = transfers /\ writer' = writer /\ reader' = reader
    BY DEF CompleteTransfer
<1>2. IInv' /\ RowsStep
    <2>1. act \in Epochs
        BY DEF Epochs
    <2>2. \A s \in {"succeeded", "unknown"} : Complete(j, a, tok, act, s) => Next
        BY <2>1 DEF Next, Call
    <2> QED
        BY <1>1, <2>2, NextOK DEF TransferInv
<1>3. /\ output' \in [Jobs -> Outputs]
      /\ \A k \in Jobs : k # j => output'[k] = output[k]
    <2>1. o \in Outputs
        BY DEF TransferInv, TransferTypeOK, Streams, Outputs
    <2> QED
        BY <1>1, <2>1 DEF TransferInv, TransferTypeOK
<1>4. TransferTypeOK'
    BY <1>1, <1>3 DEF TransferInv, TransferTypeOK
<1>5. \A k \in Jobs : /\ TransferOK(jobs'[k], transfers[k], chunks[k])
                      /\ ReaderOK(jobs'[k], writer[k], output[k], reader[k])
    BY <1>2, MovedRows
<1>6. ReaderOK(jobs'[j], writer[j], output'[j], reader[j])
    <2>1. CASE rows[j].state \in Final
        BY <1>1, <1>5, <2>1
    <2>2. CASE rows[j].state \notin Final
        <3>1. rows[j].state \in JobStates
            BY <1>1 DEF Complete, CompleteAllowed, Owns
        <3>2. Expired(jobs[j], rows[j])
            BY SweepOK DEF TransferInv
        <3>3. jobs[j].state \notin {"succeeded", "deleted"}
            BY <2>2, <3>1, <3>2 DEF Expired, Active, Owned, Final, JobStates
        <3>4. reader[j].state = "idle"
            BY <3>3 DEF TransferInv, ReadersOK, ReaderOK
        <3> QED
            BY <3>4 DEF ReaderOK
    <2> QED
        BY <2>1, <2>2
<1>7. ReadersOK' /\ TransfersOK'
    BY <1>1, <1>3, <1>5, <1>6 DEF ReadersOK, TransfersOK
<1>8. (Stored(chunks) <= Quota)'
    BY <1>1 DEF TransferInv, Stored
<1> QED
    BY <1>2, <1>4, <1>7, <1>8 DEF TransferInv

\* A reader starts, moves or ends while the rows move as rows may.
LEMMA ReaderStep ==
    ASSUME TransferInv, NEW j \in Jobs, NEW d \in Readers, IInv', RowsStep,
           reader' = [reader EXCEPT ![j] = d],
           ReaderOK(jobs'[j], writer[j], output[j], d),
           UNCHANGED <<transfers, output, writer>>,
           \/ chunks' = chunks
           \/ chunks' = [chunks EXCEPT ![j] = <<>>]
    PROVE  TransferInv'
<1>1. \A k \in Jobs : /\ TransferOK(jobs'[k], transfers[k], chunks[k])
                      /\ ReaderOK(jobs'[k], writer[k], output[k], reader[k])
    BY MovedRows
<1>2. chunks \in [Jobs -> Bodies] /\ reader \in [Jobs -> Readers] /\ <<>> \in Bodies
    BY BodyFacts DEF TransferInv, TransferTypeOK
<1>3. /\ chunks' \in [Jobs -> Bodies]
      /\ \A k \in Jobs : chunks'[k] \in {<<>>, chunks[k]}
    BY <1>2
<1>4. TransferTypeOK'
    BY <1>2, <1>3 DEF TransferInv, TransferTypeOK
<1>5. TransfersOK'
    BY <1>1, <1>3 DEF TransfersOK, TransferOK
<1>6. ReadersOK'
    BY <1>1, <1>2 DEF ReadersOK
<1>7. (Stored(chunks) <= Quota)'
    <2>1. /\ Stored(chunks') \in Nat /\ Stored(chunks) \in Nat
          /\ Stored(chunks') <= Stored(chunks)
        BY <1>2, <1>3, StorageFacts
    <2>2. Stored(chunks') <= Quota
        BY <2>1 DEF TransferInv
    <2> QED
        BY <2>2 DEF Stored
<1> QED
    BY <1>4, <1>5, <1>6, <1>7 DEF TransferInv

\* discard_tunnel_output moves the rows as the queue does.
LEMMA DiscardStep ==
    ASSUME TransferInv, NEW j \in Jobs, Discard(j)
    PROVE  /\ IInv' /\ RowsStep
           /\ chunks' = [chunks EXCEPT ![j] = <<>>]
           /\ UNCHANGED <<transfers, output, writer>>
<1>1. DiscardTunnelOutput(j) => Next
    BY AgentsAssumption DEF Next, Call
<1> QED
    BY <1>1, NextOK DEF Discard, TransferInv

\* consume_response: the body was verified against the descriptor in the same
\* transaction, so what will be read is all that was accepted.
LEMMA ConsumeStep ==
    ASSUME TransferInv, NEW j \in Jobs, Consume(j)
    PROVE  TransferInv'
<1> PICK rows : rows = Expire({j})
    OBVIOUS
<1> PICK q : q = [rows[j] EXCEPT !.payload = @ \ {"output"}]
    OBVIOUS
<1> PICK d : d = IF output[j] = "inline" THEN [state |-> "done", count |-> 0, got |-> <<>>]
                 ELSE [state |-> "reading", count |-> Len(chunks[j]), got |-> <<>>]
    OBVIOUS
<1>1. /\ rows \in [Jobs -> Row] /\ RowOK(rows[j], activation) /\ rows[j] \in Row
    BY SweepOK DEF TransferInv
<1>2. /\ Readable(j, rows[j])
      /\ jobs' = [rows EXCEPT ![j] = q]
      /\ reader' = [reader EXCEPT ![j] = d]
      /\ activation' = activation /\ issued' = issued
      /\ chunks' = chunks /\ transfers' = transfers /\ output' = output /\ writer' = writer
    BY <1>1 DEF Consume
<1>3. /\ RowOK(q, activation) /\ RowStep(rows[j], q) /\ q.token = rows[j].token
      /\ q.state = rows[j].state
    <2>1. q.state = rows[j].state
        BY <1>1 DEF Row
    <2> QED
        BY <1>1, <2>1, DiscardRowOK
<1>4. IInv' /\ RowsStep
    <2>1. q.token \in {Expire({j})[j].token, NoToken}
        BY <1>3
    <2> QED
        BY <1>2, <1>3, <2>1, SweepThenUpdate DEF TransferInv
<1>5. chunks[j] \in Bodies /\ Len(chunks[j]) \in 0..MaxBody /\ <<>> \in Bodies /\ Len(<<>>) = 0
    BY BodyFacts DEF TransferInv, TransferTypeOK
<1>6. d \in Readers
    BY <1>5 DEF Readers
<1>7. ReaderOK(jobs'[j], writer[j], output[j], d)
    <2>1. jobs'[j].state = "succeeded"
        BY <1>1, <1>2, <1>3 DEF Readable
    <2>2. CASE output[j] = "inline"
        BY <1>5, <2>1, <2>2 DEF ReaderOK
    <2>3. CASE output[j] # "inline"
        <3>1. d = [state |-> "reading", count |-> Len(chunks[j]), got |-> <<>>]
            BY <2>3
        <3>2. output[j] = "transfer" => Len(chunks[j]) = writer[j].acked
            <4>1. writer[j].acked \in Nat
                BY DEF TransferInv, TransferTypeOK, Streams
            <4>2. output[j] = "transfer" => chunks[j] = FirstN(writer[j].acked)
                BY <1>2 DEF Readable, Verified
            <4> QED
                BY <4>1, <4>2, FirstChunks
        <3> QED
            BY <2>1, <3>1, <3>2 DEF ReaderOK
    <2> QED
        BY <2>2, <2>3
<1> QED
    BY <1>2, <1>4, <1>6, <1>7, ReaderStep

\* One chunk of the stream, read in a transaction of its own, continues the body.
LEMMA ReadChunkStep ==
    ASSUME TransferInv, NEW j \in Jobs, ReadChunk(j)
    PROVE  TransferInv'
<1> PICK n : n = Len(reader[j].got)
    OBVIOUS
<1> PICK d : d = [reader[j] EXCEPT !.got = Append(@, chunks[j][n + 1])]
    OBVIOUS
<1>1. /\ reader[j] \in Readers /\ reader[j].got \in Bodies /\ chunks[j] \in Bodies
      /\ n \in 0..MaxBody /\ Len(chunks[j]) \in 0..MaxBody
    BY BodyFacts DEF TransferInv, TransferTypeOK, Readers
<1>2. /\ reader[j].state = "reading"
      /\ n + 1 <= Len(chunks[j])
      /\ reader' = [reader EXCEPT ![j] = d]
      /\ UNCHANGED <<vars, chunks, transfers, output, writer>>
    BY DEF ReadChunk
<1>3. chunks[j][n + 1] = n + 1
    <2>1. \A i \in 1..Len(chunks[j]) : chunks[j][i] = i
        BY <1>1, BodyFacts
    <2>2. n + 1 \in 1..Len(chunks[j])
        BY <1>1, <1>2
    <2> QED
        BY <2>1, <2>2
<1>4. Append(reader[j].got, n + 1) \in Bodies
    <2>1. Len(reader[j].got) < MaxBody
        BY <1>1, <1>2
    <2>2. \A b \in Bodies : Len(b) < MaxBody => Append(b, Len(b) + 1) \in Bodies
        BY BodyFacts
    <2> QED
        BY <1>1, <2>1, <2>2
<1>5. d \in Readers /\ d.state = "reading" /\ d.count = reader[j].count
    <2>1. d = [reader[j] EXCEPT !.got = Append(reader[j].got, n + 1)]
        BY <1>3
    <2> QED
        BY <1>1, <1>2, <1>4, <2>1 DEF Readers
<1>6. IInv' /\ RowsStep
    BY <1>2, RowsStay
<1>7. ReaderOK(jobs'[j], writer[j], output[j], d)
    <2>1. ReaderOK(jobs'[j], writer[j], output[j], reader[j])
        BY <1>6, MovedRows
    <2> QED
        BY <1>2, <1>5, <2>1 DEF ReaderOK
<1> QED
    BY <1>2, <1>5, <1>6, <1>7, ReaderStep

\* The stream ends as complete only when everything announced was read.
LEMMA EndReadStep ==
    ASSUME TransferInv, NEW j \in Jobs, EndRead(j)
    PROVE  TransferInv'
<1> PICK d : d = [reader[j] EXCEPT !.state =
                    IF Len(reader[j].got) = reader[j].count THEN "done" ELSE "aborted"]
    OBVIOUS
<1>1. reader[j] \in Readers
    BY DEF TransferInv, TransferTypeOK
<1>2. reader[j].state = "reading" /\ reader' = [reader EXCEPT ![j] = d]
    BY DEF EndRead
<1>3. /\ d \in Readers /\ d.got = reader[j].got /\ d.count = reader[j].count
      /\ d.state = "done" => Len(d.got) = d.count
    BY <1>1 DEF Readers
<1>4. /\ IInv' /\ RowsStep
      /\ \/ chunks' = chunks
         \/ chunks' = [chunks EXCEPT ![j] = <<>>]
      /\ UNCHANGED <<transfers, output, writer>>
    <2>1. CASE jobs[j].state = "succeeded"
        BY <2>1, DiscardStep DEF EndRead
    <2>2. CASE jobs[j].state # "succeeded"
        <3>1. UNCHANGED <<vars, chunks, transfers, output, writer>>
            BY <2>2 DEF EndRead
        <3> QED
            BY <3>1, RowsStay
    <2> QED
        BY <2>1, <2>2
<1>5. ReaderOK(jobs'[j], writer[j], output[j], d)
    <2>1. ReaderOK(jobs'[j], writer[j], output[j], reader[j])
        BY <1>4, MovedRows
    <2> QED
        BY <1>2, <1>3, <2>1 DEF ReaderOK
<1> QED
    BY <1>2, <1>3, <1>4, <1>5, ReaderStep

\* The agent's stream goes on without a word to the Mainframe.
LEMMA StreamStep ==
    ASSUME TransferInv, NEW j \in Jobs, SendChunk(j) \/ EndStream(j)
    PROVE  TransferInv'
<1>1. writer \in [Jobs -> Streams] /\ writer[j] \in Streams
    BY DEF TransferInv, TransferTypeOK
<1>2. /\ UNCHANGED <<vars, chunks, transfers, output, reader>>
      /\ \E w \in Streams : w.acked = writer[j].acked /\ writer' = [writer EXCEPT ![j] = w]
    <2>1. CASE SendChunk(j)
        <3>1. writer[j].sent + 1 \in 0..MaxBody
            BY <1>1, <2>1 DEF SendChunk, Streams
        <3>2. /\ [writer[j] EXCEPT !.sent = @ + 1] \in Streams
              /\ [writer[j] EXCEPT !.sent = @ + 1].acked = writer[j].acked
            BY <1>1, <3>1 DEF Streams
        <3>3. writer' = [writer EXCEPT ![j] = [writer[j] EXCEPT !.sent = @ + 1]]
            BY <2>1 DEF SendChunk
        <3> QED
            BY <2>1, <3>2, <3>3 DEF SendChunk
    <2>2. CASE EndStream(j)
        <3>1. \A x \in Outputs : /\ [writer[j] EXCEPT !.result = x] \in Streams
                                 /\ [writer[j] EXCEPT !.result = x].acked = writer[j].acked
            BY <1>1 DEF Streams
        <3>2. \E x \in Outputs : writer' = [writer EXCEPT ![j] = [writer[j] EXCEPT !.result = x]]
            BY <2>2 DEF EndStream, Outputs
        <3> QED
            BY <2>2, <3>1, <3>2 DEF EndStream
    <2> QED
        BY <2>1, <2>2
<1>3. IInv' /\ RowsStep
    BY <1>2, RowsStay
<1>4. /\ writer' \in [Jobs -> Streams]
      /\ \A k \in Jobs : writer'[k].acked = writer[k].acked
    BY <1>1, <1>2
<1>5. TransferTypeOK'
    BY <1>2, <1>4 DEF TransferInv, TransferTypeOK
<1>6. TransfersOK' /\ ReadersOK'
    BY <1>2, <1>3, <1>4, MovedRows DEF TransfersOK, ReadersOK, ReaderOK
<1>7. (Stored(chunks) <= Quota)'
    BY <1>2 DEF TransferInv, Stored
<1> QED
    BY <1>3, <1>5, <1>6, <1>7 DEF TransferInv

\* discard_tunnel_output without a reader that ends.
LEMMA DropOutputStep ==
    ASSUME TransferInv, NEW j \in Jobs, DropOutput(j)
    PROVE  TransferInv'
<1>1. /\ IInv' /\ RowsStep /\ reader' = reader
      /\ chunks' = [chunks EXCEPT ![j] = <<>>]
      /\ UNCHANGED <<transfers, output, writer>>
    BY DiscardStep DEF DropOutput
<1>2. reader[j] \in Readers /\ reader' = [reader EXCEPT ![j] = reader[j]]
    BY <1>1 DEF TransferInv, TransferTypeOK
<1>3. ReaderOK(jobs'[j], writer[j], output[j], reader[j])
    BY <1>1, MovedRows
<1> QED
    BY <1>1, <1>2, <1>3, ReaderStep

\* What holds of the transfers when only they, the chunks and the rows move.
LEMMA StorageStep ==
    ASSUME TransferInv, IInv', RowsStep,
           NEW ch \in [Jobs -> Bodies], NEW tr \in [Jobs -> Transfers],
           Stored(ch) <= Quota,
           \A j \in Jobs : \A r : TransferOK(r, transfers[j], chunks[j]) => TransferOK(r, tr[j], ch[j]),
           chunks' = ch, transfers' = tr,
           UNCHANGED <<output, writer, reader>>
    PROVE  TransferInv'
<1>1. TransferTypeOK'
    BY DEF TransferInv, TransferTypeOK
<1>2. TransfersOK' /\ ReadersOK'
    BY MovedRows DEF TransfersOK, ReadersOK
<1>3. (Stored(chunks) <= Quota)'
    BY DEF Stored
<1> QED
    BY <1>1, <1>2, <1>3 DEF TransferInv

\* delete takes chunks and transfer with the row.
LEMMA DeleteJobStep ==
    ASSUME TransferInv, NEW j \in Jobs, DeleteJob(j)
    PROVE  TransferInv'
<1>1. IInv' /\ RowsStep
    <2>1. Delete(j) => Next
        BY AgentsAssumption DEF Next, Call
    <2> QED
        BY <2>1, NextOK DEF DeleteJob, TransferInv
<1>2. /\ chunks \in [Jobs -> Bodies] /\ transfers \in [Jobs -> Transfers]
      /\ Stored(chunks) <= Quota /\ <<>> \in Bodies /\ NoTransfer \in Transfers
    BY BodyFacts, NullFacts DEF TransferInv, TransferTypeOK, NoTransfer, Transfers
<1>3. CASE chunks' = chunks /\ transfers' = transfers
    BY <1>1, <1>2, <1>3, StorageStep DEF DeleteJob
<1>4. CASE /\ chunks' = [chunks EXCEPT ![j] = <<>>]
           /\ transfers' = [transfers EXCEPT ![j] = NoTransfer]
    <2> PICK ch : ch = [chunks EXCEPT ![j] = <<>>]
        OBVIOUS
    <2> PICK tr : tr = [transfers EXCEPT ![j] = NoTransfer]
        OBVIOUS
    <2>1. /\ ch \in [Jobs -> Bodies] /\ tr \in [Jobs -> Transfers]
          /\ \A k \in Jobs : ch[k] \in {<<>>, chunks[k]}
          /\ ch[j] = <<>> /\ tr[j] = NoTransfer
          /\ \A k \in Jobs : k # j => ch[k] = chunks[k] /\ tr[k] = transfers[k]
        BY <1>2
    <2>2. Stored(ch) <= Quota
        <3>1. Stored(ch) \in Nat /\ Stored(chunks) \in Nat /\ Stored(ch) <= Stored(chunks)
            BY <1>2, <2>1, StorageFacts
        <3> QED
            BY <1>2, <3>1
    <2>3. \A k \in Jobs : \A r : TransferOK(r, transfers[k], chunks[k]) => TransferOK(r, tr[k], ch[k])
        BY <2>1 DEF TransferOK
    <2> QED
        BY <1>1, <1>4, <2>1, <2>2, <2>3, StorageStep DEF DeleteJob
<1> QED
    BY <1>3, <1>4 DEF DeleteJob

\* prune_payloads, with the chunks and transfers it sweeps.
LEMMA PruneAllStep ==
    ASSUME TransferInv, PruneAll
    PROVE  TransferInv'
<1> PICK swept : swept = Expire(Jobs)
    OBVIOUS
<1>1. IInv' /\ RowsStep
    BY PruneStep DEF PruneAll, TransferInv
<1>2. /\ chunks' = PrunedChunks(swept) /\ transfers' = PrunedTransfers(swept)
      /\ UNCHANGED <<output, writer, reader>>
    BY DEF PruneAll
<1>3. /\ PrunedChunks(swept) \in [Jobs -> Bodies]
      /\ PrunedTransfers(swept) \in [Jobs -> Transfers]
      /\ Stored(PrunedChunks(swept)) <= Quota
      /\ \A j \in Jobs : \A r : TransferOK(r, transfers[j], chunks[j]) =>
             TransferOK(r, PrunedTransfers(swept)[j], PrunedChunks(swept)[j])
    BY PrunedOK
<1> QED
    BY <1>1, <1>2, <1>3, StorageStep

\* A deadline that passes stays on record as passed.
LEMMA ClockStep ==
    ASSUME TransferInv, Clock
    PROVE  TransferInv'
<1> PICK tr : tr = [j \in Jobs |-> [transfers[j] EXCEPT !.left = Countdown(@)]]
    OBVIOUS
<1>1. IInv' /\ RowsStep
    BY NextOK DEF Clock, Next, TransferInv
<1>2. /\ transfers' = tr /\ chunks' = chunks
      /\ UNCHANGED <<output, writer, reader>>
    BY DEF Clock
<1>3. chunks \in [Jobs -> Bodies] /\ Stored(chunks) <= Quota /\ transfers \in [Jobs -> Transfers]
    BY DEF TransferInv, TransferTypeOK
<1>4. ASSUME NEW j \in Jobs
      PROVE  /\ tr[j] \in Transfers /\ tr[j].token = transfers[j].token
             /\ tr[j].left = NULL <=> transfers[j].left = NULL
             /\ transfers[j] = NoTransfer => tr[j] = NoTransfer
    <2>1. transfers[j] \in Transfers /\ tr[j] = [transfers[j] EXCEPT !.left = Countdown(@)]
        BY <1>3
    <2>2. /\ Countdown(transfers[j].left) \in NULL..ResponseRetention
          /\ Countdown(transfers[j].left) = NULL <=> transfers[j].left = NULL
        BY <2>1 DEF Transfers, Countdown, NULL
    <2>3. /\ tr[j] \in Transfers /\ tr[j].token = transfers[j].token
          /\ tr[j].left = Countdown(transfers[j].left)
        BY <2>1, <2>2 DEF Transfers
    <2>4. transfers[j] = NoTransfer => tr[j] = NoTransfer
        BY <2>1 DEF NoTransfer, Countdown, NULL
    <2> QED
        BY <2>2, <2>3, <2>4
<1>5. tr \in [Jobs -> Transfers]
    BY <1>4
<1>6. \A j \in Jobs : \A r : TransferOK(r, transfers[j], chunks[j]) => TransferOK(r, tr[j], chunks[j])
    BY <1>4 DEF TransferOK, NoTransfer
<1> QED
    BY <1>1, <1>2, <1>3, <1>5, <1>6, StorageStep

\* The store starts without transfers and keeps the invariant in every step.
LEMMA TransferInvariant == TransferSpec => []TransferInv
<1>1. TransferInit => TransferInv
    <2> SUFFICES ASSUME TransferInit PROVE TransferInv
        OBVIOUS
    <2>1. /\ chunks = [j \in Jobs |-> <<>>]
          /\ transfers = [j \in Jobs |-> NoTransfer]
          /\ output = [j \in Jobs |-> "none"]
          /\ writer = [j \in Jobs |-> [sent |-> 0, acked |-> 0, result |-> "none"]]
          /\ reader = [j \in Jobs |-> [state |-> "idle", count |-> 0, got |-> <<>>]]
        BY DEF TransferInit
    <2>2. <<>> \in Bodies /\ NoTransfer \in Transfers /\ 0 \in 0..MaxBody
        BY BodyFacts, NullFacts DEF NoTransfer, Transfers
    <2>3. /\ [sent |-> 0, acked |-> 0, result |-> "none"] \in Streams
          /\ [state |-> "idle", count |-> 0, got |-> <<>>] \in Readers
        BY <2>2 DEF Streams, Readers, Outputs
    <2>4. TransferTypeOK
        BY <2>1, <2>2, <2>3 DEF TransferTypeOK, Outputs
    <2>5. TransfersOK /\ ReadersOK
        BY <2>1 DEF TransfersOK, ReadersOK, TransferOK, ReaderOK
    <2>6. Stored(chunks) <= Quota
        <3>1. Places(chunks) = {}
            BY <2>1 DEF Places
        <3>2. Stored(chunks) = 0
            BY <3>1, FS_EmptySet DEF Places, Stored
        <3> QED
            BY <3>2
    <2> QED
        BY <2>4, <2>5, <2>6, InitOK DEF TransferInit, TransferInv
<1>2. TransferInv /\ [TransferNext]_rtVars => TransferInv'
    <2> SUFFICES ASSUME TransferInv, [TransferNext]_rtVars PROVE TransferInv'
        OBVIOUS
    <2>1. CASE QueueCall
        <3>1. Next
            BY <2>1 DEF QueueCall, Next, Call, Epochs, Capabilities, Channels
        <3> QED
            BY <2>1, <3>1, NextOK, QueueOnly DEF QueueCall, TransferInv
    <2>2. ASSUME NEW j \in Jobs, NEW a \in Agents, NEW tok \in 1..issued, NEW act \in Activations,
                 CompleteTransfer(j, a, tok, act)
          PROVE  TransferInv'
        BY <2>2, CompleteTransferStep
    <2>3. ASSUME NEW j \in Jobs, NEW a \in Agents, NEW tok \in 1..issued, NEW act \in Activations,
                 NEW p \in 1..MaxBody, AppendChunk(j, a, tok, act, p)
          PROVE  TransferInv'
        BY <2>3, AppendStep
    <2>4. ASSUME NEW j \in Jobs,
                 \/ SendChunk(j) \/ EndStream(j) \/ Consume(j) \/ ReadChunk(j)
                 \/ EndRead(j) \/ DropOutput(j) \/ DeleteJob(j)
          PROVE  TransferInv'
        BY <2>4, StreamStep, ConsumeStep, ReadChunkStep, EndReadStep, DropOutputStep, DeleteJobStep
    <2>5. CASE PruneAll
        BY <2>5, PruneAllStep
    <2>6. CASE Clock
        BY <2>6, ClockStep
    <2>7. CASE UNCHANGED rtVars
        <3>1. UNCHANGED vars /\ UNCHANGED transferVars
            BY <2>7 DEF rtVars
        <3> QED
            BY <3>1, RowsStay, QueueOnly
    <2> QED
        BY <2>1, <2>2, <2>3, <2>4, <2>5, <2>6, <2>7 DEF TransferNext
<1> QED
    BY <1>1, <1>2, PTL DEF TransferSpec

\* What a requester reads of a large response is the agent's body from its
\* start, and a stream that ended as complete is all of it (consume_response).
THEOREM DeliveredBodyAlwaysWhole == TransferSpec => []DeliveredBodyIsWhole
<1>1. TransferInv => DeliveredBodyIsWhole
    <2> SUFFICES ASSUME TransferInv, NEW j \in Jobs
                 PROVE  /\ reader[j].got = FirstN(Len(reader[j].got))
                        /\ reader[j].state = "done" /\ output[j] = "transfer" =>
                               Len(reader[j].got) = writer[j].acked
        BY DEF DeliveredBodyIsWhole
    <2>1. reader[j].got \in Bodies
        BY DEF TransferInv, TransferTypeOK, Readers
    <2>2. ReaderOK(jobs[j], writer[j], output[j], reader[j])
        BY DEF TransferInv, ReadersOK
    <2> QED
        BY <2>1, <2>2, BodyFacts DEF ReaderOK
<1> QED
    BY <1>1, TransferInvariant, PTL

\* Every stored chunk belongs to the attempt of a transfer with a deadline, and
\* all of them stay within the quota (append_response_chunk).
THEOREM ChunksAlwaysAccounted == TransferSpec => []ChunksAreAccounted
<1>1. TransferInv => ChunksAreAccounted
    <2> SUFFICES ASSUME TransferInv PROVE ChunksAreAccounted
        OBVIOUS
    <2>1. \A j \in Jobs : TransferOK(jobs[j], transfers[j], chunks[j])
        BY DEF TransferInv, TransfersOK
    <2> QED
        BY <2>1 DEF ChunksAreAccounted, TransferInv, TransferOK
<1> QED
    BY <1>1, TransferInvariant, PTL
=============================================================================
