------------------------- MODULE AgentGatewayProofs -------------------------
(***************************************************************************)
(* Proofs about AgentGateway, for any number of agents, connections and    *)
(* slots.                                                                  *)
(*                                                                         *)
(* Both invariants count threads.  The budget counts the threads that wait *)
(* because every way out of the wait gives its slot back; the work handed  *)
(* out after a revocation is bounded because a request becomes a poll only *)
(* by passing the check, and hands out at most once.                       *)
(***************************************************************************)
EXTENDS AgentGateway, FiniteSetTheorems, TLAPS

States == {"none", "pending", "approved", "denied", "revoked"}

Steps == {"free", "insert", "heartbeat", "claim", "admit", "wait"}

Requests == [pc : Steps, agent : Agents \cup {Free.agent}, kind : Kinds]

Waiting == {t \in Threads : thread[t].pc = "wait"}

\* A request comes from an agent, and only a poll or a relay gets past the
\* heartbeat.
RequestOK(r) ==
    /\ r.pc # "free" => r.agent \in Agents
    /\ r.pc \in {"claim", "admit", "wait"} => r.kind # "control"

TypeOK ==
    /\ record \in [Agents -> States]
    /\ thread \in [Threads -> Requests]
    /\ held \in [Agents \X Channels -> Nat]
    /\ active \in Nat
    /\ queued \in [Agents -> Nat]
    /\ exposed \in [Agents -> Nat]
    /\ handed \in [Agents -> Nat]

RequestsOK == \A t \in Threads : RequestOK(thread[t])

GatewayInv ==
    /\ TypeOK
    /\ RequestsOK
    /\ ReserveIsKept
    /\ RevocationBoundsWork
\* Sets of connection threads are finite, and their sizes behave.
LEMMA ThreadCounts ==
    ASSUME NEW S \in SUBSET Threads
    PROVE  /\ Cardinality(S) \in Nat
           /\ S = {} => Cardinality(S) = 0
           /\ \A t \in Threads :
                  /\ t \in S => Cardinality(S \ {t}) = Cardinality(S) - 1
                  /\ t \notin S => Cardinality(S \cup {t}) = Cardinality(S) + 1
           /\ \A R \in SUBSET S : Cardinality(R) \in Nat /\ Cardinality(R) <= Cardinality(S)
<1>1. IsFiniteSet(Threads)
    BY GatewayAssumption, FS_Interval DEF Threads
<1>2. IsFiniteSet(S)
    BY <1>1, FS_Subset
<1>3. \A t \in Threads :
          /\ t \in S => Cardinality(S \ {t}) = Cardinality(S) - 1
          /\ t \notin S => Cardinality(S \cup {t}) = Cardinality(S) + 1
    BY <1>2, FS_AddElement, FS_RemoveElement
<1>4. \A R \in SUBSET S : Cardinality(R) \in Nat /\ Cardinality(R) <= Cardinality(S)
    BY <1>2, FS_Subset, FS_CardinalityType
<1>5. QED
    BY <1>2, <1>3, <1>4, FS_EmptySet, FS_CardinalityType

\* The thread without a request.
LEMMA FreeThread == Free \in Requests /\ Free.pc = "free"
BY DEF Free, Requests, Steps, Kinds

\* A thread that hangs up leaves every set of requests.
LEMMA HangupThreads ==
    ASSUME TypeOK, RequestsOK, NEW t \in Threads, Hangup(t)
    PROVE  /\ thread' \in [Threads -> Requests]
           /\ RequestsOK'
           /\ Waiting' = Waiting \ {t}
           /\ \A k : WaitingOn(k)' = WaitingOn(k) \ {t}
           /\ \A a : Polls(a)' = Polls(a) \ {t}
<1>1. /\ thread' \in [Threads -> Requests]
      /\ thread'[t].pc = "free"
      /\ \A u \in Threads \ {t} : thread'[u] = thread[u]
    BY FreeThread DEF Hangup, TypeOK
<1>2. RequestsOK'
    BY <1>1 DEF RequestsOK, RequestOK
<1>3. Waiting' = Waiting \ {t}
    BY <1>1 DEF Waiting
<1>4. \A k : WaitingOn(k)' = WaitingOn(k) \ {t}
    BY <1>1 DEF WaitingOn, Channel
<1>5. \A a : Polls(a)' = Polls(a) \ {t}
    BY <1>1 DEF Polls, Served, Checked
<1>6. QED
    BY <1>1, <1>2, <1>3, <1>4, <1>5

\* A free thread that takes a request waits for nothing yet, and it is one more
\* poll of that agent at most.
LEMMA ServeThreads ==
    ASSUME TypeOK, RequestsOK, NEW t \in Threads, thread[t].pc = "free",
           NEW pc \in Steps \ {"free", "wait"}, NEW a \in Agents, NEW kind \in Kinds,
           pc \in {"claim", "admit"} => kind # "control", Serve(t, pc, a, kind)
    PROVE  /\ thread' \in [Threads -> Requests]
           /\ RequestsOK'
           /\ Waiting' = Waiting
           /\ \A k : WaitingOn(k)' = WaitingOn(k)
           /\ \A b : b # a \/ pc = "insert" => Polls(b)' = Polls(b)
<1>1. /\ thread' \in [Threads -> Requests]
      /\ thread'[t] = [pc |-> pc, agent |-> a, kind |-> kind]
      /\ \A u \in Threads \ {t} : thread'[u] = thread[u]
    BY DEF Serve, TypeOK, Requests
<1>2. RequestsOK'
    BY <1>1 DEF RequestsOK, RequestOK
<1>3. Waiting' = Waiting
    BY <1>1 DEF Waiting
<1>4. \A k : WaitingOn(k)' = WaitingOn(k)
    BY <1>1 DEF WaitingOn, Channel
<1>5. \A b : b # a \/ pc = "insert" => Polls(b)' = Polls(b)
    BY <1>1 DEF Polls, Served, Checked
<1>6. QED
    BY <1>1, <1>2, <1>3, <1>4, <1>5

\* A request that goes on stays a poll if it was one; it joins those that wait
\* when that is where it goes.
LEMMA GotoThreads ==
    ASSUME TypeOK, RequestsOK, NEW t \in Threads, thread[t].pc \in Checked \ {"wait"},
           NEW pc \in {"claim", "wait"}, thread[t].kind # "control", Goto(t, pc)
    PROVE  /\ thread' \in [Threads -> Requests]
           /\ RequestsOK'
           /\ \A a : Polls(a)' = Polls(a)
           /\ pc = "claim" => Waiting' = Waiting /\ \A k : WaitingOn(k)' = WaitingOn(k)
           /\ pc = "wait" =>
                  /\ Waiting' = Waiting \cup {t}
                  /\ \A k : k = Channel(t) => WaitingOn(k)' = WaitingOn(k) \cup {t}
                  /\ \A k : k # Channel(t) => WaitingOn(k)' = WaitingOn(k)
<1>1. /\ thread' \in [Threads -> Requests]
      /\ thread'[t].pc = pc /\ thread'[t].agent = thread[t].agent
      /\ thread'[t].kind = thread[t].kind
      /\ \A u \in Threads \ {t} : thread'[u] = thread[u]
    BY DEF Goto, TypeOK, Requests, Steps
<1>2. RequestsOK'
    BY <1>1 DEF RequestsOK, RequestOK, Checked
<1>3. \A a : Polls(a)' = Polls(a)
    BY <1>1 DEF Polls, Served, Checked
<1>4. pc = "claim" => Waiting' = Waiting /\ \A k : WaitingOn(k)' = WaitingOn(k)
    BY <1>1 DEF Waiting, WaitingOn, Channel
<1>5. ASSUME pc = "wait"
      PROVE  /\ Waiting' = Waiting \cup {t}
             /\ \A k : k = Channel(t) => WaitingOn(k)' = WaitingOn(k) \cup {t}
             /\ \A k : k # Channel(t) => WaitingOn(k)' = WaitingOn(k)
    BY <1>1, <1>5 DEF Waiting, WaitingOn, Channel
<1>6. QED
    BY <1>1, <1>2, <1>3, <1>4, <1>5
\* The budget in terms of the threads that wait.
LEMMA BudgetMeaning ==
    ReserveIsKept <=> /\ active = Cardinality(Waiting)
                      /\ \A k \in Agents \X Channels : held[k] = Cardinality(WaitingOn(k))
                      /\ active + Reserve <= Connections
BY DEF ReserveIsKept, Waiting

\* The types of the budget.
BudgetTypeOK == held \in [Agents \X Channels -> Nat] /\ active \in Nat

\* Whatever ends a request, the budget counts the requests that still wait.
LEMMA ReleaseKeepsBudget ==
    ASSUME TypeOK, RequestsOK, ReserveIsKept, NEW t \in Threads, Release(t), Hangup(t)
    PROVE  ReserveIsKept' /\ BudgetTypeOK'
<1>1. /\ Waiting' = Waiting \ {t}
      /\ \A k : WaitingOn(k)' = WaitingOn(k) \ {t}
    BY HangupThreads
<1>2. /\ Waiting \in SUBSET Threads
      /\ \A k : WaitingOn(k) \in SUBSET Threads
    BY DEF Waiting, WaitingOn
<1>3. CASE thread[t].pc = "wait"
    <2>1. Channel(t) \in Agents \X Channels
        BY <1>3 DEF RequestsOK, RequestOK, Channel, Channels
    <2>2. /\ held' = [held EXCEPT ![Channel(t)] = @ - 1]
          /\ active' = active - 1
        BY <1>3 DEF Release
    <2>3. Cardinality(Waiting \ {t}) = Cardinality(Waiting) - 1
          /\ Cardinality(Waiting \ {t}) \in Nat
        <3>1. t \in Waiting
            BY <1>3 DEF Waiting
        <3>2. QED
            BY <1>2, <3>1, ThreadCounts
    <2>4. active' = Cardinality(Waiting)' /\ active' \in Nat
        BY <1>1, <2>2, <2>3, BudgetMeaning
    <2>5. active' + Reserve <= Connections
        BY <2>2, <2>4, GatewayAssumption DEF ReserveIsKept, TypeOK
    <2>6. ASSUME NEW k \in Agents \X Channels
          PROVE  held'[k] = Cardinality(WaitingOn(k) \ {t}) /\ held'[k] \in Nat
        <3>1. CASE k = Channel(t)
            <4>1. t \in WaitingOn(k)
                BY <1>3, <3>1 DEF WaitingOn
            <4>2. Cardinality(WaitingOn(k) \ {t}) = Cardinality(WaitingOn(k)) - 1
                  /\ Cardinality(WaitingOn(k) \ {t}) \in Nat
                BY <1>2, <4>1, ThreadCounts
            <4>3. held'[k] = held[k] - 1
                BY <2>2, <3>1 DEF TypeOK
            <4>4. QED
                BY <4>2, <4>3 DEF ReserveIsKept
        <3>2. CASE k # Channel(t)
            <4>1. WaitingOn(k) \ {t} = WaitingOn(k)
                BY <3>2 DEF WaitingOn
            <4>2. held'[k] = held[k]
                BY <2>2, <3>2 DEF TypeOK
            <4>3. QED
                BY <4>1, <4>2 DEF ReserveIsKept, TypeOK
        <3>3. QED
            BY <3>1, <3>2
    <2>7. held' \in [Agents \X Channels -> Nat]
        BY <2>2, <2>6 DEF TypeOK
    <2>8. \A k \in Agents \X Channels : held'[k] = Cardinality(WaitingOn(k)')
        BY <1>1, <2>6
    <2>9. QED
        BY <2>4, <2>5, <2>7, <2>8 DEF ReserveIsKept, Waiting, BudgetTypeOK
<1>4. CASE thread[t].pc # "wait"
    <2>1. /\ Waiting' = Waiting
          /\ \A k : WaitingOn(k)' = WaitingOn(k)
        BY <1>1, <1>4 DEF Waiting, WaitingOn
    <2>2. UNCHANGED budget
        BY <1>4 DEF Release
    <2>3. QED
        BY <2>1, <2>2 DEF ReserveIsKept, Waiting, BudgetTypeOK, TypeOK, budget
<1>5. QED
    BY <1>3, <1>4

\* A slot is given only while there is one, to a request that then waits.
LEMMA SlotKeepsBudget ==
    ASSUME TypeOK, RequestsOK, ReserveIsKept, NEW t \in Threads,
           thread[t].pc \in Checked \ {"wait"}, thread[t].kind # "control",
           active < Limit, Goto(t, "wait"),
           held' = [held EXCEPT ![Channel(t)] = @ + 1], active' = active + 1
    PROVE  ReserveIsKept' /\ BudgetTypeOK'
<1>1. /\ Waiting' = Waiting \cup {t}
      /\ \A k : k = Channel(t) => WaitingOn(k)' = WaitingOn(k) \cup {t}
      /\ \A k : k # Channel(t) => WaitingOn(k)' = WaitingOn(k)
    BY GotoThreads
<1>2. /\ Waiting \in SUBSET Threads /\ t \notin Waiting
      /\ \A k : WaitingOn(k) \in SUBSET Threads /\ t \notin WaitingOn(k)
    BY DEF Waiting, WaitingOn
<1>3. Channel(t) \in Agents \X Channels
    BY DEF RequestsOK, RequestOK, Channel, Channels, Checked
<1>4. active' = Cardinality(Waiting)' /\ active' \in Nat
    BY <1>1, <1>2, ThreadCounts, BudgetMeaning DEF TypeOK
<1>5. active' + Reserve <= Connections
    BY GatewayAssumption DEF Limit, TypeOK
<1>6. ASSUME NEW k \in Agents \X Channels
      PROVE  held'[k] = Cardinality(WaitingOn(k)') /\ held'[k] \in Nat
    <2>1. CASE k = Channel(t)
        <3>1. held'[k] = held[k] + 1
            BY <2>1 DEF TypeOK
        <3>2. QED
            BY <1>1, <1>2, <2>1, <3>1, ThreadCounts DEF ReserveIsKept, TypeOK
    <2>2. CASE k # Channel(t)
        BY <1>1, <2>2 DEF ReserveIsKept, TypeOK
    <2>3. QED
        BY <2>1, <2>2
<1>7. held' \in [Agents \X Channels -> Nat]
    BY <1>6 DEF TypeOK
<1>8. QED
    BY <1>4, <1>5, <1>6, <1>7 DEF ReserveIsKept, Waiting, BudgetTypeOK

\* While the registry and the ghosts do not change, fewer polls of an agent that
\* is not approved keep the bound.
LEMMA FewerPolls ==
    ASSUME TypeOK, RevocationBoundsWork, UNCHANGED <<record, exposed, handed>>,
           \A a \in Agents : record[a] # "approved" => Polls(a)' \subseteq Polls(a)
    PROVE  RevocationBoundsWork'
<1> SUFFICES ASSUME NEW a \in Agents, record[a] # "approved"
             PROVE  handed[a] + Cardinality(Polls(a)') <= exposed[a]
    BY DEF RevocationBoundsWork
<1>1. Polls(a) \in SUBSET Threads
    BY DEF Polls, Served
<1>2. /\ Cardinality(Polls(a)') \in Nat /\ Cardinality(Polls(a)) \in Nat
      /\ Cardinality(Polls(a)') <= Cardinality(Polls(a))
    BY <1>1, ThreadCounts
<1>3. handed[a] + Cardinality(Polls(a)) <= exposed[a]
    BY DEF RevocationBoundsWork
<1>4. QED
    BY <1>2, <1>3 DEF TypeOK

\* The moment an approval is lost, the bound starts with the polls there are.
LEMMA WriteKeepsBound ==
    ASSUME TypeOK, RevocationBoundsWork, NEW a \in Agents, NEW state \in States,
           Write(a, state), \A b \in Agents : Polls(b)' = Polls(b)
    PROVE  /\ RevocationBoundsWork'
           /\ record' \in [Agents -> States]
           /\ exposed' \in [Agents -> Nat]
           /\ handed' \in [Agents -> Nat]
<1>1. \A b \in Agents : Polls(b) \in SUBSET Threads
    BY DEF Polls, Served
<1>2. Cardinality(Polls(a)) \in Nat
    BY <1>1, ThreadCounts
<1>3. /\ record' \in [Agents -> States]
      /\ exposed' \in [Agents -> Nat]
      /\ handed' \in [Agents -> Nat]
    BY <1>2 DEF Write, TypeOK, ghosts
<1>4. ASSUME NEW b \in Agents, record'[b] # "approved"
      PROVE  handed'[b] + Cardinality(Polls(b)') <= exposed'[b]
    <2>1. CASE b = a /\ record[a] = "approved"
        <3>1. exposed'[b] = Cardinality(Polls(b)) /\ handed'[b] = 0
            BY <1>4, <2>1 DEF Write, TypeOK
        <3>2. QED
            BY <1>2, <2>1, <3>1
    <2>2. CASE ~ (b = a /\ record[a] = "approved")
        <3>1. exposed'[b] = exposed[b] /\ handed'[b] = handed[b] /\ record[b] # "approved"
            BY <1>4, <2>2 DEF Write, TypeOK, ghosts
        <3>2. QED
            BY <3>1 DEF RevocationBoundsWork
    <2>3. QED
        BY <2>1, <2>2
<1>5. QED
    BY <1>3, <1>4 DEF RevocationBoundsWork
\* Nothing waits and nothing is approved at the start.
LEMMA GatewayInit == Init => GatewayInv
<1> SUFFICES ASSUME Init PROVE GatewayInv
    OBVIOUS
<1>1. TypeOK
    BY FreeThread DEF Init, TypeOK, States
<1>2. RequestsOK
    BY FreeThread DEF Init, RequestsOK, RequestOK
<1>3. /\ Waiting = {}
      /\ \A k : WaitingOn(k) = {}
      /\ \A a : Polls(a) = {}
    BY FreeThread DEF Init, Waiting, WaitingOn, Polls, Served, Checked
<1>4. /\ Cardinality(Waiting) = 0
      /\ \A k : Cardinality(WaitingOn(k)) = 0
      /\ \A a : Cardinality(Polls(a)) = 0
    BY <1>3, FS_EmptySet
<1>5. ReserveIsKept
    BY <1>4, BudgetMeaning, GatewayAssumption DEF Init
<1>6. RevocationBoundsWork
    BY <1>4 DEF Init, RevocationBoundsWork
<1>7. QED
    BY <1>1, <1>2, <1>5, <1>6 DEF GatewayInv

(***************************************************************************)
(* Every step keeps the invariant.                                         *)
(***************************************************************************)
LEMMA GatewayStep == GatewayInv /\ [Next]_vars => GatewayInv'
<1> SUFFICES ASSUME GatewayInv, [Next]_vars PROVE GatewayInv'
    OBVIOUS
<1>0. TypeOK /\ RequestsOK /\ ReserveIsKept /\ RevocationBoundsWork
    BY DEF GatewayInv
<1>q. ASSUME UNCHANGED <<thread, budget>>
      PROVE  /\ RequestsOK' /\ ReserveIsKept' /\ \A a : Polls(a)' = Polls(a)
             /\ held' = held /\ active' = active
    BY <1>0, <1>q DEF RequestsOK, ReserveIsKept, WaitingOn, Channel, Polls, Served, budget
<1>1. CASE \E a \in Agents, to \in States : Read(a, to)
    <2>1. UNCHANGED <<record, thread, budget, queued, exposed, handed>>
        BY <1>1 DEF Read, work, ghosts
    <2>2. RevocationBoundsWork'
        BY <1>0, <1>q, <2>1, FewerPolls
    <2>3. QED
        BY <1>0, <1>q, <2>1, <2>2 DEF GatewayInv, TypeOK
<1>2. ASSUME NEW a \in Agents, NEW to \in States, Decide(a, to)
      PROVE  GatewayInv'
    <2>1. UNCHANGED <<thread, budget, queued>>
        BY <1>2 DEF Decide, work
    <2>2. CASE record[a] = "none"
        <3>1. UNCHANGED <<record, exposed, handed>>
            BY <1>2, <2>2 DEF Decide, ghosts
        <3>2. RevocationBoundsWork'
            BY <1>0, <1>q, <2>1, <3>1, FewerPolls
        <3>3. QED
            BY <1>0, <1>q, <2>1, <3>1, <3>2 DEF GatewayInv, TypeOK
    <2>3. CASE record[a] # "none"
        <3>1. Write(a, to)
            BY <1>2, <2>3 DEF Decide
        <3>2. /\ RevocationBoundsWork'
              /\ record' \in [Agents -> States]
              /\ exposed' \in [Agents -> Nat]
              /\ handed' \in [Agents -> Nat]
            BY <1>0, <1>q, <2>1, <3>1, WriteKeepsBound
        <3>3. QED
            BY <1>0, <1>q, <2>1, <3>2 DEF GatewayInv, TypeOK
    <2>4. QED
        BY <2>2, <2>3
<1>3. ASSUME NEW a \in Agents, Issue(a) \/ Reset(a) \/ Submit(a) \/ Enqueue(a)
      PROVE  GatewayInv'
    <2>1. UNCHANGED <<record, thread, budget, exposed, handed>>
        BY <1>3 DEF Issue, Reset, Submit, Enqueue, ghosts
    <2>2. queued' \in [Agents -> Nat]
        BY <1>0, <1>3 DEF Issue, Reset, Submit, Enqueue, TypeOK, work
    <2>3. RevocationBoundsWork'
        BY <1>0, <1>q, <2>1, FewerPolls
    <2>4. QED
        BY <1>0, <1>q, <2>1, <2>2, <2>3 DEF GatewayInv, TypeOK
<1>4. ASSUME NEW t \in Threads, NEW a \in Agents, Request(t, a)
      PROVE  GatewayInv'
    <2>1. /\ thread[t].pc = "free" /\ Serve(t, "insert", a, "control")
          /\ UNCHANGED <<record, budget, queued, exposed, handed>>
        BY <1>4 DEF Request, Accepts, work, ghosts
    <2>2. /\ thread' \in [Threads -> Requests] /\ RequestsOK' /\ Waiting' = Waiting
          /\ \A k : WaitingOn(k)' = WaitingOn(k)
          /\ \A b : Polls(b)' = Polls(b)
        BY <1>0, <2>1, ServeThreads DEF Steps, Kinds
    <2>3. RevocationBoundsWork'
        BY <1>0, <2>1, <2>2, FewerPolls
    <2>4. ReserveIsKept'
        BY <1>0, <2>1, <2>2 DEF ReserveIsKept, Waiting, budget
    <2>5. QED
        BY <1>0, <2>1, <2>2, <2>3, <2>4 DEF GatewayInv, TypeOK, budget
<1>5. ASSUME NEW t \in Threads, NEW a \in Agents, NEW kind \in Kinds, Call(t, a, kind)
      PROVE  GatewayInv'
    <2>1. /\ thread[t].pc = "free" /\ Serve(t, FirstStep(kind), a, kind)
          /\ record[a] = "approved"
          /\ UNCHANGED <<record, budget, queued, exposed, handed>>
        BY <1>5 DEF Call, Accepts, Approved, work, ghosts
    <2>2. /\ FirstStep(kind) \in {"heartbeat", "claim", "admit"}
          /\ FirstStep(kind) \in {"claim", "admit"} => kind # "control"
        BY DEF FirstStep, Kinds
    <2>3. /\ thread' \in [Threads -> Requests] /\ RequestsOK' /\ Waiting' = Waiting
          /\ \A k : WaitingOn(k)' = WaitingOn(k)
          /\ \A b : b # a => Polls(b)' = Polls(b)
        BY <1>0, <2>1, <2>2, ServeThreads DEF Steps
    <2>4. RevocationBoundsWork'
        BY <1>0, <2>1, <2>3, FewerPolls
    <2>5. ReserveIsKept'
        BY <1>0, <2>1, <2>3 DEF ReserveIsKept, Waiting, budget
    <2>6. QED
        BY <1>0, <2>1, <2>3, <2>4, <2>5 DEF GatewayInv, TypeOK, budget
<1>6. ASSUME NEW t \in Threads, Insert(t)
      PROVE  GatewayInv'
    <2>1. /\ thread[t].pc = "insert" /\ Write(thread[t].agent, "pending") /\ Hangup(t)
          /\ UNCHANGED <<budget, queued>>
        BY <1>6 DEF Insert, work
    <2>2. thread[t].agent \in Agents
        BY <1>0, <2>1 DEF RequestsOK, RequestOK
    <2>3. \A b : t \notin Polls(b)
        BY <2>1 DEF Polls, Served, Checked
    <2>4. /\ thread' \in [Threads -> Requests] /\ RequestsOK'
          /\ \A b : Polls(b)' = Polls(b)
        BY <1>0, <2>1, <2>3, HangupThreads
    <2>5. /\ RevocationBoundsWork'
          /\ record' \in [Agents -> States]
          /\ exposed' \in [Agents -> Nat]
          /\ handed' \in [Agents -> Nat]
        BY <1>0, <2>1, <2>2, <2>4, WriteKeepsBound DEF States
    <2>6. ReserveIsKept' /\ BudgetTypeOK'
        <3>1. Release(t)
            BY <2>1 DEF Release
        <3>2. QED
            BY <1>0, <2>1, <3>1, ReleaseKeepsBudget
    <2>7. QED
        BY <1>0, <2>1, <2>4, <2>5, <2>6 DEF GatewayInv, TypeOK, BudgetTypeOK
<1>7. ASSUME NEW t \in Threads, thread[t].pc # "free", Hangup(t), Release(t),
             UNCHANGED <<record, exposed, handed>>, queued' \in [Agents -> Nat]
      PROVE  GatewayInv'
    <2>1. /\ thread' \in [Threads -> Requests] /\ RequestsOK'
          /\ \A b : Polls(b)' = Polls(b) \ {t}
        BY <1>0, <1>7, HangupThreads
    <2>2. RevocationBoundsWork'
        BY <1>0, <1>7, <2>1, FewerPolls
    <2>3. ReserveIsKept' /\ BudgetTypeOK'
        BY <1>0, <1>7, ReleaseKeepsBudget
    <2>4. QED
        BY <1>0, <1>7, <2>1, <2>2, <2>3 DEF GatewayInv, TypeOK, BudgetTypeOK
<1>8. ASSUME NEW t \in Threads, Heartbeat(t)
      PROVE  GatewayInv'
    <2>1. /\ thread[t].pc = "heartbeat"
          /\ UNCHANGED <<record, budget, queued, exposed, handed>>
        BY <1>8 DEF Heartbeat, work, ghosts
    <2>2. CASE Hangup(t)
        BY <1>0, <1>7, <2>1, <2>2 DEF Release, TypeOK
    <2>3. CASE thread[t].kind = "regular" /\ Goto(t, "claim")
        <3>1. /\ thread' \in [Threads -> Requests] /\ RequestsOK' /\ Waiting' = Waiting
              /\ \A k : WaitingOn(k)' = WaitingOn(k)
              /\ \A b : Polls(b)' = Polls(b)
            BY <1>0, <2>1, <2>3, GotoThreads DEF Checked
        <3>2. RevocationBoundsWork'
            BY <1>0, <2>1, <3>1, FewerPolls
        <3>3. ReserveIsKept'
            BY <1>0, <2>1, <3>1 DEF ReserveIsKept, Waiting, budget
        <3>4. QED
            BY <1>0, <2>1, <3>1, <3>2, <3>3 DEF GatewayInv, TypeOK, budget
    <2>4. QED
        BY <1>8, <2>2, <2>3 DEF Heartbeat
<1>9. ASSUME NEW t \in Threads, Claim(t)
      PROVE  GatewayInv'
    <2> DEFINE a == thread[t].agent
    <2>1. /\ thread[t].pc \in {"claim", "wait"} /\ thread[t].kind # "terminal"
          /\ queued[a] > 0 /\ queued' = [queued EXCEPT ![a] = @ - 1]
          /\ handed' = IF record[a] = "approved" THEN handed ELSE [handed EXCEPT ![a] = @ + 1]
          /\ Release(t) /\ Hangup(t)
          /\ UNCHANGED <<record, exposed>>
        BY <1>9 DEF Claim
    <2>2. a \in Agents /\ t \in Polls(a)
        BY <1>0, <2>1 DEF RequestsOK, RequestOK, Polls, Served, Checked, TypeOK, Requests, Kinds
    <2>3. queued' \in [Agents -> Nat] /\ handed' \in [Agents -> Nat]
        BY <1>0, <2>1, <2>2 DEF TypeOK
    <2>4. /\ thread' \in [Threads -> Requests] /\ RequestsOK'
          /\ \A b : Polls(b)' = Polls(b) \ {t}
        BY <1>0, <2>1, HangupThreads
    <2>5. RevocationBoundsWork'
        <3>1. ASSUME NEW b \in Agents, record[b] # "approved"
              PROVE  handed'[b] + Cardinality(Polls(b) \ {t}) <= exposed[b]
            <4>1. Polls(b) \in SUBSET Threads
                BY DEF Polls, Served
            <4>2. handed[b] + Cardinality(Polls(b)) <= exposed[b]
                BY <1>0, <3>1 DEF RevocationBoundsWork
            <4>3. CASE b = a
                <5>1. handed'[b] = handed[b] + 1
                    BY <1>0, <2>1, <2>2, <3>1, <4>3 DEF TypeOK
                <5>2. Cardinality(Polls(b) \ {t}) = Cardinality(Polls(b)) - 1
                      /\ Cardinality(Polls(b)) \in Nat
                    BY <2>2, <4>1, <4>3, ThreadCounts
                <5>3. QED
                    BY <1>0, <4>2, <5>1, <5>2 DEF TypeOK
            <4>4. CASE b # a
                <5>1. handed'[b] = handed[b]
                    BY <1>0, <2>1, <2>2, <4>4 DEF TypeOK
                <5>2. Polls(b) \ {t} = Polls(b)
                    BY <4>4 DEF Polls, Served
                <5>3. QED
                    BY <4>2, <5>1, <5>2
            <4>5. QED
                BY <4>3, <4>4
        <3>2. QED
            BY <2>1, <2>4, <3>1 DEF RevocationBoundsWork
    <2>6. ReserveIsKept' /\ BudgetTypeOK'
        BY <1>0, <2>1, ReleaseKeepsBudget
    <2>7. QED
        BY <1>0, <2>1, <2>3, <2>4, <2>5, <2>6 DEF GatewayInv, TypeOK, BudgetTypeOK
<1>10. ASSUME NEW t \in Threads, Admit(t)
       PROVE  GatewayInv'
    <2>1. /\ thread[t].pc \in {"admit", "claim"}
          /\ UNCHANGED <<record, queued, exposed, handed>>
        BY <1>10 DEF Admit, work, ghosts
    <2>2. thread[t].kind # "control"
        BY <1>0, <2>1 DEF RequestsOK, RequestOK
    <2>3. CASE active < Limit /\ held[Channel(t)] < Share(t)
        <3>1. /\ held' = [held EXCEPT ![Channel(t)] = @ + 1] /\ active' = active + 1
              /\ Goto(t, "wait")
            BY <1>10, <2>3 DEF Admit
        <3>2. /\ thread' \in [Threads -> Requests] /\ RequestsOK'
              /\ \A b : Polls(b)' = Polls(b)
            BY <1>0, <2>1, <2>2, <3>1, GotoThreads DEF Checked
        <3>3. RevocationBoundsWork'
            BY <1>0, <2>1, <3>2, FewerPolls
        <3>4. ReserveIsKept' /\ BudgetTypeOK'
            BY <1>0, <2>1, <2>2, <2>3, <3>1, SlotKeepsBudget DEF Checked
        <3>5. QED
            BY <1>0, <2>1, <3>2, <3>3, <3>4 DEF GatewayInv, TypeOK, BudgetTypeOK
    <2>4. CASE ~ (active < Limit /\ held[Channel(t)] < Share(t))
        <3>1. Hangup(t) /\ UNCHANGED budget
            BY <1>10, <2>4 DEF Admit
        <3>2. QED
            BY <1>0, <1>7, <2>1, <3>1 DEF Release, TypeOK
    <2>5. QED
        BY <2>3, <2>4
<1>11. ASSUME NEW t \in Threads, Leave(t) \/ Raise(t)
       PROVE  GatewayInv'
    <2>1. /\ thread[t].pc # "free" /\ Hangup(t) /\ Release(t)
          /\ UNCHANGED <<record, queued, exposed, handed>>
        BY <1>11 DEF Leave, Raise, Checked, work, ghosts
    <2>2. QED
        BY <1>0, <1>7, <2>1 DEF TypeOK
<1>12. CASE UNCHANGED vars
    <2>1. UNCHANGED <<record, thread, budget, queued, exposed, handed>>
        BY <1>12 DEF vars, work, ghosts
    <2>2. RevocationBoundsWork'
        BY <1>0, <1>q, <2>1, FewerPolls
    <2>3. QED
        BY <1>0, <1>q, <2>1, <2>2 DEF GatewayInv, TypeOK
<1>13. {"approved", "denied", "revoked", "none"} \subseteq States
    BY DEF States
<1>14. QED
    BY <1>1, <1>2, <1>3, <1>4, <1>5, <1>6, <1>8, <1>9, <1>10, <1>11, <1>12, <1>13
    DEF Next, ThreadStep

\* Waiting polls and relays never take the connections kept for control calls,
\* and the budget counts exactly the requests that wait (LongPollBudget.slot).
THEOREM ReserveAlwaysKept == Spec => []ReserveIsKept
<1>1. GatewayInv => ReserveIsKept
    BY DEF GatewayInv
<1>2. QED
    BY GatewayInit, GatewayStep, <1>1, PTL DEF Spec

\* An agent that lost its approval is handed at most one operation for each poll
\* that had passed its check by then (_approved_certificate_agent, _poll_jobs).
THEOREM RevocationAlwaysBoundsWork == Spec => []RevocationBoundsWork
<1>1. GatewayInv => RevocationBoundsWork
    BY DEF GatewayInv
<1>2. QED
    BY GatewayInit, GatewayStep, <1>1, PTL DEF Spec
=============================================================================
