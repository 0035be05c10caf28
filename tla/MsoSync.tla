------------------------------ MODULE MsoSync ------------------------------
(***************************************************************************)
(* Mainframe Synced Objects (MsoStore in twn_toolkit/mso.py): saved        *)
(* objects edited on any instance, proposed to the Mainframe with          *)
(* compare-and-swap on a revision, and delivered to every agent in         *)
(* revision order from a cursor.                                           *)
(*                                                                         *)
(* The control loop of an agent runs request, the exchange with the        *)
(* Mainframe and receive one after the other, each in a transaction of its *)
(* own; users edit, withdraw and resolve between them.  A reply may be     *)
(* lost, the request is then sent again to the fallback URL, and an        *)
(* abandoned copy may reach the Mainframe at any later time.               *)
(*                                                                         *)
(* Abstractions: the content of an object is the number of the edit that   *)
(* made it; an operation identity (a UUID drawn per proposal) is the       *)
(* proposal itself, as a node never draws two of one membership epoch with *)
(* the same base and content; the version counter of a row is kept as the  *)
(* one thing it decides, whether the row changed since its proposal was    *)
(* drawn.                                                                  *)
(***************************************************************************)
EXTENDS Naturals, FiniteSets

CONSTANTS
    Agents,     \* instances in Agent mode
    Mainframe,  \* the instance in Mainframe mode
    Ids,        \* object identities (UUIDs)
    Batch,      \* BATCH: proposals and records per exchange
    MaxEdits,   \* bound: the edits made when an object may last be edited
    MaxFaults   \* bound on timeouts and role changes

ASSUME MainframeAssumption == Mainframe \notin Agents
ASSUME IdsAssumption == IsFiniteSet(Ids)
ASSUME BatchAssumption == Batch \in Nat \ {0}
ASSUME BoundsAssumption == MaxEdits \in [Ids -> Nat] /\ MaxFaults \in Nat

VARIABLES
    hub,       \* mso_hub: the shared revision of each object
    sequence,  \* the last revision number given out
    accepted,  \* mso_receipts: every accepted proposal with its revision
    rows,      \* mso_objects of each agent
    member,    \* each agent's role, epoch and cursor
    wire,      \* requests on their way to the Mainframe
    waiting,   \* the request whose reply an agent waits for
    reply,     \* the reply on its way back
    edits,     \* user edits so far
    faults     \* timeouts and role changes so far

hubVars == <<hub, sequence, accepted>>
netVars == <<wire, waiting, reply>>
msoVars == <<hub, sequence, accepted, rows, member, wire, waiting, reply, edits, faults>>

\* A shared revision; revision 0 stands for an object the Mainframe never had.
NoRecord == [rev |-> 0, val |-> 0, deleted |-> FALSE]

\* An agent's row.  sent holds the proposal in flight ({} without one), touched
\* says that the version moved on since it was drawn, conflict holds the shared
\* revision the user has to choose against ({} without a conflict).
NoRow == [here |-> FALSE, val |-> 0, rev |-> 0, dirty |-> FALSE, deleted |-> FALSE,
          sent |-> {}, touched |-> FALSE, conflict |-> {}]
SyncedRow(r) == [NoRow EXCEPT !.here = TRUE, !.val = r.val, !.rev = r.rev, !.deleted = r.deleted]

Propose(n, o, row) ==
    [id |-> o, node |-> n, epoch |-> member[n].epoch, base |-> row.rev, val |-> row.val,
     deleted |-> row.deleted]

(***************************************************************************)
(* The Mainframe: _accept.                                                 *)
(***************************************************************************)
\* A faulty Receipts: the receipt of an accepted proposal is not looked up.
ReceiptsIgnored(p) == {}
Receipts(p) == {a \in accepted : a.proposal = p}
Stale(p) == p.base # hub[p.id].rev \/ hub[p.id].deleted

\* Several proposals of one request take consecutive revisions.
Numberings(S) == {f \in [S -> 1..Cardinality(S)] : \A p, q \in S : f[p] = f[q] => p = q}

AcceptAll(S, f) ==
    /\ hub' = [o \in Ids |->
            IF \E p \in S : p.id = o
            THEN LET p == CHOOSE q \in S : q.id = o
                 IN  [rev |-> sequence + f[p], val |-> p.val, deleted |-> p.deleted]
            ELSE hub[o]]
    /\ sequence' = sequence + Cardinality(S)
    /\ accepted' = accepted \cup {[proposal |-> p, rev |-> sequence + f[p]] : p \in S}

\* The identity of a new object is a fresh UUID.
Unused(o) ==
    /\ hub[o].rev = 0
    /\ \A n \in Agents : ~rows[n][o].here
    /\ \A m \in wire \cup UNION {waiting[n] : n \in Agents} : \A p \in m.proposals : p.id # o

\* A user of the Mainframe creates, edits or withdraws: save or delete, with
\* the _flush that ends them.  Its own copy of every object is the shared one.
SaveOnMainframe(o, del) ==
    LET p == [id |-> o, node |-> Mainframe, epoch |-> 0, base |-> hub[o].rev,
              val |-> IF del THEN hub[o].val ELSE edits + 1, deleted |-> del]
    IN  /\ edits < MaxEdits[o]
        /\ ~hub[o].deleted
        /\ hub[o].rev = 0 => ~del /\ Unused(o)
        /\ edits' = edits + 1
        /\ AcceptAll({p}, [q \in {p} |-> 1])
        /\ UNCHANGED <<rows, member, netVars, faults>>

(***************************************************************************)
(* exchange: accept what is neither known nor stale, answer with the next  *)
(* records after the cursor.                                               *)
(***************************************************************************)
Fresh(m) == {p \in m.proposals : Receipts(p) = {} /\ ~Stale(p)}

\* The acknowledgement: the revision of its receipt, the one just given, or none.
Answer(p, fresh) ==
    [proposal |-> p,
     rev |-> IF Receipts(p) # {} THEN (CHOOSE a \in Receipts(p) : TRUE).rev
             ELSE IF fresh THEN hub'[p.id].rev ELSE 0,
     remote |-> hub'[p.id]]

After(c) == {o \in Ids : hub'[o].rev > c}
FirstAfter(c) ==
    {o \in After(c) : Cardinality({q \in After(c) : hub'[q].rev < hub'[o].rev}) < Batch}
\* Faulty variants of Latest: the cursor jumps to the newest revision; it stays
\* where the request had it.
LatestSequence(S, c) == sequence'
LatestStays(S, c) == c
Latest(S, c) == IF S = {} THEN c
                ELSE CHOOSE r \in {hub'[o].rev : o \in S} : \A o \in S : hub'[o].rev <= r

Exchange(m) ==
    /\ \E f \in Numberings(Fresh(m)) : AcceptAll(Fresh(m), f)
    /\ wire' = wire \ {m}
    /\ reply' = IF waiting[m.node] = {m}
                THEN [reply EXCEPT ![m.node] =
                        {[epoch |-> m.epoch,
                          answers |-> {Answer(p, p \in Fresh(m)) : p \in m.proposals},
                          objects |-> [o \in FirstAfter(m.cursor) |-> hub'[o]],
                          cursor |-> Latest(FirstAfter(m.cursor), m.cursor)]}]
                ELSE reply
    /\ UNCHANGED <<rows, member, waiting, edits, faults>>

(***************************************************************************)
(* The agent's control loop.                                               *)
(***************************************************************************)
Pending(n) == {o \in Ids : rows[n][o].dirty /\ rows[n][o].conflict = {}}

\* _ordered_changes puts deletions last; the rest of its order depends on kinds
\* and insertion, so any choice that respects it is taken.
Batches(n) ==
    {S \in SUBSET Pending(n) :
        /\ Cardinality(S) = IF Cardinality(Pending(n)) < Batch THEN Cardinality(Pending(n)) ELSE Batch
        /\ \A o \in S, q \in Pending(n) \ S : rows[n][o].deleted => rows[n][q].deleted}

\* request: a proposal in flight is sent again unchanged.
Draw(n, o) ==
    IF rows[n][o].sent # {} THEN rows[n][o]
    ELSE [rows[n][o] EXCEPT !.sent = {Propose(n, o, rows[n][o])}, !.touched = FALSE]

Request(n) ==
    /\ member[n].role = "agent"
    /\ waiting[n] = {}
    /\ \E S \in Batches(n) :
          LET drawn == [o \in Ids |-> IF o \in S THEN Draw(n, o) ELSE rows[n][o]]
              m == [node |-> n, try |-> 1, epoch |-> member[n].epoch, cursor |-> member[n].cursor,
                    proposals |-> UNION {drawn[o].sent : o \in S}]
          IN  /\ rows' = [rows EXCEPT ![n] = drawn]
              /\ wire' = wire \cup {m}
              /\ waiting' = [waiting EXCEPT ![n] = {m}]
    /\ UNCHANGED <<hubVars, member, reply, edits, faults>>

\* The fallback URL is tried once, then the exchange is given up.
Timeout(n) ==
    \E m \in waiting[n] :
        /\ faults < MaxFaults
        /\ faults' = faults + 1
        /\ LET again == IF m.try = 1 THEN {[m EXCEPT !.try = 2]} ELSE {}
           IN  /\ waiting' = [waiting EXCEPT ![n] = again]
               /\ wire' = wire \cup again
        /\ reply' = [reply EXCEPT ![n] = {}]
        /\ UNCHANGED <<hubVars, rows, member, edits>>

\* A faulty Ack: an acceptance clears the pending mark of an edit made meanwhile.
AckClean(row, a) ==
    IF row.sent # {a.proposal} THEN row
    ELSE IF a.rev > 0
         THEN [row EXCEPT !.rev = a.rev, !.dirty = FALSE, !.sent = {}, !.touched = FALSE]
         ELSE [row EXCEPT !.conflict = {a.remote}, !.sent = {}, !.touched = FALSE]

\* _ack: an answer to anything but the proposal in flight is ignored.
Ack(row, a) ==
    IF row.sent # {a.proposal} THEN row
    ELSE IF a.rev > 0
         THEN [row EXCEPT !.rev = a.rev, !.dirty = row.touched, !.sent = {}, !.touched = FALSE]
         ELSE [row EXCEPT !.conflict = {a.remote}, !.sent = {}, !.touched = FALSE]

\* A faulty Apply: only an open conflict protects a row.
ApplyOver(row, r) ==
    IF row.here /\ r.rev <= row.rev THEN row
    ELSE IF row.here /\ row.conflict # {}
         THEN [row EXCEPT !.conflict = {r}, !.touched = row.sent # {} /\ (@ \/ row.conflict # {r})]
         ELSE SyncedRow(r)

\* _apply: never over a local edit.
Apply(row, r) ==
    IF row.here /\ r.rev <= row.rev THEN row
    ELSE IF row.here /\ (row.dirty \/ row.conflict # {})
         THEN [row EXCEPT !.conflict = {r}, !.touched = row.sent # {} /\ (@ \/ row.conflict # {r})]
         ELSE SyncedRow(r)

\* receive: a reply to another membership is dropped.
Received(row, o, r) ==
    LET acked == IF \E a \in r.answers : a.proposal.id = o
                 THEN Ack(row, CHOOSE a \in r.answers : a.proposal.id = o) ELSE row
    IN  IF o \in DOMAIN r.objects THEN Apply(acked, r.objects[o]) ELSE acked

\* A faulty Current: every reply counts.
CurrentAlways(n, r) == TRUE
Current(n, r) == member[n].role = "agent" /\ r.epoch = member[n].epoch

Receive(n) ==
    \E r \in reply[n] :
        /\ IF Current(n, r)
           THEN /\ rows' = [rows EXCEPT ![n] = [o \in Ids |-> Received(rows[n][o], o, r)]]
                /\ member' = [member EXCEPT ![n].cursor = IF r.cursor > @ THEN r.cursor ELSE @]
           ELSE UNCHANGED <<rows, member>>
        /\ reply' = [reply EXCEPT ![n] = {}]
        /\ waiting' = [waiting EXCEPT ![n] = {}]
        /\ UNCHANGED <<hubVars, wire, edits, faults>>

(***************************************************************************)
(* Users of an agent.                                                      *)
(***************************************************************************)
SetRow(n, o, row) ==
    /\ rows' = [rows EXCEPT ![n][o] = row]
    /\ UNCHANGED <<hubVars, member, netVars, faults>>

\* save of a new object with MSO on.
Create(n, o) ==
    /\ member[n].role = "agent"
    /\ edits < MaxEdits[o]
    /\ Unused(o)
    /\ edits' = edits + 1
    /\ SetRow(n, o, [NoRow EXCEPT !.here = TRUE, !.val = edits + 1, !.dirty = TRUE])

\* save of an edit, delete, or save with MSO off (which withdraws the object
\* and keeps a local copy under another identity).
Change(n, o, del) ==
    LET row == rows[n][o]
    IN  /\ row.here /\ ~row.deleted /\ row.conflict = {}
        /\ edits < MaxEdits[o]
        /\ edits' = edits + 1
        /\ SetRow(n, o, [row EXCEPT !.val = IF del THEN @ ELSE edits + 1, !.deleted = del,
                                    !.dirty = TRUE, !.touched = row.sent # {}])

\* resolve(choice="fleet") and resolve(choice="local").
UseFleet(n, o) ==
    \E r \in rows[n][o].conflict : SetRow(n, o, SyncedRow(r)) /\ UNCHANGED edits

KeepLocal(n, o) ==
    \E r \in rows[n][o].conflict :
        /\ ~r.deleted
        /\ SetRow(n, o, [rows[n][o] EXCEPT !.rev = r.rev, !.dirty = TRUE, !.sent = {},
                                           !.touched = FALSE, !.conflict = {}])
        /\ UNCHANGED edits

\* changing_role: the shared objects become local ones under new identities.
ChangeRole(n) ==
    /\ faults < MaxFaults
    /\ faults' = faults + 1
    /\ rows' = [rows EXCEPT ![n] = [o \in Ids |-> NoRow]]
    /\ member' = [member EXCEPT ![n] =
            [role |-> IF @.role = "agent" THEN "standalone" ELSE "agent",
             epoch |-> @.epoch + 1, cursor |-> 0]]
    /\ UNCHANGED <<hubVars, netVars, edits>>

UserStep(n, o) ==
    \/ Create(n, o)
    \/ \E del \in BOOLEAN : Change(n, o, del)
    \/ UseFleet(n, o)
    \/ KeepLocal(n, o)

Init ==
    /\ hub = [o \in Ids |-> NoRecord]
    /\ sequence = 0
    /\ accepted = {}
    /\ rows = [n \in Agents |-> [o \in Ids |-> NoRow]]
    /\ member = [n \in Agents |-> [role |-> "agent", epoch |-> 0, cursor |-> 0]]
    /\ wire = {}
    /\ waiting = [n \in Agents |-> {}]
    /\ reply = [n \in Agents |-> {}]
    /\ edits = 0
    /\ faults = 0

Next ==
    \/ \E o \in Ids, del \in BOOLEAN : SaveOnMainframe(o, del)
    \/ \E m \in wire : Exchange(m)
    \/ \E n \in Agents :
          \/ Request(n)
          \/ Timeout(n)
          \/ Receive(n)
          \/ ChangeRole(n)
          \/ \E o \in Ids : UserStep(n, o)

Spec == Init /\ [][Next]_msoVars

\* The control loop runs for ever, and an exchange it waits for is served.
Fairness ==
    \A n \in Agents :
        /\ WF_msoVars(Request(n))
        /\ WF_msoVars(\E m \in waiting[n] : m \in wire /\ Exchange(m))
        /\ WF_msoVars(Receive(n))
FairSpec == Spec /\ Fairness

(***************************************************************************)
(* Properties.                                                             *)
(***************************************************************************)
InHistory(o, row) ==
    \E a \in accepted : /\ a.proposal.id = o /\ a.rev = row.rev
                        /\ a.proposal.val = row.val /\ a.proposal.deleted = row.deleted

\* A row shown as synced holds exactly what the Mainframe accepted under its
\* revision number, whatever replies were lost and whichever edits were made
\* while a proposal was in flight.
SyncedRowsAreShared ==
    \A n \in Agents, o \in Ids :
        LET row == rows[n][o]
        IN  row.here /\ ~row.dirty /\ row.conflict = {} => InHistory(o, row)

\* The revisions of an object form one chain: each was based on the one before
\* it, none follows a deletion, and no proposal was accepted twice.
HistoryIsLinear ==
    \A a, b \in accepted :
        a # b /\ a.proposal.id = b.proposal.id =>
            /\ a.proposal # b.proposal
            /\ a.rev # b.rev
            /\ a.rev < b.rev => ~a.proposal.deleted /\ b.proposal.base >= a.rev

\* What the instances hold is one shared history: it is a chain, and every row
\* shown as synced is a link of it.
HistoryIsShared == HistoryIsLinear /\ SyncedRowsAreShared

\* A cursor never passes a revision the agent does not hold: it has that
\* revision, a newer one, or a conflict that shows it.
NothingIsSkipped ==
    \A n \in Agents, o \in Ids :
        0 < hub[o].rev /\ hub[o].rev <= member[n].cursor =>
            \/ rows[n][o].rev >= hub[o].rev
            \/ \E r \in rows[n][o].conflict : r.rev >= hub[o].rev

\* "Catch-up does not silently replace a conflicting local draft": only its own
\* user replaces a pending edit; otherwise it stays pending, or the Mainframe
\* has accepted it.
DraftsAreKeptStep ==
    \A n \in Agents, o \in Ids :
        LET row == rows[n][o]
            next == rows'[n][o]
        IN  row.dirty =>
              \/ next.here /\ next.dirty /\ next.val = row.val /\ next.deleted = row.deleted
              \/ \E a \in accepted' : /\ a.proposal.id = o /\ a.proposal.val = row.val
                                      /\ a.proposal.deleted = row.deleted
              \/ UserStep(n, o)
              \/ ChangeRole(n)
DraftsAreKept == [][DraftsAreKeptStep]_msoVars

\* "Late replies from the old membership cannot reattach them": an agent that
\* left holds no shared object.
LeavingDetaches ==
    \A n \in Agents : member[n].role = "standalone" =>
        \A o \in Ids : rows[n][o] = NoRow

\* request takes every pending edit of an agent into one exchange.
EditsFit == \A n \in Agents : Cardinality(Pending(n)) <= Batch

\* While the pending edits fit one exchange, an agent is never asked to choose
\* between a draft and an edit of its own: the receipt answers a repeated proposal,
\* so a lost reply does not turn an accepted edit into a conflict.  An edit is its
\* own in the membership that made it; what an earlier one left behind may come back.
NoConflictWithItself ==
    \A n \in Agents, o \in Ids : \A r \in rows[n][o].conflict :
        ~ \E a \in accepted : /\ a.proposal.id = o /\ a.rev = r.rev
                              /\ a.proposal.node = n /\ a.proposal.epoch = member[n].epoch

\* Once users stop editing, every agent ends up with every shared revision, or
\* with a conflict that waits for its user.
Converged ==
    \A n \in Agents, o \in Ids :
        member[n].role = "agent" =>
            \/ rows[n][o].conflict # {}
            \/ rows[n][o].rev = hub[o].rev /\ ~rows[n][o].dirty
Converges == <>[]Converged
=============================================================================
