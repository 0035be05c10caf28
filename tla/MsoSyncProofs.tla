--------------------------- MODULE MsoSyncProofs ----------------------------
(***************************************************************************)
(* Proofs about MsoSync, for any number of agents, objects, edits and      *)
(* faults and any batch size.                                              *)
(*                                                                         *)
(* Compare-and-swap makes the accepted proposals of an object one chain    *)
(* that ends in the shared revision.  Every record that travels, is shown  *)
(* as a conflict or is held as synced is a link of it, and a reply that    *)
(* still counts answers the request with the agent's present cursor.       *)
(***************************************************************************)
EXTENDS MsoSync, TLAPS, FiniteSetTheorems, WellFoundedInduction

Records == [rev : Nat, val : Nat, deleted : BOOLEAN]

Proposals == [id : Ids, node : Agents \cup {Mainframe}, epoch : Nat, base : Nat, val : Nat,
              deleted : BOOLEAN]

Receipt == [proposal : Proposals, rev : Nat]

Rows == [here : BOOLEAN, val : Nat, rev : Nat, dirty : BOOLEAN, deleted : BOOLEAN,
         sent : SUBSET Proposals, touched : BOOLEAN, conflict : SUBSET Records]

Members == [role : {"agent", "standalone"}, epoch : Nat, cursor : Nat]

Messages == [node : Agents, try : Nat, epoch : Nat, cursor : Nat, proposals : SUBSET Proposals]

Answers == [proposal : Proposals, rev : Nat, remote : Records]

ReplyType(r) ==
    /\ r.epoch \in Nat /\ r.cursor \in Nat /\ r.answers \subseteq Answers
    /\ DOMAIN r.objects \subseteq Ids /\ \A o \in DOMAIN r.objects : r.objects[o] \in Records

MsoTypeOK ==
    /\ hub \in [Ids -> Records]
    /\ sequence \in Nat
    /\ accepted \in SUBSET Receipt
    /\ rows \in [Agents -> [Ids -> Rows]]
    /\ member \in [Agents -> Members]
    /\ wire \in SUBSET Messages
    /\ waiting \in [Agents -> SUBSET Messages]
    /\ reply = [n \in Agents |-> reply[n]] /\ \A n \in Agents : \A r \in reply[n] : ReplyType(r)
    /\ edits \in Nat

\* x is a link of the chain of object o in the history H.
Link(H, o, x) ==
    \E a \in H : /\ a.proposal.id = o /\ a.rev = x.rev
                 /\ a.proposal.val = x.val /\ a.proposal.deleted = x.deleted

\* The shared revision of an object is the last link of its chain.
HubOK ==
    \A o \in Ids : /\ hub[o].rev = 0 => hub[o] = NoRecord
                   /\ hub[o].rev > 0 => Link(accepted, o, hub[o])

HistoryOK ==
    \A a \in accepted : /\ 0 < a.rev /\ a.rev <= sequence
                        /\ a.proposal.base < a.rev
                        /\ a.rev <= hub[a.proposal.id].rev

\* What is known of a row of o, of the proposal it has in flight and of its
\* conflict, when the history is H and the shared revision h.
RowFits(H, h, o, row) ==
    /\ ~row.here => row = NoRow
    /\ row.rev <= h
    /\ \A p \in row.sent :
          /\ p.id = o /\ row.sent = {p} /\ p.base = row.rev
          /\ ~row.touched => p.val = row.val /\ p.deleted = row.deleted
    /\ \A c \in row.conflict :
          Link(H, o, c) /\ row.conflict = {c} /\ row.rev <= c.rev /\ c.rev <= h
    /\ row.here /\ ~row.dirty /\ row.conflict = {} => Link(H, o, row)

\* A row that the cursor has passed holds the shared revision h or shows it.
RowCurrent(h, cursor, row) ==
    0 < h /\ h <= cursor => row.rev >= h \/ \E c \in row.conflict : c.rev >= h

RowsOK ==
    \A n \in Agents, o \in Ids :
        /\ RowFits(accepted, hub[o].rev, o, rows[n][o])
        /\ RowCurrent(hub[o].rev, member[n].cursor, rows[n][o])

\* A request proposes at most one change of an object, none based on the future.
MessageOK(m) ==
    /\ \A p, q \in m.proposals : p.id = q.id => p = q
    /\ \A p \in m.proposals : p.base <= hub[p.id].rev

\* A conflict is never open for a proposal whose answer is awaited.
Undisputed(n, p) == p \in rows[n][p.id].sent => rows[n][p.id].conflict = {}

WaitingOK(n, m) ==
    /\ MessageOK(m) /\ m.node = n /\ m.epoch <= member[n].epoch
    /\ m.epoch = member[n].epoch =>
          m.cursor = member[n].cursor /\ \A p \in m.proposals : Undisputed(n, p)

MessagesOK ==
    /\ \A m \in wire : MessageOK(m)
    /\ \A n \in Agents : \A m \in waiting[n] : WaitingOK(n, m)

\* An acknowledgement repeats a receipt or shows the revision that won.
AnswerOK(H, a) ==
    /\ a.proposal.base <= a.remote.rev
    /\ a.rev > 0 => [proposal |-> a.proposal, rev |-> a.rev] \in H
    /\ a.rev = 0 => Link(H, a.proposal.id, a.remote)

\* A reply to the present membership brings every revision up to its cursor and
\* nothing older than the agent has seen.
Covers(n, r) ==
    /\ r.cursor <= sequence
    /\ \A a \in r.answers : Undisputed(n, a.proposal)
    /\ \A o \in Ids : 0 < hub[o].rev /\ hub[o].rev <= r.cursor =>
           \/ hub[o].rev <= member[n].cursor
           \/ o \in DOMAIN r.objects /\ r.objects[o].rev >= hub[o].rev
    /\ \A o \in DOMAIN r.objects :
           /\ \A c \in rows[n][o].conflict : c.rev <= r.objects[o].rev
           /\ \A a \in r.answers : a.proposal.id = o => a.remote.rev <= r.objects[o].rev

ReplyOK(n, r) ==
    /\ \A a \in r.answers : AnswerOK(accepted, a)
    /\ \A o \in DOMAIN r.objects : Link(accepted, o, r.objects[o])
    /\ r.epoch <= member[n].epoch
    /\ r.epoch = member[n].epoch => Covers(n, r)

RepliesOK == \A n \in Agents : \A r \in reply[n] : ReplyOK(n, r)

CursorsOK == \A n \in Agents : member[n].cursor <= sequence

MsoInv ==
    /\ MsoTypeOK
    /\ HubOK
    /\ HistoryOK
    /\ HistoryIsLinear
    /\ RowsOK
    /\ MessagesOK
    /\ RepliesOK
    /\ CursorsOK
    /\ LeavingDetaches

(***************************************************************************)
(* Record fields.                                                          *)
(***************************************************************************)
\* The fields of what the rows and messages are made of.
LEMMA RecordFields ==
    /\ \A r \in Records : r.rev \in Nat /\ r.val \in Nat /\ r.deleted \in BOOLEAN
    /\ \A p \in Proposals : p.id \in Ids /\ p.base \in Nat /\ p.val \in Nat /\ p.deleted \in BOOLEAN
    /\ \A a \in Receipt : a.proposal \in Proposals /\ a.rev \in Nat
    /\ \A a \in Answers : a.proposal \in Proposals /\ a.rev \in Nat /\ a.remote \in Records
BY DEF Records, Proposals, Receipt, Answers

\* The fields of a row.
LEMMA RowFields ==
    ASSUME NEW row \in Rows
    PROVE  /\ row.here \in BOOLEAN /\ row.val \in Nat /\ row.rev \in Nat /\ row.dirty \in BOOLEAN
           /\ row.deleted \in BOOLEAN /\ row.sent \subseteq Proposals /\ row.touched \in BOOLEAN
           /\ row.conflict \subseteq Records
BY DEF Rows

\* The row of an object the agent does not have.
LEMMA NoRowFields ==
    /\ NoRow \in Rows /\ ~NoRow.here /\ ~NoRow.dirty /\ NoRow.sent = {} /\ NoRow.conflict = {}
    /\ NoRow.rev = 0
BY DEF NoRow, Rows

\* The row that shows a shared revision as synced.
LEMMA SyncedFields ==
    ASSUME NEW r \in Records
    PROVE  /\ SyncedRow(r) \in Rows /\ SyncedRow(r).here /\ ~SyncedRow(r).dirty
           /\ SyncedRow(r).sent = {} /\ SyncedRow(r).conflict = {} /\ SyncedRow(r).rev = r.rev
           /\ SyncedRow(r).val = r.val /\ SyncedRow(r).deleted = r.deleted
BY DEF SyncedRow, NoRow, Rows, Records

(***************************************************************************)
(* Rows.                                                                   *)
(***************************************************************************)
\* A row still fits when the history has grown.
LEMMA RowGrows ==
    ASSUME NEW H, NEW J, H \subseteq J, NEW h \in Nat, NEW k \in Nat, h <= k,
           NEW o \in Ids, NEW row \in Rows, RowFits(H, h, o, row)
    PROVE  RowFits(J, k, o, row)
<1>1. row.rev \in Nat /\ \A c \in row.conflict : c.rev \in Nat
    BY RowFields, RecordFields
<1>2. \A x : Link(H, o, x) => Link(J, o, x)
    BY DEF Link
<1>3. row.rev <= k /\ \A c \in row.conflict : c.rev <= k
    BY <1>1 DEF RowFits
<1>4. QED
    BY <1>2, <1>3 DEF RowFits

\* The chain of o in the history H, up to the shared revision h.
ChainFits(H, h, o) ==
    \A e \in H : e.proposal.id = o => e.proposal.base < e.rev /\ e.rev <= h

\* The Mainframe has accepted the content of a row of o.
WasAccepted(H, o, row) ==
    \E e \in H : /\ e.proposal.id = o /\ e.proposal.val = row.val
                 /\ e.proposal.deleted = row.deleted

\* A draft is still there.
Kept(row, new) ==
    new.here /\ new.dirty /\ new.val = row.val /\ new.deleted = row.deleted

\* What _ack makes of a row: new.
AckFollows(H, h, o, row, a, new) ==
    /\ new \in Rows
    /\ RowFits(H, h, o, new)
    /\ row.rev <= new.rev /\ row.conflict \subseteq new.conflict
    /\ \A c \in new.conflict : c \in row.conflict \/ c = a.remote
    /\ row.here => new.here
    /\ new.val = row.val /\ new.deleted = row.deleted
    /\ row.dirty /\ ~new.dirty => WasAccepted(H, o, row)

\* What _apply makes of a row.
ApplyFollows(H, h, o, row, r, new) ==
    /\ new \in Rows
    /\ RowFits(H, h, o, new)
    /\ new.rev >= r.rev \/ r \in new.conflict
    /\ \/ new.rev >= row.rev /\ new.conflict = {} /\ row.conflict = {}
       \/ new.rev = row.rev /\ new.conflict = {r}
       \/ new = row
    /\ row.dirty => Kept(row, new)

\* What receive makes of a row: what the cursor had passed stays current, what
\* the reply brings is current whatever the cursor.
ReceiveFollows(H, h, o, row, r, new) ==
    /\ new \in Rows
    /\ RowFits(H, h, o, new)
    /\ \A cursor \in Nat : RowCurrent(h, cursor, row) => RowCurrent(h, cursor, new)
    /\ o \in DOMAIN r.objects /\ r.objects[o].rev >= h
       => \A cursor \in Nat : RowCurrent(h, cursor, new)
    /\ row.dirty => Kept(row, new) \/ WasAccepted(H, o, row)

\* The answer to the proposal in flight: an acceptance raises the revision, a
\* refusal opens a conflict, and a draft is lost only to its own acceptance.
LEMMA AckFits ==
    ASSUME NEW H \in SUBSET Receipt, NEW h \in Nat, NEW o \in Ids, NEW row \in Rows,
           RowFits(H, h, o, row),
           ChainFits(H, h, o),
           NEW a \in Answers, a.proposal.id = o, AnswerOK(H, a),
           a.proposal \in row.sent => row.conflict = {}
    PROVE  AckFollows(H, h, o, row, a, Ack(row, a))
<1>1. row.rev \in Nat /\ row.touched \in BOOLEAN /\ row.conflict \subseteq Records
    BY RowFields
<1>2. a.rev \in Nat /\ a.remote \in Records /\ a.remote.rev \in Nat /\ a.proposal \in Proposals
    BY RecordFields
<1>3. CASE row.sent # {a.proposal}
    BY <1>1, <1>3 DEF Ack, AckFollows
<1>4. CASE row.sent = {a.proposal} /\ a.rev > 0
    <2>1. PICK new : new = [row EXCEPT !.rev = a.rev, !.dirty = row.touched, !.sent = {},
                                       !.touched = FALSE]
        OBVIOUS
    <2>2. Ack(row, a) = new
        BY <1>4, <2>1 DEF Ack
    <2>3. /\ new \in Rows /\ new.rev = a.rev /\ new.dirty = row.touched /\ new.sent = {}
          /\ new.conflict = row.conflict /\ new.here = row.here /\ new.val = row.val
          /\ new.deleted = row.deleted
        BY <1>1, <1>2, <2>1 DEF Rows
    <2>4. PICK e \in H : e.proposal = a.proposal /\ e.rev = a.rev
        BY <1>4 DEF AnswerOK
    <2>5. /\ a.proposal.base = row.rev /\ row.conflict = {} /\ row.here
          /\ ~row.touched => a.proposal.val = row.val /\ a.proposal.deleted = row.deleted
        BY <1>4, NoRowFields DEF RowFits
    <2>6. row.rev < a.rev /\ a.rev <= h
        BY <2>4, <2>5 DEF ChainFits
    <2>7. ~row.touched => Link(H, o, new)
        BY <2>3, <2>4, <2>5 DEF Link
    <2>8. RowFits(H, h, o, new)
        BY <2>3, <2>5, <2>6, <2>7 DEF RowFits
    <2>9. row.rev <= a.rev
        BY <1>1, <1>2, <2>6
    <2>10. ~row.touched => WasAccepted(H, o, row)
        BY <2>4, <2>5 DEF WasAccepted
    <2>11. QED
        BY <2>2, <2>3, <2>5, <2>8, <2>9, <2>10 DEF AckFollows
<1>5. CASE row.sent = {a.proposal} /\ ~(a.rev > 0)
    <2>1. PICK new : new = [row EXCEPT !.conflict = {a.remote}, !.sent = {}, !.touched = FALSE]
        OBVIOUS
    <2>2. Ack(row, a) = new
        BY <1>5, <2>1 DEF Ack
    <2>3. /\ new \in Rows /\ new.rev = row.rev /\ new.dirty = row.dirty /\ new.sent = {}
          /\ new.conflict = {a.remote} /\ new.here = row.here /\ new.val = row.val
          /\ new.deleted = row.deleted
        BY <1>1, <1>2, <2>1 DEF Rows
    <2>4. Link(H, o, a.remote) /\ a.proposal.base <= a.remote.rev
        BY <1>2, <1>5 DEF AnswerOK
    <2>5. a.proposal.base = row.rev /\ row.conflict = {} /\ row.here
        BY <1>5, NoRowFields DEF RowFits
    <2>6. a.remote.rev <= h
        BY <2>4 DEF Link, ChainFits
    <2>7. RowFits(H, h, o, new)
        BY <2>3, <2>4, <2>5, <2>6 DEF RowFits
    <2>8. QED
        BY <1>1, <2>2, <2>3, <2>5, <2>7 DEF AckFollows
<1>6. QED
    BY <1>3, <1>4, <1>5

\* A revision from the Mainframe: it opens a conflict with a draft, and only
\* replaces a row that is synced.
LEMMA ApplyFits ==
    ASSUME NEW H, NEW h \in Nat, NEW o \in Ids, NEW row \in Rows, RowFits(H, h, o, row),
           NEW r \in Records, Link(H, o, r), r.rev <= h, \A c \in row.conflict : c.rev <= r.rev
    PROVE  ApplyFollows(H, h, o, row, r, Apply(row, r))
<1>1. /\ row.rev \in Nat /\ row.here \in BOOLEAN /\ row.dirty \in BOOLEAN /\ row.touched \in BOOLEAN
      /\ row.sent \subseteq Proposals /\ r.rev \in Nat
    BY RowFields, RecordFields
<1>2. row.dirty \/ row.conflict # {} => row.here
    BY NoRowFields DEF RowFits
<1>3. CASE row.here /\ r.rev <= row.rev
    BY <1>1, <1>2, <1>3 DEF Apply, ApplyFollows, Kept
<1>4. CASE row.here /\ ~(r.rev <= row.rev) /\ (row.dirty \/ row.conflict # {})
    <2>1. PICK t \in BOOLEAN : t = (row.sent # {} /\ (row.touched \/ row.conflict # {r}))
        OBVIOUS
    <2>2. PICK new : new = [row EXCEPT !.conflict = {r}, !.touched = t]
        OBVIOUS
    <2>3. Apply(row, r) = new
        BY <1>4, <2>1, <2>2 DEF Apply
    <2>4. /\ new \in Rows /\ new.rev = row.rev /\ new.dirty = row.dirty /\ new.sent = row.sent
          /\ new.conflict = {r} /\ new.here = row.here /\ new.val = row.val /\ new.touched = t
          /\ new.deleted = row.deleted
        BY <2>2 DEF Rows
    <2>5. row.sent # {} /\ ~t => ~row.touched
        BY <2>1
    <2>6. RowFits(H, h, o, new)
        BY <1>1, <1>4, <2>4, <2>5 DEF RowFits
    <2>7. new.here /\ r \in new.conflict
        BY <1>4, <2>4
    <2>8. QED
        BY <2>3, <2>4, <2>6, <2>7 DEF ApplyFollows, Kept
<1>5. CASE ~(row.here /\ r.rev <= row.rev) /\ ~(row.here /\ (row.dirty \/ row.conflict # {}))
    <2>1. Apply(row, r) = SyncedRow(r)
        BY <1>5 DEF Apply
    <2>2. Link(H, o, SyncedRow(r))
        BY SyncedFields DEF Link
    <2>3. RowFits(H, h, o, SyncedRow(r))
        BY <2>2, SyncedFields DEF RowFits
    <2>4. ~row.dirty /\ row.conflict = {}
        BY <1>1, <1>2, <1>5
    <2>5. row.rev <= r.rev
        BY <1>1, <1>5, NoRowFields DEF RowFits
    <2>6. QED
        BY <1>1, <2>1, <2>3, <2>4, <2>5, SyncedFields DEF ApplyFollows
<1>6. QED
    BY <1>1, <1>3, <1>4, <1>5

\* What a reply that counts says of the object o, against the row it meets.
ReplyFits(H, o, row, r) ==
    /\ \A a \in r.answers :
          /\ AnswerOK(H, a)
          /\ a.proposal.id = o /\ a.proposal \in row.sent => row.conflict = {}
    /\ o \in DOMAIN r.objects =>
          /\ Link(H, o, r.objects[o])
          /\ \A c \in row.conflict : c.rev <= r.objects[o].rev
          /\ \A a \in r.answers : a.proposal.id = o => a.remote.rev <= r.objects[o].rev

\* receive changes a row to one that fits; a row the cursor had passed is still
\* current, one the reply brings is current whatever the cursor, and a draft
\* stays pending unless the Mainframe has accepted it.
LEMMA ReceivedFits ==
    ASSUME NEW H \in SUBSET Receipt, NEW h \in Nat, NEW o \in Ids, NEW row \in Rows,
           RowFits(H, h, o, row),
           ChainFits(H, h, o), NEW r, ReplyType(r), ReplyFits(H, o, row, r)
    PROVE  ReceiveFollows(H, h, o, row, r, Received(row, o, r))
<1>1. PICK acked : acked = IF \E a \in r.answers : a.proposal.id = o
                           THEN Ack(row, CHOOSE a \in r.answers : a.proposal.id = o) ELSE row
    OBVIOUS
<1>2. Received(row, o, r) = IF o \in DOMAIN r.objects THEN Apply(acked, r.objects[o]) ELSE acked
    BY <1>1 DEF Received
<1>3. row.rev \in Nat /\ row.here \in BOOLEAN /\ row.dirty \in BOOLEAN /\ row.conflict \subseteq Records
    BY RowFields
<1>4. row.dirty => row.here
    BY NoRowFields DEF RowFits
<1>5. /\ acked \in Rows /\ RowFits(H, h, o, acked)
      /\ row.rev <= acked.rev /\ row.conflict \subseteq acked.conflict
      /\ \A c \in acked.conflict :
            c \in row.conflict \/ \E a \in r.answers : a.proposal.id = o /\ c = a.remote
      /\ row.here => acked.here
      /\ acked.val = row.val /\ acked.deleted = row.deleted
      /\ row.dirty /\ ~acked.dirty => WasAccepted(H, o, row)
    <2>1. CASE ~ \E a \in r.answers : a.proposal.id = o
        BY <1>1, <1>3, <2>1
    <2>2. CASE \E a \in r.answers : a.proposal.id = o
        <3>1. PICK a : a = CHOOSE x \in r.answers : x.proposal.id = o
            OBVIOUS
        <3>2. a \in r.answers /\ a.proposal.id = o /\ a \in Answers
            BY <2>2, <3>1 DEF ReplyType
        <3>3. acked = Ack(row, a)
            BY <1>1, <2>2, <3>1
        <3>4. AnswerOK(H, a) /\ (a.proposal \in row.sent => row.conflict = {})
            BY <3>2 DEF ReplyFits
        <3>5. AckFollows(H, h, o, row, a, Ack(row, a))
            BY <3>2, <3>4, AckFits
        <3>6. QED
            BY <3>2, <3>3, <3>5 DEF AckFollows
    <2>3. QED
        BY <2>1, <2>2
<1>6. \A cursor \in Nat : RowCurrent(h, cursor, row) => RowCurrent(h, cursor, acked)
    <2>1. acked.rev \in Nat
        BY <1>5, RowFields
    <2>2. QED
        BY <1>3, <1>5, <2>1 DEF RowCurrent
<1>7. CASE o \notin DOMAIN r.objects
    BY <1>2, <1>4, <1>5, <1>6, <1>7 DEF ReceiveFollows, Kept
<1>8. CASE o \in DOMAIN r.objects
    <2>1. PICK x : x = r.objects[o]
        OBVIOUS
    <2>2. x \in Records /\ Link(H, o, x) /\ Received(row, o, r) = Apply(acked, x) /\ x.rev \in Nat
        BY <1>2, <1>8, <2>1, RecordFields DEF ReplyType, ReplyFits
    <2>3. x.rev <= h
        BY <2>2 DEF Link, ChainFits
    <2>4. \A c \in acked.conflict : c.rev <= x.rev
        BY <1>5, <1>8, <2>1 DEF ReplyFits
    <2>5. PICK new : new = Apply(acked, x)
        OBVIOUS
    <2>6. /\ new \in Rows /\ RowFits(H, h, o, new)
          /\ new.rev >= x.rev \/ x \in new.conflict
          /\ \/ new.rev >= acked.rev /\ new.conflict = {} /\ acked.conflict = {}
             \/ new.rev = acked.rev /\ new.conflict = {x}
             \/ new = acked
          /\ acked.dirty => Kept(acked, new)
        <3>1. acked \in Rows /\ RowFits(H, h, o, acked)
            BY <1>5
        <3>2. ApplyFollows(H, h, o, acked, x, Apply(acked, x))
            BY <2>2, <2>3, <2>4, <3>1, ApplyFits
        <3>3. QED
            BY <2>5, <3>2 DEF ApplyFollows
    <2>7. /\ new.rev \in Nat /\ acked.rev \in Nat /\ acked.conflict \subseteq Records
          /\ \A c \in acked.conflict : c.rev \in Nat
        BY <1>5, <2>6, RowFields, RecordFields
    <2>8. \A cursor \in Nat : RowCurrent(h, cursor, acked) => RowCurrent(h, cursor, new)
        <3>1. SUFFICES ASSUME NEW cursor \in Nat, 0 < h /\ h <= cursor,
                              acked.rev >= h \/ \E c \in acked.conflict : c.rev >= h
                       PROVE  new.rev >= h \/ \E c \in new.conflict : c.rev >= h
            BY DEF RowCurrent
        <3>2. CASE new = acked
            BY <3>1, <3>2
        <3>3. CASE new.rev >= acked.rev /\ new.conflict = {} /\ acked.conflict = {}
            BY <2>7, <3>1, <3>3
        <3>4. CASE new.rev = acked.rev /\ new.conflict = {x}
            BY <2>2, <2>4, <2>7, <3>1, <3>4
        <3>5. QED
            BY <2>6, <3>2, <3>3, <3>4
    <2>9. x.rev >= h => \A cursor \in Nat : RowCurrent(h, cursor, new)
        BY <2>2, <2>6, <2>7 DEF RowCurrent
    <2>10. Received(row, o, r) = new
        BY <2>2, <2>5
    <2>11. row.dirty => Kept(row, new) \/ WasAccepted(H, o, row)
        BY <1>5, <2>6 DEF Kept
    <2>12. QED
        BY <1>6, <2>1, <2>6, <2>8, <2>9, <2>10, <2>11 DEF ReceiveFollows
<1>9. QED
    BY <1>7, <1>8

(***************************************************************************)
(* The chain.                                                              *)
(***************************************************************************)
\* The history only grows, and a shared revision changes to one never seen.
HubStep ==
    /\ accepted \subseteq accepted' /\ sequence <= sequence'
    /\ \A o \in Ids : hub'[o] = hub[o] \/ hub'[o].rev > sequence

\* A shared revision was given out.
LEMMA HubBound ==
    ASSUME MsoTypeOK, HubOK, HistoryOK, NEW o \in Ids
    PROVE  /\ hub[o] \in Records /\ hub[o].rev \in Nat /\ hub[o].rev <= sequence
           /\ sequence \in Nat
<1>1. hub[o] \in Records /\ sequence \in Nat /\ accepted \subseteq Receipt
    BY DEF MsoTypeOK
<1>2. hub[o].rev \in Nat
    BY <1>1, RecordFields
<1>3. CASE hub[o].rev > 0
    <2>1. PICK a \in accepted : a.rev = hub[o].rev
        BY <1>3 DEF HubOK, Link
    <2>2. QED
        BY <1>1, <1>2, <2>1 DEF HistoryOK
<1>4. QED
    BY <1>1, <1>2, <1>3

\* What a receipt says.
LEMMA ReceiptFacts ==
    ASSUME MsoTypeOK, HistoryOK, NEW a \in accepted
    PROVE  /\ a.rev \in Nat /\ a.proposal \in Proposals /\ a.proposal.id \in Ids
           /\ a.proposal.base \in Nat /\ a.proposal.deleted \in BOOLEAN
           /\ a = [proposal |-> a.proposal, rev |-> a.rev]
           /\ 0 < a.rev /\ a.rev <= sequence /\ a.proposal.base < a.rev
           /\ hub[a.proposal.id].rev \in Nat /\ a.rev <= hub[a.proposal.id].rev
<1>1. a \in Receipt /\ hub \in [Ids -> Records]
    BY DEF MsoTypeOK
<1>2. a = [proposal |-> a.proposal, rev |-> a.rev]
    BY <1>1 DEF Receipt
<1>3. a.rev \in Nat /\ a.proposal \in Proposals
    BY <1>1, RecordFields
<1>4. a.proposal.id \in Ids /\ a.proposal.base \in Nat /\ a.proposal.deleted \in BOOLEAN
    BY <1>3, RecordFields
<1>5. hub[a.proposal.id].rev \in Nat
    BY <1>1, <1>4, RecordFields
<1>6. QED
    BY <1>2, <1>3, <1>4, <1>5 DEF HistoryOK

\* A link of the chain of an object is no newer than its shared revision.
LEMMA LinkBound ==
    ASSUME MsoTypeOK, HistoryOK, NEW o \in Ids, NEW x, Link(accepted, o, x)
    PROVE  x.rev \in Nat /\ 0 < x.rev /\ x.rev <= hub[o].rev
<1>1. PICK a \in accepted : a.proposal.id = o /\ a.rev = x.rev
    BY DEF Link
<1>2. QED
    BY <1>1, ReceiptFacts

\* Nothing follows a deletion: the chain of an object that is not deleted has
\* no deleted link, and every link is known before the next is based on it.
LEMMA ChainEnd ==
    ASSUME MsoTypeOK, HubOK, HistoryOK, HistoryIsLinear,
           NEW c \in accepted, ~hub[c.proposal.id].deleted
    PROVE  ~c.proposal.deleted
<1>1. PICK o \in Ids : o = c.proposal.id
    BY ReceiptFacts
<1>2. /\ c.rev \in Nat /\ 0 < c.rev /\ c.rev <= hub[o].rev /\ c.proposal.deleted \in BOOLEAN
      /\ hub[o].rev \in Nat
    BY <1>1, ReceiptFacts
<1>3. PICK e \in accepted : /\ e.proposal.id = o /\ e.rev = hub[o].rev
                            /\ e.proposal.deleted = hub[o].deleted
    BY <1>1, <1>2 DEF HubOK, Link
<1>4. CASE c = e
    BY <1>1, <1>3, <1>4
<1>5. CASE c # e
    <2>1. c.rev # e.rev /\ (c.rev < e.rev => ~c.proposal.deleted)
        BY <1>1, <1>3, <1>5 DEF HistoryIsLinear
    <2>2. QED
        BY <1>2, <1>3, <2>1
<1>6. QED
    BY <1>4, <1>5

\* Accepting proposals that are neither known nor stale extends the chains.
LEMMA AcceptExtends ==
    ASSUME MsoTypeOK, HubOK, HistoryOK, HistoryIsLinear,
           NEW S \in SUBSET Proposals, IsFiniteSet(S), NEW f \in Numberings(S), AcceptAll(S, f),
           \A p, q \in S : p.id = q.id => p = q,
           \A p \in S : p.base = hub[p.id].rev /\ ~hub[p.id].deleted /\ Receipts(p) = {}
    PROVE  /\ HubStep /\ HubOK' /\ HistoryOK' /\ HistoryIsLinear'
           /\ hub' \in [Ids -> Records] /\ sequence' \in Nat /\ accepted' \in SUBSET Receipt
           /\ \A p \in S : /\ hub'[p.id].rev \in Nat /\ hub'[p.id].rev > 0
                           /\ [proposal |-> p, rev |-> hub'[p.id].rev] \in accepted'
<1>1. /\ hub \in [Ids -> Records] /\ sequence \in Nat /\ accepted \in SUBSET Receipt
      /\ Cardinality(S) \in Nat
    BY FS_CardinalityType DEF MsoTypeOK
<1>2. ASSUME NEW p \in S
      PROVE  /\ f[p] \in Nat /\ 1 <= f[p] /\ f[p] <= Cardinality(S)
             /\ sequence + f[p] \in Nat /\ sequence + f[p] > sequence
             /\ sequence + f[p] <= sequence + Cardinality(S)
             /\ p \in Proposals /\ p.id \in Ids /\ p.base \in Nat /\ p.val \in Nat /\ p.deleted \in BOOLEAN
    <2>1. f[p] \in 1..Cardinality(S)
        BY DEF Numberings
    <2>2. p \in Proposals
        OBVIOUS
    <2>3. p.id \in Ids /\ p.base \in Nat /\ p.val \in Nat /\ p.deleted \in BOOLEAN
        BY <2>2, RecordFields
    <2>4. QED
        BY <1>1, <2>1, <2>3
<1>3. sequence' = sequence + Cardinality(S)
    BY DEF AcceptAll
<1>4. accepted' = accepted \cup {[proposal |-> p, rev |-> sequence + f[p]] : p \in S}
    BY DEF AcceptAll
<1>5. ASSUME NEW p \in S
      PROVE  /\ hub'[p.id] \in Records
             /\ hub'[p.id].rev = sequence + f[p] /\ hub'[p.id].val = p.val
             /\ hub'[p.id].deleted = p.deleted
    <2>1. PICK q : q = CHOOSE x \in S : x.id = p.id
        OBVIOUS
    <2>2. q \in S /\ q.id = p.id
        BY <2>1
    <2>3. q = p
        BY <2>2
    <2>4. hub'[p.id] = [rev |-> sequence + f[p], val |-> p.val, deleted |-> p.deleted]
        BY <1>2, <2>1, <2>3 DEF AcceptAll
    <2>5. QED
        BY <1>2, <2>4 DEF Records
<1>6. \A o \in Ids : (~ \E p \in S : p.id = o) => hub'[o] = hub[o]
    BY DEF AcceptAll
<1>7. hub' \in [Ids -> Records]
    <2>1. hub' = [o \in Ids |-> hub'[o]]
        BY DEF AcceptAll
    <2>2. ASSUME NEW o \in Ids
          PROVE  hub'[o] \in Records
        BY <1>1, <1>5, <1>6
    <2>3. QED
        BY <2>1, <2>2
<1>8. accepted' \in SUBSET Receipt
    <2>1. \A p \in S : [proposal |-> p, rev |-> sequence + f[p]] \in Receipt
        BY <1>2 DEF Receipt
    <2>2. QED
        BY <1>1, <1>4, <2>1
<1>9. ASSUME NEW o \in Ids
      PROVE  hub'[o] = hub[o] \/ hub'[o].rev > sequence
    BY <1>2, <1>5, <1>6
<1>10. HubStep
    BY <1>1, <1>3, <1>4, <1>9 DEF HubStep
<1>11. ASSUME NEW p \in S
       PROVE  /\ hub'[p.id].rev \in Nat /\ hub'[p.id].rev > 0
              /\ [proposal |-> p, rev |-> hub'[p.id].rev] \in accepted'
    <2>1. [proposal |-> p, rev |-> sequence + f[p]] \in accepted'
        BY <1>4
    <2>2. hub'[p.id].rev = sequence + f[p]
        BY <1>5
    <2>3. QED
        BY <1>1, <1>2, <2>1, <2>2
<1>12. HubOK'
    <2>1. ASSUME NEW o \in Ids
          PROVE  /\ hub'[o].rev = 0 => hub'[o] = NoRecord
                 /\ hub'[o].rev > 0 => Link(accepted', o, hub'[o])
        <3>1. CASE \E p \in S : p.id = o
            <4>1. PICK p \in S : p.id = o
                BY <3>1
            <4>2. PICK b \in accepted' : b = [proposal |-> p, rev |-> hub'[p.id].rev]
                BY <1>11
            <4>3. Link(accepted', o, hub'[o])
                BY <1>5, <4>1, <4>2 DEF Link
            <4>4. hub'[o].rev \in Nat /\ hub'[o].rev > 0
                BY <1>11, <4>1
            <4>5. QED
                BY <4>3, <4>4
        <3>2. CASE ~ \E p \in S : p.id = o
            <4>1. hub'[o] = hub[o]
                BY <1>6, <3>2
            <4>2. QED
                BY <1>4, <4>1 DEF HubOK, Link
        <3>3. QED
            BY <3>1, <3>2
    <2>2. QED
        BY <2>1 DEF HubOK
<1>13. ASSUME NEW b \in accepted', b \notin accepted
       PROVE  \E p \in S : b = [proposal |-> p, rev |-> hub'[p.id].rev]
    BY <1>4, <1>5, <1>13
<1>14. HistoryOK'
    <2>1. ASSUME NEW b \in accepted'
          PROVE  /\ 0 < b.rev /\ b.rev <= sequence'
                 /\ b.proposal.base < b.rev /\ b.rev <= hub'[b.proposal.id].rev
        <3>1. CASE b \in accepted
            <4>1. PICK o \in Ids : o = b.proposal.id
                BY <3>1, ReceiptFacts
            <4>2. /\ b.rev \in Nat /\ 0 < b.rev /\ b.rev <= sequence /\ b.proposal.base < b.rev
                  /\ b.rev <= hub[o].rev /\ hub[o].rev \in Nat
                BY <3>1, <4>1, ReceiptFacts
            <4>3. hub'[o].rev \in Nat /\ (hub'[o] = hub[o] \/ hub'[o].rev > sequence)
                BY <1>7, <1>9, RecordFields
            <4>4. b.rev <= hub'[o].rev
                BY <1>1, <4>2, <4>3
            <4>5. b.rev <= sequence'
                BY <1>1, <1>3, <4>2
            <4>6. QED
                BY <4>1, <4>2, <4>4, <4>5
        <3>2. CASE b \notin accepted
            <4>1. PICK p \in S : b = [proposal |-> p, rev |-> hub'[p.id].rev]
                BY <1>13, <3>2
            <4>2. p.id \in Ids /\ p.base = hub[p.id].rev /\ p.base \in Nat
                BY <1>2
            <4>3. p.base <= sequence
                BY <4>2, HubBound
            <4>4. b.rev = sequence + f[p] /\ b.proposal = p
                BY <1>5, <4>1
            <4>5. b.rev <= hub'[p.id].rev
                BY <1>2, <1>5, <4>4
            <4>6. QED
                BY <1>1, <1>2, <1>3, <4>2, <4>3, <4>4, <4>5
        <3>3. QED
            BY <3>1, <3>2
    <2>2. QED
        BY <2>1 DEF HistoryOK
<1>15. HistoryIsLinear'
    <2>1. SUFFICES ASSUME NEW a \in accepted', NEW b \in accepted',
                          a # b, a.proposal.id = b.proposal.id
                   PROVE  /\ a.proposal # b.proposal
                          /\ a.rev # b.rev
                          /\ a.rev < b.rev => ~a.proposal.deleted /\ b.proposal.base >= a.rev
        BY DEF HistoryIsLinear
    <2>2. CASE a \in accepted /\ b \in accepted
        BY <2>1, <2>2 DEF HistoryIsLinear
    <2>3. ASSUME NEW c \in accepted, NEW p \in S, c.proposal.id = p.id
          PROVE  /\ c.proposal # p /\ c.rev \in Nat /\ c.rev < sequence + f[p]
                 /\ ~c.proposal.deleted /\ p.base >= c.rev
        <3>1. c.proposal # p
            BY DEF Receipts
        <3>2. /\ c.rev \in Nat /\ c.rev <= sequence /\ c.rev <= hub[p.id].rev
            BY <2>3, ReceiptFacts
        <3>3. p.base = hub[p.id].rev /\ ~hub[p.id].deleted
            OBVIOUS
        <3>4. ~c.proposal.deleted
            BY <2>3, <3>3, ChainEnd
        <3>5. c.rev < sequence + f[p]
            BY <1>1, <1>2, <3>2
        <3>6. p.base >= c.rev
            BY <1>2, <3>2, <3>3
        <3>7. QED
            BY <3>1, <3>2, <3>4, <3>5, <3>6
    <2>4. CASE a \in accepted /\ b \notin accepted
        <3>1. PICK p \in S : b = [proposal |-> p, rev |-> hub'[p.id].rev]
            BY <1>13, <2>4
        <3>2. b.proposal = p /\ b.rev = sequence + f[p] /\ sequence + f[p] \in Nat
            BY <1>2, <1>5, <3>1
        <3>3. QED
            BY <2>1, <2>3, <2>4, <3>2
    <2>5. CASE b \in accepted /\ a \notin accepted
        <3>1. PICK p \in S : a = [proposal |-> p, rev |-> hub'[p.id].rev]
            BY <1>13, <2>5
        <3>2. a.proposal = p /\ a.rev = sequence + f[p] /\ sequence + f[p] \in Nat
            BY <1>2, <1>5, <3>1
        <3>3. QED
            BY <2>1, <2>3, <2>5, <3>2
    <2>6. CASE a \notin accepted /\ b \notin accepted
        <3>1. PICK p \in S : a = [proposal |-> p, rev |-> hub'[p.id].rev]
            BY <1>13, <2>6
        <3>2. PICK q \in S : b = [proposal |-> q, rev |-> hub'[q.id].rev]
            BY <1>13, <2>6
        <3>3. QED
            BY <2>1, <3>1, <3>2
    <2>7. QED
        BY <2>2, <2>4, <2>5, <2>6
<1>16. sequence' \in Nat
    BY <1>1, <1>3
<1>17. QED
    BY <1>7, <1>8, <1>10, <1>11, <1>12, <1>14, <1>15, <1>16

(***************************************************************************)
(* What a step of the Mainframe, or of one agent, leaves in place.         *)
(***************************************************************************)
\* A request stays well formed while the shared revisions advance.
LEMMA MessageKeeps ==
    ASSUME MsoTypeOK, HubOK, HistoryOK, HubStep, hub' \in [Ids -> Records],
           NEW m, m.proposals \subseteq Proposals, MessageOK(m)
    PROVE  MessageOK(m)'
<1>1. ASSUME NEW p \in m.proposals
      PROVE  p.base <= hub'[p.id].rev
    <2>1. p.id \in Ids /\ p.base \in Nat /\ p.base <= hub[p.id].rev
        BY RecordFields DEF MessageOK
    <2>2. hub[p.id].rev \in Nat /\ hub[p.id].rev <= sequence /\ sequence \in Nat
        BY <2>1, HubBound
    <2>3. hub'[p.id].rev \in Nat /\ (hub'[p.id] = hub[p.id] \/ hub'[p.id].rev > sequence)
        BY <2>1, RecordFields DEF HubStep
    <2>4. QED
        BY <2>1, <2>2, <2>3
<1>2. QED
    BY <1>1 DEF MessageOK

\* The revision of an object never falls.
LEMMA HubRises ==
    ASSUME MsoTypeOK, HubOK, HistoryOK, HubStep, hub' \in [Ids -> Records], NEW o \in Ids
    PROVE  hub'[o].rev \in Nat /\ hub[o].rev \in Nat /\ hub[o].rev <= hub'[o].rev
<1>1. hub[o].rev \in Nat /\ hub[o].rev <= sequence /\ sequence \in Nat
    BY HubBound
<1>2. hub'[o].rev \in Nat /\ (hub'[o] = hub[o] \/ hub'[o].rev > sequence)
    BY RecordFields DEF HubStep
<1>3. QED
    BY <1>1, <1>2

\* New revisions lie beyond every cursor, so a step of the Mainframe disturbs
\* neither what the agents hold nor the answers on their way.
LEMMA MainframeStep ==
    ASSUME MsoInv, HubStep, HubOK', HistoryOK', HistoryIsLinear',
           hub' \in [Ids -> Records], sequence' \in Nat, accepted' \in SUBSET Receipt,
           UNCHANGED <<rows, member, waiting>>, wire' \subseteq wire, edits' \in Nat,
           reply' = [n \in Agents |-> reply'[n]],
           \A n \in Agents : \A r \in reply'[n] : r \in reply[n] \/ (ReplyType(r) /\ ReplyOK(n, r)')
    PROVE  MsoInv'
<1>1. /\ MsoTypeOK /\ HubOK /\ HistoryOK /\ RowsOK /\ MessagesOK /\ RepliesOK /\ CursorsOK
      /\ LeavingDetaches
    BY DEF MsoInv
<1>2. /\ rows' = rows /\ member' = member /\ waiting' = waiting /\ rows \in [Agents -> [Ids -> Rows]]
      /\ member \in [Agents -> Members] /\ sequence \in Nat /\ accepted \subseteq accepted'
      /\ sequence <= sequence'
    BY <1>1 DEF MsoTypeOK, HubStep
<1>3. \A n \in Agents : member[n].cursor \in Nat /\ member[n].cursor <= sequence
    BY <1>1, <1>2 DEF CursorsOK, Members
<1>4. MsoTypeOK'
    BY <1>1, <1>2 DEF MsoTypeOK
<1>5. RowsOK'
    <2>1. ASSUME NEW n \in Agents, NEW o \in Ids
          PROVE  /\ RowFits(accepted', hub'[o].rev, o, rows[n][o])
                 /\ RowCurrent(hub'[o].rev, member[n].cursor, rows[n][o])
        <3>1. /\ RowFits(accepted, hub[o].rev, o, rows[n][o])
              /\ RowCurrent(hub[o].rev, member[n].cursor, rows[n][o])
            BY <1>1 DEF RowsOK
        <3>2. rows[n][o] \in Rows
            BY <1>2
        <3>3. hub'[o].rev \in Nat /\ hub[o].rev \in Nat /\ hub[o].rev <= hub'[o].rev
            BY <1>1, HubRises
        <3>4. RowFits(accepted', hub'[o].rev, o, rows[n][o])
            BY <1>2, <3>1, <3>2, <3>3, RowGrows
        <3>5. hub'[o] = hub[o] \/ ~(hub'[o].rev <= member[n].cursor)
            BY <1>2, <1>3, <3>3 DEF HubStep
        <3>6. RowCurrent(hub'[o].rev, member[n].cursor, rows[n][o])
            BY <3>1, <3>5 DEF RowCurrent
        <3>7. QED
            BY <3>4, <3>6
    <2>2. QED
        BY <1>2, <2>1 DEF RowsOK
<1>6. MessagesOK'
    <2>1. ASSUME NEW m \in wire
          PROVE  MessageOK(m)'
        <3>1. m.proposals \subseteq Proposals /\ MessageOK(m)
            BY <1>1 DEF MsoTypeOK, Messages, MessagesOK
        <3>2. QED
            BY <1>1, <3>1, MessageKeeps
    <2>2. ASSUME NEW n \in Agents, NEW m \in waiting[n]
          PROVE  WaitingOK(n, m)'
        <3>1. m.proposals \subseteq Proposals /\ WaitingOK(n, m)
            BY <1>1 DEF MsoTypeOK, Messages, MessagesOK
        <3>2. MessageOK(m)'
            BY <1>1, <3>1, MessageKeeps DEF WaitingOK
        <3>3. QED
            BY <1>2, <3>1, <3>2 DEF WaitingOK, Undisputed
    <2>3. QED
        BY <1>2, <2>1, <2>2 DEF MessagesOK
<1>7. RepliesOK'
    <2>1. SUFFICES ASSUME NEW n \in Agents, NEW r \in reply[n]
                   PROVE  ReplyOK(n, r)'
        BY DEF RepliesOK
    <2>2. ReplyOK(n, r) /\ ReplyType(r)
        BY <1>1 DEF RepliesOK, MsoTypeOK
    <2>3. \A a \in r.answers : AnswerOK(accepted', a)
        <3>1. SUFFICES ASSUME NEW a \in r.answers
                       PROVE  AnswerOK(accepted', a)
            OBVIOUS
        <3>2. AnswerOK(accepted, a)
            BY <2>2 DEF ReplyOK
        <3>3. Link(accepted, a.proposal.id, a.remote) => Link(accepted', a.proposal.id, a.remote)
            BY <1>2 DEF Link
        <3>4. QED
            BY <1>2, <3>2, <3>3 DEF AnswerOK
    <2>4. \A o \in DOMAIN r.objects : Link(accepted', o, r.objects[o])
        BY <1>2, <2>2 DEF ReplyOK, Link
    <2>5. ASSUME Covers(n, r)
          PROVE  Covers(n, r)'
        <3>1. r.cursor \in Nat /\ r.cursor <= sequence /\ r.cursor <= sequence'
            BY <1>2, <2>2, <2>5 DEF Covers, ReplyType
        <3>2. ASSUME NEW o \in Ids, 0 < hub'[o].rev, hub'[o].rev <= r.cursor
              PROVE  \/ hub'[o].rev <= member[n].cursor
                     \/ o \in DOMAIN r.objects /\ r.objects[o].rev >= hub'[o].rev
            <4>1. hub'[o].rev \in Nat
                BY RecordFields
            <4>2. hub'[o] = hub[o]
                BY <1>2, <3>1, <3>2, <4>1 DEF HubStep
            <4>3. QED
                BY <2>5, <3>2, <4>2 DEF Covers
        <3>3. QED
            BY <1>2, <2>5, <3>1, <3>2 DEF Covers, Undisputed
    <2>6. QED
        BY <1>2, <2>2, <2>3, <2>4, <2>5 DEF ReplyOK
<1>8. CursorsOK'
    BY <1>2, <1>3 DEF CursorsOK
<1>9. LeavingDetaches'
    BY <1>1, <1>2 DEF LeavingDetaches
<1>10. QED
    BY <1>4, <1>5, <1>6, <1>7, <1>8, <1>9 DEF MsoInv

\* A step of one agent: what it must establish about itself is enough.
LEMMA AgentStep ==
    ASSUME MsoInv, NEW n \in Agents, UNCHANGED hubVars,
           rows' \in [Agents -> [Ids -> Rows]], member' \in [Agents -> Members],
           wire' \in SUBSET Messages, waiting' \in [Agents -> SUBSET Messages],
           reply' = [k \in Agents |-> reply'[k]], reply'[n] \subseteq reply[n], edits' \in Nat,
           \A k \in Agents \ {n} : /\ rows'[k] = rows[k] /\ member'[k] = member[k]
                                   /\ waiting'[k] = waiting[k] /\ reply'[k] = reply[k],
           \A o \in Ids : /\ RowFits(accepted, hub[o].rev, o, rows'[n][o])
                          /\ RowCurrent(hub[o].rev, member'[n].cursor, rows'[n][o]),
           member'[n].cursor <= sequence,
           member'[n].role = "standalone" => \A o \in Ids : rows'[n][o] = NoRow,
           \A m \in wire' : MessageOK(m),
           \A m \in waiting'[n] : WaitingOK(n, m)',
           \A r \in reply'[n] : ReplyOK(n, r)'
    PROVE  MsoInv'
<1>1. /\ MsoTypeOK /\ HubOK /\ HistoryOK /\ HistoryIsLinear /\ RowsOK /\ MessagesOK /\ RepliesOK
      /\ CursorsOK /\ LeavingDetaches
    BY DEF MsoInv
<1>2. hub' = hub /\ sequence' = sequence /\ accepted' = accepted
    BY DEF hubVars
<1>3. MsoTypeOK'
    BY <1>1, <1>2 DEF MsoTypeOK
<1>4. HubOK' /\ HistoryOK' /\ HistoryIsLinear'
    BY <1>1, <1>2 DEF HubOK, HistoryOK, HistoryIsLinear
<1>5. RowsOK'
    BY <1>1, <1>2 DEF RowsOK
<1>6. MessagesOK'
    <2>1. \A m \in wire' : MessageOK(m)'
        BY <1>2 DEF MessageOK
    <2>2. ASSUME NEW k \in Agents \ {n}, NEW m \in waiting[k]
          PROVE  WaitingOK(k, m)'
        <3>1. WaitingOK(k, m)
            BY <1>1 DEF MessagesOK
        <3>2. QED
            BY <1>2, <3>1 DEF WaitingOK, MessageOK, Undisputed
    <2>3. QED
        BY <2>1, <2>2 DEF MessagesOK
<1>7. RepliesOK'
    <2>1. ASSUME NEW k \in Agents \ {n}, NEW r \in reply[k]
          PROVE  ReplyOK(k, r)'
        <3>1. ReplyOK(k, r)
            BY <1>1 DEF RepliesOK
        <3>2. Covers(k, r) => Covers(k, r)'
            BY <1>2 DEF Covers, Undisputed
        <3>3. QED
            BY <1>2, <3>1, <3>2 DEF ReplyOK
    <2>2. QED
        BY <2>1 DEF RepliesOK
<1>8. CursorsOK'
    BY <1>1, <1>2 DEF CursorsOK
<1>9. LeavingDetaches'
    BY <1>1 DEF LeavingDetaches
<1>10. QED
    BY <1>3, <1>4, <1>5, <1>6, <1>7, <1>8, <1>9 DEF MsoInv

(***************************************************************************)
(* The steps of the Mainframe.                                             *)
(***************************************************************************)
\* A set of proposals for different objects is finite.
LEMMA ProposalsAreFinite ==
    ASSUME NEW S \in SUBSET Proposals, \A p, q \in S : p.id = q.id => p = q
    PROVE  IsFiniteSet(S)
<1>1. PICK f : f = [p \in S |-> p.id]
    OBVIOUS
<1>2. \A p \in S : p.id \in Ids
    BY RecordFields
<1>3. f \in Injection(S, Ids)
    <2>1. f \in [S -> Ids] /\ \A p, q \in S : f[p] = f[q] => p = q
        BY <1>1, <1>2
    <2>2. QED
        BY <2>1 DEF Injection, IsInjective
<1>4. QED
    BY <1>3, IdsAssumption, FS_Injection

\* A bounded set of numbers has a greatest one.
LEMMA GreatestExists ==
    ASSUME NEW T \in SUBSET Nat, T # {}, NEW bound \in Nat, \A t \in T : t <= bound
    PROVE  \E t \in T : \A u \in T : u <= t
<1>1. PICK D : D = {bound - t : t \in T}
    OBVIOUS
<1>2. D \subseteq Nat /\ D # {}
    <2>1. \A t \in T : bound - t \in Nat
        OBVIOUS
    <2>2. QED
        BY <1>1, <2>1
<1>3. PICK d \in D : \A e \in D : ~(<<e, d>> \in OpToRel(<, Nat))
    BY <1>2, NatLessThanWellFounded, WFMin
<1>4. \A e \in D : ~(e < d)
    BY <1>2, <1>3 DEF OpToRel
<1>5. PICK t \in T : d = bound - t
    BY <1>1
<1>6. ASSUME NEW u \in T
      PROVE  u <= t
    <2>1. bound - u \in D
        BY <1>1
    <2>2. ~(bound - u < bound - t)
        BY <1>4, <1>5, <2>1
    <2>3. QED
        BY <2>2
<1>7. QED
    BY <1>6

\* What a save or a withdrawal on the Mainframe proposes to itself.
OwnChange(o, p) ==
    /\ p \in Proposals /\ p.id = o /\ p.node = Mainframe
    /\ p.base = hub[o].rev /\ ~hub[o].deleted /\ Receipts(p) = {}

\* A save on the Mainframe accepts one proposal, based on the shared revision.
LEMMA SaveAccepts ==
    ASSUME MsoInv, NEW o \in Ids, NEW del \in BOOLEAN, SaveOnMainframe(o, del)
    PROVE  \E p : OwnChange(o, p) /\ \E f \in Numberings({p}) : AcceptAll({p}, f)
<1>1. MsoTypeOK /\ HistoryOK
    BY DEF MsoInv
<1>2. PICK p : p = [id |-> o, node |-> Mainframe, epoch |-> 0, base |-> hub[o].rev,
                    val |-> IF del THEN hub[o].val ELSE edits + 1, deleted |-> del]
    OBVIOUS
<1>3. PICK f : f = [q \in {p} |-> 1]
    OBVIOUS
<1>4. AcceptAll({p}, f) /\ ~hub[o].deleted
    BY <1>2, <1>3 DEF SaveOnMainframe
<1>5. edits \in Nat /\ hub[o] \in Records /\ hub[o].rev \in Nat /\ hub[o].val \in Nat
    BY <1>1, RecordFields DEF MsoTypeOK
<1>6. p \in Proposals /\ p.id = o /\ p.base = hub[o].rev /\ p.node = Mainframe
    BY <1>2, <1>5 DEF Proposals
<1>7. f \in Numberings({p})
    <2>1. Cardinality({p}) = 1
        BY FS_Singleton
    <2>2. f \in [{p} -> 1..1]
        BY <1>3
    <2>3. QED
        BY <2>1, <2>2 DEF Numberings
<1>8. Receipts(p) = {}
    <2>1. SUFFICES ASSUME NEW a \in accepted, a.proposal = p
                   PROVE  FALSE
        BY DEF Receipts
    <2>2. a.proposal.base < a.rev /\ a.rev <= hub[o].rev /\ a.rev \in Nat
        BY <1>1, <1>6, <2>1, ReceiptFacts
    <2>3. QED
        BY <1>5, <1>6, <2>1, <2>2
<1>9. QED
    BY <1>4, <1>6, <1>7, <1>8 DEF OwnChange

\* A user of the Mainframe adds the next link of an object's chain.
LEMMA SaveOnMainframeKeeps ==
    ASSUME MsoInv, NEW o \in Ids, NEW del \in BOOLEAN, SaveOnMainframe(o, del)
    PROVE  MsoInv'
<1>1. MsoTypeOK /\ HubOK /\ HistoryOK /\ HistoryIsLinear /\ RepliesOK
    BY DEF MsoInv
<1>2. PICK p : OwnChange(o, p) /\ \E f \in Numberings({p}) : AcceptAll({p}, f)
    BY SaveAccepts
<1>3. PICK f \in Numberings({p}) : AcceptAll({p}, f)
    BY <1>2
<1>4. /\ HubStep /\ HubOK' /\ HistoryOK' /\ HistoryIsLinear'
      /\ hub' \in [Ids -> Records] /\ sequence' \in Nat /\ accepted' \in SUBSET Receipt
    <2>1. {p} \in SUBSET Proposals /\ \A q, r \in {p} : q.id = r.id => q = r
        BY <1>2 DEF OwnChange
    <2>2. \A q \in {p} : q.base = hub[q.id].rev /\ ~hub[q.id].deleted /\ Receipts(q) = {}
        BY <1>2 DEF OwnChange
    <2>3. IsFiniteSet({p})
        BY FS_Singleton
    <2>4. QED
        BY <1>1, <1>3, <2>1, <2>2, <2>3, AcceptExtends
<1>5. /\ UNCHANGED <<rows, member, waiting>> /\ wire' \subseteq wire /\ edits' \in Nat
      /\ reply' = reply
    BY <1>1 DEF SaveOnMainframe, netVars, MsoTypeOK
<1>6. reply' = [n \in Agents |-> reply'[n]]
    BY <1>1, <1>5 DEF MsoTypeOK
<1>7. QED
    BY <1>4, <1>5, <1>6, MainframeStep

\* The records of one exchange are the next ones after the cursor: none of those
\* up to the cursor of the reply is left out.
LEMMA BatchIsComplete ==
    ASSUME hub' \in [Ids -> Records], sequence' \in Nat, \A o \in Ids : hub'[o].rev <= sequence',
           NEW c \in Nat, NEW last, last = Latest(FirstAfter(c), c)
    PROVE  /\ last \in Nat /\ (c <= sequence' => last <= sequence')
           /\ \A o \in Ids : hub'[o].rev <= last => hub'[o].rev <= c \/ o \in FirstAfter(c)
<1>1. \A o \in Ids : hub'[o].rev \in Nat
    BY RecordFields
<1>2. CASE FirstAfter(c) = {}
    BY <1>2 DEF Latest
<1>3. CASE FirstAfter(c) # {}
    <2>1. PICK S : S = FirstAfter(c)
        OBVIOUS
    <2>2. S \subseteq Ids /\ S # {}
        BY <1>3, <2>1 DEF FirstAfter, After
    <2>3. PICK T : T = {hub'[o].rev : o \in S}
        OBVIOUS
    <2>4. T \subseteq Nat /\ T # {} /\ \A t \in T : t <= sequence'
        BY <1>1, <2>2, <2>3
    <2>5. \E t \in T : \A u \in T : u <= t
        BY <2>4, GreatestExists
    <2>6. \E t \in T : \A o \in S : hub'[o].rev <= t
        BY <2>3, <2>5
    <2>7. last = CHOOSE t \in T : \A o \in S : hub'[o].rev <= t
        BY <1>3, <2>1, <2>3 DEF Latest
    <2>8. last \in T /\ \A o \in S : hub'[o].rev <= last
        BY <2>6, <2>7
    <2>9. PICK q \in S : last = hub'[q].rev
        BY <2>3, <2>8
    <2>10. ASSUME NEW o \in Ids, hub'[o].rev <= last, ~(hub'[o].rev <= c)
           PROVE  o \in FirstAfter(c)
        <3>1. o \in After(c)
            BY <1>1, <2>10 DEF After
        <3>2. PICK A, B : /\ A = {x \in After(c) : hub'[x].rev < hub'[o].rev}
                          /\ B = {x \in After(c) : hub'[x].rev < hub'[q].rev}
            OBVIOUS
        <3>3. B \subseteq Ids /\ After(c) \subseteq Ids
            BY <3>2 DEF After
        <3>4. IsFiniteSet(B) /\ Cardinality(B) \in Nat
            BY <3>3, IdsAssumption, FS_Subset, FS_CardinalityType
        <3>5. A \subseteq B
            BY <1>1, <2>2, <2>9, <2>10, <3>2, <3>3
        <3>6. Cardinality(A) <= Cardinality(B) /\ Cardinality(A) \in Nat
            BY <3>4, <3>5, FS_Subset, FS_CardinalityType
        <3>7. Cardinality(B) < Batch
            BY <2>1, <2>9, <3>2 DEF FirstAfter
        <3>8. Cardinality(A) < Batch
            BY <3>4, <3>6, <3>7, BatchAssumption
        <3>9. QED
            BY <3>1, <3>2, <3>8 DEF FirstAfter
    <2>11. QED
        BY <2>4, <2>8, <2>10
<1>4. QED
    BY <1>2, <1>3

\* Proposals that can be accepted together.
Acceptable(S) ==
    /\ S \in SUBSET Proposals /\ IsFiniteSet(S)
    /\ \A p, q \in S : p.id = q.id => p = q
    /\ \A p \in S : p.base = hub[p.id].rev /\ ~hub[p.id].deleted /\ Receipts(p) = {}

\* What a request brings that is neither known nor stale.
LEMMA FreshFacts ==
    ASSUME MsoInv, NEW m \in wire
    PROVE  Acceptable(Fresh(m)) /\ Fresh(m) \subseteq m.proposals
<1>1. m.proposals \subseteq Proposals /\ MessageOK(m)
    BY DEF MsoInv, MsoTypeOK, Messages, MessagesOK
<1>2. /\ Fresh(m) \in SUBSET Proposals /\ Fresh(m) \subseteq m.proposals
      /\ \A p, q \in Fresh(m) : p.id = q.id => p = q
      /\ \A p \in Fresh(m) : p.base = hub[p.id].rev /\ ~hub[p.id].deleted /\ Receipts(p) = {}
    BY <1>1 DEF Fresh, Stale, MessageOK
<1>3. IsFiniteSet(Fresh(m))
    BY <1>2, ProposalsAreFinite
<1>4. QED
    BY <1>2, <1>3 DEF Acceptable

\* exchange extends the chains, and the reply fits the agent that waits for it.
LEMMA ExchangeKeeps ==
    ASSUME MsoInv, NEW m \in wire, Exchange(m)
    PROVE  MsoInv'
<1>1. MsoTypeOK /\ HubOK /\ HistoryOK /\ HistoryIsLinear /\ RowsOK /\ MessagesOK /\ CursorsOK
    BY DEF MsoInv
<1>2. /\ m \in Messages /\ m.node \in Agents /\ m.epoch \in Nat /\ m.cursor \in Nat
      /\ m.proposals \subseteq Proposals /\ MessageOK(m)
    BY <1>1 DEF MsoTypeOK, Messages, MessagesOK
<1>3. PICK n \in Agents : n = m.node
    BY <1>2
<1>4. PICK S : S = Fresh(m)
    OBVIOUS
<1>5. Acceptable(S)
    BY <1>4, FreshFacts
<1>6. PICK f \in Numberings(S) : AcceptAll(S, f)
    BY <1>4 DEF Exchange
<1>7. S \in SUBSET Proposals /\ IsFiniteSet(S)
    BY <1>5 DEF Acceptable
<1>8. /\ HubStep /\ HubOK' /\ HistoryOK' /\ HistoryIsLinear'
      /\ hub' \in [Ids -> Records] /\ sequence' \in Nat /\ accepted' \in SUBSET Receipt
      /\ \A p \in S : /\ hub'[p.id].rev \in Nat /\ hub'[p.id].rev > 0
                      /\ [proposal |-> p, rev |-> hub'[p.id].rev] \in accepted'
    BY <1>1, <1>5, <1>6, <1>7, AcceptExtends DEF Acceptable
<1>9. ASSUME NEW o \in Ids
      PROVE  hub'[o].rev \in Nat /\ hub[o].rev \in Nat /\ hub[o].rev <= hub'[o].rev
    BY <1>1, <1>8, HubRises
<1>10. ASSUME NEW o \in Ids, 0 < hub'[o].rev
       PROVE  hub'[o].rev <= sequence' /\ Link(accepted', o, hub'[o])
    <2>1. Link(accepted', o, hub'[o])
        BY <1>8, <1>10 DEF HubOK
    <2>2. PICK a \in accepted' : a.rev = hub'[o].rev
        BY <2>1 DEF Link
    <2>3. QED
        BY <1>8, <2>1, <2>2 DEF HistoryOK
<1>11. \A o \in Ids : hub'[o].rev <= sequence'
    BY <1>8, <1>9, <1>10
<1>12. /\ wire' \subseteq wire /\ UNCHANGED <<rows, member, waiting, edits>>
       /\ edits \in Nat /\ sequence \in Nat /\ sequence <= sequence' /\ accepted \subseteq accepted'
       /\ reply = [k \in Agents |-> reply[k]] /\ rows \in [Agents -> [Ids -> Rows]]
    BY <1>1, <1>8 DEF Exchange, MsoTypeOK, HubStep
<1>13. PICK last : last = Latest(FirstAfter(m.cursor), m.cursor)
    OBVIOUS
<1>14. PICK x : x = [epoch |-> m.epoch,
                     answers |-> {Answer(p, p \in Fresh(m)) : p \in m.proposals},
                     objects |-> [o \in FirstAfter(m.cursor) |-> hub'[o]],
                     cursor |-> last]
    OBVIOUS
<1>15. reply' = IF waiting[m.node] = {m} THEN [reply EXCEPT ![m.node] = {x}] ELSE reply
    BY <1>13, <1>14 DEF Exchange
<1>16. reply' = [k \in Agents |-> reply'[k]]
    BY <1>12, <1>15
<1>17. /\ last \in Nat /\ (m.cursor <= sequence' => last <= sequence')
       /\ \A o \in Ids : hub'[o].rev <= last => hub'[o].rev <= m.cursor \/ o \in FirstAfter(m.cursor)
    BY <1>2, <1>8, <1>11, <1>13, BatchIsComplete
<1>18. \A o \in DOMAIN x.objects : o \in Ids /\ x.objects[o] = hub'[o] /\ 0 < hub'[o].rev
    <2>1. FirstAfter(m.cursor) \subseteq After(m.cursor)
        BY DEF FirstAfter
    <2>2. \A o \in FirstAfter(m.cursor) : o \in Ids /\ hub'[o].rev > m.cursor
        BY <2>1 DEF After
    <2>3. DOMAIN x.objects = FirstAfter(m.cursor)
        BY <1>14
    <2>4. QED
        BY <1>2, <1>9, <1>14, <2>2, <2>3
<1>19. ASSUME NEW a \in x.answers
       PROVE  a \in Answers /\ AnswerOK(accepted', a) /\ a.proposal \in m.proposals
              /\ a.remote = hub'[a.proposal.id]
    <2>1. PICK p \in m.proposals : a = Answer(p, p \in Fresh(m))
        BY <1>14
    <2>2. /\ p \in Proposals /\ p.id \in Ids /\ p.base \in Nat /\ p.base <= hub[p.id].rev
          /\ hub'[p.id] \in Records
        BY <1>2, <1>8, RecordFields DEF MessageOK
    <2>3. a.proposal = p /\ a.remote = hub'[p.id]
        BY <2>1 DEF Answer
    <2>4. p.base <= hub'[p.id].rev
        BY <1>9, <2>2
    <2>5. CASE Receipts(p) # {}
        <3>1. PICK e : e = CHOOSE y \in Receipts(p) : TRUE
            OBVIOUS
        <3>2. e \in accepted /\ e.proposal = p
            BY <2>5, <3>1 DEF Receipts
        <3>3. e.rev \in Nat /\ 0 < e.rev /\ e = [proposal |-> p, rev |-> e.rev]
            BY <1>1, <3>2, ReceiptFacts
        <3>4. a = [proposal |-> p, rev |-> e.rev, remote |-> hub'[p.id]]
            BY <2>1, <2>5, <3>1 DEF Answer
        <3>5. a.rev = e.rev /\ a \in Answers
            BY <2>2, <3>3, <3>4 DEF Answers
        <3>6. e \in accepted'
            BY <1>12, <3>2
        <3>7. QED
            BY <2>1, <2>3, <2>4, <3>3, <3>5, <3>6 DEF AnswerOK
    <2>6. CASE Receipts(p) = {} /\ p \in S
        <3>1. a = [proposal |-> p, rev |-> hub'[p.id].rev, remote |-> hub'[p.id]]
            BY <1>4, <2>1, <2>6 DEF Answer
        <3>2. /\ hub'[p.id].rev \in Nat /\ hub'[p.id].rev > 0
              /\ [proposal |-> p, rev |-> hub'[p.id].rev] \in accepted'
            BY <1>8, <2>6
        <3>3. a \in Answers /\ a.rev = hub'[p.id].rev
            BY <2>2, <3>1, <3>2 DEF Answers
        <3>4. QED
            BY <2>1, <2>3, <2>4, <3>2, <3>3 DEF AnswerOK
    <2>7. CASE Receipts(p) = {} /\ p \notin S
        <3>1. a = [proposal |-> p, rev |-> 0, remote |-> hub'[p.id]]
            BY <1>4, <2>1, <2>7 DEF Answer
        <3>2. a \in Answers /\ a.rev = 0
            BY <2>2, <3>1 DEF Answers
        <3>3. p.base # hub[p.id].rev \/ hub[p.id].deleted
            BY <1>4, <2>7 DEF Fresh, Stale
        <3>4. hub[p.id].rev > 0
            <4>1. hub[p.id].rev = 0 => ~hub[p.id].deleted
                BY <1>1, <2>2 DEF HubOK, NoRecord
            <4>2. QED
                BY <1>9, <2>2, <3>3, <4>1
        <3>5. Link(accepted', p.id, hub'[p.id])
            BY <1>9, <1>10, <2>2, <3>4
        <3>6. QED
            BY <2>1, <2>3, <2>4, <3>2, <3>5 DEF AnswerOK
    <2>8. QED
        BY <2>5, <2>6, <2>7
<1>20. ReplyType(x)
    <2>1. x.epoch \in Nat /\ x.cursor \in Nat /\ x.answers \subseteq Answers
        BY <1>2, <1>14, <1>17, <1>19
    <2>2. DOMAIN x.objects \subseteq Ids /\ \A o \in DOMAIN x.objects : x.objects[o] \in Records
        BY <1>8, <1>18
    <2>3. QED
        BY <2>1, <2>2 DEF ReplyType
<1>21. ASSUME waiting[n] = {m}
       PROVE  ReplyOK(n, x)'
    <2>1. WaitingOK(n, m) /\ x.epoch = m.epoch /\ x.cursor = last
        BY <1>1, <1>14, <1>21 DEF MessagesOK
    <2>2. \A o \in DOMAIN x.objects : Link(accepted', o, x.objects[o])
        BY <1>10, <1>18
    <2>3. ASSUME m.epoch = member[n].epoch
          PROVE  Covers(n, x)'
        <3>1. m.cursor = member[n].cursor /\ \A p \in m.proposals : Undisputed(n, p)
            BY <2>1, <2>3 DEF WaitingOK
        <3>2. m.cursor <= sequence /\ m.cursor <= sequence'
            BY <1>1, <1>2, <1>8, <1>12, <3>1 DEF CursorsOK
        <3>3. x.cursor <= sequence'
            BY <1>17, <2>1, <3>2
        <3>4. \A a \in x.answers : Undisputed(n, a.proposal)'
            BY <1>12, <1>19, <3>1 DEF Undisputed
        <3>5. ASSUME NEW o \in Ids, hub'[o].rev <= x.cursor
              PROVE  \/ hub'[o].rev <= member[n].cursor
                     \/ o \in DOMAIN x.objects /\ x.objects[o].rev >= hub'[o].rev
            <4>1. DOMAIN x.objects = FirstAfter(m.cursor)
                BY <1>14
            <4>2. hub'[o].rev <= member[n].cursor \/ o \in DOMAIN x.objects
                BY <1>17, <2>1, <3>1, <3>5, <4>1
            <4>3. QED
                BY <1>9, <1>18, <4>2
        <3>6. ASSUME NEW o \in DOMAIN x.objects
              PROVE  /\ \A c \in rows[n][o].conflict : c.rev <= x.objects[o].rev
                     /\ \A a \in x.answers : a.proposal.id = o => a.remote.rev <= x.objects[o].rev
            <4>1. o \in Ids /\ x.objects[o] = hub'[o]
                BY <1>18
            <4>2. hub'[o].rev \in Nat /\ hub[o].rev \in Nat /\ hub[o].rev <= hub'[o].rev
                BY <1>9, <4>1
            <4>3. ASSUME NEW c \in rows[n][o].conflict
                  PROVE  c.rev <= hub'[o].rev
                <5>1. rows[n][o] \in Rows /\ RowFits(accepted, hub[o].rev, o, rows[n][o])
                    BY <1>1, <1>12, <4>1 DEF RowsOK
                <5>2. c.rev \in Nat /\ c.rev <= hub[o].rev
                    BY <5>1, RowFields, RecordFields DEF RowFits
                <5>3. QED
                    BY <4>2, <5>2
            <4>4. QED
                BY <1>19, <4>1, <4>2, <4>3
        <3>7. QED
            BY <1>12, <3>3, <3>4, <3>5, <3>6 DEF Covers
    <2>4. QED
        BY <1>12, <1>19, <2>1, <2>2, <2>3 DEF ReplyOK, WaitingOK
<1>22. \A k \in Agents : \A r \in reply'[k] : r \in reply[k] \/ (ReplyType(r) /\ ReplyOK(k, r)')
    <2>1. CASE waiting[n] = {m}
        <3>1. reply'[n] = {x} /\ \A k \in Agents \ {n} : reply'[k] = reply[k]
            BY <1>3, <1>12, <1>15, <2>1
        <3>2. QED
            BY <1>20, <1>21, <2>1, <3>1
    <2>2. CASE waiting[n] # {m}
        BY <1>3, <1>15, <2>2
    <2>3. QED
        BY <2>1, <2>2
<1>23. edits' \in Nat /\ UNCHANGED <<rows, member, waiting>>
    BY <1>12
<1>24. QED
    BY <1>8, <1>12, <1>16, <1>22, <1>23, MainframeStep

(***************************************************************************)
(* The steps of an agent.                                                  *)
(***************************************************************************)
\* What is known of an agent.
LEMMA AgentFacts ==
    ASSUME MsoInv, NEW n \in Agents
    PROVE  /\ rows \in [Agents -> [Ids -> Rows]] /\ rows[n] \in [Ids -> Rows]
           /\ member \in [Agents -> Members] /\ member[n] \in Members
           /\ member[n].role \in {"agent", "standalone"} /\ member[n].epoch \in Nat
           /\ member[n].cursor \in Nat /\ member[n].cursor <= sequence
           /\ wire \in SUBSET Messages /\ waiting \in [Agents -> SUBSET Messages]
           /\ reply = [k \in Agents |-> reply[k]] /\ edits \in Nat /\ sequence \in Nat
           /\ \A m \in wire : MessageOK(m)
           /\ \A m \in waiting[n] : WaitingOK(n, m)
           /\ \A r \in reply[n] : ReplyOK(n, r) /\ ReplyType(r)
           /\ member[n].role = "standalone" => \A o \in Ids : rows[n][o] = NoRow
<1>1. MsoTypeOK /\ MessagesOK /\ RepliesOK /\ CursorsOK /\ LeavingDetaches
    BY DEF MsoInv
<1>2. member[n] \in Members
    BY <1>1 DEF MsoTypeOK
<1>3. QED
    BY <1>1, <1>2 DEF MsoTypeOK, MessagesOK, RepliesOK, CursorsOK, LeavingDetaches, Members

\* What is known of one of its rows.
LEMMA RowFacts ==
    ASSUME MsoInv, NEW n \in Agents, NEW o \in Ids
    PROVE  /\ rows[n][o] \in Rows
           /\ RowFits(accepted, hub[o].rev, o, rows[n][o])
           /\ RowCurrent(hub[o].rev, member[n].cursor, rows[n][o])
           /\ hub[o].rev \in Nat /\ hub[o] \in Records
<1>1. MsoTypeOK /\ RowsOK /\ HubOK /\ HistoryOK
    BY DEF MsoInv
<1>2. rows[n][o] \in Rows
    BY <1>1 DEF MsoTypeOK
<1>3. QED
    BY <1>1, <1>2, HubBound DEF RowsOK

\* A step that leaves the membership of an agent alone, and opens no conflict
\* and draws no proposal, keeps what it waits for in order.
LEMMA UserKeeps ==
    ASSUME MsoInv, NEW n \in Agents, NEW o \in Ids, NEW row \in Rows, SetRow(n, o, row),
           edits' \in Nat,
           RowFits(accepted, hub[o].rev, o, row),
           RowCurrent(hub[o].rev, member[n].cursor, row),
           row.conflict \subseteq rows[n][o].conflict, row.sent \subseteq rows[n][o].sent,
           member[n].role = "standalone" => row = NoRow
    PROVE  MsoInv'
<1>1. /\ rows' = [rows EXCEPT ![n][o] = row] /\ UNCHANGED <<hubVars, member>>
      /\ wire' = wire /\ waiting' = waiting /\ reply' = reply
      /\ hub' = hub /\ sequence' = sequence /\ accepted' = accepted /\ member' = member
    BY DEF SetRow, netVars, hubVars
<1>2. /\ rows' \in [Agents -> [Ids -> Rows]] /\ rows'[n][o] = row
      /\ \A k \in Agents \ {n} : rows'[k] = rows[k]
      /\ \A q \in Ids \ {o} : rows'[n][q] = rows[n][q]
    BY <1>1, AgentFacts
<1>3. \A q \in Ids : /\ RowFits(accepted, hub[q].rev, q, rows'[n][q])
                     /\ RowCurrent(hub[q].rev, member[n].cursor, rows'[n][q])
    BY <1>2, RowFacts
<1>4. member[n].role = "standalone" => \A q \in Ids : rows'[n][q] = NoRow
    BY <1>2, AgentFacts
<1>5. \A q \in Ids : /\ rows'[n][q].conflict \subseteq rows[n][q].conflict
                     /\ rows'[n][q].sent \subseteq rows[n][q].sent
    BY <1>2
<1>6. \A p \in Proposals : Undisputed(n, p) => Undisputed(n, p)'
    <2>1. \A p \in Proposals : p.id \in Ids
        BY RecordFields
    <2>2. QED
        BY <1>5, <2>1 DEF Undisputed
<1>7. ASSUME NEW m \in waiting[n]
      PROVE  WaitingOK(n, m)'
    <2>1. WaitingOK(n, m) /\ m.proposals \subseteq Proposals
        BY AgentFacts DEF Messages
    <2>2. MessageOK(m)'
        BY <1>1, <2>1 DEF WaitingOK, MessageOK
    <2>3. QED
        BY <1>1, <1>6, <2>1, <2>2 DEF WaitingOK
<1>8. ASSUME NEW r \in reply[n]
      PROVE  ReplyOK(n, r)'
    <2>1. /\ ReplyOK(n, r) /\ \A a \in r.answers : a.proposal \in Proposals
          /\ DOMAIN r.objects \subseteq Ids
        BY AgentFacts, RecordFields DEF ReplyType
    <2>2. Covers(n, r) => Covers(n, r)'
        BY <1>1, <1>5, <1>6, <2>1 DEF Covers
    <2>3. QED
        BY <1>1, <2>1, <2>2 DEF ReplyOK
<1>9. \A k \in Agents \ {n} : /\ rows'[k] = rows[k] /\ member'[k] = member[k]
                              /\ waiting'[k] = waiting[k] /\ reply'[k] = reply[k]
    BY <1>1, <1>2
<1>10. QED
    BY <1>1, <1>2, <1>3, <1>4, <1>7, <1>8, <1>9, AgentFacts, AgentStep

\* A user of an agent edits, withdraws or chooses.
LEMMA UserStepKeeps ==
    ASSUME MsoInv, NEW n \in Agents, NEW o \in Ids, UserStep(n, o)
    PROVE  MsoInv'
<1>1. PICK row : row = rows[n][o]
    OBVIOUS
<1>2. /\ row \in Rows /\ RowFits(accepted, hub[o].rev, o, row)
      /\ RowCurrent(hub[o].rev, member[n].cursor, row) /\ hub[o].rev \in Nat
    BY <1>1, RowFacts
<1>3. /\ row.rev \in Nat /\ row.sent \subseteq Proposals /\ row.conflict \subseteq Records
      /\ edits \in Nat
    BY <1>2, RowFields, AgentFacts
<1>4. member[n].role = "standalone" => row = NoRow
    BY <1>1, AgentFacts
<1>5. CASE Create(n, o)
    <2>1. PICK new : new = [NoRow EXCEPT !.here = TRUE, !.val = edits + 1, !.dirty = TRUE]
        OBVIOUS
    <2>2. /\ SetRow(n, o, new) /\ member[n].role = "agent" /\ hub[o].rev = 0 /\ edits' \in Nat
        BY <1>3, <1>5, <2>1 DEF Create, Unused
    <2>3. /\ new \in Rows /\ new.here /\ new.dirty /\ new.sent = {} /\ new.conflict = {}
          /\ new.rev = 0
        <3>1. edits + 1 \in Nat
            BY <1>3
        <3>2. new = [here |-> TRUE, val |-> edits + 1, rev |-> 0, dirty |-> TRUE, deleted |-> FALSE,
                     sent |-> {}, touched |-> FALSE, conflict |-> {}]
            BY <2>1 DEF NoRow
        <3>3. QED
            BY <3>1, <3>2 DEF Rows
    <2>4. RowFits(accepted, hub[o].rev, o, new)
        BY <1>2, <2>3 DEF RowFits
    <2>5. RowCurrent(hub[o].rev, member[n].cursor, new)
        BY <2>2 DEF RowCurrent
    <2>6. QED
        BY <2>2, <2>3, <2>4, <2>5, UserKeeps
<1>6. ASSUME NEW del \in BOOLEAN, Change(n, o, del)
      PROVE  MsoInv'
    <2>1. PICK new : new = [row EXCEPT !.val = IF del THEN @ ELSE edits + 1, !.deleted = del,
                                       !.dirty = TRUE, !.touched = row.sent # {}]
        OBVIOUS
    <2>2. SetRow(n, o, new) /\ row.here /\ row.conflict = {} /\ edits' \in Nat
        BY <1>1, <1>3, <1>6, <2>1 DEF Change
    <2>3. /\ new \in Rows /\ new.here = row.here /\ new.dirty /\ new.sent = row.sent
          /\ new.conflict = row.conflict /\ new.rev = row.rev /\ new.touched = (row.sent # {})
        <3>1. PICK v : v = IF del THEN row.val ELSE edits + 1
            OBVIOUS
        <3>2. PICK t \in BOOLEAN : t = (row.sent # {})
            OBVIOUS
        <3>3. v \in Nat
            BY <1>2, <1>3, <3>1, RowFields
        <3>4. new = [row EXCEPT !.val = v, !.deleted = del, !.dirty = TRUE, !.touched = t]
            BY <2>1, <3>1, <3>2
        <3>5. QED
            BY <1>2, <3>2, <3>3, <3>4 DEF Rows
    <2>4. RowFits(accepted, hub[o].rev, o, new)
        BY <1>2, <2>2, <2>3 DEF RowFits
    <2>5. RowCurrent(hub[o].rev, member[n].cursor, new)
        BY <1>2, <2>3 DEF RowCurrent
    <2>6. member[n].role # "standalone"
        BY <1>4, <2>2, NoRowFields
    <2>7. QED
        BY <1>1, <2>2, <2>3, <2>4, <2>5, <2>6, UserKeeps
<1>7. ASSUME NEW r \in row.conflict
      PROVE  /\ r \in Records /\ r.rev \in Nat /\ Link(accepted, o, r) /\ row.rev <= r.rev
             /\ r.rev <= hub[o].rev /\ member[n].role # "standalone"
             /\ \A new \in Rows : new.rev = r.rev => RowCurrent(hub[o].rev, member[n].cursor, new)
    <2>1. r \in Records /\ r.rev \in Nat
        BY <1>3, RecordFields
    <2>2. /\ Link(accepted, o, r) /\ row.rev <= r.rev /\ r.rev <= hub[o].rev /\ row.conflict = {r}
        BY <1>2 DEF RowFits
    <2>3. member[n].role # "standalone"
        BY <1>4, <1>7, NoRowFields
    <2>4. \A new \in Rows : new.rev = r.rev => RowCurrent(hub[o].rev, member[n].cursor, new)
        BY <1>2, <1>3, <2>1, <2>2 DEF RowCurrent
    <2>5. QED
        BY <2>1, <2>2, <2>3, <2>4
<1>8. CASE UseFleet(n, o)
    <2>1. PICK r \in row.conflict : SetRow(n, o, SyncedRow(r)) /\ edits' = edits
        BY <1>1, <1>8 DEF UseFleet
    <2>2. /\ r \in Records /\ r.rev \in Nat /\ Link(accepted, o, r)
          /\ r.rev <= hub[o].rev /\ member[n].role # "standalone"
        BY <1>7
    <2>3. PICK new : new = SyncedRow(r)
        OBVIOUS
    <2>4. /\ new \in Rows /\ new.here /\ new.sent = {} /\ new.conflict = {} /\ new.rev = r.rev
          /\ new.val = r.val /\ new.deleted = r.deleted
        BY <2>2, <2>3, SyncedFields
    <2>5. Link(accepted, o, new)
        BY <2>2, <2>4 DEF Link
    <2>6. RowFits(accepted, hub[o].rev, o, new)
        BY <2>2, <2>4, <2>5 DEF RowFits
    <2>7. RowCurrent(hub[o].rev, member[n].cursor, new)
        BY <1>7, <2>4
    <2>8. QED
        BY <1>3, <2>1, <2>2, <2>3, <2>4, <2>6, <2>7, UserKeeps
<1>9. CASE KeepLocal(n, o)
    <2>1. PICK r \in row.conflict :
             /\ SetRow(n, o, [row EXCEPT !.rev = r.rev, !.dirty = TRUE, !.sent = {},
                                         !.touched = FALSE, !.conflict = {}])
             /\ edits' = edits
        BY <1>1, <1>9 DEF KeepLocal
    <2>2. r \in Records /\ r.rev \in Nat /\ r.rev <= hub[o].rev /\ member[n].role # "standalone"
        BY <1>7
    <2>3. row.here
        BY <1>2, <2>1, NoRowFields DEF RowFits
    <2>4. PICK new : new = [row EXCEPT !.rev = r.rev, !.dirty = TRUE, !.sent = {},
                                       !.touched = FALSE, !.conflict = {}]
        OBVIOUS
    <2>5. /\ new \in Rows /\ new.here = row.here /\ new.dirty /\ new.sent = {} /\ new.conflict = {}
          /\ new.rev = r.rev
        BY <1>2, <2>2, <2>4 DEF Rows
    <2>6. RowFits(accepted, hub[o].rev, o, new)
        BY <2>2, <2>3, <2>5 DEF RowFits
    <2>7. RowCurrent(hub[o].rev, member[n].cursor, new)
        BY <1>7, <2>5
    <2>8. QED
        BY <1>3, <2>1, <2>2, <2>4, <2>5, <2>6, <2>7, UserKeeps
<1>10. QED
    BY <1>5, <1>6, <1>8, <1>9 DEF UserStep

\* The control loop draws proposals for rows without a conflict.
LEMMA DrawFits ==
    ASSUME MsoInv, NEW n \in Agents, NEW o \in Ids, rows[n][o].dirty
    PROVE  /\ Draw(n, o) \in Rows
           /\ RowFits(accepted, hub[o].rev, o, Draw(n, o))
           /\ Draw(n, o).rev = rows[n][o].rev /\ Draw(n, o).conflict = rows[n][o].conflict
           /\ Draw(n, o).here = rows[n][o].here /\ Draw(n, o).dirty = rows[n][o].dirty
           /\ Draw(n, o).val = rows[n][o].val /\ Draw(n, o).deleted = rows[n][o].deleted
<1>1. PICK row : row = rows[n][o]
    OBVIOUS
<1>2. row \in Rows /\ RowFits(accepted, hub[o].rev, o, row)
    BY <1>1, RowFacts
<1>3. CASE row.sent # {}
    BY <1>1, <1>2, <1>3 DEF Draw
<1>4. CASE row.sent = {}
    <2>1. PICK p : p = Propose(n, o, row)
        OBVIOUS
    <2>2. /\ row.val \in Nat /\ row.rev \in Nat /\ row.deleted \in BOOLEAN
          /\ member[n].epoch \in Nat
        BY <1>2, RowFields, AgentFacts
    <2>3. /\ p \in Proposals /\ p.id = o /\ p.base = row.rev /\ p.val = row.val
          /\ p.deleted = row.deleted
        BY <2>1, <2>2 DEF Propose, Proposals
    <2>4. PICK new : new = [row EXCEPT !.sent = {p}, !.touched = FALSE]
        OBVIOUS
    <2>5. Draw(n, o) = new
        BY <1>1, <1>4, <2>1, <2>4 DEF Draw
    <2>6. /\ new \in Rows /\ new.sent = {p} /\ new.rev = row.rev /\ new.conflict = row.conflict
          /\ new.here = row.here /\ new.dirty = row.dirty /\ new.val = row.val
          /\ new.deleted = row.deleted
        BY <1>2, <2>3, <2>4 DEF Rows
    <2>7. row.here
        BY <1>1, <1>2, NoRowFields DEF RowFits
    <2>8. RowFits(accepted, hub[o].rev, o, new)
        BY <1>1, <1>2, <2>3, <2>6, <2>7 DEF RowFits
    <2>9. QED
        BY <1>1, <2>5, <2>6, <2>8
<1>5. QED
    BY <1>3, <1>4

\* What request does to the rows of its agent.
LEMMA RequestRows ==
    ASSUME MsoInv, NEW n \in Agents, Request(n)
    PROVE  \A o \in Ids :
              /\ rows'[n][o] \in Rows
              /\ RowFits(accepted, hub[o].rev, o, rows'[n][o])
              /\ rows'[n][o] # rows[n][o] => rows[n][o].conflict = {}
              /\ rows'[n][o].rev = rows[n][o].rev /\ rows'[n][o].conflict = rows[n][o].conflict
              /\ rows'[n][o].here = rows[n][o].here /\ rows'[n][o].dirty = rows[n][o].dirty
              /\ rows'[n][o].val = rows[n][o].val /\ rows'[n][o].deleted = rows[n][o].deleted
<1>1. PICK S \in Batches(n) :
         rows' = [rows EXCEPT ![n] = [o \in Ids |-> IF o \in S THEN Draw(n, o) ELSE rows[n][o]]]
    BY DEF Request
<1>2. TAKE o \in Ids
<1>3. rows'[n][o] = IF o \in S THEN Draw(n, o) ELSE rows[n][o]
    BY <1>1, AgentFacts
<1>4. CASE o \in S
    <2>1. rows[n][o].dirty /\ rows[n][o].conflict = {}
        BY <1>4 DEF Batches, Pending
    <2>2. PICK new : new = Draw(n, o)
        OBVIOUS
    <2>3. /\ new \in Rows /\ RowFits(accepted, hub[o].rev, o, new)
          /\ new.rev = rows[n][o].rev /\ new.conflict = rows[n][o].conflict
          /\ new.here = rows[n][o].here /\ new.dirty = rows[n][o].dirty
          /\ new.val = rows[n][o].val /\ new.deleted = rows[n][o].deleted
        BY <2>1, <2>2, DrawFits
    <2>4. rows'[n][o] = new
        BY <1>3, <1>4, <2>2
    <2>5. QED
        BY <2>1, <2>3, <2>4
<1>5. CASE o \notin S
    BY <1>3, <1>5, RowFacts
<1>6. QED
    BY <1>4, <1>5

\* request puts the proposals in flight on the wire.
LEMMA RequestKeeps ==
    ASSUME MsoInv, NEW n \in Agents, Request(n)
    PROVE  MsoInv'
<1>1. PICK S \in Batches(n) :
          LET drawn == [o \in Ids |-> IF o \in S THEN Draw(n, o) ELSE rows[n][o]]
              m == [node |-> n, try |-> 1, epoch |-> member[n].epoch, cursor |-> member[n].cursor,
                    proposals |-> UNION {drawn[o].sent : o \in S}]
          IN  /\ rows' = [rows EXCEPT ![n] = drawn]
              /\ wire' = wire \cup {m}
              /\ waiting' = [waiting EXCEPT ![n] = {m}]
    BY DEF Request
<1>2. PICK drawn : drawn = [o \in Ids |-> IF o \in S THEN Draw(n, o) ELSE rows[n][o]]
    OBVIOUS
<1>3. PICK m : m = [node |-> n, try |-> 1, epoch |-> member[n].epoch, cursor |-> member[n].cursor,
                    proposals |-> UNION {drawn[o].sent : o \in S}]
    OBVIOUS
<1>4. /\ rows' = [rows EXCEPT ![n] = drawn]
      /\ wire' = wire \cup {m}
      /\ waiting' = [waiting EXCEPT ![n] = {m}]
    BY <1>1, <1>2, <1>3
<1>5. /\ UNCHANGED hubVars /\ member' = member /\ reply' = reply /\ edits' = edits
      /\ hub' = hub /\ accepted' = accepted /\ sequence' = sequence
      /\ member[n].role = "agent"
    BY DEF Request, hubVars
<1>6. /\ rows'[n] = drawn /\ S \subseteq Ids
      /\ \A k \in Agents \ {n} : rows'[k] = rows[k] /\ waiting'[k] = waiting[k]
      /\ waiting'[n] = {m}
    BY <1>4, AgentFacts DEF Batches, Pending
<1>7. ASSUME NEW o \in Ids
      PROVE  /\ drawn[o] \in Rows /\ RowFits(accepted, hub[o].rev, o, drawn[o])
             /\ drawn[o] # rows[n][o] => rows[n][o].conflict = {}
             /\ drawn[o].rev = rows[n][o].rev /\ drawn[o].conflict = rows[n][o].conflict
    BY <1>6, RequestRows
<1>8. rows' \in [Agents -> [Ids -> Rows]]
    <2>1. drawn \in [Ids -> Rows]
        BY <1>2, <1>7
    <2>2. QED
        BY <1>4, <2>1, AgentFacts
<1>9. \A o \in Ids : RowCurrent(hub[o].rev, member[n].cursor, rows'[n][o])
    <2>1. \A o \in Ids : RowCurrent(hub[o].rev, member[n].cursor, rows[n][o])
        BY RowFacts
    <2>2. QED
        BY <1>6, <1>7, <2>1 DEF RowCurrent
<1>10. ASSUME NEW p \in m.proposals
       PROVE  /\ p \in Proposals /\ p.id \in S /\ drawn[p.id].sent = {p}
              /\ p.base <= hub[p.id].rev /\ drawn[p.id].conflict = {}
    <2>1. PICK o \in S : p \in drawn[o].sent
        BY <1>3
    <2>2. o \in Ids /\ drawn[o] \in Rows /\ RowFits(accepted, hub[o].rev, o, drawn[o])
        BY <1>6, <1>7
    <2>3. p.id = o /\ drawn[o].sent = {p} /\ p.base = drawn[o].rev /\ drawn[o].rev <= hub[o].rev
        BY <2>1, <2>2 DEF RowFits
    <2>4. p \in Proposals
        BY <2>1, <2>2, RowFields
    <2>5. rows[n][o].conflict = {}
        BY DEF Batches, Pending
    <2>6. QED
        BY <1>7, <2>2, <2>3, <2>4, <2>5
<1>11. m \in Messages
    <2>1. m.proposals \subseteq Proposals
        BY <1>10
    <2>2. QED
        BY <1>3, <2>1, AgentFacts DEF Messages
<1>12. MessageOK(m)
    <2>1. \A p, q \in m.proposals : p.id = q.id => p = q
        BY <1>10
    <2>2. QED
        BY <1>10, <2>1 DEF MessageOK
<1>13. WaitingOK(n, m)'
    <2>1. \A p \in m.proposals : Undisputed(n, p)'
        BY <1>6, <1>10 DEF Undisputed
    <2>2. MessageOK(m)'
        BY <1>5, <1>12 DEF MessageOK
    <2>3. QED
        BY <1>3, <1>5, <2>1, <2>2, AgentFacts DEF WaitingOK
<1>14. ASSUME NEW r \in reply[n]
       PROVE  ReplyOK(n, r)'
    <2>1. ReplyOK(n, r) /\ ReplyType(r)
        BY AgentFacts
    <2>2. \A a \in r.answers : a.proposal.id \in Ids
        BY <2>1, RecordFields DEF ReplyType
    <2>3. ASSUME Covers(n, r)
          PROVE  Covers(n, r)'
        <3>1. \A a \in r.answers : Undisputed(n, a.proposal)'
            BY <1>6, <1>7, <2>2, <2>3 DEF Covers, Undisputed
        <3>2. \A o \in DOMAIN r.objects : rows'[n][o].conflict = rows[n][o].conflict
            BY <1>6, <1>7, <2>1 DEF ReplyType
        <3>3. QED
            BY <1>5, <2>3, <3>1, <3>2 DEF Covers
    <2>4. QED
        BY <1>5, <2>1, <2>3 DEF ReplyOK
<1>15. /\ wire' \in SUBSET Messages /\ waiting' \in [Agents -> SUBSET Messages]
       /\ \A k \in wire' : MessageOK(k)
    BY <1>4, <1>11, <1>12, AgentFacts
<1>16. /\ member' \in [Agents -> Members] /\ reply' = [k \in Agents |-> reply'[k]]
       /\ reply'[n] \subseteq reply[n] /\ edits' \in Nat /\ member'[n].cursor <= sequence
       /\ member'[n].role # "standalone"
    BY <1>5, AgentFacts
<1>17. \A k \in Agents \ {n} : /\ rows'[k] = rows[k] /\ member'[k] = member[k]
                               /\ waiting'[k] = waiting[k] /\ reply'[k] = reply[k]
    BY <1>5, <1>6
<1>18. \A o \in Ids : /\ RowFits(accepted, hub[o].rev, o, rows'[n][o])
                      /\ RowCurrent(hub[o].rev, member'[n].cursor, rows'[n][o])
    BY <1>5, <1>6, <1>7, <1>9
<1>19. (\A w \in waiting'[n] : WaitingOK(n, w)') /\ (\A r \in reply'[n] : ReplyOK(n, r)')
    BY <1>5, <1>6, <1>13, <1>14
<1>20. QED
    BY <1>5, <1>8, <1>15, <1>16, <1>17, <1>18, <1>19, AgentStep

\* The second try carries what the first one did.
LEMMA TimeoutKeeps ==
    ASSUME MsoInv, NEW n \in Agents, Timeout(n)
    PROVE  MsoInv'
<1>1. PICK m \in waiting[n] :
          LET again == IF m.try = 1 THEN {[m EXCEPT !.try = 2]} ELSE {}
          IN  waiting' = [waiting EXCEPT ![n] = again] /\ wire' = wire \cup again
    BY DEF Timeout
<1>2. PICK again : again = IF m.try = 1 THEN {[m EXCEPT !.try = 2]} ELSE {}
    OBVIOUS
<1>3. /\ waiting' = [waiting EXCEPT ![n] = again] /\ wire' = wire \cup again
      /\ reply' = [reply EXCEPT ![n] = {}]
      /\ UNCHANGED hubVars /\ rows' = rows /\ member' = member /\ edits' = edits
      /\ hub' = hub /\ sequence' = sequence /\ accepted' = accepted
    BY <1>1, <1>2 DEF Timeout, hubVars
<1>4. m \in Messages /\ WaitingOK(n, m)
    BY AgentFacts
<1>5. ASSUME NEW w \in again
      PROVE  w \in Messages /\ WaitingOK(n, w)
    <2>1. w = [m EXCEPT !.try = 2]
        BY <1>2, <1>5
    <2>2. /\ w \in Messages /\ w.node = m.node /\ w.epoch = m.epoch /\ w.cursor = m.cursor
          /\ w.proposals = m.proposals
        BY <1>4, <2>1 DEF Messages
    <2>3. QED
        BY <1>4, <2>2 DEF WaitingOK, MessageOK
<1>6. /\ \A w \in waiting'[n] : WaitingOK(n, w)'
      /\ \A w \in wire' : MessageOK(w)
      /\ wire' \in SUBSET Messages /\ waiting' \in [Agents -> SUBSET Messages]
    <2>1. waiting'[n] = again
        BY <1>3, AgentFacts
    <2>2. \A w \in again : WaitingOK(n, w)'
        BY <1>3, <1>5 DEF WaitingOK, MessageOK, Undisputed
    <2>3. \A w \in wire' : MessageOK(w)
        BY <1>3, <1>5, AgentFacts DEF WaitingOK
    <2>4. QED
        BY <1>3, <1>5, <2>1, <2>2, <2>3, AgentFacts
<1>7. reply' = [k \in Agents |-> reply'[k]] /\ reply'[n] = {}
    BY <1>3, AgentFacts
<1>8. \A k \in Agents \ {n} : /\ rows'[k] = rows[k] /\ member'[k] = member[k]
                              /\ waiting'[k] = waiting[k] /\ reply'[k] = reply[k]
    BY <1>3, AgentFacts
<1>9. /\ rows' \in [Agents -> [Ids -> Rows]] /\ member' \in [Agents -> Members] /\ edits' \in Nat
      /\ member'[n].cursor <= sequence
      /\ member'[n].role = "standalone" => \A o \in Ids : rows'[n][o] = NoRow
    BY <1>3, AgentFacts
<1>10. \A o \in Ids : /\ RowFits(accepted, hub[o].rev, o, rows'[n][o])
                      /\ RowCurrent(hub[o].rev, member'[n].cursor, rows'[n][o])
    BY <1>3, RowFacts
<1>11. QED
    BY <1>3, <1>6, <1>7, <1>8, <1>9, <1>10, AgentStep

\* Leaving or joining starts from nothing, in a new membership.
LEMMA ChangeRoleKeeps ==
    ASSUME MsoInv, NEW n \in Agents, ChangeRole(n)
    PROVE  MsoInv'
<1>1. PICK new : new = [role |-> IF member[n].role = "agent" THEN "standalone" ELSE "agent",
                        epoch |-> member[n].epoch + 1, cursor |-> 0]
    OBVIOUS
<1>2. PICK none : none = [o \in Ids |-> NoRow]
    OBVIOUS
<1>3. /\ rows' = [rows EXCEPT ![n] = none]
      /\ member' = [member EXCEPT ![n] = new]
      /\ UNCHANGED hubVars /\ wire' = wire /\ waiting' = waiting /\ reply' = reply
      /\ edits' = edits /\ hub' = hub /\ sequence' = sequence /\ accepted' = accepted
    BY <1>1, <1>2 DEF ChangeRole, hubVars, netVars
<1>4. new \in Members /\ new.epoch = member[n].epoch + 1 /\ new.cursor = 0
    BY <1>1, AgentFacts DEF Members
<1>5. none \in [Ids -> Rows] /\ \A o \in Ids : none[o] = NoRow
    BY <1>2, NoRowFields
<1>6. /\ rows' \in [Agents -> [Ids -> Rows]] /\ rows'[n] = none
      /\ member' \in [Agents -> Members] /\ member'[n] = new
    BY <1>3, <1>4, <1>5, AgentFacts
<1>7. \A k \in Agents \ {n} : /\ rows'[k] = rows[k] /\ member'[k] = member[k]
                              /\ waiting'[k] = waiting[k] /\ reply'[k] = reply[k]
    BY <1>3, AgentFacts
<1>8. ASSUME NEW o \in Ids
      PROVE  /\ RowFits(accepted, hub[o].rev, o, NoRow)
             /\ RowCurrent(hub[o].rev, 0, NoRow)
    <2>1. hub[o].rev \in Nat
        BY RowFacts
    <2>2. QED
        BY <2>1, NoRowFields DEF RowFits, RowCurrent
<1>9. \A o \in Ids : /\ RowFits(accepted, hub[o].rev, o, rows'[n][o])
                     /\ RowCurrent(hub[o].rev, member'[n].cursor, rows'[n][o])
    BY <1>4, <1>5, <1>6, <1>8
<1>10. ASSUME NEW m \in waiting[n]
       PROVE  WaitingOK(n, m)'
    <2>1. WaitingOK(n, m) /\ m.epoch \in Nat /\ member[n].epoch \in Nat
        BY AgentFacts DEF Messages
    <2>2. MessageOK(m)'
        BY <1>3, <2>1 DEF WaitingOK, MessageOK
    <2>3. m.epoch < member'[n].epoch
        BY <1>4, <1>6, <2>1 DEF WaitingOK
    <2>4. m.epoch <= member'[n].epoch /\ m.epoch # member'[n].epoch
        BY <1>4, <1>6, <2>1, <2>3
    <2>5. QED
        BY <2>1, <2>2, <2>4 DEF WaitingOK
<1>11. ASSUME NEW r \in reply[n]
       PROVE  ReplyOK(n, r)'
    <2>1. ReplyOK(n, r) /\ r.epoch \in Nat /\ member[n].epoch \in Nat
        BY AgentFacts DEF ReplyType
    <2>2. r.epoch <= member'[n].epoch /\ r.epoch # member'[n].epoch
        BY <1>4, <1>6, <2>1 DEF ReplyOK
    <2>3. QED
        BY <1>3, <2>1, <2>2 DEF ReplyOK
<1>12. /\ wire' \in SUBSET Messages /\ waiting' \in [Agents -> SUBSET Messages]
       /\ reply' = [k \in Agents |-> reply'[k]] /\ reply'[n] \subseteq reply[n] /\ edits' \in Nat
       /\ \A m \in wire' : MessageOK(m)
    BY <1>3, AgentFacts
<1>13. /\ member'[n].cursor <= sequence
       /\ member'[n].role = "standalone" => \A o \in Ids : rows'[n][o] = NoRow
    BY <1>4, <1>5, <1>6, AgentFacts
<1>14. /\ \A m \in waiting'[n] : WaitingOK(n, m)'
       /\ \A r \in reply'[n] : ReplyOK(n, r)'
    BY <1>3, <1>10, <1>11
<1>15. QED
    BY <1>3, <1>6, <1>7, <1>9, <1>12, <1>13, <1>14, AgentStep

\* What receive does to a row when the reply counts.
LEMMA ReceiveRows ==
    ASSUME MsoInv, NEW n \in Agents, NEW r \in reply[n], Current(n, r), NEW o \in Ids,
           NEW cursor, cursor = IF r.cursor > member[n].cursor THEN r.cursor ELSE member[n].cursor,
           NEW row, row = Received(rows[n][o], o, r)
    PROVE  /\ row \in Rows
           /\ RowFits(accepted, hub[o].rev, o, row)
           /\ RowCurrent(hub[o].rev, cursor, row)
           /\ rows[n][o].dirty => Kept(rows[n][o], row) \/ WasAccepted(accepted, o, rows[n][o])
<1>1. PICK old, h, H : old = rows[n][o] /\ h = hub[o].rev /\ H = accepted
    OBVIOUS
<1>2. old \in Rows /\ RowFits(H, h, o, old) /\ RowCurrent(h, member[n].cursor, old) /\ h \in Nat
    BY <1>1, RowFacts
<1>3. /\ ReplyType(r) /\ ReplyOK(n, r) /\ Covers(n, r) /\ r.cursor \in Nat /\ member[n].cursor \in Nat
    BY AgentFacts DEF Current, ReplyOK, ReplyType
<1>4. H \in SUBSET Receipt /\ ChainFits(H, h, o)
    <2>1. MsoTypeOK /\ HistoryOK
        BY DEF MsoInv
    <2>2. QED
        BY <1>1, <2>1 DEF MsoTypeOK, HistoryOK, ChainFits
<1>5. ReplyFits(H, o, old, r)
    <2>1. \A a \in r.answers :
              /\ AnswerOK(H, a)
              /\ a.proposal.id = o /\ a.proposal \in old.sent => old.conflict = {}
        BY <1>1, <1>3 DEF ReplyOK, Covers, Undisputed
    <2>2. o \in DOMAIN r.objects =>
              /\ Link(H, o, r.objects[o])
              /\ \A c \in old.conflict : c.rev <= r.objects[o].rev
              /\ \A a \in r.answers : a.proposal.id = o => a.remote.rev <= r.objects[o].rev
        BY <1>1, <1>3 DEF ReplyOK, Covers
    <2>3. QED
        BY <2>1, <2>2 DEF ReplyFits
<1>6. ReplyType(r)
    BY <1>3
<1>7. ReceiveFollows(H, h, o, old, r, row)
    <2>1. ReceiveFollows(H, h, o, old, r, Received(old, o, r))
        BY <1>2, <1>4, <1>5, <1>6, ReceivedFits
    <2>2. QED
        BY <1>1, <2>1
<1>8. RowCurrent(h, cursor, row)
    <2>1. CASE cursor = member[n].cursor
        BY <1>2, <1>3, <1>7, <2>1 DEF ReceiveFollows
    <2>2. CASE cursor = r.cursor /\ r.cursor > member[n].cursor
        <3>1. SUFFICES ASSUME 0 < h, h <= r.cursor
                       PROVE  RowCurrent(h, cursor, row)
            BY <2>2 DEF RowCurrent
        <3>2. CASE h <= member[n].cursor
            <4>1. RowCurrent(h, cursor, old)
                BY <1>2, <3>1, <3>2 DEF RowCurrent
            <4>2. QED
                BY <1>3, <1>7, <2>2, <4>1 DEF ReceiveFollows
        <3>3. CASE o \in DOMAIN r.objects /\ r.objects[o].rev >= h
            BY <1>3, <1>7, <2>2, <3>3 DEF ReceiveFollows
        <3>4. QED
            BY <1>1, <1>3, <3>1, <3>2, <3>3 DEF Covers
    <2>3. QED
        BY <2>1, <2>2
<1>9. QED
    BY <1>1, <1>7, <1>8 DEF ReceiveFollows

\* receive acknowledges, applies and advances the cursor in one transaction.
LEMMA ReceiveKeeps ==
    ASSUME MsoInv, NEW n \in Agents, Receive(n)
    PROVE  MsoInv'
<1>1. PICK r \in reply[n] :
          /\ IF Current(n, r)
             THEN /\ rows' = [rows EXCEPT ![n] = [o \in Ids |-> Received(rows[n][o], o, r)]]
                  /\ member' = [member EXCEPT ![n].cursor = IF r.cursor > @ THEN r.cursor ELSE @]
             ELSE UNCHANGED <<rows, member>>
          /\ reply' = [reply EXCEPT ![n] = {}]
          /\ waiting' = [waiting EXCEPT ![n] = {}]
          /\ UNCHANGED <<hubVars, wire, edits, faults>>
    BY DEF Receive
<1>2. /\ UNCHANGED hubVars /\ wire' = wire /\ edits' = edits /\ sequence' = sequence
      /\ reply' = [k \in Agents |-> reply'[k]] /\ reply'[n] = {} /\ waiting'[n] = {}
      /\ waiting' \in [Agents -> SUBSET Messages]
      /\ \A k \in Agents \ {n} : waiting'[k] = waiting[k] /\ reply'[k] = reply[k]
    BY <1>1, AgentFacts DEF hubVars
<1>3. CASE Current(n, r)
    <2>1. PICK c : c = IF r.cursor > member[n].cursor THEN r.cursor ELSE member[n].cursor
        OBVIOUS
    <2>2. PICK got : got = [o \in Ids |-> Received(rows[n][o], o, r)]
        OBVIOUS
    <2>3. rows' = [rows EXCEPT ![n] = got] /\ member' = [member EXCEPT ![n].cursor = c]
        BY <1>1, <1>3, <2>1, <2>2
    <2>4. ASSUME NEW o \in Ids
          PROVE  /\ got[o] \in Rows
                 /\ RowFits(accepted, hub[o].rev, o, got[o])
                 /\ RowCurrent(hub[o].rev, c, got[o])
        <3>1. PICK row : row = Received(rows[n][o], o, r)
            OBVIOUS
        <3>2. /\ row \in Rows /\ RowFits(accepted, hub[o].rev, o, row)
              /\ RowCurrent(hub[o].rev, c, row)
            BY <1>3, <2>1, <3>1, ReceiveRows
        <3>3. QED
            BY <2>2, <3>1, <3>2
    <2>5. r.cursor \in Nat /\ r.cursor <= sequence
        BY <1>3, AgentFacts DEF Current, ReplyOK, Covers, ReplyType
    <2>6. c \in Nat /\ c <= sequence
        BY <2>1, <2>5, AgentFacts
    <2>7. /\ member' \in [Agents -> Members] /\ member'[n].cursor = c
          /\ member'[n].role = member[n].role
          /\ \A k \in Agents \ {n} : member'[k] = member[k]
        BY <2>3, <2>6, AgentFacts DEF Members
    <2>8. /\ rows' \in [Agents -> [Ids -> Rows]] /\ rows'[n] = got
          /\ \A k \in Agents \ {n} : rows'[k] = rows[k]
        <3>1. got \in [Ids -> Rows]
            BY <2>2, <2>4
        <3>2. QED
            BY <2>3, <3>1, AgentFacts
    <2>9. member'[n].role # "standalone"
        BY <1>3, <2>7 DEF Current
    <2>10. \A o \in Ids : /\ RowFits(accepted, hub[o].rev, o, rows'[n][o])
                          /\ RowCurrent(hub[o].rev, member'[n].cursor, rows'[n][o])
        BY <2>4, <2>7, <2>8
    <2>11. wire' \in SUBSET Messages /\ edits' \in Nat /\ \A m \in wire' : MessageOK(m)
        BY <1>2, AgentFacts
    <2>12. member'[n].cursor <= sequence
        BY <2>6, <2>7
    <2>13. QED
        BY <1>2, <2>7, <2>8, <2>9, <2>10, <2>11, <2>12, AgentStep
<1>4. CASE ~Current(n, r)
    <2>1. rows' = rows /\ member' = member
        BY <1>1, <1>4
    <2>2. /\ rows' \in [Agents -> [Ids -> Rows]] /\ member' \in [Agents -> Members]
          /\ member'[n].cursor <= sequence
          /\ member'[n].role = "standalone" => \A o \in Ids : rows'[n][o] = NoRow
          /\ wire' \in SUBSET Messages /\ edits' \in Nat /\ \A m \in wire' : MessageOK(m)
        BY <1>2, <2>1, AgentFacts
    <2>3. \A o \in Ids : /\ RowFits(accepted, hub[o].rev, o, rows'[n][o])
                         /\ RowCurrent(hub[o].rev, member'[n].cursor, rows'[n][o])
        BY <2>1, RowFacts
    <2>4. \A k \in Agents \ {n} : rows'[k] = rows[k] /\ member'[k] = member[k]
        BY <2>1
    <2>5. QED
        BY <1>2, <2>2, <2>3, <2>4, AgentStep
<1>5. QED
    BY <1>3, <1>4

(***************************************************************************)
(* An instance and its own edits, while they fit one exchange.             *)
(*                                                                         *)
(* A proposal leaves its row only when it was answered, and every request  *)
(* repeats the proposals in flight.  What an instance had accepted in its  *)
(* present membership is therefore part of its rows, or in flight in one,  *)
(* and an abandoned copy of anything else can no longer be accepted.       *)
(***************************************************************************)
\* The Mainframe will refuse p, now and later.
Outdated(p) == p.base < hub[p.id].rev \/ hub[p.id].deleted

\* Another copy of p changes nothing.
Spent(p) == Receipts(p) # {} \/ Outdated(p)

\* What a row of o has in flight, in a membership e of n: a deletion in flight is
\* what the row holds.
FlightOwn(n, e, row) ==
    \A p \in row.sent : /\ p.node = n /\ p.epoch = e /\ row.dirty /\ row.conflict = {}
                        /\ p.deleted => row.deleted /\ ~row.touched

\* What n had accepted in this membership is behind the row, or in flight.
BehindOwn(H, n, e, o, row) ==
    \A a \in H : a.proposal.id = o /\ a.proposal.node = n /\ a.proposal.epoch = e =>
        a.rev <= row.rev \/ row.sent = {a.proposal}

\* A row that reached the end of the chain is closed.
ClosedOwn(H, o, row) ==
    row.here => \A a \in H : a.proposal.id = o /\ a.rev = row.rev /\ a.proposal.deleted =>
        row.deleted /\ ~row.dirty /\ row.conflict = {}

RowOwn(H, n, e, o, row) ==
    /\ FlightOwn(n, e, row)
    /\ BehindOwn(H, n, e, o, row)
    /\ ClosedOwn(H, o, row)
    /\ \A c \in row.conflict : row.rev < c.rev

OwnRows == \A n \in Agents, o \in Ids : RowOwn(accepted, n, member[n].epoch, o, rows[n][o])

OwnHistory ==
    \A a \in accepted, n \in Agents : a.proposal.node = n => a.proposal.epoch <= member[n].epoch

MessageOwn(m) ==
    /\ m.epoch <= member[m.node].epoch
    /\ \A p \in m.proposals :
          /\ p.node = m.node /\ p.epoch = m.epoch
          /\ m.epoch = member[m.node].epoch => p \in rows[m.node][p.id].sent \/ Spent(p)

\* A request repeats whatever is in flight.
WaitingOwn(n, m) ==
    /\ MessageOwn(m)
    /\ m.epoch = member[n].epoch => \A o \in Ids : rows[n][o].sent \subseteq m.proposals

OwnMessages ==
    /\ \A m \in wire : MessageOwn(m)
    /\ \A n \in Agents : \A m \in waiting[n] : WaitingOwn(n, m)

\* The refusal of what is in flight in a row shows a newer revision, and stands.
RefusalOwn(row, a) ==
    a.rev = 0 /\ a.proposal \in row.sent =>
        row.rev < a.remote.rev /\ Receipts(a.proposal) = {} /\ Outdated(a.proposal)

\* A reply answers whatever is in flight.
AnswersOwn(n, r) ==
    /\ \A o \in Ids : \A p \in rows[n][o].sent : \E a \in r.answers : a.proposal = p
    /\ \A a \in r.answers : RefusalOwn(rows[n][a.proposal.id], a)

ReplyOwn(n, r) ==
    /\ \A a, b \in r.answers : a.proposal.id = b.proposal.id => a = b
    /\ r.epoch = member[n].epoch => AnswersOwn(n, r)

OwnReplies ==
    /\ \A n \in Agents : reply[n] # {} => waiting[n] # {}
    /\ \A n \in Agents : \A r \in reply[n] : ReplyOwn(n, r)

OwnInv ==
    /\ OwnRows
    /\ OwnHistory
    /\ OwnMessages
    /\ OwnReplies

(***************************************************************************)
(* What receive does to a row, and to its own edits.                       *)
(***************************************************************************)
\* The chain of o: no proposal and no revision twice.
ChainDistinct(H, o) ==
    \A a, b \in H : a # b /\ a.proposal.id = o /\ b.proposal.id = o =>
        a.proposal # b.proposal /\ a.rev # b.rev

\* A row that was closed is closed whatever the chain knows of its revision.
LEMMA ClosedByLink ==
    ASSUME NEW H \in SUBSET Receipt, NEW o \in Ids, ChainDistinct(H, o),
           NEW x, Link(H, o, x), NEW e \in H, e.proposal.id = o, e.rev = x.rev
    PROVE  e.proposal.deleted = x.deleted
<1>1. PICK b \in H : b.proposal.id = o /\ b.rev = x.rev /\ b.proposal.deleted = x.deleted
    BY DEF Link
<1>2. b = e
    BY <1>1 DEF ChainDistinct
<1>3. QED
    BY <1>1, <1>2

\* The acknowledgement of what is in flight leaves nothing in flight, and what
\* it says was accepted is behind the row.
LEMMA AckOwn ==
    ASSUME NEW H \in SUBSET Receipt, NEW h \in Nat, NEW o \in Ids, NEW row \in Rows, NEW n, NEW e,
           RowFits(H, h, o, row), ChainFits(H, h, o), ChainDistinct(H, o),
           RowOwn(H, n, e, o, row),
           NEW a \in Answers, a.proposal.id = o, AnswerOK(H, a), row.sent \subseteq {a.proposal},
           a.rev = 0 /\ a.proposal \in row.sent =>
               row.rev < a.remote.rev /\ \A b \in H : b.proposal # a.proposal
    PROVE  RowOwn(H, n, e, o, Ack(row, a)) /\ Ack(row, a).sent = {}
<1>1. row.rev \in Nat /\ row.touched \in BOOLEAN /\ row.conflict \subseteq Records
    BY RowFields
<1>2. a.rev \in Nat /\ a.remote \in Records /\ a.remote.rev \in Nat /\ a.proposal \in Proposals
    BY RecordFields
<1>3. CASE row.sent # {a.proposal}
    <2>1. row.sent = {}
        BY <1>3
    <2>2. Ack(row, a) = row
        BY <1>3 DEF Ack
    <2>3. QED
        BY <2>1, <2>2
<1>4. CASE row.sent = {a.proposal}
    <2>1. /\ row.dirty /\ row.conflict = {} /\ a.proposal.base = row.rev
          /\ a.proposal.deleted => row.deleted /\ ~row.touched
        BY <1>4 DEF RowOwn, FlightOwn, RowFits
    <2>2. row.here
        BY <1>4, NoRowFields DEF RowFits
    <2>3. CASE a.rev > 0
        <3>1. PICK new : new = [row EXCEPT !.rev = a.rev, !.dirty = row.touched, !.sent = {},
                                           !.touched = FALSE]
            OBVIOUS
        <3>2. Ack(row, a) = new
            BY <1>4, <2>3, <3>1 DEF Ack
        <3>3. /\ new.rev = a.rev /\ new.dirty = row.touched /\ new.sent = {}
              /\ new.conflict = row.conflict /\ new.deleted = row.deleted
            BY <1>1, <1>2, <3>1 DEF Rows
        <3>4. PICK b \in H : b.proposal = a.proposal /\ b.rev = a.rev
            BY <2>3 DEF AnswerOK
        <3>5. row.rev < a.rev
            BY <2>1, <3>4 DEF ChainFits
        <3>6. ASSUME NEW c \in H, c.proposal.id = o, c.proposal.node = n, c.proposal.epoch = e
              PROVE  c.rev <= new.rev
            <4>1. c.rev \in Nat
                BY RecordFields
            <4>2. c.rev <= row.rev \/ row.sent = {c.proposal}
                BY <3>6 DEF RowOwn, BehindOwn
            <4>3. CASE c.rev <= row.rev
                BY <1>1, <1>2, <3>3, <3>5, <4>1, <4>3
            <4>4. CASE row.sent = {c.proposal}
                <5>1. c = b
                    BY <1>4, <3>4, <3>6, <4>4 DEF ChainDistinct
                <5>2. QED
                    BY <1>2, <3>3, <3>4, <5>1
            <4>5. QED
                BY <4>2, <4>3, <4>4
        <3>7. ASSUME NEW c \in H, c.proposal.id = o, c.rev = new.rev, c.proposal.deleted
              PROVE  new.deleted /\ ~new.dirty /\ new.conflict = {}
            <4>1. c = b
                BY <3>3, <3>4, <3>7 DEF ChainDistinct
            <4>2. QED
                BY <2>1, <3>3, <3>4, <3>7, <4>1
        <3>8. QED
            BY <2>1, <3>2, <3>3, <3>6, <3>7 DEF RowOwn, FlightOwn, BehindOwn, ClosedOwn
    <2>4. CASE ~(a.rev > 0)
        <3>1. PICK new : new = [row EXCEPT !.conflict = {a.remote}, !.sent = {}, !.touched = FALSE]
            OBVIOUS
        <3>2. Ack(row, a) = new
            BY <1>4, <2>4, <3>1 DEF Ack
        <3>3. /\ new.rev = row.rev /\ new.sent = {} /\ new.conflict = {a.remote}
              /\ new.here = row.here
            BY <1>1, <1>2, <3>1 DEF Rows
        <3>4. row.rev < a.remote.rev /\ \A b \in H : b.proposal # a.proposal
            BY <1>2, <1>4, <2>4
        <3>5. ASSUME NEW c \in H, c.proposal.id = o, c.proposal.node = n, c.proposal.epoch = e
              PROVE  c.rev <= new.rev
            BY <1>4, <3>3, <3>4, <3>5 DEF RowOwn, BehindOwn
        <3>6. ~ \E c \in H : c.proposal.id = o /\ c.rev = new.rev /\ c.proposal.deleted
            BY <2>1, <2>2, <3>3 DEF RowOwn, ClosedOwn
        <3>7. QED
            BY <3>2, <3>3, <3>4, <3>5, <3>6 DEF RowOwn, FlightOwn, BehindOwn, ClosedOwn
    <2>5. QED
        BY <2>3, <2>4
<1>5. QED
    BY <1>3, <1>4

\* A revision from the Mainframe meets a row with nothing in flight: whatever the
\* agent had accepted is no newer than the row, so it is never shown as a conflict.
LEMMA ApplyOwn ==
    ASSUME NEW H \in SUBSET Receipt, NEW h \in Nat, NEW o \in Ids, NEW row \in Rows, NEW n, NEW e,
           RowFits(H, h, o, row), ChainDistinct(H, o), RowOwn(H, n, e, o, row), row.sent = {},
           NEW r \in Records, Link(H, o, r)
    PROVE  RowOwn(H, n, e, o, Apply(row, r)) /\ Apply(row, r).sent = {}
<1>1. row.rev \in Nat /\ row.here \in BOOLEAN /\ row.dirty \in BOOLEAN /\ r.rev \in Nat
    BY RowFields, RecordFields
<1>2. CASE row.here /\ r.rev <= row.rev
    BY <1>2 DEF Apply
<1>3. CASE row.here /\ ~(r.rev <= row.rev) /\ (row.dirty \/ row.conflict # {})
    <2>1. PICK new : new = [row EXCEPT !.conflict = {r},
                                       !.touched = row.sent # {} /\ (@ \/ row.conflict # {r})]
        OBVIOUS
    <2>2. Apply(row, r) = new
        BY <1>3, <2>1 DEF Apply
    <2>3. new.rev = row.rev /\ new.sent = {} /\ new.conflict = {r} /\ new.here = row.here
        BY <2>1 DEF Rows
    <2>4. row.rev < r.rev
        BY <1>1, <1>3
    <2>5. ~ \E c \in H : c.proposal.id = o /\ c.rev = new.rev /\ c.proposal.deleted
        BY <1>3, <2>3 DEF RowOwn, ClosedOwn
    <2>6. QED
        BY <2>2, <2>3, <2>4, <2>5 DEF RowOwn, FlightOwn, BehindOwn, ClosedOwn
<1>4. CASE ~(row.here /\ r.rev <= row.rev) /\ ~(row.here /\ (row.dirty \/ row.conflict # {}))
    <2>1. PICK new : new = SyncedRow(r)
        OBVIOUS
    <2>2. Apply(row, r) = new
        BY <1>4, <2>1 DEF Apply
    <2>3. /\ ~new.dirty /\ new.sent = {} /\ new.conflict = {} /\ new.rev = r.rev
          /\ new.deleted = r.deleted
        BY <2>1, SyncedFields
    <2>4. row.rev <= r.rev
        BY <1>1, <1>4, NoRowFields DEF RowFits
    <2>5. ASSUME NEW c \in H, c.proposal.id = o, c.proposal.node = n, c.proposal.epoch = e
          PROVE  c.rev <= new.rev
        <3>1. c.rev \in Nat /\ c.rev <= row.rev
            BY <2>5, RecordFields DEF RowOwn, BehindOwn
        <3>2. QED
            BY <1>1, <2>3, <2>4, <3>1
    <2>6. \A c \in H : c.proposal.id = o /\ c.rev = new.rev /\ c.proposal.deleted => new.deleted
        BY <2>3, ClosedByLink
    <2>7. QED
        BY <2>2, <2>3, <2>5, <2>6 DEF RowOwn, FlightOwn, BehindOwn, ClosedOwn
<1>5. QED
    BY <1>1, <1>2, <1>3, <1>4

\* receive: the reply answers what is in flight, then brings newer revisions.
LEMMA ReceivedOwn ==
    ASSUME NEW H \in SUBSET Receipt, NEW h \in Nat, NEW o \in Ids, NEW row \in Rows, NEW n, NEW e,
           RowFits(H, h, o, row), ChainFits(H, h, o), ChainDistinct(H, o),
           RowOwn(H, n, e, o, row),
           NEW r, ReplyType(r), ReplyFits(H, o, row, r),
           \A a, b \in r.answers : a.proposal.id = b.proposal.id => a = b,
           \A p \in row.sent : \E a \in r.answers : a.proposal = p,
           \A a \in r.answers : a.rev = 0 /\ a.proposal \in row.sent =>
               row.rev < a.remote.rev /\ \A b \in H : b.proposal # a.proposal
    PROVE  RowOwn(H, n, e, o, Received(row, o, r)) /\ Received(row, o, r).sent = {}
<1>1. PICK acked : acked = IF \E a \in r.answers : a.proposal.id = o
                           THEN Ack(row, CHOOSE a \in r.answers : a.proposal.id = o) ELSE row
    OBVIOUS
<1>2. Received(row, o, r) = IF o \in DOMAIN r.objects THEN Apply(acked, r.objects[o]) ELSE acked
    BY <1>1 DEF Received
<1>3. \A p \in row.sent : p.id = o /\ row.sent = {p}
    BY DEF RowFits
<1>4. /\ acked \in Rows /\ RowFits(H, h, o, acked)
      /\ RowOwn(H, n, e, o, acked) /\ acked.sent = {}
    <2>1. CASE ~ \E a \in r.answers : a.proposal.id = o
        <3>1. row.sent = {}
            BY <1>3, <2>1
        <3>2. QED
            BY <1>1, <2>1, <3>1
    <2>2. CASE \E a \in r.answers : a.proposal.id = o
        <3>1. PICK a : a = CHOOSE x \in r.answers : x.proposal.id = o
            OBVIOUS
        <3>2. a \in r.answers /\ a.proposal.id = o /\ a \in Answers
            BY <2>2, <3>1 DEF ReplyType
        <3>3. acked = Ack(row, a)
            BY <1>1, <2>2, <3>1
        <3>4. AnswerOK(H, a) /\ (a.proposal \in row.sent => row.conflict = {})
            BY <3>2 DEF ReplyFits
        <3>5. row.sent \subseteq {a.proposal}
            <4>1. SUFFICES ASSUME NEW p \in row.sent
                           PROVE  p = a.proposal
                OBVIOUS
            <4>2. PICK b \in r.answers : b.proposal = p
                OBVIOUS
            <4>3. b = a
                BY <1>3, <3>2, <4>2
            <4>4. QED
                BY <4>2, <4>3
        <3>6. a.rev = 0 /\ a.proposal \in row.sent =>
                  row.rev < a.remote.rev /\ \A b \in H : b.proposal # a.proposal
            BY <3>2
        <3>7. AckFollows(H, h, o, row, a, Ack(row, a))
            BY <3>2, <3>4, AckFits
        <3>8. RowOwn(H, n, e, o, Ack(row, a)) /\ Ack(row, a).sent = {}
            BY <3>2, <3>4, <3>5, <3>6, AckOwn
        <3>9. QED
            BY <3>3, <3>7, <3>8 DEF AckFollows
    <2>3. QED
        BY <2>1, <2>2
<1>5. CASE o \notin DOMAIN r.objects
    BY <1>2, <1>4, <1>5
<1>6. CASE o \in DOMAIN r.objects
    <2>1. PICK x : x = r.objects[o]
        OBVIOUS
    <2>2. x \in Records /\ Link(H, o, x) /\ Received(row, o, r) = Apply(acked, x)
        BY <1>2, <1>6, <2>1 DEF ReplyType, ReplyFits
    <2>3. RowOwn(H, n, e, o, Apply(acked, x)) /\ Apply(acked, x).sent = {}
        BY <1>4, <2>2, ApplyOwn
    <2>4. QED
        BY <2>2, <2>3
<1>7. QED
    BY <1>5, <1>6

(***************************************************************************)
(* The Mainframe and the edits of an instance.                             *)
(***************************************************************************)
\* What is known of the chain of an object.
LEMMA ChainFacts ==
    ASSUME MsoInv, NEW o \in Ids
    PROVE  /\ accepted \in SUBSET Receipt
           /\ ChainFits(accepted, hub[o].rev, o)
           /\ ChainDistinct(accepted, o)
<1>1. MsoTypeOK /\ HistoryOK /\ HistoryIsLinear
    BY DEF MsoInv
<1>2. QED
    BY <1>1 DEF MsoTypeOK, HistoryOK, HistoryIsLinear, ChainFits, ChainDistinct

\* What a step of the Mainframe that accepts the proposals S does to the chains.
HubAccepts(S) ==
    /\ HubStep
    /\ \A b \in accepted' : b \in accepted \/ (b.proposal \in S /\ b.rev > sequence)
    /\ \A o \in Ids : hub[o].deleted => hub'[o] = hub[o]
    /\ \A p \in S : p.id \in Ids /\ p.base = hub[p.id].rev /\ ~hub[p.id].deleted

\* Accepting fresh proposals adds them beyond everything that was seen.
LEMMA AcceptAdds ==
    ASSUME MsoTypeOK, NEW S \in SUBSET Proposals, NEW f \in Numberings(S), AcceptAll(S, f),
           HubStep, \A p \in S : p.base = hub[p.id].rev /\ ~hub[p.id].deleted
    PROVE  HubAccepts(S)
<1>1. \A p \in S : p.id \in Ids
    BY RecordFields
<1>2. ASSUME NEW b \in accepted', b \notin accepted
      PROVE  b.proposal \in S /\ b.rev > sequence
    <2>1. PICK p \in S : b = [proposal |-> p, rev |-> sequence + f[p]]
        BY <1>2 DEF AcceptAll
    <2>2. f[p] \in 1..Cardinality(S) /\ sequence \in Nat
        BY DEF Numberings, MsoTypeOK
    <2>3. b.proposal = p /\ b.rev = sequence + f[p]
        BY <2>1
    <2>4. QED
        BY <2>2, <2>3
<1>3. ASSUME NEW o \in Ids, hub[o].deleted
      PROVE  hub'[o] = hub[o]
    <2>1. ~ \E p \in S : p.id = o
        BY <1>3
    <2>2. QED
        BY <2>1 DEF AcceptAll
<1>4. QED
    BY <1>1, <1>2, <1>3 DEF HubAccepts

\* A proposal that will be refused, or was accepted, stays so.
LEMMA SpentStays ==
    ASSUME MsoInv, NEW S, HubAccepts(S), hub' \in [Ids -> Records], NEW p \in Proposals
    PROVE  /\ Outdated(p) => Outdated(p)' /\ p \notin S
           /\ Spent(p) => Spent(p)'
           /\ Receipts(p) = {} /\ p \notin S => Receipts(p)' = {}
<1>1. MsoTypeOK /\ HubOK /\ HistoryOK /\ HubStep
    BY DEF MsoInv, HubAccepts
<1>2. p.id \in Ids /\ p.base \in Nat
    BY RecordFields
<1>3. hub'[p.id].rev \in Nat /\ hub[p.id].rev \in Nat /\ hub[p.id].rev <= hub'[p.id].rev
    BY <1>1, <1>2, HubRises
<1>4. Outdated(p) => Outdated(p)'
    BY <1>2, <1>3 DEF Outdated, HubAccepts
<1>5. Outdated(p) => p \notin S
    BY <1>2, <1>3 DEF Outdated, HubAccepts
<1>6. Receipts(p) # {} => Receipts(p)' # {}
    BY <1>1 DEF Receipts, HubStep
<1>7. Receipts(p) = {} /\ p \notin S => Receipts(p)' = {}
    BY DEF Receipts, HubAccepts
<1>8. QED
    BY <1>4, <1>5, <1>6, <1>7 DEF Spent

\* A step of the Mainframe accepts of an agent's present edits only what is in
\* flight in its rows.
LEMMA MainframeOwn ==
    ASSUME MsoInv, OwnInv, NEW S \in SUBSET Proposals, HubAccepts(S), hub' \in [Ids -> Records],
           UNCHANGED <<rows, member, waiting>>, wire' \subseteq wire,
           \A p \in S, n \in Agents : p.node = n =>
               /\ p.epoch <= member[n].epoch
               /\ p.epoch = member[n].epoch => rows[n][p.id].sent = {p},
           \A n \in Agents : reply'[n] # {} => waiting[n] # {},
           \A n \in Agents : \A r \in reply'[n] : r \in reply[n] \/ ReplyOwn(n, r)'
    PROVE  OwnInv'
<1>1. /\ MsoTypeOK /\ HubOK /\ HistoryOK /\ OwnRows /\ OwnHistory /\ OwnMessages /\ OwnReplies
      /\ HubStep
    BY DEF MsoInv, OwnInv, HubAccepts
<1>2. /\ rows' = rows /\ member' = member /\ waiting' = waiting /\ rows \in [Agents -> [Ids -> Rows]]
      /\ sequence \in Nat /\ accepted \subseteq accepted' /\ accepted \in SUBSET Receipt
    BY <1>1 DEF MsoTypeOK, HubStep
<1>3. ASSUME NEW b \in accepted', b \notin accepted
      PROVE  b.proposal \in S /\ b.rev > sequence
    BY <1>3 DEF HubAccepts
<1>4. OwnRows'
    <2>1. ASSUME NEW n \in Agents, NEW o \in Ids, NEW row, row = rows[n][o]
          PROVE  RowOwn(accepted', n, member[n].epoch, o, row)
        <3>1. RowOwn(accepted, n, member[n].epoch, o, row) /\ row \in Rows
            BY <1>1, <1>2, <2>1 DEF OwnRows
        <3>2. row.rev \in Nat /\ row.rev <= sequence
            <4>1. row.rev \in Nat /\ row.rev <= hub[o].rev
                BY <2>1, <3>1, RowFacts, RowFields DEF RowFits
            <4>2. hub[o].rev \in Nat /\ hub[o].rev <= sequence
                BY <1>1, HubBound
            <4>3. QED
                BY <1>2, <4>1, <4>2
        <3>3. BehindOwn(accepted', n, member[n].epoch, o, row)
            <4>1. ASSUME NEW b \in accepted', b \notin accepted, b.proposal.id = o,
                         b.proposal.node = n, b.proposal.epoch = member[n].epoch
                  PROVE  row.sent = {b.proposal}
                BY <1>3, <2>1, <4>1
            <4>2. QED
                BY <3>1, <4>1 DEF RowOwn, BehindOwn
        <3>4. ClosedOwn(accepted', o, row)
            <4>1. \A b \in accepted' : b \in accepted \/ b.rev # row.rev
                BY <1>2, <1>3, <3>2
            <4>2. QED
                BY <3>1, <4>1 DEF RowOwn, ClosedOwn
        <3>5. QED
            BY <3>1, <3>3, <3>4 DEF RowOwn
    <2>2. QED
        BY <1>2, <2>1 DEF OwnRows
<1>5. OwnHistory'
    BY <1>1, <1>2, <1>3 DEF OwnHistory
<1>6. ASSUME NEW m, m \in Messages, MessageOwn(m)
      PROVE  MessageOwn(m)'
    <2>1. \A p \in m.proposals : Spent(p) => Spent(p)'
        BY <1>6, SpentStays DEF Messages
    <2>2. QED
        BY <1>2, <1>6, <2>1 DEF MessageOwn
<1>7. OwnMessages'
    <2>1. wire \subseteq Messages /\ \A n \in Agents : waiting[n] \subseteq Messages
        BY <1>1 DEF MsoTypeOK
    <2>2. \A m \in wire' : MessageOwn(m)'
        BY <1>1, <1>6, <2>1 DEF OwnMessages
    <2>3. ASSUME NEW n \in Agents, NEW m \in waiting[n]
          PROVE  WaitingOwn(n, m)'
        <3>1. WaitingOwn(n, m) /\ m \in Messages
            BY <1>1, <2>1 DEF OwnMessages
        <3>2. MessageOwn(m)'
            BY <1>6, <3>1 DEF WaitingOwn
        <3>3. QED
            BY <1>2, <3>1, <3>2 DEF WaitingOwn
    <2>4. QED
        BY <1>2, <2>2, <2>3 DEF OwnMessages
<1>8. ASSUME NEW n \in Agents, NEW r \in reply[n]
      PROVE  ReplyOwn(n, r)'
    <2>1. ReplyOwn(n, r) /\ ReplyType(r)
        BY <1>1 DEF OwnReplies, MsoTypeOK
    <2>2. ASSUME NEW a \in r.answers, NEW row, RefusalOwn(row, a)
          PROVE  RefusalOwn(row, a)'
        <3>1. a.proposal \in Proposals
            BY <2>1, RecordFields DEF ReplyType
        <3>2. QED
            BY <2>2, <3>1, SpentStays DEF RefusalOwn
    <2>3. AnswersOwn(n, r) => AnswersOwn(n, r)'
        BY <1>2, <2>2 DEF AnswersOwn
    <2>4. QED
        BY <1>2, <2>1, <2>3 DEF ReplyOwn
<1>9. OwnReplies'
    BY <1>2, <1>8 DEF OwnReplies
<1>10. QED
    BY <1>4, <1>5, <1>7, <1>9 DEF OwnInv

\* The proposals that can be accepted together are added when they are.
LEMMA AcceptableAdds ==
    ASSUME MsoInv, NEW S, Acceptable(S), NEW f \in Numberings(S), AcceptAll(S, f)
    PROVE  HubAccepts(S) /\ hub' \in [Ids -> Records]
<1>1. MsoTypeOK /\ HubOK /\ HistoryOK /\ HistoryIsLinear
    BY DEF MsoInv
<1>2. /\ S \in SUBSET Proposals /\ IsFiniteSet(S) /\ \A p, q \in S : p.id = q.id => p = q
      /\ \A p \in S : p.base = hub[p.id].rev /\ ~hub[p.id].deleted /\ Receipts(p) = {}
    BY DEF Acceptable
<1>3. HubStep /\ hub' \in [Ids -> Records]
    BY <1>1, <1>2, AcceptExtends
<1>4. QED
    BY <1>1, <1>2, <1>3, AcceptAdds

\* An edit made on the Mainframe is no agent's.
LEMMA SaveOnMainframeOwn ==
    ASSUME MsoInv, OwnInv, NEW o \in Ids, NEW del \in BOOLEAN, SaveOnMainframe(o, del)
    PROVE  OwnInv'
<1>1. PICK p : OwnChange(o, p) /\ \E f \in Numberings({p}) : AcceptAll({p}, f)
    BY SaveAccepts
<1>2. PICK f \in Numberings({p}) : AcceptAll({p}, f)
    BY <1>1
<1>3. Acceptable({p})
    BY <1>1, FS_Singleton DEF OwnChange, Acceptable
<1>4. HubAccepts({p}) /\ hub' \in [Ids -> Records]
    BY <1>2, <1>3, AcceptableAdds
<1>5. UNCHANGED <<rows, member, waiting>> /\ wire' = wire /\ reply' = reply
    BY DEF SaveOnMainframe, netVars
<1>6. {p} \in SUBSET Proposals /\ \A q \in {p}, n \in Agents : q.node # n
    BY <1>1, MainframeAssumption DEF OwnChange
<1>7. OwnReplies
    BY DEF OwnInv
<1>8. QED
    BY <1>4, <1>5, <1>6, <1>7, MainframeOwn DEF OwnReplies

\* The reply to the request an agent waits for answers all it has in flight, and
\* refuses only what can never be accepted.
LEMMA ReplyIsOwn ==
    ASSUME MsoInv, OwnInv, NEW n \in Agents, NEW m \in wire, m \in waiting[n],
           HubAccepts(Fresh(m)), hub' \in [Ids -> Records], UNCHANGED <<rows, member>>,
           \A p \in Fresh(m) : hub'[p.id].rev > 0,
           NEW x, x.epoch = m.epoch, x.answers = {Answer(p, p \in Fresh(m)) : p \in m.proposals}
    PROVE  ReplyOwn(n, x)'
<1>1. MsoTypeOK /\ HubOK /\ HistoryOK /\ MessagesOK /\ OwnRows /\ OwnMessages
    BY DEF MsoInv, OwnInv
<1>2. /\ m \in Messages /\ m.proposals \subseteq Proposals /\ MessageOK(m) /\ WaitingOwn(n, m)
      /\ m.node = n
    BY <1>1 DEF MsoTypeOK, Messages, MessagesOK, OwnMessages, WaitingOK
<1>3. \A p : Answer(p, p \in Fresh(m)).proposal = p /\ Answer(p, p \in Fresh(m)).remote = hub'[p.id]
    BY DEF Answer
<1>4. ASSUME NEW a \in x.answers, NEW b \in x.answers, a.proposal.id = b.proposal.id
      PROVE  a = b
    <2>1. PICK p \in m.proposals : a = Answer(p, p \in Fresh(m))
        OBVIOUS
    <2>2. PICK q \in m.proposals : b = Answer(q, q \in Fresh(m))
        OBVIOUS
    <2>3. p = q
        BY <1>2, <1>3, <1>4, <2>1, <2>2 DEF MessageOK
    <2>4. QED
        BY <2>1, <2>2, <2>3
<1>5. ASSUME m.epoch = member[n].epoch, NEW o \in Ids, NEW p \in rows[n][o].sent
      PROVE  \E a \in x.answers : a.proposal = p
    <2>1. p \in m.proposals
        BY <1>2, <1>5 DEF WaitingOwn
    <2>2. QED
        BY <1>3, <2>1
<1>6. ASSUME NEW a \in x.answers, a.rev = 0, NEW o \in Ids, o = a.proposal.id,
             a.proposal \in rows[n][o].sent
      PROVE  /\ rows[n][o].rev < a.remote.rev /\ Receipts(a.proposal)' = {}
             /\ Outdated(a.proposal)'
    <2>1. PICK p \in m.proposals : a = Answer(p, p \in Fresh(m))
        OBVIOUS
    <2>2. /\ a.proposal = p /\ a.remote = hub'[o] /\ p.id = o /\ p \in Proposals
          /\ p.base \in Nat /\ p.base <= hub[o].rev
        BY <1>2, <1>3, <1>6, <2>1, RecordFields DEF MessageOK
    <2>3. hub[o].rev \in Nat /\ hub'[o].rev \in Nat /\ hub[o].rev <= hub'[o].rev
        BY <1>1, HubRises DEF HubAccepts
    <2>4. Receipts(p) = {}
        <3>1. SUFFICES ASSUME Receipts(p) # {}
                       PROVE  FALSE
            OBVIOUS
        <3>2. PICK e : e = CHOOSE y \in Receipts(p) : TRUE
            OBVIOUS
        <3>3. e \in accepted
            BY <3>1, <3>2 DEF Receipts
        <3>4. a.rev = e.rev
            BY <2>1, <3>1, <3>2 DEF Answer
        <3>5. e.rev \in Nat /\ 0 < e.rev
            BY <1>1, <3>3, ReceiptFacts
        <3>6. QED
            BY <1>6, <3>4, <3>5
    <2>5. p \notin Fresh(m)
        <3>1. SUFFICES ASSUME p \in Fresh(m)
                       PROVE  FALSE
            OBVIOUS
        <3>2. a.rev = hub'[o].rev
            BY <2>1, <2>2, <2>4, <3>1 DEF Answer
        <3>3. hub'[o].rev > 0
            BY <2>2, <3>1
        <3>4. QED
            BY <1>6, <2>3, <3>2, <3>3
    <2>6. Outdated(p)
        BY <2>2, <2>3, <2>4, <2>5 DEF Fresh, Stale, Outdated
    <2>7. Receipts(p)' = {} /\ Outdated(p)'
        BY <2>2, <2>4, <2>5, <2>6, SpentStays
    <2>8. /\ rows[n][o] \in Rows /\ RowFits(accepted, hub[o].rev, o, rows[n][o])
          /\ RowOwn(accepted, n, member[n].epoch, o, rows[n][o])
        BY <1>1, RowFacts DEF OwnRows
    <2>9. p.base = rows[n][o].rev /\ rows[n][o].dirty /\ rows[n][o].here
        BY <1>6, <2>2, <2>8, NoRowFields DEF RowFits, RowOwn, FlightOwn
    <2>10. p.base < hub[o].rev
        <3>1. SUFFICES ASSUME hub[o].deleted, p.base = hub[o].rev
                       PROVE  FALSE
            BY <2>2, <2>3, <2>6 DEF Outdated
        <3>2. hub[o].rev > 0
            BY <1>1, <2>3, <3>1 DEF HubOK, NoRecord
        <3>3. PICK e \in accepted : /\ e.proposal.id = o /\ e.rev = hub[o].rev
                                    /\ e.proposal.deleted = hub[o].deleted
            BY <1>1, <3>2 DEF HubOK, Link
        <3>4. QED
            BY <2>8, <2>9, <3>1, <3>3 DEF RowOwn, ClosedOwn
    <2>11. rows[n][o].rev < a.remote.rev
        BY <2>2, <2>3, <2>9, <2>10
    <2>12. QED
        BY <2>2, <2>7, <2>11
<1>7. ASSUME NEW a \in x.answers
      PROVE  RefusalOwn(rows[n][a.proposal.id], a)'
    <2>1. a.proposal.id \in Ids
        BY <1>2, <1>3, RecordFields
    <2>2. QED
        BY <1>6, <2>1 DEF RefusalOwn
<1>8. m.epoch = member[n].epoch => AnswersOwn(n, x)'
    BY <1>5, <1>7 DEF AnswersOwn
<1>9. QED
    BY <1>4, <1>8 DEF ReplyOwn

\* exchange accepts of an agent's present edits what is in flight, and tells it so.
LEMMA ExchangeOwn ==
    ASSUME MsoInv, OwnInv, NEW m \in wire, Exchange(m)
    PROVE  OwnInv'
<1>1. MsoTypeOK /\ MessagesOK /\ OwnRows /\ OwnMessages /\ OwnReplies /\ HubOK /\ HistoryOK
    BY DEF MsoInv, OwnInv
<1>2. m \in Messages /\ m.node \in Agents /\ MessageOwn(m)
    BY <1>1 DEF MsoTypeOK, Messages, OwnMessages
<1>3. PICK n \in Agents : n = m.node
    BY <1>2
<1>4. Acceptable(Fresh(m)) /\ Fresh(m) \subseteq m.proposals
    BY FreshFacts
<1>5. PICK f \in Numberings(Fresh(m)) : AcceptAll(Fresh(m), f)
    BY DEF Exchange
<1>6. HubAccepts(Fresh(m)) /\ hub' \in [Ids -> Records] /\ Fresh(m) \in SUBSET Proposals
    BY <1>4, <1>5, AcceptableAdds DEF Acceptable
<1>7. wire' \subseteq wire /\ UNCHANGED <<rows, member, waiting>>
    BY DEF Exchange
<1>8. ASSUME NEW p \in Fresh(m), NEW k \in Agents, p.node = k
      PROVE  /\ p.epoch <= member[k].epoch
             /\ p.epoch = member[k].epoch => rows[k][p.id].sent = {p}
    <2>1. k = n /\ p.epoch = m.epoch /\ m.epoch <= member[n].epoch
        BY <1>2, <1>3, <1>4, <1>8 DEF MessageOwn
    <2>2. ASSUME p.epoch = member[n].epoch
          PROVE  rows[n][p.id].sent = {p}
        <3>1. p \in rows[n][p.id].sent \/ Spent(p)
            BY <1>2, <1>3, <1>4, <2>1, <2>2 DEF MessageOwn
        <3>2. ~Outdated(p) /\ Receipts(p) = {} /\ p.id \in Ids
            <4>1. p \in Proposals /\ Receipts(p) = {}
                BY <1>4 DEF Acceptable
            <4>2. QED
                BY <1>6, <4>1, RecordFields, SpentStays
        <3>3. RowFits(accepted, hub[p.id].rev, p.id, rows[n][p.id])
            BY <3>2, RowFacts
        <3>4. QED
            BY <3>1, <3>2, <3>3 DEF Spent, RowFits
    <2>3. QED
        BY <2>1, <2>2
<1>9. PICK x : x = [epoch |-> m.epoch,
                    answers |-> {Answer(p, p \in Fresh(m)) : p \in m.proposals},
                    objects |-> [o \in FirstAfter(m.cursor) |-> hub'[o]],
                    cursor |-> Latest(FirstAfter(m.cursor), m.cursor)]
    OBVIOUS
<1>10. reply' = IF waiting[n] = {m} THEN [reply EXCEPT ![n] = {x}] ELSE reply
    BY <1>3, <1>9 DEF Exchange
<1>11. reply = [k \in Agents |-> reply[k]]
    BY <1>1 DEF MsoTypeOK
<1>12. \A p \in Fresh(m) : hub'[p.id].rev > 0
    <2>1. MsoTypeOK /\ HubOK /\ HistoryOK /\ HistoryIsLinear
        BY DEF MsoInv
    <2>2. QED
        BY <1>4, <1>5, <2>1, AcceptExtends DEF Acceptable
<1>13. waiting[n] = {m} => ReplyOwn(n, x)'
    <2>1. x.epoch = m.epoch /\ x.answers = {Answer(p, p \in Fresh(m)) : p \in m.proposals}
        BY <1>9
    <2>2. QED
        BY <1>6, <1>7, <1>12, <2>1, ReplyIsOwn
<1>14. ASSUME NEW k \in Agents
       PROVE  /\ reply'[k] # {} => waiting[k] # {}
              /\ \A r \in reply'[k] : r \in reply[k] \/ ReplyOwn(k, r)'
    <2>1. CASE waiting[n] = {m} /\ k = n
        <3>1. reply'[k] = {x}
            BY <1>10, <1>11, <2>1
        <3>2. QED
            BY <1>13, <2>1, <3>1
    <2>2. CASE ~(waiting[n] = {m} /\ k = n)
        <3>1. reply'[k] = reply[k]
            BY <1>10, <1>11, <2>2
        <3>2. QED
            BY <1>1, <3>1 DEF OwnReplies
    <2>3. QED
        BY <2>1, <2>2
<1>15. QED
    BY <1>6, <1>7, <1>8, <1>14, MainframeOwn

(***************************************************************************)
(* The steps of an agent and its own edits.                                *)
(***************************************************************************)
\* A step of one agent: what it must establish about itself is enough.
LEMMA AgentOwn ==
    ASSUME MsoInv, OwnInv, NEW n \in Agents, UNCHANGED hubVars,
           \A k \in Agents \ {n} : /\ rows'[k] = rows[k] /\ member'[k] = member[k]
                                   /\ waiting'[k] = waiting[k] /\ reply'[k] = reply[k],
           member[n].epoch <= member'[n].epoch, member'[n].epoch \in Nat,
           \A o \in Ids : RowOwn(accepted, n, member'[n].epoch, o, rows'[n][o]),
           \A m \in wire' : MessageOwn(m)' \/ (m \in wire /\ m.node # n),
           \A m \in waiting'[n] : WaitingOwn(n, m)',
           reply'[n] # {} => waiting'[n] # {},
           \A r \in reply'[n] : ReplyOwn(n, r)'
    PROVE  OwnInv'
<1>1. MsoTypeOK /\ MessagesOK /\ OwnRows /\ OwnHistory /\ OwnMessages /\ OwnReplies
    BY DEF MsoInv, OwnInv
<1>2. hub' = hub /\ accepted' = accepted
    BY DEF hubVars
<1>3. OwnRows'
    BY <1>1, <1>2 DEF OwnRows
<1>4. OwnHistory'
    <2>1. ASSUME NEW a \in accepted, a.proposal.node = n
          PROVE  a.proposal.epoch <= member'[n].epoch
        <3>1. a.proposal.epoch \in Nat /\ member[n].epoch \in Nat
            BY <1>1 DEF MsoTypeOK, Receipt, Proposals, Members
        <3>2. a.proposal.epoch <= member[n].epoch
            BY <1>1, <2>1 DEF OwnHistory
        <3>3. QED
            BY <3>1, <3>2
    <2>2. QED
        BY <1>1, <1>2, <2>1 DEF OwnHistory
<1>5. ASSUME NEW k \in Agents \ {n}, NEW m, m.node = k, MessageOwn(m)
      PROVE  MessageOwn(m)'
    BY <1>2, <1>5 DEF MessageOwn, Spent, Outdated, Receipts
<1>6. OwnMessages'
    <2>1. ASSUME NEW m \in wire, m.node # n
          PROVE  MessageOwn(m)'
        <3>1. m.node \in Agents /\ MessageOwn(m)
            BY <1>1 DEF MsoTypeOK, Messages, OwnMessages
        <3>2. QED
            BY <1>5, <2>1, <3>1
    <2>2. ASSUME NEW k \in Agents \ {n}, NEW m \in waiting[k]
          PROVE  WaitingOwn(k, m)'
        <3>1. m.node = k /\ WaitingOwn(k, m)
            BY <1>1 DEF MessagesOK, WaitingOK, OwnMessages
        <3>2. MessageOwn(m)'
            BY <1>5, <3>1 DEF WaitingOwn
        <3>3. QED
            BY <3>1, <3>2 DEF WaitingOwn
    <2>3. QED
        BY <2>1, <2>2 DEF OwnMessages
<1>7. OwnReplies'
    <2>1. ASSUME NEW k \in Agents \ {n}, NEW r \in reply[k]
          PROVE  ReplyOwn(k, r)'
        <3>1. ReplyOwn(k, r)
            BY <1>1 DEF OwnReplies
        <3>2. QED
            BY <1>2, <3>1 DEF ReplyOwn, AnswersOwn, RefusalOwn, Receipts, Outdated
    <2>2. QED
        BY <1>1, <2>1 DEF OwnReplies
<1>8. QED
    BY <1>3, <1>4, <1>6, <1>7 DEF OwnInv

\* What is known of an agent and its own edits.
LEMMA OwnFacts ==
    ASSUME MsoInv, OwnInv, NEW n \in Agents
    PROVE  /\ \A o \in Ids : RowOwn(accepted, n, member[n].epoch, o, rows[n][o])
           /\ \A m \in wire : MessageOwn(m) /\ m \in Messages
           /\ \A m \in waiting[n] : WaitingOwn(n, m) /\ WaitingOK(n, m) /\ m \in Messages
           /\ reply[n] # {} => waiting[n] # {}
           /\ \A r \in reply[n] : ReplyOwn(n, r)
BY AgentFacts DEF OwnInv, OwnRows, OwnMessages, OwnReplies, MsoInv, MsoTypeOK

\* A row that has the same proposal in flight keeps requests and replies in order.
LEMMA UserOwn ==
    ASSUME MsoInv, OwnInv, NEW n \in Agents, NEW o \in Ids, NEW row, SetRow(n, o, row),
           RowOwn(accepted, n, member[n].epoch, o, row), row.sent = rows[n][o].sent,
           row.rev = rows[n][o].rev \/ row.sent = {}
    PROVE  OwnInv'
<1>1. /\ rows' = [rows EXCEPT ![n][o] = row] /\ UNCHANGED hubVars
      /\ wire' = wire /\ waiting' = waiting /\ reply' = reply
      /\ hub' = hub /\ accepted' = accepted /\ member' = member
    BY DEF SetRow, netVars, hubVars
<1>2. /\ rows'[n][o] = row
      /\ \A k \in Agents \ {n} : rows'[k] = rows[k]
      /\ \A q \in Ids \ {o} : rows'[n][q] = rows[n][q]
    BY <1>1, AgentFacts
<1>3. \A q \in Ids : /\ RowOwn(accepted, n, member[n].epoch, q, rows'[n][q])
                     /\ rows'[n][q].sent = rows[n][q].sent
                     /\ rows'[n][q].rev = rows[n][q].rev \/ rows'[n][q].sent = {}
    BY <1>2, OwnFacts
<1>4. ASSUME NEW m \in Messages, m.node = n, MessageOwn(m)
      PROVE  MessageOwn(m)'
    <2>1. \A p \in m.proposals : p.id \in Ids
        BY RecordFields DEF Messages
    <2>2. \A p \in m.proposals : rows'[n][p.id].sent = rows[n][p.id].sent
        BY <1>3, <2>1
    <2>3. QED
        BY <1>1, <1>4, <2>2 DEF MessageOwn, Spent, Outdated, Receipts
<1>5. \A m \in wire' : MessageOwn(m)' \/ (m \in wire /\ m.node # n)
    BY <1>1, <1>4, OwnFacts
<1>6. ASSUME NEW m \in waiting[n]
      PROVE  WaitingOwn(n, m)'
    <2>1. WaitingOwn(n, m) /\ m.node = n /\ m \in Messages
        BY OwnFacts DEF WaitingOK
    <2>2. MessageOwn(m)'
        BY <1>4, <2>1 DEF WaitingOwn
    <2>3. QED
        BY <1>1, <1>3, <2>1, <2>2 DEF WaitingOwn
<1>7. ASSUME NEW r \in reply[n]
      PROVE  ReplyOwn(n, r)'
    <2>1. ReplyOwn(n, r) /\ \A a \in r.answers : a.proposal.id \in Ids
        BY AgentFacts, OwnFacts, RecordFields DEF ReplyType
    <2>2. ASSUME AnswersOwn(n, r), NEW a \in r.answers
          PROVE  RefusalOwn(rows[n][a.proposal.id], a)'
        <3>1. RefusalOwn(rows[n][a.proposal.id], a) /\ a.proposal.id \in Ids
            BY <2>1, <2>2 DEF AnswersOwn
        <3>2. QED
            BY <1>1, <1>3, <3>1 DEF RefusalOwn, Receipts, Outdated
    <2>3. AnswersOwn(n, r) => AnswersOwn(n, r)'
        BY <1>3, <2>2 DEF AnswersOwn
    <2>4. QED
        BY <1>1, <2>1, <2>3 DEF ReplyOwn
<1>8. \A k \in Agents \ {n} : /\ rows'[k] = rows[k] /\ member'[k] = member[k]
                              /\ waiting'[k] = waiting[k] /\ reply'[k] = reply[k]
    BY <1>1, <1>2
<1>9. member[n].epoch <= member'[n].epoch /\ member'[n].epoch \in Nat
    BY <1>1, AgentFacts
<1>10. \A m \in waiting'[n] : WaitingOwn(n, m)'
    BY <1>1, <1>6
<1>11. \A r \in reply'[n] : ReplyOwn(n, r)'
    BY <1>1, <1>7
<1>12. reply'[n] # {} => waiting'[n] # {}
    BY <1>1, OwnFacts
<1>13. \A q \in Ids : RowOwn(accepted, n, member'[n].epoch, q, rows'[n][q])
    BY <1>1, <1>3
<1>14. QED
    BY <1>1, <1>5, <1>8, <1>9, <1>10, <1>11, <1>12, <1>13, AgentOwn

\* The chain ends where a row is closed: a deleted link is the row's own content.
LEMMA OpenRow ==
    ASSUME MsoInv, OwnInv, NEW n \in Agents, NEW o \in Ids, rows[n][o].here, ~rows[n][o].deleted
    PROVE  ~ \E a \in accepted : /\ a.proposal.id = o /\ a.rev = rows[n][o].rev
                                 /\ a.proposal.deleted
BY OwnFacts DEF RowOwn, ClosedOwn

\* A user of an agent edits, withdraws or chooses.
LEMMA UserStepOwn ==
    ASSUME MsoInv, OwnInv, NEW n \in Agents, NEW o \in Ids, UserStep(n, o)
    PROVE  OwnInv'
<1>1. PICK row : row = rows[n][o]
    OBVIOUS
<1>2. PICK H, e : H = accepted /\ e = member[n].epoch
    OBVIOUS
<1>3. /\ row \in Rows /\ RowFits(H, hub[o].rev, o, row) /\ RowOwn(H, n, e, o, row)
      /\ H \in SUBSET Receipt /\ ChainFits(H, hub[o].rev, o) /\ ChainDistinct(H, o)
    BY <1>1, <1>2, RowFacts, OwnFacts, ChainFacts
<1>4. row.rev \in Nat /\ row.conflict \subseteq Records /\ edits \in Nat
    BY <1>3, RowFields, AgentFacts
<1>5. CASE Create(n, o)
    <2>1. PICK new : new = [NoRow EXCEPT !.here = TRUE, !.val = edits + 1, !.dirty = TRUE]
        OBVIOUS
    <2>2. SetRow(n, o, new) /\ hub[o].rev = 0 /\ ~row.here
        BY <1>1, <1>5, <2>1 DEF Create, Unused
    <2>3. new.sent = {} /\ new.conflict = {} /\ row.sent = {}
        BY <1>3, <2>1, <2>2, NoRowFields DEF NoRow, RowFits
    <2>4. ~ \E a \in H : a.proposal.id = o
        <3>1. SUFFICES ASSUME NEW a \in H, a.proposal.id = o
                       PROVE  FALSE
            OBVIOUS
        <3>2. a.proposal.base < a.rev /\ a.rev <= 0 /\ a.rev \in Nat /\ a.proposal.base \in Nat
            BY <1>3, <2>2, <3>1, RecordFields DEF ChainFits
        <3>3. QED
            BY <3>2
    <2>5. RowOwn(H, n, e, o, new)
        BY <2>3, <2>4 DEF RowOwn, FlightOwn, BehindOwn, ClosedOwn
    <2>6. QED
        BY <1>1, <1>2, <2>2, <2>3, <2>5, UserOwn
<1>6. ASSUME NEW del \in BOOLEAN, Change(n, o, del)
      PROVE  OwnInv'
    <2>1. PICK v, t : v = (IF del THEN row.val ELSE edits + 1) /\ t = (row.sent # {})
        OBVIOUS
    <2>2. PICK new : new = [row EXCEPT !.val = v, !.deleted = del, !.dirty = TRUE, !.touched = t]
        OBVIOUS
    <2>3. SetRow(n, o, new) /\ row.here /\ ~row.deleted /\ row.conflict = {}
        BY <1>1, <1>6, <2>1, <2>2 DEF Change
    <2>4. /\ new.here = row.here /\ new.dirty /\ new.sent = row.sent
          /\ new.conflict = row.conflict /\ new.rev = row.rev
        BY <1>3, <2>2 DEF Rows
    <2>5. FlightOwn(n, e, new)
        BY <1>3, <2>3, <2>4 DEF RowOwn, FlightOwn
    <2>6. BehindOwn(H, n, e, o, new)
        BY <1>3, <2>4 DEF RowOwn, BehindOwn
    <2>7. ClosedOwn(H, o, new)
        BY <1>1, <1>2, <2>3, <2>4, OpenRow DEF ClosedOwn
    <2>8. RowOwn(H, n, e, o, new)
        BY <2>3, <2>4, <2>5, <2>6, <2>7 DEF RowOwn
    <2>9. QED
        BY <1>1, <1>2, <2>3, <2>4, <2>8, UserOwn
<1>7. ASSUME NEW r \in row.conflict
      PROVE  /\ r \in Records /\ Link(H, o, r) /\ row.sent = {}
             /\ \A c \in H : c.proposal.id = o /\ c.proposal.node = n /\ c.proposal.epoch = e =>
                    c.rev <= r.rev
    <2>1. r \in Records /\ r.rev \in Nat /\ Link(H, o, r) /\ row.rev < r.rev
        BY <1>3, <1>4, RecordFields DEF RowFits, RowOwn
    <2>2. row.sent = {}
        BY <1>3, <1>7 DEF RowOwn, FlightOwn
    <2>3. ASSUME NEW c \in H, c.proposal.id = o, c.proposal.node = n, c.proposal.epoch = e
          PROVE  c.rev <= r.rev
        <3>1. c.rev \in Nat /\ c.rev <= row.rev
            BY <1>3, <2>2, <2>3, RecordFields DEF RowOwn, BehindOwn
        <3>2. QED
            BY <1>4, <2>1, <3>1
    <2>4. QED
        BY <2>1, <2>2, <2>3
<1>8. ASSUME NEW r \in row.conflict, NEW new, SetRow(n, o, new),
             new.rev = r.rev, new.sent = {}, new.conflict = {},
             r.deleted => new.deleted /\ ~new.dirty
      PROVE  OwnInv'
    <2>1. BehindOwn(H, n, e, o, new)
        BY <1>7, <1>8 DEF BehindOwn
    <2>2. ClosedOwn(H, o, new)
        BY <1>3, <1>7, <1>8, ClosedByLink DEF ClosedOwn
    <2>3. RowOwn(H, n, e, o, new)
        BY <1>8, <2>1, <2>2 DEF RowOwn, FlightOwn
    <2>4. QED
        BY <1>1, <1>2, <1>7, <1>8, <2>3, UserOwn
<1>9. CASE UseFleet(n, o)
    <2>1. PICK r \in row.conflict : SetRow(n, o, SyncedRow(r))
        BY <1>1, <1>9 DEF UseFleet
    <2>2. PICK new : new = SyncedRow(r)
        OBVIOUS
    <2>3. /\ new.rev = r.rev /\ new.sent = {} /\ new.conflict = {} /\ ~new.dirty
          /\ new.deleted = r.deleted
        BY <1>7, <2>2, SyncedFields
    <2>4. QED
        BY <1>8, <2>1, <2>2, <2>3
<1>10. CASE KeepLocal(n, o)
    <2>1. PICK r \in row.conflict :
             /\ ~r.deleted
             /\ SetRow(n, o, [row EXCEPT !.rev = r.rev, !.dirty = TRUE, !.sent = {},
                                         !.touched = FALSE, !.conflict = {}])
        BY <1>1, <1>10 DEF KeepLocal
    <2>2. PICK new : new = [row EXCEPT !.rev = r.rev, !.dirty = TRUE, !.sent = {},
                                       !.touched = FALSE, !.conflict = {}]
        OBVIOUS
    <2>3. new.rev = r.rev /\ new.sent = {} /\ new.conflict = {}
        BY <1>3, <2>2 DEF Rows
    <2>4. QED
        BY <1>8, <2>1, <2>2, <2>3
<1>11. QED
    BY <1>5, <1>6, <1>9, <1>10 DEF UserStep

\* A proposal that is drawn is the row's content, in the present membership.
LEMMA DrawOwn ==
    ASSUME MsoInv, OwnInv, NEW n \in Agents, NEW o \in Pending(n)
    PROVE  /\ RowOwn(accepted, n, member[n].epoch, o, Draw(n, o))
           /\ rows[n][o].sent \subseteq Draw(n, o).sent
<1>1. PICK row : row = rows[n][o]
    OBVIOUS
<1>2. o \in Ids /\ row.dirty /\ row.conflict = {}
    BY <1>1 DEF Pending
<1>3. row \in Rows /\ RowOwn(accepted, n, member[n].epoch, o, row)
    BY <1>1, <1>2, RowFacts, OwnFacts
<1>4. CASE row.sent # {}
    BY <1>1, <1>3, <1>4 DEF Draw
<1>5. CASE row.sent = {}
    <2>1. PICK p : p = Propose(n, o, row)
        OBVIOUS
    <2>2. p.node = n /\ p.epoch = member[n].epoch /\ p.deleted = row.deleted
        BY <2>1 DEF Propose
    <2>3. PICK new : new = [row EXCEPT !.sent = {p}, !.touched = FALSE]
        OBVIOUS
    <2>4. Draw(n, o) = new
        BY <1>1, <1>5, <2>1, <2>3 DEF Draw
    <2>5. /\ new.sent = {p} /\ ~new.touched /\ new.rev = row.rev /\ new.conflict = row.conflict
          /\ new.here = row.here /\ new.dirty = row.dirty /\ new.deleted = row.deleted
        BY <1>3, <2>3 DEF Rows
    <2>6. FlightOwn(n, member[n].epoch, new)
        BY <1>2, <2>2, <2>5 DEF FlightOwn
    <2>7. BehindOwn(accepted, n, member[n].epoch, o, new)
        BY <1>3, <1>5, <2>5 DEF RowOwn, BehindOwn
    <2>8. ClosedOwn(accepted, o, new)
        BY <1>3, <2>5 DEF RowOwn, ClosedOwn
    <2>9. RowOwn(accepted, n, member[n].epoch, o, new)
        BY <1>2, <2>5, <2>6, <2>7, <2>8 DEF RowOwn
    <2>10. QED
        BY <1>1, <1>5, <2>4, <2>9
<1>6. QED
    BY <1>4, <1>5

\* request takes every pending edit when they fit.
LEMMA WholeBatch ==
    ASSUME NEW n \in Agents, EditsFit, NEW S \in Batches(n)
    PROVE  S = Pending(n)
<1>1. IsFiniteSet(Pending(n))
    BY IdsAssumption, FS_Subset DEF Pending
<1>2. Cardinality(Pending(n)) \in Nat /\ Cardinality(Pending(n)) <= Batch
    BY <1>1, FS_CardinalityType DEF EditsFit
<1>3. S \subseteq Pending(n) /\ Cardinality(S) = Cardinality(Pending(n))
    BY <1>2, BatchAssumption DEF Batches
<1>4. QED
    BY <1>1, <1>3, FS_Subset

\* A request that takes every pending edit repeats whatever is in flight.
LEMMA RequestOwn ==
    ASSUME MsoInv, OwnInv, EditsFit, NEW n \in Agents, Request(n)
    PROVE  OwnInv'
<1>1. PICK S \in Batches(n) :
          LET drawn == [o \in Ids |-> IF o \in S THEN Draw(n, o) ELSE rows[n][o]]
              m == [node |-> n, try |-> 1, epoch |-> member[n].epoch, cursor |-> member[n].cursor,
                    proposals |-> UNION {drawn[o].sent : o \in S}]
          IN  /\ rows' = [rows EXCEPT ![n] = drawn]
              /\ wire' = wire \cup {m}
              /\ waiting' = [waiting EXCEPT ![n] = {m}]
    BY DEF Request
<1>2. PICK drawn : drawn = [o \in Ids |-> IF o \in S THEN Draw(n, o) ELSE rows[n][o]]
    OBVIOUS
<1>3. PICK m : m = [node |-> n, try |-> 1, epoch |-> member[n].epoch, cursor |-> member[n].cursor,
                    proposals |-> UNION {drawn[o].sent : o \in S}]
    OBVIOUS
<1>4. /\ rows' = [rows EXCEPT ![n] = drawn]
      /\ wire' = wire \cup {m}
      /\ waiting' = [waiting EXCEPT ![n] = {m}]
    BY <1>1, <1>2, <1>3
<1>5. /\ UNCHANGED hubVars /\ member' = member /\ reply' = reply
      /\ hub' = hub /\ accepted' = accepted /\ waiting[n] = {}
    BY DEF Request, hubVars
<1>6. /\ rows'[n] = drawn /\ waiting'[n] = {m}
      /\ \A k \in Agents \ {n} : rows'[k] = rows[k] /\ waiting'[k] = waiting[k]
    BY <1>4, AgentFacts
<1>7. S = Pending(n) /\ S \subseteq Ids
    BY WholeBatch DEF Pending
<1>8. ASSUME NEW o \in Ids
      PROVE  /\ RowOwn(accepted, n, member[n].epoch, o, drawn[o])
             /\ rows[n][o].sent \subseteq drawn[o].sent
    <2>1. CASE o \in S
        BY <1>2, <1>7, <2>1, DrawOwn
    <2>2. CASE o \notin S
        BY <1>2, <2>2, OwnFacts
    <2>3. QED
        BY <2>1, <2>2
<1>9. ASSUME NEW o \in Ids, NEW p \in drawn[o].sent
      PROVE  /\ p \in m.proposals /\ p.id = o /\ p.node = n /\ p.epoch = member[n].epoch
    <2>1. o \in S
        <3>1. SUFFICES ASSUME o \notin S
                       PROVE  FALSE
            OBVIOUS
        <3>2. drawn[o] = rows[n][o]
            BY <1>2, <3>1
        <3>3. rows[n][o].dirty /\ rows[n][o].conflict = {}
            BY <1>9, <3>2, OwnFacts DEF RowOwn, FlightOwn
        <3>4. QED
            BY <1>7, <3>1, <3>3 DEF Pending
    <2>2. p.id = o
        BY <1>6, <1>9, RequestRows DEF RowFits
    <2>3. p.node = n /\ p.epoch = member[n].epoch
        BY <1>8, <1>9 DEF RowOwn, FlightOwn
    <2>4. QED
        BY <1>3, <2>1, <2>2, <2>3
<1>10. ASSUME NEW p \in m.proposals
       PROVE  p.node = n /\ p.epoch = member[n].epoch /\ p \in drawn[p.id].sent
    <2>1. PICK o \in S : p \in drawn[o].sent
        BY <1>3
    <2>2. QED
        BY <1>7, <1>9, <2>1
<1>11. m.node = n /\ m.epoch = member[n].epoch
    BY <1>3
<1>12. MessageOwn(m)'
    <2>1. m.epoch <= member[n].epoch
        BY <1>11, AgentFacts
    <2>2. QED
        BY <1>5, <1>6, <1>10, <1>11, <2>1 DEF MessageOwn
<1>13. WaitingOwn(n, m)'
    BY <1>5, <1>6, <1>9, <1>12 DEF WaitingOwn
<1>14. ASSUME NEW w \in wire, w.node = n
       PROVE  MessageOwn(w)'
    <2>1. MessageOwn(w) /\ \A p \in w.proposals : p.id \in Ids
        BY OwnFacts, RecordFields DEF Messages
    <2>2. \A p \in w.proposals : rows[n][p.id].sent \subseteq rows'[n][p.id].sent
        BY <1>6, <1>8, <2>1
    <2>3. QED
        BY <1>5, <1>14, <2>1, <2>2 DEF MessageOwn, Spent, Outdated, Receipts
<1>15. \A w \in wire' : MessageOwn(w)' \/ (w \in wire /\ w.node # n)
    BY <1>4, <1>12, <1>14
<1>16. reply'[n] = {}
    BY <1>5, OwnFacts
<1>17. member[n].epoch <= member'[n].epoch /\ member'[n].epoch \in Nat
    BY <1>5, AgentFacts
<1>18. \A o \in Ids : RowOwn(accepted, n, member'[n].epoch, o, rows'[n][o])
    BY <1>5, <1>6, <1>8
<1>19. \A k \in Agents \ {n} : /\ rows'[k] = rows[k] /\ member'[k] = member[k]
                               /\ waiting'[k] = waiting[k] /\ reply'[k] = reply[k]
    BY <1>5, <1>6
<1>20. \A w \in waiting'[n] : WaitingOwn(n, w)'
    BY <1>6, <1>13
<1>21. QED
    BY <1>5, <1>15, <1>16, <1>17, <1>18, <1>19, <1>20, AgentOwn

\* The second try carries what the first one did.
LEMMA TimeoutOwn ==
    ASSUME MsoInv, OwnInv, NEW n \in Agents, Timeout(n)
    PROVE  OwnInv'
<1>1. PICK m \in waiting[n] :
          LET again == IF m.try = 1 THEN {[m EXCEPT !.try = 2]} ELSE {}
          IN  waiting' = [waiting EXCEPT ![n] = again] /\ wire' = wire \cup again
    BY DEF Timeout
<1>2. PICK again : again = IF m.try = 1 THEN {[m EXCEPT !.try = 2]} ELSE {}
    OBVIOUS
<1>3. /\ waiting' = [waiting EXCEPT ![n] = again] /\ wire' = wire \cup again
      /\ reply' = [reply EXCEPT ![n] = {}]
      /\ UNCHANGED hubVars /\ rows' = rows /\ member' = member
      /\ hub' = hub /\ accepted' = accepted
    BY <1>1, <1>2 DEF Timeout, hubVars
<1>4. waiting'[n] = again /\ reply'[n] = {}
    BY <1>3, AgentFacts
<1>5. \A w : MessageOwn(w) => MessageOwn(w)'
    BY <1>3 DEF MessageOwn, Spent, Outdated, Receipts
<1>6. ASSUME NEW w \in again
      PROVE  MessageOwn(w)' /\ WaitingOwn(n, w)'
    <2>1. WaitingOwn(n, m) /\ m \in Messages
        BY OwnFacts
    <2>2. w = [m EXCEPT !.try = 2]
        BY <1>2, <1>6
    <2>3. w.node = m.node /\ w.epoch = m.epoch /\ w.proposals = m.proposals
        BY <2>1, <2>2 DEF Messages
    <2>4. MessageOwn(w)
        BY <2>1, <2>3 DEF WaitingOwn, MessageOwn
    <2>5. QED
        BY <1>3, <1>5, <2>1, <2>3, <2>4 DEF WaitingOwn
<1>7. \A w \in wire' : MessageOwn(w)' \/ (w \in wire /\ w.node # n)
    BY <1>3, <1>5, <1>6, OwnFacts
<1>8. \A k \in Agents \ {n} : /\ rows'[k] = rows[k] /\ member'[k] = member[k]
                              /\ waiting'[k] = waiting[k] /\ reply'[k] = reply[k]
    BY <1>3, AgentFacts
<1>9. member[n].epoch <= member'[n].epoch /\ member'[n].epoch \in Nat
    BY <1>3, AgentFacts
<1>10. \A o \in Ids : RowOwn(accepted, n, member'[n].epoch, o, rows'[n][o])
    BY <1>3, OwnFacts
<1>11. QED
    BY <1>3, <1>4, <1>6, <1>7, <1>8, <1>9, <1>10, AgentOwn

\* A new membership has nothing of its own yet.
LEMMA ChangeRoleOwn ==
    ASSUME MsoInv, OwnInv, NEW n \in Agents, ChangeRole(n)
    PROVE  OwnInv'
<1>1. PICK new : new = [role |-> IF member[n].role = "agent" THEN "standalone" ELSE "agent",
                        epoch |-> member[n].epoch + 1, cursor |-> 0]
    OBVIOUS
<1>2. PICK none : none = [o \in Ids |-> NoRow]
    OBVIOUS
<1>3. /\ rows' = [rows EXCEPT ![n] = none]
      /\ member' = [member EXCEPT ![n] = new]
      /\ UNCHANGED hubVars /\ wire' = wire /\ waiting' = waiting /\ reply' = reply
      /\ hub' = hub /\ accepted' = accepted
    BY <1>1, <1>2 DEF ChangeRole, hubVars, netVars
<1>4. /\ rows'[n] = none /\ member'[n] = new /\ new.epoch = member[n].epoch + 1
      /\ member[n].epoch \in Nat
    BY <1>1, <1>3, AgentFacts
<1>5. ASSUME NEW o \in Ids
      PROVE  RowOwn(accepted, n, new.epoch, o, rows'[n][o])
    <2>1. rows'[n][o] = NoRow
        BY <1>2, <1>4
    <2>2. ASSUME NEW a \in accepted, a.proposal.node = n, a.proposal.epoch = new.epoch
          PROVE  FALSE
        <3>1. a.proposal.epoch <= member[n].epoch
            BY <2>2 DEF OwnInv, OwnHistory
        <3>2. QED
            BY <1>4, <2>2, <3>1
    <2>3. QED
        BY <2>1, <2>2, NoRowFields DEF RowOwn, FlightOwn, BehindOwn, ClosedOwn
<1>6. ASSUME NEW m \in Messages, m.node = n, MessageOwn(m)
      PROVE  MessageOwn(m)' /\ m.epoch # member'[n].epoch
    <2>1. m.epoch \in Nat /\ m.epoch <= member[n].epoch
        BY <1>6 DEF Messages, MessageOwn
    <2>2. m.epoch <= member'[n].epoch /\ m.epoch # member'[n].epoch
        BY <1>4, <2>1
    <2>3. QED
        BY <1>6, <2>2 DEF MessageOwn
<1>7. \A m \in waiting'[n] : WaitingOwn(n, m)'
    <2>1. SUFFICES ASSUME NEW m \in waiting[n]
                   PROVE  WaitingOwn(n, m)'
        BY <1>3
    <2>2. m \in Messages /\ m.node = n /\ MessageOwn(m)
        BY OwnFacts DEF WaitingOwn, WaitingOK
    <2>3. QED
        BY <1>6, <2>2 DEF WaitingOwn
<1>8. \A r \in reply'[n] : ReplyOwn(n, r)'
    <2>1. SUFFICES ASSUME NEW r \in reply[n]
                   PROVE  ReplyOwn(n, r)'
        BY <1>3
    <2>2. ReplyOwn(n, r) /\ r.epoch \in Nat /\ r.epoch <= member[n].epoch
        BY OwnFacts, AgentFacts DEF ReplyOK, ReplyType
    <2>3. r.epoch # member'[n].epoch
        BY <1>4, <2>2
    <2>4. QED
        BY <2>2, <2>3 DEF ReplyOwn
<1>9. \A m \in wire' : MessageOwn(m)' \/ (m \in wire /\ m.node # n)
    BY <1>3, <1>6, OwnFacts
<1>10. \A k \in Agents \ {n} : /\ rows'[k] = rows[k] /\ member'[k] = member[k]
                               /\ waiting'[k] = waiting[k] /\ reply'[k] = reply[k]
    BY <1>3, AgentFacts
<1>11. member[n].epoch <= member'[n].epoch /\ member'[n].epoch \in Nat
    BY <1>4
<1>12. \A o \in Ids : RowOwn(accepted, n, member'[n].epoch, o, rows'[n][o])
    BY <1>4, <1>5
<1>13. reply'[n] # {} => waiting'[n] # {}
    BY <1>3, OwnFacts
<1>14. QED
    BY <1>3, <1>7, <1>8, <1>9, <1>10, <1>11, <1>12, <1>13, AgentOwn

\* receive settles whatever was in flight: it was accepted, or is out of date.
LEMMA ReceiveOwn ==
    ASSUME MsoInv, OwnInv, NEW n \in Agents, Receive(n)
    PROVE  OwnInv'
<1>1. PICK r \in reply[n] :
          /\ IF Current(n, r)
             THEN /\ rows' = [rows EXCEPT ![n] = [o \in Ids |-> Received(rows[n][o], o, r)]]
                  /\ member' = [member EXCEPT ![n].cursor = IF r.cursor > @ THEN r.cursor ELSE @]
             ELSE UNCHANGED <<rows, member>>
          /\ reply' = [reply EXCEPT ![n] = {}]
          /\ waiting' = [waiting EXCEPT ![n] = {}]
          /\ UNCHANGED <<hubVars, wire, edits, faults>>
    BY DEF Receive
<1>2. /\ UNCHANGED hubVars /\ wire' = wire /\ hub' = hub /\ accepted' = accepted
      /\ reply'[n] = {} /\ waiting'[n] = {}
      /\ \A k \in Agents \ {n} : waiting'[k] = waiting[k] /\ reply'[k] = reply[k]
    BY <1>1, AgentFacts DEF hubVars
<1>3. CASE ~Current(n, r)
    <2>1. rows' = rows /\ member' = member
        BY <1>1, <1>3
    <2>2. \A m : MessageOwn(m) => MessageOwn(m)'
        BY <1>2, <2>1 DEF MessageOwn, Spent, Outdated, Receipts
    <2>3. \A m \in wire' : MessageOwn(m)'
        BY <1>2, <2>2, OwnFacts
    <2>4. member[n].epoch <= member'[n].epoch /\ member'[n].epoch \in Nat
        BY <2>1, AgentFacts
    <2>5. \A o \in Ids : RowOwn(accepted, n, member'[n].epoch, o, rows'[n][o])
        BY <2>1, OwnFacts
    <2>6. \A k \in Agents \ {n} : /\ rows'[k] = rows[k] /\ member'[k] = member[k]
                                  /\ waiting'[k] = waiting[k] /\ reply'[k] = reply[k]
        BY <1>2, <2>1
    <2>7. QED
        BY <1>2, <2>3, <2>4, <2>5, <2>6, AgentOwn
<1>4. CASE Current(n, r)
    <2>1. PICK got : got = [o \in Ids |-> Received(rows[n][o], o, r)]
        OBVIOUS
    <2>2. rows'[n] = got /\ \A k \in Agents \ {n} : rows'[k] = rows[k] /\ member'[k] = member[k]
        BY <1>1, <1>4, <2>1, AgentFacts
    <2>3. member'[n].epoch = member[n].epoch /\ member[n].epoch \in Nat
        <3>1. PICK c : c = IF r.cursor > member[n].cursor THEN r.cursor ELSE member[n].cursor
            OBVIOUS
        <3>2. member' = [member EXCEPT ![n] = [member[n] EXCEPT !.cursor = c]]
            BY <1>1, <1>4, <3>1
        <3>3. [member[n] EXCEPT !.cursor = c].epoch = member[n].epoch /\ member[n].epoch \in Nat
            BY AgentFacts DEF Members
        <3>4. QED
            BY <3>2, <3>3, AgentFacts
    <2>4. /\ ReplyType(r) /\ ReplyOK(n, r) /\ Covers(n, r) /\ ReplyOwn(n, r) /\ AnswersOwn(n, r)
        BY <1>4, AgentFacts, OwnFacts DEF Current, ReplyOK, ReplyOwn
    <2>5. ASSUME NEW o \in Ids
          PROVE  /\ RowOwn(accepted, n, member[n].epoch, o, got[o]) /\ got[o].sent = {}
                 /\ \A p \in rows[n][o].sent : Spent(p)
        <3>1. PICK row, h, H, e : /\ row = rows[n][o] /\ h = hub[o].rev /\ H = accepted
                                  /\ e = member[n].epoch
            OBVIOUS
        <3>2. /\ row \in Rows /\ RowFits(H, h, o, row) /\ h \in Nat /\ RowOwn(H, n, e, o, row)
              /\ H \in SUBSET Receipt /\ ChainFits(H, h, o) /\ ChainDistinct(H, o)
            BY <3>1, RowFacts, OwnFacts, ChainFacts
        <3>3. ReplyFits(H, o, row, r)
            <4>1. \A a \in r.answers :
                      /\ AnswerOK(H, a)
                      /\ a.proposal.id = o /\ a.proposal \in row.sent => row.conflict = {}
                BY <2>4, <3>1 DEF ReplyOK, Covers, Undisputed
            <4>2. o \in DOMAIN r.objects =>
                      /\ Link(H, o, r.objects[o])
                      /\ \A c \in row.conflict : c.rev <= r.objects[o].rev
                      /\ \A a \in r.answers : a.proposal.id = o => a.remote.rev <= r.objects[o].rev
                BY <2>4, <3>1 DEF ReplyOK, Covers
            <4>3. QED
                BY <4>1, <4>2 DEF ReplyFits
        <3>4. /\ \A a, b \in r.answers : a.proposal.id = b.proposal.id => a = b
              /\ \A p \in row.sent : \E a \in r.answers : a.proposal = p
            BY <2>4, <3>1 DEF ReplyOwn, AnswersOwn
        <3>5. ASSUME NEW a \in r.answers, a.rev = 0, a.proposal \in row.sent
              PROVE  /\ row.rev < a.remote.rev /\ \A b \in H : b.proposal # a.proposal
                     /\ Outdated(a.proposal)
            <4>1. a.proposal.id = o
                BY <3>2, <3>5 DEF RowFits
            <4>2. RefusalOwn(row, a)
                BY <2>4, <3>1, <4>1 DEF AnswersOwn
            <4>3. QED
                BY <3>1, <3>5, <4>2 DEF RefusalOwn, Receipts
        <3>6. RowOwn(H, n, e, o, Received(row, o, r)) /\ Received(row, o, r).sent = {}
            BY <2>4, <3>2, <3>3, <3>4, <3>5, ReceivedOwn
        <3>7. ASSUME NEW p \in row.sent
              PROVE  Spent(p)
            <4>1. PICK a \in r.answers : a.proposal = p
                BY <3>4
            <4>2. CASE a.rev = 0
                BY <3>5, <4>1, <4>2 DEF Spent
            <4>3. CASE a.rev # 0
                <5>1. a \in Answers /\ AnswerOK(accepted, a)
                    BY <2>4 DEF ReplyOK, ReplyType
                <5>2. a.rev > 0
                    BY <4>3, <5>1, RecordFields
                <5>3. [proposal |-> p, rev |-> a.rev] \in accepted
                    BY <4>1, <5>1, <5>2 DEF AnswerOK
                <5>4. QED
                    BY <5>3 DEF Spent, Receipts
            <4>4. QED
                BY <4>2, <4>3
        <3>8. QED
            BY <2>1, <3>1, <3>6, <3>7
    <2>6. ASSUME NEW m \in wire, m.node = n
          PROVE  MessageOwn(m)'
        <3>1. MessageOwn(m) /\ \A p \in m.proposals : p.id \in Ids
            BY OwnFacts, RecordFields DEF Messages
        <3>2. \A p \in m.proposals : p \in rows[n][p.id].sent => Spent(p)
            BY <2>5, <3>1
        <3>3. QED
            BY <1>2, <2>3, <2>6, <3>1, <3>2 DEF MessageOwn, Spent, Outdated, Receipts
    <2>7. \A m \in wire' : MessageOwn(m)' \/ (m \in wire /\ m.node # n)
        BY <1>2, <2>6
    <2>8. \A o \in Ids : RowOwn(accepted, n, member'[n].epoch, o, rows'[n][o])
        BY <2>2, <2>3, <2>5
    <2>9. member[n].epoch <= member'[n].epoch /\ member'[n].epoch \in Nat
        BY <2>3
    <2>10. \A k \in Agents \ {n} : /\ rows'[k] = rows[k] /\ member'[k] = member[k]
                                   /\ waiting'[k] = waiting[k] /\ reply'[k] = reply[k]
        BY <1>2, <2>2
    <2>11. QED
        BY <1>2, <2>7, <2>8, <2>9, <2>10, AgentOwn
<1>5. QED
    BY <1>3, <1>4

\* While the pending edits fit one exchange, every step keeps an agent and its
\* own edits together.
LEMMA OwnNext ==
    ASSUME MsoInv, OwnInv, EditsFit, [Next]_msoVars
    PROVE  OwnInv'
<1>1. CASE \E o \in Ids, del \in BOOLEAN : SaveOnMainframe(o, del)
    BY <1>1, SaveOnMainframeOwn
<1>2. CASE \E m \in wire : Exchange(m)
    BY <1>2, ExchangeOwn
<1>3. ASSUME NEW n \in Agents, Request(n)
      PROVE  OwnInv'
    BY <1>3, RequestOwn
<1>4. ASSUME NEW n \in Agents, Timeout(n)
      PROVE  OwnInv'
    BY <1>4, TimeoutOwn
<1>5. ASSUME NEW n \in Agents, Receive(n)
      PROVE  OwnInv'
    BY <1>5, ReceiveOwn
<1>6. ASSUME NEW n \in Agents, ChangeRole(n)
      PROVE  OwnInv'
    BY <1>6, ChangeRoleOwn
<1>7. ASSUME NEW n \in Agents, NEW o \in Ids, UserStep(n, o)
      PROVE  OwnInv'
    BY <1>7, UserStepOwn
<1>8. CASE UNCHANGED msoVars
    BY <1>8 DEF msoVars, OwnInv, OwnRows, OwnHistory, OwnMessages, MessageOwn, WaitingOwn, OwnReplies,
             ReplyOwn, AnswersOwn, RefusalOwn, Spent, Outdated, Receipts
<1>9. QED
    BY <1>1, <1>2, <1>3, <1>4, <1>5, <1>6, <1>7, <1>8 DEF Next

(***************************************************************************)
(* Theorems.                                                               *)
(***************************************************************************)
\* Every step of the program keeps the invariant.
LEMMA MsoNext ==
    ASSUME MsoInv, [Next]_msoVars
    PROVE  MsoInv'
<1>1. CASE \E o \in Ids, del \in BOOLEAN : SaveOnMainframe(o, del)
    BY <1>1, SaveOnMainframeKeeps
<1>2. CASE \E m \in wire : Exchange(m)
    BY <1>2, ExchangeKeeps
<1>3. ASSUME NEW n \in Agents, Request(n)
      PROVE  MsoInv'
    BY <1>3, RequestKeeps
<1>4. ASSUME NEW n \in Agents, Timeout(n)
      PROVE  MsoInv'
    BY <1>4, TimeoutKeeps
<1>5. ASSUME NEW n \in Agents, Receive(n)
      PROVE  MsoInv'
    BY <1>5, ReceiveKeeps
<1>6. ASSUME NEW n \in Agents, ChangeRole(n)
      PROVE  MsoInv'
    BY <1>6, ChangeRoleKeeps
<1>7. ASSUME NEW n \in Agents, NEW o \in Ids, UserStep(n, o)
      PROVE  MsoInv'
    BY <1>7, UserStepKeeps
<1>8. CASE UNCHANGED msoVars
    BY <1>8 DEF msoVars, MsoInv, MsoTypeOK, HubOK, HistoryOK, HistoryIsLinear, RowsOK, MessagesOK,
             MessageOK, WaitingOK, Undisputed, RepliesOK, ReplyOK, Covers, CursorsOK, LeavingDetaches
<1>9. QED
    BY <1>1, <1>2, <1>3, <1>4, <1>5, <1>6, <1>7, <1>8 DEF Next

\* The invariant holds of every reachable state: the chains of accepted
\* proposals, what every row, request and reply has to do with them, and the
\* cursors.
THEOREM MsoAlwaysOK == Spec => []MsoInv
<1>1. Init => MsoInv
    <2>1. SUFFICES ASSUME Init
                   PROVE  MsoInv
        OBVIOUS
    <2>2. NoRecord \in Records /\ NoRecord.rev = 0
        BY DEF NoRecord, Records
    <2>3. MsoTypeOK
        BY <2>1, <2>2, NoRowFields DEF Init, MsoTypeOK, Members
    <2>4. HubOK /\ HistoryOK /\ HistoryIsLinear
        BY <2>1, <2>2 DEF Init, HubOK, HistoryOK, HistoryIsLinear
    <2>5. RowsOK
        BY <2>1, <2>2, NoRowFields DEF Init, RowsOK, RowFits, RowCurrent
    <2>6. MessagesOK /\ RepliesOK /\ CursorsOK /\ LeavingDetaches
        BY <2>1 DEF Init, MessagesOK, RepliesOK, CursorsOK, LeavingDetaches
    <2>7. QED
        BY <2>3, <2>4, <2>5, <2>6 DEF MsoInv
<1>2. MsoInv /\ [Next]_msoVars => MsoInv'
    BY MsoNext
<1>3. QED
    BY <1>1, <1>2, PTL DEF Spec

\* exchange and _flush: the accepted proposals of an object are one chain, and a
\* row shown as synced is a link of it.
THEOREM HistoryAlwaysShared == Spec => []HistoryIsShared
<1>1. MsoInv => HistoryIsShared
    <2>1. SUFFICES ASSUME MsoInv
                   PROVE  HistoryIsLinear /\ SyncedRowsAreShared
        BY DEF HistoryIsShared
    <2>2. HistoryIsLinear
        BY <2>1 DEF MsoInv
    <2>3. SyncedRowsAreShared
        BY <2>1, RowFacts DEF SyncedRowsAreShared, InHistory, RowFits, Link
    <2>4. QED
        BY <2>2, <2>3
<1>2. QED
    BY <1>1, MsoAlwaysOK, PTL

\* receive: the cursor never passes a revision that the agent neither holds nor
\* shows as a conflict.
THEOREM NothingEverSkipped == Spec => []NothingIsSkipped
<1>1. MsoInv => NothingIsSkipped
    BY RowFacts DEF NothingIsSkipped, RowCurrent
<1>2. QED
    BY <1>1, MsoAlwaysOK, PTL

\* changing_role: an agent that left holds no shared object, whatever replies to
\* its old membership arrive.
THEOREM LeavingAlwaysDetaches == Spec => []LeavingDetaches
<1>1. MsoInv => LeavingDetaches
    BY DEF MsoInv
<1>2. QED
    BY <1>1, MsoAlwaysOK, PTL

\* receive and _apply: a pending edit stays pending until the Mainframe accepts
\* it or its own user replaces it.
THEOREM DraftsAlwaysKept == Spec => DraftsAreKept
<1>1. MsoInv /\ [Next]_msoVars => [DraftsAreKeptStep]_msoVars
    <2>1. SUFFICES ASSUME MsoInv, Next
                   PROVE  DraftsAreKeptStep
        OBVIOUS
    <2>2. SUFFICES ASSUME NEW n \in Agents, NEW o \in Ids, rows[n][o].dirty,
                          ~UserStep(n, o), ~ChangeRole(n)
                   PROVE  \/ /\ rows'[n][o].here /\ rows'[n][o].dirty
                             /\ rows'[n][o].val = rows[n][o].val
                             /\ rows'[n][o].deleted = rows[n][o].deleted
                          \/ \E a \in accepted' : /\ a.proposal.id = o
                                                  /\ a.proposal.val = rows[n][o].val
                                                  /\ a.proposal.deleted = rows[n][o].deleted
        BY DEF DraftsAreKeptStep
    <2>3. rows[n][o].here
        BY <2>1, <2>2, RowFacts, NoRowFields DEF RowFits
    <2>4. CASE rows'[n][o] = rows[n][o]
        BY <2>2, <2>3, <2>4
    <2>5. CASE Request(n)
        BY <2>1, <2>2, <2>3, <2>5, RequestRows
    <2>6. CASE Receive(n)
        <3>1. PICK r \in reply[n] :
                  /\ IF Current(n, r)
                     THEN rows' = [rows EXCEPT ![n] = [q \in Ids |-> Received(rows[n][q], q, r)]]
                     ELSE rows' = rows
                  /\ accepted' = accepted
            BY <2>6 DEF Receive, hubVars
        <3>2. CASE ~Current(n, r)
            BY <2>4, <3>1, <3>2
        <3>3. CASE Current(n, r)
            <4>1. PICK row : row = Received(rows[n][o], o, r)
                OBVIOUS
            <4>2. rows'[n][o] = row
                BY <2>1, <3>1, <3>3, <4>1, AgentFacts
            <4>3. PICK c : c = IF r.cursor > member[n].cursor THEN r.cursor ELSE member[n].cursor
                OBVIOUS
            <4>4. Kept(rows[n][o], row) \/ WasAccepted(accepted, o, rows[n][o])
                BY <2>1, <2>2, <3>3, <4>1, <4>3, ReceiveRows
            <4>5. QED
                BY <3>1, <4>2, <4>4 DEF Kept, WasAccepted
        <3>4. QED
            BY <3>2, <3>3
    <2>7. ASSUME NEW k \in Agents, k # n,
                 Request(k) \/ Timeout(k) \/ Receive(k) \/ ChangeRole(k) \/ \E q \in Ids : UserStep(k, q)
          PROVE  rows'[n][o] = rows[n][o]
        <3>1. rows \in [Agents -> [Ids -> Rows]]
            BY <2>1, AgentFacts
        <3>2. CASE Request(k)
            BY <2>7, <3>1, <3>2 DEF Request
        <3>3. CASE Timeout(k)
            BY <3>3 DEF Timeout
        <3>4. CASE Receive(k)
            BY <2>7, <3>1, <3>4 DEF Receive
        <3>5. CASE ChangeRole(k)
            BY <2>7, <3>1, <3>5 DEF ChangeRole
        <3>6. CASE \E q \in Ids : UserStep(k, q)
            BY <2>7, <3>1, <3>6 DEF UserStep, Create, Change, UseFleet, KeepLocal, SetRow
        <3>7. QED
            BY <2>7, <3>2, <3>3, <3>4, <3>5, <3>6
    <2>8. CASE \E q \in Ids : q # o /\ UserStep(n, q)
        <3>1. rows \in [Agents -> [Ids -> Rows]]
            BY <2>1, AgentFacts
        <3>2. rows'[n][o] = rows[n][o]
            <4>1. PICK q \in Ids : q # o /\ UserStep(n, q)
                BY <2>8
            <4>2. PICK row : rows' = [rows EXCEPT ![n][q] = row]
                BY <4>1 DEF UserStep, Create, Change, UseFleet, KeepLocal, SetRow
            <4>3. QED
                BY <3>1, <4>1, <4>2
        <3>3. QED
            BY <2>4, <3>2
    <2>9. CASE Timeout(n)
        BY <2>4, <2>9 DEF Timeout
    <2>10. CASE \/ \E q \in Ids, del \in BOOLEAN : SaveOnMainframe(q, del)
                \/ \E m \in wire : Exchange(m)
        BY <2>4, <2>10 DEF SaveOnMainframe, Exchange
    <2>11. QED
        BY <2>1, <2>2, <2>4, <2>5, <2>6, <2>7, <2>8, <2>9, <2>10 DEF Next
<1>2. QED
    BY <1>1, MsoAlwaysOK, PTL DEF Spec, DraftsAreKept

\* request, exchange and receive: while the pending edits of every agent fit one
\* exchange, no agent is asked to choose between its own edit and itself, however
\* often requests are repeated, abandoned and answered late.
THEOREM OwnEditsNeverConflict == Spec /\ []EditsFit => []NoConflictWithItself
<1>1. Init => OwnInv
    <2>1. SUFFICES ASSUME Init
                   PROVE  OwnInv
        OBVIOUS
    <2>2. OwnRows /\ OwnHistory
        BY <2>1, NoRowFields DEF Init, OwnRows, OwnHistory, RowOwn, FlightOwn, BehindOwn, ClosedOwn
    <2>3. OwnMessages /\ OwnReplies
        BY <2>1 DEF Init, OwnMessages, OwnReplies
    <2>4. QED
        BY <2>2, <2>3 DEF OwnInv
<1>2. MsoInv /\ OwnInv /\ EditsFit /\ [Next]_msoVars => OwnInv'
    BY OwnNext
<1>3. MsoInv /\ OwnInv => NoConflictWithItself
    <2>1. SUFFICES ASSUME MsoInv, OwnInv, NEW n \in Agents, NEW o \in Ids,
                          NEW r \in rows[n][o].conflict, NEW a \in accepted,
                          a.proposal.id = o, a.rev = r.rev,
                          a.proposal.node = n, a.proposal.epoch = member[n].epoch
                   PROVE  FALSE
        BY DEF NoConflictWithItself
    <2>2. PICK row : row = rows[n][o]
        OBVIOUS
    <2>3. row \in Rows /\ RowOwn(accepted, n, member[n].epoch, o, row)
        BY <2>1, <2>2, RowFacts, OwnFacts
    <2>4. row.sent = {} /\ row.rev < r.rev
        BY <2>1, <2>2, <2>3 DEF RowOwn, FlightOwn
    <2>5. a.rev <= row.rev
        BY <2>1, <2>3, <2>4 DEF RowOwn, BehindOwn
    <2>6. row.rev \in Nat /\ r.rev \in Nat
        BY <2>1, <2>2, <2>3, RowFields, RecordFields
    <2>7. QED
        BY <2>1, <2>4, <2>5, <2>6
<1>4. QED
    BY <1>1, <1>2, <1>3, MsoAlwaysOK, PTL DEF Spec

=============================================================================
