-------------------------- MODULE ResponseTransfer --------------------------
(***************************************************************************)
(* Large responses of tunnelled browser requests                           *)
(* (ResponseChunksMixin in twn_toolkit/distributed_response.py): the agent *)
(* streams a body in chunks before it reports success, the Mainframe       *)
(* verifies them against the descriptor in the result, and one HTTP        *)
(* request of the requester consumes them.                                 *)
(*                                                                         *)
(* A chunk request may be repeated or arrive late (the agent retries at    *)
(* the fallback URL), the retention of the transfer or of the job may run  *)
(* out at any point, and the reader reads each chunk in a transaction of   *)
(* its own.  The content of the n-th chunk is n: size and checksum match   *)
(* exactly when the stored sequence is 1, 2, ..., n.                       *)
(***************************************************************************)
EXTENDS DistributedJobs, Sequences

CONSTANTS
    MaxBody,            \* longest response, in chunks (distributed_response_mib)
    Quota,              \* chunks stored for all jobs (distributed_response_quota_mib)
    ResponseRetention   \* distributed_response_retention_minutes, in ticks

ASSUME BodyAssumption == MaxBody \in Nat \ {0} /\ Quota \in Nat
ASSUME ResponseRetentionAssumption == ResponseRetention \in Nat \ {0}

VARIABLES
    chunks,     \* distributed_response_chunks: the bodies stored for each job
    transfers,  \* distributed_response_transfers: [token, left], left = NULL without a row
    output,     \* what output_json describes while the row holds one
    writer,     \* the agent's stream: chunks sent, chunks accepted, its result
    reader      \* the requester's GET: its progress and the chunks it received

transferVars == <<chunks, transfers, output, writer, reader>>
rtVars == <<vars, transferVars>>

NoTransfer == [token |-> NoToken, left |-> NULL]
FirstN(n) == [i \in 1..n |-> i]

(***************************************************************************)
(* _prune_response_chunks over the rows of the current transaction.  All   *)
(* chunks of a job carry the deadline of its transfer.                     *)
(***************************************************************************)
Lapsed(j) == transfers[j].left = 0
Gone(r) == r.state \notin JobStates \/ r.keep = NULL

PrunedRows(rows) ==
    [j \in Jobs |->
        IF rows[j].state = "succeeded" /\ rows[j].cap = "tunnel" /\ Lapsed(j)
        THEN [rows[j] EXCEPT !.payload = @ \ {"output"}] ELSE rows[j]]

PrunedChunks(rows) ==
    [j \in Jobs |->
        IF Lapsed(j) \/ Gone(rows[j]) \/ rows[j].state \in {"failed", "cancelled"}
        THEN <<>> ELSE chunks[j]]

PrunedTransfers(rows) ==
    [j \in Jobs |-> IF Gone(rows[j]) THEN NoTransfer ELSE transfers[j]]

\* The chunks of all jobs: each row of the table is a job and a position.
Stored(ch) == Cardinality(UNION {{j} \X DOMAIN ch[j] : j \in Jobs})

(***************************************************************************)
(* append_response_chunk.  A refusal rolls back, the sweeps included.      *)
(***************************************************************************)
AppendAllowed(r, tr, a, tok, act) ==
    /\ Owns(r, a, tok, act)
    /\ r.state = "running"
    /\ r.cap = "tunnel"
    /\ tr # NoTransfer => tr.token = tok /\ tr.left # 0

\* A faulty Fits: the quota is checked before the chunk is counted.
FitsLate(ch, p) == p <= MaxBody /\ Stored(ch) <= Quota

Fits(ch, p) == p <= MaxBody /\ Stored(ch) < Quota

\* The first chunk sets the deadline of them all.
Window(tr, tok) ==
    IF tr # NoTransfer THEN tr ELSE [token |-> tok, left |-> ResponseRetention]

AppendChunk(j, a, tok, act, p) ==
    LET rows == PrunedRows(Expire({j}))
        ch == PrunedChunks(Expire({j}))
        tr == PrunedTransfers(Expire({j}))
        known == p <= Len(ch[j])
    IN  /\ p \in 1..writer[j].sent
        /\ AppendAllowed(rows[j], tr[j], a, tok, act)
        /\ ~known => p = Len(ch[j]) + 1 /\ Fits(ch, p)
        /\ jobs' = rows
        /\ chunks' = IF known THEN ch ELSE [ch EXCEPT ![j] = Append(@, p)]
        /\ transfers' = IF known THEN tr ELSE [tr EXCEPT ![j] = Window(@, tok)]
        /\ writer' = [writer EXCEPT ![j].acked = IF p > @ THEN p ELSE @]
        /\ UNCHANGED <<activation, issued, output, reader>>

(***************************************************************************)
(* The agent: one chunk at a time, the next one after the last was         *)
(* accepted, then the result.  Any failure ends in an unknown outcome.     *)
(***************************************************************************)
SendChunk(j) ==
    /\ jobs[j].starts > 0
    /\ writer[j].result = "none"
    /\ writer[j].sent = writer[j].acked
    /\ writer[j].sent < MaxBody
    /\ writer' = [writer EXCEPT ![j].sent = @ + 1]
    /\ UNCHANGED <<vars, chunks, transfers, output, reader>>

EndStream(j) ==
    /\ jobs[j].starts > 0
    /\ writer[j].result = "none"
    /\ \/ writer' = [writer EXCEPT ![j].result = "unknown"]
       \/ /\ writer[j].sent = writer[j].acked
          /\ writer' = [writer EXCEPT ![j].result = IF writer[j].sent = 0 THEN "inline" ELSE "transfer"]
    /\ UNCHANGED <<vars, chunks, transfers, output, reader>>

(***************************************************************************)
(* complete, with _verify_response for a body sent in chunks.              *)
(***************************************************************************)
\* A faulty Verified: contiguous chunks pass whatever the total size is.
VerifiedShort(j, ch, tr) == ch[j] = FirstN(Len(ch[j]))

Verified(j, ch, tr) ==
    /\ ch[j] = FirstN(writer[j].acked)
    /\ ch[j] # <<>> => tr[j].left # 0

CompleteTransfer(j, a, tok, act) ==
    LET rows == Expire({j})
        o == IF writer[j].result = "unknown" THEN "none" ELSE writer[j].result
    IN  /\ writer[j].result # "none"
        /\ Complete(j, a, tok, act, IF o = "none" THEN "unknown" ELSE "succeeded")
        /\ o = "transfer" /\ rows[j].state \notin Final => Verified(j, chunks, transfers)
        /\ output' = IF rows[j].state \in Final THEN output ELSE [output EXCEPT ![j] = o]
        /\ UNCHANGED <<chunks, transfers, writer, reader>>

(***************************************************************************)
(* consume_response clears the stored output before the body is read.      *)
(***************************************************************************)
Readable(j, r) ==
    /\ r.cap = "tunnel"
    /\ r.state = "succeeded"
    /\ "output" \in r.payload
    /\ output[j] = "transfer" =>
          transfers[j].left \notin {NULL, 0} /\ Verified(j, chunks, transfers)

Consume(j) ==
    LET rows == Expire({j})
    IN  /\ Readable(j, rows[j])
        /\ jobs' = [rows EXCEPT ![j].payload = @ \ {"output"}]
        /\ reader' = [reader EXCEPT ![j] =
                IF output[j] = "inline" THEN [state |-> "done", count |-> 0, got |-> <<>>]
                ELSE [state |-> "reading", count |-> Len(chunks[j]), got |-> <<>>]]
        /\ UNCHANGED <<activation, issued, chunks, transfers, output, writer>>

\* discard_tunnel_output: also drops the chunks, keeps the transfer row.
Discard(j) ==
    /\ DiscardTunnelOutput(j)
    /\ chunks' = [chunks EXCEPT ![j] = <<>>]
    /\ UNCHANGED <<transfers, output, writer>>

ReadChunk(j) ==
    LET next == Len(reader[j].got) + 1
    IN  /\ reader[j].state = "reading"
        /\ next <= reader[j].count
        /\ next <= Len(chunks[j]) /\ transfers[j].left # 0
        /\ reader' = [reader EXCEPT ![j].got = Append(@, chunks[j][next])]
        /\ UNCHANGED <<vars, chunks, transfers, output, writer>>

\* The stream ends: complete, cut short by expiry, or given up by the browser.
\* Nothing is left to discard once the job itself is gone.
EndRead(j) ==
    /\ reader[j].state = "reading"
    /\ reader' = [reader EXCEPT ![j].state =
            IF Len(reader[j].got) = reader[j].count THEN "done" ELSE "aborted"]
    /\ IF jobs[j].state = "succeeded" THEN Discard(j)
       ELSE UNCHANGED <<vars, chunks, transfers, output, writer>>

(***************************************************************************)
(* The queue's own operations, with what they do to a transfer.            *)
(***************************************************************************)
DropOutput(j) == Discard(j) /\ UNCHANGED reader

DeleteJob(j) ==
    /\ Delete(j)
    /\ IF jobs'[j].state = "deleted" /\ jobs[j].state # "deleted"
       THEN /\ chunks' = [chunks EXCEPT ![j] = <<>>]
            /\ transfers' = [transfers EXCEPT ![j] = NoTransfer]
       ELSE UNCHANGED <<chunks, transfers>>
    /\ UNCHANGED <<output, writer, reader>>

PruneAll ==
    /\ jobs' = PrunedRows(Expire(Jobs))
    /\ chunks' = PrunedChunks(Expire(Jobs))
    /\ transfers' = PrunedTransfers(Expire(Jobs))
    /\ UNCHANGED <<activation, issued, output, writer, reader>>

Clock ==
    /\ Tick
    /\ transfers' = [j \in Jobs |-> [transfers[j] EXCEPT !.left = Countdown(@)]]
    /\ UNCHANGED <<chunks, output, writer, reader>>

QueueCall ==
    /\ \E j \in Jobs, a \in Agents :
          \/ Enqueue(j, a, "tunnel")
          \/ Cancel(j)
          \/ ReadCurrent({j})
          \/ \E act \in Activations :
                \/ ActivateAgent(a, act)
                \/ Claim(a, act, "interactive", j)
          \/ \E tok \in 1..issued, act \in Activations :
                Start(j, a, tok, act) \/ Renew(j, a, tok, act)
    /\ UNCHANGED transferVars

TransferInit ==
    /\ Init
    /\ chunks = [j \in Jobs |-> <<>>]
    /\ transfers = [j \in Jobs |-> NoTransfer]
    /\ output = [j \in Jobs |-> "none"]
    /\ writer = [j \in Jobs |-> [sent |-> 0, acked |-> 0, result |-> "none"]]
    /\ reader = [j \in Jobs |-> [state |-> "idle", count |-> 0, got |-> <<>>]]

TransferNext ==
    \/ QueueCall
    \/ \E j \in Jobs :
          \/ SendChunk(j)
          \/ EndStream(j)
          \/ \E a \in Agents, tok \in 1..issued, act \in Activations :
                \/ CompleteTransfer(j, a, tok, act)
                \/ \E p \in 1..MaxBody : AppendChunk(j, a, tok, act, p)
          \/ Consume(j)
          \/ ReadChunk(j)
          \/ EndRead(j)
          \/ DropOutput(j)
          \/ DeleteJob(j)
    \/ PruneAll
    \/ Clock

TransferSpec == TransferInit /\ [][TransferNext]_rtVars

(***************************************************************************)
(* Properties.                                                             *)
(***************************************************************************)

\* A reader receives the agent's body from its start, without a gap, and a
\* stream that ended as complete is the whole body, whatever was repeated,
\* delayed, expired, pruned or deleted while it was sent and read.
DeliveredBodyIsWhole ==
    \A j \in Jobs :
        /\ reader[j].got = FirstN(Len(reader[j].got))
        /\ reader[j].state = "done" /\ output[j] = "transfer" =>
              Len(reader[j].got) = writer[j].acked

\* Stored chunks always belong to the attempt of a transfer that has a deadline,
\* and all jobs together stay within the storage quota.
ChunksAreAccounted ==
    /\ \A j \in Jobs : chunks[j] # <<>> =>
          /\ transfers[j].left # NULL
          /\ transfers[j].token = jobs[j].token \/ jobs[j].token = NoToken
    /\ Stored(chunks) <= Quota
=============================================================================
