----------------------------- MODULE BulkWriter -----------------------------
(***************************************************************************)
(* The life of one BulkWriter (src/write/writer.rs) on one SQL Server      *)
(* connection: BulkWriter::new with its two round trips, write_batch on    *)
(* the token-row and the direct backends, finish, and what happens when a  *)
(* caller drops a future or the writer.                                    *)
(*                                                                         *)
(* The writer borrows its client mutably, so at most one call is in        *)
(* flight; the code suspends only at an await, and one action is the code  *)
(* between two awaits.  The Tiberius bulk-load request and the server are  *)
(* outside this crate: `sink` is the sequence of complete rows the request *)
(* took, in order, and `table` what the server shows once the load ends.   *)
(* A batch is reduced to what the control flow looks at: whether its       *)
(* schema fits the plan, its row count, the rows with a value that does    *)
(* not convert, and the measured byte offsets of its rows.                 *)
(***************************************************************************)
EXTENDS Integers, Sequences, FiniteSets, RangePlan

CONSTANTS
    Batches,     \* the batches callers may write
    MaxPayload,  \* DIRECT_RAW_MAX_PAYLOAD_BYTES
    MaxU64,      \* largest value of the two u64 counters
    MaxAttempts  \* bound on the calls of write_batch

ASSUME BulkWriterAssumption ==
    /\ \A b \in Batches : /\ b.schemaFits \in BOOLEAN
                          /\ b.n \in Nat
                          /\ b.bad \subseteq 1..b.n
                          /\ IsOffsets(b.off, b.n)
    /\ MaxPayload \in Nat \ {0} /\ MaxU64 \in Nat /\ MaxAttempts \in Nat

Requests == {"Auto", "BaselineTokenRow", "DirectFramedBulk", "DirectRawBulk"}
DirectBackends == {"DirectFramedBulk", "DirectRawBulk"}

\* How the live table compares with the plan: its column list does not fit
\* (count, order, name, nullability), only its types do not, or it matches.
Targets == {"wrongShape", "wrongTypes", "matches"}

VARIABLES
    request, target, planSupported, \* inputs of BulkWriter::new
    status,    \* where the writer is in its life
    backend,   \* resolved backend, "none" before
    stats,     \* WriterState.stats
    call,      \* the write_batch in flight: batch, ends of its units, sink position
    attempts,  \* history of the write_batch calls that ended
    sink,      \* rows taken by the bulk-load request
    table,     \* rows the server shows
    reported   \* WriteStats returned by finish

inputs == <<request, target, planSupported>>
vars == <<inputs, status, backend, stats, call, attempts, sink, table, reported>>

NoCall == [batch |-> [schemaFits |-> TRUE, n |-> 0, bad |-> {}, off |-> <<>>],
           ends |-> {}, at |-> 0]
ZeroStats == [rows |-> 0, batches |-> 0]

Init ==
    /\ request \in Requests /\ target \in Targets /\ planSupported \in BOOLEAN
    /\ status = "unopened" /\ backend = "none"
    /\ stats = ZeroStats /\ reported = ZeroStats
    /\ call = NoCall
    /\ attempts = <<>> /\ sink = <<>> /\ table = <<>>

-----------------------------------------------------------------------------
(* BulkWriter::new *)

ResolveBackend(r) == IF r = "Auto" THEN "DirectRawBulk" ELSE r

\* Up to the first await.  A direct backend needs an encoder for every mapping.
New ==
    /\ status = "unopened"
    /\ backend' = ResolveBackend(request)
    /\ status' = IF backend' \in DirectBackends /\ ~planSupported
                   THEN "closed" ELSE "metadata"
    /\ UNCHANGED <<inputs, stats, call, attempts, sink, table, reported>>

\* validate_bulk_target_columns, and for a direct backend the column types.
TargetAccepted ==
    /\ target # "wrongShape"
    /\ backend \in DirectBackends => target = "matches"

\* bulk_insert_columns answers; the columns are validated before the next await.
ColumnsReply(ok) ==
    /\ status = "metadata"
    /\ status' = IF ok /\ TargetAccepted THEN "starting" ELSE "closed"
    /\ UNCHANGED <<inputs, backend, stats, call, attempts, sink, table, reported>>

\* bulk_insert_with_columns answers.
InsertBulkReply(ok) ==
    /\ status = "starting"
    /\ status' = IF ok THEN "open" ELSE "closed"
    /\ UNCHANGED <<inputs, backend, stats, call, attempts, sink, table, reported>>

\* The future of `new` is dropped at an await.
CancelNew ==
    /\ status \in {"metadata", "starting"}
    /\ status' = "closed"
    /\ UNCHANGED <<inputs, backend, stats, call, attempts, sink, table, reported>>

-----------------------------------------------------------------------------
(* write_batch *)

SaturatingAdd(x, y) == IF x + y > MaxU64 THEN MaxU64 ELSE x + y

RecordAcceptedOneRow(n) == [rows |-> SaturatingAdd(stats.rows, 1),
                            batches |-> SaturatingAdd(stats.batches, 1)]
RecordAcceptedNonEmpty(n) ==
    [rows |-> SaturatingAdd(stats.rows, n),
     batches |-> SaturatingAdd(stats.batches, IF n = 0 THEN 0 ELSE 1)]
RecordAcceptedBatch(n) == [rows |-> SaturatingAdd(stats.rows, n),
                           batches |-> SaturatingAdd(stats.batches, 1)]

\* The attempt that is running, and the rows of it the request took so far.
Current == Len(attempts) + 1
Sent == Len(sink) - call.at

\* The call on batch b ends: what it put on the wire and how it returned.
Return(b, at, taken, outcome) ==
    /\ attempts' = Append(attempts, [rows |-> b.n, at |-> at,
                                     taken |-> taken, outcome |-> outcome])
    /\ status' = "open"
    /\ call' = NoCall

\* validate_batch_rows / measure_batch convert every row before any is sent.
FirstRowFails(b) == 1 \in b.bad
ConversionFails(b) == b.bad # {}

\* The units of the write loop: one row each for token rows, the planned
\* ranges for a direct backend.
Units(b) == IF backend \in DirectBackends
              THEN {ends \in SUBSET (1..b.n) : IsRangePlan(b.off, b.n, MaxPayload, ends)}
              ELSE {1..b.n}

MayWrite(b) == status = "open" /\ Len(attempts) < MaxAttempts /\ b \in Batches

RejectSchema(b) ==
    /\ MayWrite(b) /\ ~b.schemaFits
    /\ Return(b, Len(sink), 0, "BatchSchemaValidation")
    /\ UNCHANGED <<inputs, backend, stats, sink, table, reported>>

RejectValue(b) ==
    /\ MayWrite(b) /\ b.schemaFits /\ ConversionFails(b)
    /\ Return(b, Len(sink), 0, "ValueConversion")
    /\ UNCHANGED <<inputs, backend, stats, sink, table, reported>>

\* An empty batch has nothing to send; it is accepted without an await.
AcceptEmpty(b) ==
    /\ MayWrite(b) /\ b.schemaFits /\ ~ConversionFails(b) /\ b.n = 0
    /\ stats' = RecordAcceptedBatch(0)
    /\ Return(b, Len(sink), 0, "accepted")
    /\ UNCHANGED <<inputs, backend, sink, table, reported>>

BeginSending(b, ends) ==
    /\ MayWrite(b) /\ b.schemaFits /\ ~ConversionFails(b) /\ b.n > 0
    /\ call' = [batch |-> b, ends |-> ends, at |-> Len(sink)]
    /\ status' = "writing"
    /\ UNCHANGED <<inputs, backend, stats, attempts, sink, table, reported>>

\* The next k rows of the running attempt.
NextRowsOffByOne(k) == [r \in 1..k |-> [attempt |-> Current, row |-> Sent + r - 1]]
NextRows(k) == [r \in 1..k |-> [attempt |-> Current, row |-> Sent + r]]

\* The loop ends, and the batch is accepted, after its last unit.
AnyUnitIsLast(e) == TRUE
NoUnitIsLast(e) == FALSE
LastUnit(e) == e = call.batch.n

\* The unit that closes at row e is encoded and taken.  Encoding fails on a
\* value that does not convert; measure_batch has left none.
SendUnit(e) ==
    /\ status = "writing" /\ Adjacent(call.ends, Sent, e)
    /\ IF \E r \in call.batch.bad : Sent < r /\ r <= e
         THEN /\ Return(call.batch, call.at, Sent, "ValueConversion")
              /\ UNCHANGED <<sink, stats>>
         ELSE /\ sink' = sink \o NextRows(e - Sent)
              /\ IF LastUnit(e)
                   THEN /\ stats' = RecordAcceptedBatch(call.batch.n)
                        /\ Return(call.batch, call.at, e, "accepted")
                   ELSE UNCHANGED <<stats, attempts, status, call>>
    /\ UNCHANGED <<inputs, backend, table, reported>>

\* The send of a unit fails after the request took k of its rows.
SendFails(e, k) ==
    /\ status = "writing" /\ Adjacent(call.ends, Sent, e) /\ k <= e - Sent
    /\ sink' = sink \o NextRows(k)
    /\ Return(call.batch, call.at, Sent + k, "PacketWrite")
    /\ UNCHANGED <<inputs, backend, stats, table, reported>>

\* Rows a pending send may have handed over when its future is dropped.
Pending == {0} \cup UNION {0..(e - Sent) : e \in {x \in call.ends : Adjacent(call.ends, Sent, x)}}

\* The caller drops the future of write_batch (a timeout, a select).
CancelWrite(k) ==
    /\ status = "writing" /\ k \in Pending
    /\ sink' = sink \o NextRows(k)
    /\ Return(call.batch, call.at, Sent + k, "cancelled")
    /\ UNCHANGED <<inputs, backend, stats, table, reported>>

-----------------------------------------------------------------------------
(* finish, and the drop of the writer *)

\* finish consumes the writer: no further call is possible.
Finish ==
    /\ status = "open"
    /\ status' = "finishing"
    /\ UNCHANGED <<inputs, backend, stats, call, attempts, sink, table, reported>>

Finalized ==
    /\ status = "finishing"
    /\ status' = "finished"
    /\ table' = sink /\ reported' = stats
    /\ UNCHANGED <<inputs, backend, stats, call, attempts, sink>>

\* finalize fails, or its future is dropped; the server may have completed the
\* load before the answer was lost.
FinishInterrupted(published) ==
    /\ status = "finishing"
    /\ status' = "closed"
    /\ table' = IF published THEN sink ELSE table
    /\ UNCHANGED <<inputs, backend, stats, call, attempts, sink, reported>>

\* The writer is dropped without finish: the load is never completed.
DropWriter ==
    /\ status = "open"
    /\ status' = "closed"
    /\ UNCHANGED <<inputs, backend, stats, call, attempts, sink, table, reported>>

Gone == status \in {"finished", "closed"} /\ UNCHANGED vars

\* What the executor and the transport owe the caller once a call is polled.
Step ==
    \/ \E e \in call.ends : SendUnit(e) \/ \E k \in 0..(e - Sent) : SendFails(e, k)
    \/ \E ok \in BOOLEAN : ColumnsReply(ok) \/ InsertBulkReply(ok)
    \/ Finalized
    \/ \E published \in BOOLEAN : FinishInterrupted(published)

Next ==
    \/ New \/ CancelNew
    \/ \E b \in Batches : \/ RejectSchema(b) \/ RejectValue(b) \/ AcceptEmpty(b)
                          \/ \E ends \in Units(b) : BeginSending(b, ends)
    \/ Step
    \/ \E k \in Pending : CancelWrite(k)
    \/ Finish \/ DropWriter
    \/ Gone

Spec == Init /\ [][Next]_vars

-----------------------------------------------------------------------------
(* Type invariant *)

Rejections == {"BatchSchemaValidation", "ValueConversion"}
Outcomes == Rejections \cup {"accepted", "PacketWrite", "cancelled"}
Stats == [rows : 0..MaxU64, batches : 0..MaxU64]
WireRow == [attempt : Nat, row : Nat]
Attempt == [rows : Nat, at : Nat, taken : Nat, outcome : Outcomes]

CallOK == /\ call.batch \in Batches
          /\ call.ends \subseteq 1..call.batch.n
          /\ call.batch.n \in call.ends
          /\ call.at \in Nat
          /\ Sent \in 0..(call.batch.n - 1)

TypeOK ==
    /\ request \in Requests /\ target \in Targets /\ planSupported \in BOOLEAN
    /\ status \in {"unopened", "metadata", "starting", "open", "writing",
                   "finishing", "finished", "closed"}
    /\ backend \in DirectBackends \cup {"BaselineTokenRow", "none"}
    /\ stats \in Stats /\ reported \in Stats
    /\ attempts \in Seq(Attempt)
    /\ sink \in Seq(WireRow) /\ table \in Seq(WireRow)
    /\ IF status = "writing" THEN CallOK ELSE call = NoCall

-----------------------------------------------------------------------------
(* Safety *)

\* Wire position after the attempts that ended.
EndOfAttempts ==
    IF attempts = <<>> THEN 0
    ELSE attempts[Len(attempts)].at + attempts[Len(attempts)].taken

\* The wire is exactly the attempts in the order they were made: each put
\* there its first `taken` rows, once and in row order, the running one its
\* first rows so far, and nothing else is on it.  This is what the loop over
\* units of write_batch must achieve across failed, dropped and repeated calls.
WireIsAttemptsInOrder ==
    /\ \A i \in 1..Len(attempts) :
          LET a == attempts[i] IN
          /\ a.at = IF i = 1 THEN 0 ELSE attempts[i - 1].at + attempts[i - 1].taken
          /\ a.at + a.taken <= Len(sink)
          /\ \A k \in 1..a.taken : sink[a.at + k] = [attempt |-> i, row |-> k]
    /\ IF status = "writing"
         THEN /\ call.at = EndOfAttempts
              /\ \A k \in 1..Sent : sink[call.at + k] = [attempt |-> Current, row |-> k]
         ELSE Len(sink) = EndOfAttempts

\* A batch rejected for its schema or for a value, in whichever row, has left
\* no row on the wire, so the caller may repair it and write it again (the
\* "without partial insert" integration tests).
RejectedBatchLeavesNoRows ==
    \A i \in 1..Len(attempts) : attempts[i].outcome \in Rejections => attempts[i].taken = 0

\* write_batch returns Ok only once every row of the batch was taken, and no
\* attempt puts more rows on the wire than its batch has.
AcceptedBatchIsComplete ==
    \A i \in 1..Len(attempts) :
        /\ attempts[i].taken <= attempts[i].rows
        /\ attempts[i].outcome = "accepted" => attempts[i].taken = attempts[i].rows

\* The statistics count the rows on the wire that belong to accepted batches,
\* and the accepted batches, whatever failed in between, and saturate.
AcceptedAttempts == {i \in 1..Len(attempts) : attempts[i].outcome = "accepted"}
AcceptedOnWire == {k \in 1..Len(sink) : sink[k].attempt \in AcceptedAttempts}
Saturate(x) == IF x > MaxU64 THEN MaxU64 ELSE x

StatsCountAcceptedRows ==
    /\ stats.rows = Saturate(Cardinality(AcceptedOnWire))
    /\ stats.batches = Saturate(Cardinality(AcceptedAttempts))

\* What finish reports against what the server then shows: never more rows
\* than are in the table, and exactly those unless some send failed or was
\* dropped, because rows of a broken attempt cannot be taken back.
FinishReportsPublishedRows ==
    status = "finished" =>
        /\ reported.rows <= Len(table)
        /\ (\A i \in 1..Len(attempts) : attempts[i].outcome \in Rejections \cup {"accepted"})
              => reported.rows = Saturate(Len(table))

-----------------------------------------------------------------------------
(* Liveness and refinement *)

\* A call that is polled returns: `new`, write_batch and finish do not hang as
\* long as the transport answers or fails.
InFlight == status \in {"metadata", "starting", "writing", "finishing"}
CallsReturn == InFlight ~> ~InFlight

\* The writer implements the abstract load: a write_batch takes effect at its
\* return, as a whole or as a failure that counts nothing.
Load == INSTANCE BulkLoad WITH
    BatchSizes <- {b.n : b \in Batches},
    MaxCount <- MaxU64,
    phase <- CASE status \in {"unopened", "metadata", "starting"} -> "new"
               [] status \in {"open", "writing", "finishing"} -> "loading"
               [] OTHER -> "closed",
    loaded <- IF status = "writing" THEN SubSeq(sink, 1, call.at) ELSE sink,
    count <- stats,
    tries <- Len(attempts)

ImplementsBulkLoad == Load!Spec
=============================================================================
