-------------------------- MODULE WriterTelemetry --------------------------
(***************************************************************************)
(* What a subscriber sees of a BulkWriter (src/observability/writer): each *)
(* action of BulkWriter together with the events it emits, in their order, *)
(* appended to `log`.  Events do not influence the writer.  The events of  *)
(* the Tiberius fork are outside the crate and not in the log.             *)
(***************************************************************************)
EXTENDS BulkWriter

VARIABLE log  \* events, oldest first

allVars == <<vars, log>>

\* An event has its name, the phase it reports, and for events of a batch:
\* ordinal, rows, first row, counters before and after.
Event(name, phase) ==
    [name |-> name, phase |-> phase, ordinal |-> 0,
     start |-> 0, rows |-> 0, before |-> ZeroStats, after |-> ZeroStats]

Emit(events) == log' = log \o events

-----------------------------------------------------------------------------
(* WriterInitializationTrace *)

InitEvent(name) == Event(name, "writer_initialization")
ValidationEvent(name) == Event(name, "target_metadata_validation")

TracedNew ==
    /\ New
    /\ Emit(<<InitEvent("init.started")>>
              \o IF status' = "closed" THEN <<InitEvent("init.failed")>> ELSE <<>>)

\* A reply that is an error is reported as a failed validation that never
\* started; a validation that fails is reported in place of init.failed.
TracedColumnsReply(ok) ==
    /\ ColumnsReply(ok)
    /\ Emit((IF ok THEN <<ValidationEvent("validation.started")>> ELSE <<>>)
              \o <<ValidationEvent(IF status' = "starting" THEN "validation.completed"
                                                          ELSE "validation.failed")>>)

TracedInsertBulkReply(ok) ==
    /\ InsertBulkReply(ok)
    /\ Emit(<<InitEvent(IF ok THEN "init.completed" ELSE "init.failed")>>)

-----------------------------------------------------------------------------
(* BatchWriteTrace and DirectRawBatchObserver *)

IsRaw == backend = "DirectRawBulk"
Detail(events) == IF IsRaw THEN events ELSE <<>>

Attempted(s) == SaturatingAdd(s.batches, 1)
BatchEvent(name, phase, b, s) ==
    [Event(name, phase) EXCEPT !.ordinal = Attempted(s), !.rows = b.n, !.before = s]
BatchStarted(b) == <<BatchEvent("batch.started", "batch_write", b, stats)>>

\* BatchWriteTrace::new copies the counters, emit_completed gets the new ones.
BatchCompleted(b) ==
    <<[BatchEvent("batch.completed", "batch_write", b, stats) EXCEPT !.after = stats']>>

\* The observer reports a failure first, then the batch does, in one phase.
BatchFailed(b, phase) ==
    Detail(<<Event("raw.failed", phase)>>)
        \o <<BatchEvent("batch.failed", phase, b, stats)>>

Measured(b) == <<[Event("raw.measured", "direct_encoding") EXCEPT !.rows = b.n]>>
RangesPlanned(ends) ==
    <<[Event("raw.ranges_planned", "direct_encoding") EXCEPT
         !.rows = Cardinality(ends)]>>
PacketFromZero(first, n) ==
    <<[Event("raw.packet", "packet_write") EXCEPT !.start = 0, !.rows = n]>>
PacketWritten(first, n) ==
    <<[Event("raw.packet", "packet_write") EXCEPT !.start = first, !.rows = n]>>

TracedRejectSchema(b) ==
    RejectSchema(b) /\ Emit(BatchStarted(b) \o BatchFailed(b, "BatchSchemaValidation"))
TracedRejectValue(b) ==
    RejectValue(b) /\ Emit(BatchStarted(b) \o BatchFailed(b, "ValueConversion"))
TracedAcceptEmpty(b) ==
    /\ AcceptEmpty(b)
    /\ Emit(BatchStarted(b) \o Detail(Measured(b) \o RangesPlanned({})) \o BatchCompleted(b))
TracedBeginSending(b, ends) ==
    /\ BeginSending(b, ends)
    /\ Emit(BatchStarted(b) \o Detail(Measured(b) \o RangesPlanned(ends)))

\* record_packet_write_completed only after the request took the range.
TracedSendUnit(e) ==
    /\ SendUnit(e)
    /\ IF sink' = sink
         THEN Emit(BatchFailed(call.batch, "ValueConversion"))
         ELSE Emit(Detail(PacketWritten(Sent, e - Sent))
                     \o IF status' = "open" THEN BatchCompleted(call.batch) ELSE <<>>)
TracedSendFailsAsConversion(e, k) ==
    SendFails(e, k) /\ Emit(BatchFailed(call.batch, "ValueConversion"))
TracedSendFails(e, k) ==
    SendFails(e, k) /\ Emit(BatchFailed(call.batch, "PacketWrite"))

-----------------------------------------------------------------------------
(* FinishTrace *)

FinishEvent(name) ==
    [Event(name, "finish") EXCEPT !.rows = stats.rows, !.before = stats]
TracedFinish == Finish /\ Emit(<<FinishEvent("finish.started")>>)
TracedFinalized == Finalized /\ Emit(<<FinishEvent("finish.completed")>>)
\* finalize failed, or its future was dropped and nothing is said.
TracedFinishInterrupted(published) ==
    /\ FinishInterrupted(published)
    /\ \/ Emit(<<FinishEvent("finish.failed")>>)
       \/ Emit(<<>>)

-----------------------------------------------------------------------------
TelemetryInit == Init /\ log = <<>>

\* A dropped future or writer emits nothing.
Silent == \/ CancelNew \/ DropWriter \/ Gone
          \/ \E k \in Pending : CancelWrite(k)

TelemetryNext ==
    \/ TracedNew
    \/ \E ok \in BOOLEAN : TracedColumnsReply(ok) \/ TracedInsertBulkReply(ok)
    \/ \E b \in Batches : \/ TracedRejectSchema(b) \/ TracedRejectValue(b) \/ TracedAcceptEmpty(b)
                          \/ \E ends \in Units(b) : TracedBeginSending(b, ends)
    \/ \E e \in call.ends : TracedSendUnit(e) \/ \E k \in 0..(e - Sent) : TracedSendFails(e, k)
    \/ TracedFinish \/ TracedFinalized
    \/ \E published \in BOOLEAN : TracedFinishInterrupted(published)
    \/ Silent /\ Emit(<<>>)

TelemetrySpec == TelemetryInit /\ [][TelemetryNext]_allVars

\* A caller that polls its future and a transport that answers or fails.
FairTelemetrySpec == TelemetrySpec /\ WF_vars(Step)

-----------------------------------------------------------------------------
(* Properties.  A log is read on its own: the operators take it as L, with *)
(* the calls of write_batch that ended and whether one is running.         *)

Where(L, names) == {i \in DOMAIN L : L[i].name \in names}
Starts(L) == Where(L, {"batch.started"})
Completed(L) == Where(L, {"batch.completed"})
BatchFailures(L) == Where(L, {"batch.failed"})
Ends(L) == Completed(L) \cup BatchFailures(L)
UpTo(S, i) == {j \in S : j <= i}

\* The k-th call of write_batch, as the log shows it: the events with k starts
\* at or before them, from its start to the event before the next one.
Segment(L, k) == {i \in DOMAIN L : Cardinality(UpTo(Starts(L), i)) = k}
SegmentEnds(L, k) == Segment(L, k) \cap Ends(L)
OutcomeInLog(L, k) ==
    IF SegmentEnds(L, k) = {} THEN "cancelled"
    ELSE LET e == L[CHOOSE i \in SegmentEnds(L, k) : TRUE]
         IN IF e.name = "batch.completed" THEN "accepted" ELSE e.phase

\* The events alone tell what became of every call of write_batch: each call
\* has one start, a call that returned has one end with the phase of its error,
\* and a call whose future was dropped has none, although its ordinal repeats.
TellsOutcomes(L, calls, running) ==
    /\ Cardinality(Starts(L)) = Len(calls) + (IF running THEN 1 ELSE 0)
    /\ \A k \in DOMAIN calls : /\ OutcomeInLog(L, k) = calls[k].outcome
                               /\ Cardinality(SegmentEnds(L, k)) <= 1

\* The counters in the events replay those of the writer: every start repeats
\* what the last completed batch left, and no failed or dropped call moves them.
LastBefore(S, i) == CHOOSE j \in UpTo(S, i - 1) : \A x \in UpTo(S, i - 1) : x <= j
CountersBefore(L, i) ==
    IF UpTo(Completed(L), i - 1) = {} THEN ZeroStats ELSE L[LastBefore(Completed(L), i)].after
ReplaysStats(L, s) ==
    /\ \A i \in Starts(L) \cup Ends(L) : L[i].before = CountersBefore(L, i)
    /\ s = CountersBefore(L, Len(L) + 1)

\* An ordinal is not the number of a call: calls that failed or were dropped
\* share theirs with the next one.  Among completed batches it counts from one
\* without a gap, until the counter saturates.
NumbersAccepted(L) ==
    \A i \in Completed(L) : L[i].ordinal = Saturate(Cardinality(UpTo(Completed(L), i)))

\* The packet events of a call are consecutive ranges from its first row on;
\* for an accepted batch they cover it, otherwise they claim no row that the
\* request did not take.
PacketsIn(L, k) == Segment(L, k) \cap Where(L, {"raw.packet"})
RowsBefore(L, k, i) ==
    IF UpTo(PacketsIn(L, k), i - 1) = {} THEN 0
    ELSE LET p == LastBefore(PacketsIn(L, k), i) IN L[p].start + L[p].rows
PacketsConsecutive(L, k) == \A i \in PacketsIn(L, k) : L[i].start = RowsBefore(L, k, i)
PacketsFollow(L, calls) ==
    \A k \in DOMAIN calls :
        /\ PacketsConsecutive(L, k)
        /\ RowsBefore(L, k, Len(L) + 1) <= calls[k].taken
        /\ calls[k].outcome = "accepted" => RowsBefore(L, k, Len(L) + 1) = calls[k].rows

\* The observability guide: "Direct raw encoding and packet write events are
\* emitted only for WriteBackend::DirectRawBulk."  There every failure of a
\* batch comes in a pair, the detail first, in one phase.
RawFailures(L) == Where(L, {"raw.failed"})
NoDetail(L) == Where(L, {"raw.failed", "raw.measured", "raw.ranges_planned", "raw.packet"}) = {}
FailuresInPairs(L) ==
    /\ \A i \in RawFailures(L) : /\ i < Len(L)
                                 /\ L[i + 1].name = "batch.failed"
                                 /\ L[i + 1].phase = L[i].phase
    /\ Cardinality(RawFailures(L)) = Cardinality(BatchFailures(L))

\* One terminal event for a construction that returned, and a completed one
\* exactly when there was a writer.
InitFailures == {"init.failed", "validation.failed"}
InitializationIsReportedOnce ==
    /\ Cardinality(Where(log, InitFailures \cup {"init.completed"})) <= 1
    /\ status \in {"open", "writing", "finishing", "finished"} => Where(log, {"init.completed"}) # {}
    /\ Where(log, InitFailures) # {} => status = "closed" /\ attempts = <<>>

\* The log tells a subscriber all there is to know about the writer's calls:
\* the outcome of every call of write_batch, the counters before and after it,
\* its number among the accepted ones, and what became of the construction.
LogTellsTheWriter ==
    /\ TellsOutcomes(log, attempts, status = "writing")
    /\ ReplaysStats(log, stats)
    /\ NumbersAccepted(log)
    /\ InitializationIsReportedOnce

\* The detail of DirectRawBulk claims no row the request did not take, covers
\* every accepted batch, and names each failure just before the batch does.
RawDetailFollowsTheWire ==
    IF IsRaw THEN PacketsFollow(log, attempts) /\ FailuresInPairs(log) ELSE NoDetail(log)
=============================================================================
