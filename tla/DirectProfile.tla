---------------------------- MODULE DirectProfile ----------------------------
(***************************************************************************)
(* The write profile of the direct backends (write/profile.rs), where the  *)
(* writer records it (write/writer.rs) and how the benchmark starts, takes *)
(* and merges it over repeats and backends (xtask/src/writer_bench.rs).    *)
(*                                                                         *)
(* The profile and the two fast-path switches are thread-local, and one    *)
(* thread runs the whole command.  The 64-bit counters saturate; no run is *)
(* long enough for that here.  Each timed call takes a fixed time.         *)
(***************************************************************************)
EXTENDS Naturals, Sequences, FiniteSets, SequencesExt, FiniteSetsExt, RangePlan

CONSTANTS Scenarios,     \* [columns |-> Seq of kinds, batches |-> Seq(Seq of rows)]
          BackendLists,  \* the backends of a command, in order
          Repeats,       \* --repeat
          MaxPayload,    \* DIRECT_RAW_MAX_PAYLOAD_BYTES
          PacketSize,    \* payload of a full TDS packet
          Null           \* a null cell; any other cell is the length of its value

ProfileAssumption ==
    /\ {Repeats, MaxPayload, PacketSize} \subseteq Nat \ {0}
    /\ Null \notin Nat

VARIABLES scenario, backends, profiling,  \* the command
          pc,         \* "idle", "measure", "send", "validate", "end"
          result,     \* "running", "ok" or "error"
          repeat,     \* repeats done of the current backend
          batch,      \* batches accepted in this repeat
          ranges,     \* ranges of the current batch still to be sent
          disabled,   \* the fast paths that are off on this thread
          overrides,  \* the guards of this repeat: the switch and what it was
          profile,    \* DIRECT_PROFILE
          request,    \* the bulk load: bytes not yet in a packet, and its statistics
          merged,     \* the profile in the report of the current backend
          reports,    \* those of the backends measured
          wire        \* ghost: the ranges the current backend handed over

vars == <<scenario, backends, profiling, pc, result, repeat, batch, ranges, disabled,
          overrides, profile, request, merged, reports, wire>>
command == <<scenario, backends, profiling>>
thread == <<disabled, overrides>>

NoProfile == <<>>

-----------------------------------------------------------------------------
(* The data: cells, rows and the ranges of a batch *)

VariableWidth == {"text", "bytes"}
Prefix(kind) == IF kind \in {"date", "fixed"} THEN 1 ELSE 2
CellLen(kind, cell) == Prefix(kind) + (IF cell = Null THEN 0 ELSE cell)

\* Sum of F(r, c) over the cells of rows first .. last of a batch.
OverCells(rows, F(_, _), first, last) ==
    MapThenSumSet(LAMBDA rc : F(rc[1], rc[2]),
                  (first .. last) \X DOMAIN scenario.columns)

Bytes(rows, first, last) ==
    (last + 1 - first) + OverCells(rows, LAMBDA r, c :
                             CellLen(scenario.columns[c], rows[r][c]), first, last)

\* What row_ranges returns (MeasuredBatch shows that it does).
RangeEnds(rows) ==
    LET off == [k \in 0 .. Len(rows) |-> IF k = 0 THEN 0 ELSE Bytes(rows, 1, k)]
    IN CHOOSE ends \in SUBSET (1 .. Len(rows)) : IsRangePlan(off, Len(rows), MaxPayload, ends)

Ranges(rows) ==
    LET ends == SetToSortSeq(RangeEnds(rows), <)
    IN [i \in DOMAIN ends |-> [first |-> IF i = 1 THEN 1 ELSE ends[i - 1] + 1,
                               last |-> ends[i]]]

-----------------------------------------------------------------------------
(* The profile *)

Direct == {"direct-framed", "direct-raw", "direct-raw-no-date-fast-path",
           "direct-raw-no-fixed-fast-path"}

Maxima == {"max_row_range_bytes", "max_buffered_bytes_before_write"}
Sums == {"measure_batch", "row_range_split", "append_encode", "send_total", "rows",
         "batches", "row_ranges", "encoded_bytes", "nvarchar_utf16_bytes",
         "varbinary_bytes", "null_cells", "packets_written", "packet_payload_bytes",
         "finalized_packet_payload_bytes"}
Latest == {"buffered_bytes_after_last_write"}

Empty == [f \in Maxima \cup Sums \cup Latest |-> 0]

\* What one call records, and what one repeat adds to the report.
Combine(target, source) ==
    [f \in DOMAIN target |->
        IF f \notin DOMAIN source THEN target[f]
        ELSE IF f \in Sums THEN target[f] + source[f]
        ELSE IF f \in Maxima THEN Max({target[f], source[f]})
        ELSE source[f]]

\* with_profile: nothing is recorded while no profile was started.
Record(source) ==
    profile' = IF profile = NoProfile THEN NoProfile ELSE Combine(profile, source)

\* Mutant: the report keeps the last repeat.
LastOnly(target, source) == IF source = NoProfile THEN target ELSE source

Merge(target, source) ==
    IF source = NoProfile THEN target
    ELSE Combine(IF target = NoProfile THEN Empty ELSE target, source)

-----------------------------------------------------------------------------
(* How a range is encoded *)

\* Raw rows are appended when a column has variable width; else a payload is
\* filled, row by row of columns in one pass if every column has a fast path.
FastPath ==
    /\ "fixed" \notin disabled
    /\ ~("date" \in disabled /\ Contains(scenario.columns, "date"))

Path ==
    IF ToSet(scenario.columns) \cap VariableWidth # {} THEN "append"
    ELSE IF FastPath THEN "fast" ELSE "fill"

\* The kinds whose encoder records its null cells and its bytes on that path.
Recorded(path) ==
    CASE path = "append" -> {"date", "fixed", "binary"} \cup VariableWidth
      [] path = "fill" -> {"binary"}
      [] path = "fast" -> {}

LengthOf(rows, kinds, range) ==
    OverCells(rows, LAMBDA r, c : IF scenario.columns[c] \in kinds /\ rows[r][c] # Null
                                    THEN rows[r][c] ELSE 0, range.first, range.last)

NullsOf(rows, kinds, range) ==
    OverCells(rows, LAMBDA r, c : IF scenario.columns[c] \in kinds /\ rows[r][c] = Null
                                    THEN 1 ELSE 0, range.first, range.last)

\* An append encodes inside the send call, a payload is encoded before it.
Encoded(rows, range) ==
    [row_ranges |-> 1,
     encoded_bytes |-> Bytes(rows, range.first, range.last),
     max_row_range_bytes |-> Bytes(rows, range.first, range.last),
     append_encode |-> 2,
     send_total |-> IF Path = "append" THEN 3 ELSE 1,
     nvarchar_utf16_bytes |-> LengthOf(rows, Recorded(Path) \cap {"text"}, range),
     varbinary_bytes |-> LengthOf(rows, Recorded(Path) \cap {"bytes", "binary"}, range),
     null_cells |-> NullsOf(rows, Recorded(Path), range)]

-----------------------------------------------------------------------------
(* The bulk load of Tiberius *)

NewRequest == [buffered |-> 0,
               stats |-> [packets_written |-> 0, packet_payload_bytes |-> 0,
                          max_buffered_bytes_before_write |-> 0,
                          buffered_bytes_after_last_write |-> 0]]

\* Rows are buffered and every full packet is written at once.
Sent(bytes) ==
    LET all == request.buffered + bytes
        full == all \div PacketSize
    IN [buffered |-> all % PacketSize,
        stats |-> [packets_written |-> request.stats.packets_written + full,
                   packet_payload_bytes |->
                       request.stats.packet_payload_bytes + full * PacketSize,
                   max_buffered_bytes_before_write |->
                       Max({request.stats.max_buffered_bytes_before_write, all}),
                   buffered_bytes_after_last_write |-> all % PacketSize]]

FinalStats ==
    [finalized_packet_payload_bytes |-> request.buffered] @@ request.stats

-----------------------------------------------------------------------------
(* One repeat *)

Init ==
    /\ scenario \in Scenarios /\ backends \in BackendLists /\ profiling \in BOOLEAN
    /\ pc = "idle" /\ result = "running"
    /\ repeat = 0 /\ batch = 0 /\ ranges = <<>>
    /\ disabled = {} /\ overrides = <<>>
    /\ profile = NoProfile /\ request = NewRequest
    /\ merged = NoProfile /\ reports = <<>> /\ wire = <<>>

Backend == backends[Len(reports) + 1]
Rows == scenario.batches[batch + 1]
InRepeat == pc \in {"measure", "send", "validate"}

Switches ==
    CASE Backend = "direct-raw-no-date-fast-path" -> <<"date">>
      [] Backend = "direct-raw-no-fixed-fast-path" -> <<"fixed">>
      [] OTHER -> <<>>

\* Leaving the repeat drops its guards: each sets its switch to what it was.
Dropped ==
    {s \in disabled : \A i \in DOMAIN overrides : overrides[i].switch # s}
        \cup {overrides[i].switch : i \in {j \in DOMAIN overrides : overrides[j].previous}}

LeaveRepeat == disabled' = Dropped /\ overrides' = <<>>

Fail ==
    /\ pc' = "end" /\ result' = "error"
    /\ LeaveRepeat
    /\ UNCHANGED <<repeat, batch, ranges, request, merged, reports, wire>>

StartRepeat ==
    /\ pc = "idle"
    /\ disabled' = disabled \cup ToSet(Switches)
    /\ overrides' = [i \in DOMAIN Switches |->
                        [switch |-> Switches[i], previous |-> Switches[i] \in disabled]]
    /\ profile' = IF profiling /\ Backend \in Direct THEN Empty ELSE profile
    /\ request' = NewRequest /\ batch' = 0 /\ ranges' = <<>>
    /\ pc' = "measure"
    /\ UNCHANGED <<command, result, repeat, merged, reports, wire>>

\* The table or the writer could not be made.
SetupFails == pc = "idle" /\ Fail /\ UNCHANGED <<command, profile>>

MeasureBatch ==
    /\ pc = "measure" /\ batch < Len(scenario.batches) /\ Backend \in Direct
    /\ Record([measure_batch |-> 1, row_range_split |-> 1])
    /\ ranges' = Ranges(Rows)
    /\ pc' = "send"
    /\ UNCHANGED <<command, thread, result, repeat, batch, request, merged, reports, wire>>

\* A value of the batch does not fit: the time it took is recorded.
MeasureFails ==
    /\ pc = "measure" /\ batch < Len(scenario.batches) /\ Backend \in Direct
    /\ Record([measure_batch |-> 1])
    /\ Fail
    /\ UNCHANGED command

SendRange ==
    /\ pc = "send" /\ ranges # <<>>
    /\ LET range == Head(ranges)
           bytes == Bytes(Rows, range.first, range.last)
       IN /\ Record(Encoded(Rows, range))
          /\ request' = Sent(bytes)
          /\ wire' = Append(wire, [repeat |-> repeat, batch |-> batch, path |-> Path,
                                   rows |-> range.last + 1 - range.first, bytes |-> bytes])
    /\ ranges' = Tail(ranges)
    /\ UNCHANGED <<command, thread, pc, result, repeat, batch, merged, reports>>

\* The range was recorded and encoded when the connection fails.
SendFails ==
    /\ pc = "send" /\ ranges # <<>>
    /\ Record(Encoded(Rows, Head(ranges)))
    /\ Fail
    /\ UNCHANGED command

AcceptBatch ==
    /\ pc = "send" /\ ranges = <<>>
    /\ Record([rows |-> Len(Rows), batches |-> 1])
    /\ batch' = batch + 1
    /\ pc' = "measure"
    /\ UNCHANGED <<command, thread, result, repeat, ranges, request, merged, reports, wire>>

\* The baseline backend hands over token rows.
WriteTokenRows ==
    /\ pc = "measure" /\ batch < Len(scenario.batches) /\ Backend \notin Direct
    /\ batch' = batch + 1
    /\ IF Rows = <<>> THEN UNCHANGED request
       ELSE request' = Sent(Bytes(Rows, 1, Len(Rows)))
    /\ UNCHANGED <<command, thread, pc, result, repeat, ranges, profile, merged, reports,
                   wire>>

TokenRowsFail ==
    /\ pc = "measure" /\ batch < Len(scenario.batches) /\ Backend \notin Direct
    /\ Fail
    /\ UNCHANGED <<command, profile>>

\* The statistics of the load are known only once the server has answered.
Finish ==
    /\ pc = "measure" /\ batch = Len(scenario.batches)
    /\ Record(FinalStats)
    /\ pc' = "validate"
    /\ UNCHANGED <<command, thread, result, repeat, batch, ranges, request, merged,
                   reports, wire>>

FinishFails ==
    /\ pc = "measure" /\ batch = Len(scenario.batches)
    /\ Fail
    /\ UNCHANGED <<command, profile>>

\* The table is counted and read back; the profile is taken only now.
EndRepeat ==
    /\ pc = "validate"
    /\ LET taken == IF profiling /\ Backend \in Direct THEN profile ELSE NoProfile
           total == Merge(merged, taken)
           last == repeat + 1 = Repeats
       IN /\ profile' = IF profiling /\ Backend \in Direct THEN NoProfile ELSE profile
          /\ repeat' = IF last THEN 0 ELSE repeat + 1
          /\ merged' = IF last THEN NoProfile ELSE total
          /\ wire' = IF last THEN <<>> ELSE wire
          /\ reports' = IF last THEN Append(reports, [backend |-> Backend, profile |-> total,
                                                      wire |-> wire])
                        ELSE reports
          /\ pc' = IF last /\ Len(reports) + 1 = Len(backends) THEN "end" ELSE "idle"
          /\ result' = IF pc' = "end" THEN "ok" ELSE result
    /\ LeaveRepeat
    /\ UNCHANGED <<command, batch, ranges, request>>

ValidationFails == pc = "validate" /\ Fail /\ UNCHANGED <<command, profile>>

\* The report is made, but its table cannot be dropped.
DropTableFails ==
    /\ pc = "validate"
    /\ profile' = IF profiling /\ Backend \in Direct THEN NoProfile ELSE profile
    /\ Fail
    /\ UNCHANGED command

Next ==
    \/ StartRepeat \/ SetupFails
    \/ MeasureBatch \/ MeasureFails
    \/ SendRange \/ SendFails \/ AcceptBatch
    \/ WriteTokenRows \/ TokenRowsFail
    \/ Finish \/ FinishFails
    \/ EndRepeat \/ ValidationFails \/ DropTableFails

Spec == Init /\ [][Next]_vars

-----------------------------------------------------------------------------
(* Properties *)

WireSum(log, F(_)) == MapThenSumSet(LAMBDA i : F(log[i]), DOMAIN log)
RowsOf(log) == WireSum(log, LAMBDA range : range.rows)
BytesOf(log) == WireSum(log, LAMBDA range : range.bytes)

\* The report of a profiled direct backend is the sum of its repeats: every row
\* and batch of the dataset once per repeat, the ranges and bytes that were
\* handed over, each byte in a full packet or in the last one of its load.
\* Every other report has no profile.
ProfileIsTheRun ==
    \A i \in DOMAIN reports :
        LET p == reports[i].profile
            log == reports[i].wire
        IN IF profiling /\ reports[i].backend \in Direct
           THEN /\ p.batches = Repeats * Len(scenario.batches)
                /\ p.rows = RowsOf(log)
                /\ p.rows = Repeats * MapThenSumSet(LAMBDA b : Len(scenario.batches[b]),
                                                    DOMAIN scenario.batches)
                /\ p.row_ranges = Len(log)
                /\ p.encoded_bytes = BytesOf(log)
                /\ p.max_row_range_bytes = Max({0} \cup {log[r].bytes : r \in DOMAIN log})
                /\ p.packet_payload_bytes = p.packets_written * PacketSize
                /\ p.packet_payload_bytes + p.finalized_packet_payload_bytes = BytesOf(log)
                /\ p.finalized_packet_payload_bytes
                       = Repeats * p.buffered_bytes_after_last_write
                /\ p.max_buffered_bytes_before_write
                       \in p.max_row_range_bytes .. p.max_row_range_bytes + PacketSize - 1
                /\ p.send_total >= p.row_ranges
           ELSE p = NoProfile

\* A range is encoded the way its backend asks for: the measured fast path is
\* never off for a backend that means to measure it, nor on for one without it,
\* whatever backend ran before on the thread.
EncodedAsAsked ==
    \A i \in DOMAIN wire : LET path == wire[i].path IN
        /\ (path = "append") <=> (ToSet(scenario.columns) \cap VariableWidth # {})
        /\ Backend = "direct-raw-no-fixed-fast-path" => path # "fast"
        /\ Backend \in {"direct-framed", "direct-raw"} => path # "fill"
        /\ Backend = "direct-raw-no-date-fast-path" /\ path # "append"
               => (path = "fill") <=> (\E c \in DOMAIN scenario.columns :
                                           scenario.columns[c] = "date")

\* Between repeats and after the command the thread has no fast path off, even
\* if a repeat failed; no profile is left on unless one failed.
ThreadIsLeftAsFound ==
    ~InRepeat => /\ disabled = {}
                 /\ result # "error" => profile = NoProfile

\* A profile counts its own repeat: no row counted as accepted is off the wire,
\* and at most the range of a failed send was counted without being handed over.
ProfileKeepsToTheWire ==
    profile # NoProfile =>
        LET mine == SelectSeq(wire, LAMBDA range : range.repeat = repeat) IN
        /\ profile.rows = RowsOf(SelectSeq(mine, LAMBDA range : range.batch < batch))
        /\ profile.batches = batch
        /\ profile.row_ranges - Len(mine) \in (IF result = "error" THEN {0, 1} ELSE {0})
        /\ profile.row_ranges = Len(mine) => profile.encoded_bytes = BytesOf(mine)
        /\ profile.row_ranges # Len(mine)
               => profile.encoded_bytes - BytesOf(mine) \in
                      {Bytes(Rows, 1 + i, j) : <<i, j>> \in
                          {x \in (0 .. Len(Rows)) \X (0 .. Len(Rows)) : x[1] < x[2]}}

=============================================================================
