--------------------------- MODULE MeasuredBatch ---------------------------
(***************************************************************************)
(* The two loops of src/write/direct/measure.rs: measure_row_lengths adds  *)
(* the measured cell lengths of every row with checked usize arithmetic,   *)
(* and MeasuredDirectBatch::row_ranges then splits the rows greedily into  *)
(* payload ranges of at most maxPayload bytes.                             *)
(*                                                                         *)
(* A cell length is read exactly once, by MeasureCell, so the model draws  *)
(* it there instead of carrying the cell matrix.  `off` is the history of  *)
(* payload_len: off[k] is its value once k rows are measured.              *)
(***************************************************************************)
EXTENDS Integers, Sequences, RangePlan

CONSTANTS
    MaxRows,     \* bound on the rows of a batch
    MaxColumns,  \* bound on the columns of the direct plan
    CellLengths, \* lengths an encoded cell can have
    Caps,        \* values of the max_payload_bytes parameter
    UsizeMax     \* largest value of usize

ASSUME MeasuredBatchAssumption ==
    /\ MaxRows \in Nat /\ MaxColumns \in Nat
    /\ CellLengths \subseteq Nat /\ Caps \subseteq Nat
    /\ UsizeMax \in Nat \ {0}

VARIABLES
    rowCount, columnCount,  \* shape of the measured batch
    maxPayload,             \* argument of row_ranges
    pc,                     \* which loop runs, or how the call ended
    row, col,               \* loop counters
    rowLen, rowLengths, payloadLen, \* locals of measure_row_lengths
    start, len, bytes, ranges,      \* locals of row_ranges
    off                     \* history of payloadLen

batchVars == <<rowCount, columnCount, maxPayload>>
measureVars == <<col, rowLen, rowLengths, payloadLen, off>>
splitVars == <<start, len, bytes, ranges>>
vars == <<batchVars, pc, row, measureVars, splitVars>>

\* A row starts with its token byte.
RowStart == 1

Init ==
    /\ rowCount \in 0..MaxRows
    /\ columnCount \in 0..MaxColumns
    /\ maxPayload \in Caps
    /\ pc = "measure"
    /\ row = 0 /\ col = 0
    /\ rowLen = RowStart /\ rowLengths = <<>> /\ payloadLen = 0
    /\ off = [k \in {0} |-> 0]
    /\ start = 0 /\ len = 0 /\ bytes = 0 /\ ranges = <<>>

-----------------------------------------------------------------------------
(* measure_row_lengths *)

\* One cell of the inner loop; c is its measured length.
MeasureCell(c) ==
    /\ pc = "measure" /\ row < rowCount /\ col < columnCount
    /\ IF rowLen + c > UsizeMax
         THEN pc' = "overflow" /\ UNCHANGED <<col, rowLen>>
         ELSE col' = col + 1 /\ rowLen' = rowLen + c /\ UNCHANGED pc
    /\ UNCHANGED <<batchVars, row, rowLengths, payloadLen, off, splitVars>>

\* checked_add of the payload length.
PayloadOverflowsNever == FALSE
PayloadOverflows == payloadLen + rowLen > UsizeMax

\* The row is complete: add it to the payload and start the next one with
\* its row token byte.
MeasureRow ==
    /\ pc = "measure" /\ row < rowCount /\ col = columnCount
    /\ IF PayloadOverflows
         THEN pc' = "overflow" /\ UNCHANGED <<row, measureVars>>
         ELSE /\ payloadLen' = payloadLen + rowLen
              /\ off' = [k \in 0..(row + 1) |->
                           IF k = row + 1 THEN payloadLen + rowLen ELSE off[k]]
              /\ rowLengths' = Append(rowLengths, rowLen)
              /\ row' = row + 1 /\ col' = 0 /\ rowLen' = RowStart
              /\ UNCHANGED pc
    /\ UNCHANGED <<batchVars, splitVars>>

-----------------------------------------------------------------------------
(* row_ranges *)

\* Entry: a zero byte limit is refused, otherwise the loop starts at row 0.
BeginSplit ==
    /\ pc = "measure" /\ row = rowCount
    /\ pc' = IF maxPayload = 0 THEN "badLimit" ELSE "split"
    /\ row' = 0 /\ start' = 0 /\ len' = 0 /\ bytes' = 0 /\ ranges' = <<>>
    /\ UNCHANGED <<batchVars, measureVars>>

\* The condition under which a row closes the open range.
ClosesRange(nextBytes) == len > 0 /\ nextBytes > maxPayload

\* One row: it closes the open range when it would overfill it, and opens
\* or extends a range otherwise.
SplitRow ==
    /\ pc = "split" /\ row < rowCount
    /\ LET rowBytes == rowLengths[row + 1]
           nextBytes == bytes + rowBytes
       IN IF nextBytes > UsizeMax
            THEN pc' = "splitOverflow" /\ UNCHANGED <<row, splitVars>>
            ELSE /\ IF ClosesRange(nextBytes)
                      THEN /\ ranges' = Append(ranges, [start |-> start, len |-> len])
                           /\ start' = row /\ len' = 1 /\ bytes' = rowBytes
                      ELSE /\ bytes' = nextBytes /\ len' = len + 1
                           /\ UNCHANGED <<start, ranges>>
                 /\ row' = row + 1
                 /\ UNCHANGED pc
    /\ UNCHANGED <<batchVars, measureVars>>

\* The ranges with the one still open.
RangesWithoutLast == ranges
RangesWithLast ==
    IF len > 0 THEN Append(ranges, [start |-> start, len |-> len]) ELSE ranges

\* Loop exit: the open range, if any, is the last one.
FinishSplit ==
    /\ pc = "split" /\ row = rowCount
    /\ ranges' = RangesWithLast
    /\ pc' = "done"
    /\ UNCHANGED <<batchVars, row, measureVars, start, len, bytes>>

Returned ==
    /\ pc \in {"done", "overflow", "badLimit", "splitOverflow"}
    /\ UNCHANGED vars

Next ==
    \/ \E c \in CellLengths : MeasureCell(c)
    \/ MeasureRow
    \/ BeginSplit
    \/ SplitRow
    \/ FinishSplit
    \/ Returned

Spec == Init /\ [][Next]_vars

-----------------------------------------------------------------------------
(* Type invariant *)

RowRange == [start : Nat, len : Nat]

TypeOK ==
    /\ rowCount \in 0..MaxRows /\ columnCount \in 0..MaxColumns
    /\ maxPayload \in Caps
    /\ pc \in {"measure", "split", "done", "overflow", "badLimit", "splitOverflow"}
    /\ row \in 0..rowCount /\ col \in 0..columnCount
    /\ rowLen \in 1..UsizeMax /\ payloadLen \in 0..UsizeMax
    /\ rowLengths \in Seq(1..UsizeMax)
    /\ start \in Nat /\ len \in Nat /\ bytes \in 0..UsizeMax
    /\ ranges \in Seq(RowRange)

-----------------------------------------------------------------------------
(* What the loops must establish *)

EndOf(r) == r.start + r.len

\* Row at which the next range to be closed has to start.
Resume == IF ranges = <<>> THEN 0 ELSE EndOf(ranges[Len(ranges)])

\* The closed ranges cover the rows before the open range, in order, without
\* a gap, an overlap or an empty range; at the return of row_ranges they cover
\* the batch.  A writer that loops over them sends every row exactly once.
RangesPartitionRows ==
    /\ \A i \in 1..Len(ranges) :
          /\ ranges[i].len > 0
          /\ ranges[i].start = IF i = 1 THEN 0 ELSE EndOf(ranges[i - 1])
    /\ pc = "split" => Resume = start /\ start + len = row
    /\ pc = "done" => Resume = rowCount

\* Every closed range respects the payload limit unless one row is larger than
\* the limit by itself, and was closed only because the next row did not fit.
RangesAreGreedy ==
    \A i \in 1..Len(ranges) :
        LET s == ranges[i].start
            e == EndOf(ranges[i])
        IN e <= rowCount /\ WithinCap(off, maxPayload, s, e)
                         /\ ClosedForCause(off, rowCount, maxPayload, s, e)

\* The checked_add of row_ranges cannot fail on a batch that measured: the
\* bytes of a range never exceed the payload length already computed, so an
\* "overflowed usize" error always precedes the first row on the wire.
SplitNeverOverflows == pc # "splitOverflow"

\* The result of row_ranges is the plan its callers rely on.
ReturnsRangePlan ==
    pc = "done" =>
        /\ IsOffsets(off, rowCount)
        /\ IsRangePlan(off, rowCount, maxPayload,
                       {EndOf(ranges[i]) : i \in 1..Len(ranges)})
=============================================================================
