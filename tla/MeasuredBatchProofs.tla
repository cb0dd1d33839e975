------------------------- MODULE MeasuredBatchProofs -------------------------
(***************************************************************************)
(* Proofs about MeasuredBatch for every number of rows and columns, every  *)
(* cell length, payload limit and usize width.                             *)
(***************************************************************************)
EXTENDS MeasuredBatch, TLAPS

Measured == Len(rowLengths)

\* `off` accumulates the measured row lengths, so it is strictly monotonic.
OffsetsOK ==
    /\ off \in [0..Measured -> Nat]
    /\ off[0] = 0 /\ off[Measured] = payloadLen
    /\ \A i \in 1..Measured : off[i] = off[i - 1] + rowLengths[i]
    /\ \A i, j \in 0..Measured : i < j => off[i] < off[j]
    /\ pc = "measure" => Measured = row /\ ranges = <<>>
    /\ pc \in {"split", "done"} => Measured = rowCount

IInv == TypeOK /\ OffsetsOK

-----------------------------------------------------------------------------
LEMMA InitIInv == Init => IInv
  BY MeasuredBatchAssumption DEF Init, IInv, TypeOK, OffsetsOK, Measured, RowStart, RowRange

LEMMA MeasureCellIInv == ASSUME IInv, NEW c \in CellLengths, MeasureCell(c) PROVE IInv'
<1> USE MeasuredBatchAssumption DEF MeasureCell, batchVars, splitVars
<1>1. TypeOK'
  BY DEF IInv, TypeOK
<1>2. OffsetsOK'
  BY DEF IInv, OffsetsOK, Measured
<1> QED
  BY <1>1, <1>2 DEF IInv

LEMMA MeasureRowIInv == ASSUME IInv, MeasureRow PROVE IInv'
<1> USE MeasuredBatchAssumption DEF MeasureRow, batchVars, splitVars, measureVars,
                                    PayloadOverflows, RowStart
<1>1. TypeOK'
  <2>1. rowLengths' \in Seq(1..UsizeMax)
    <3>1. rowLengths \in Seq(1..UsizeMax) /\ rowLen \in 1..UsizeMax
      BY DEF IInv, TypeOK
    <3>2. rowLengths' \in {rowLengths, Append(rowLengths, rowLen)}
      OBVIOUS
    <3>3. Append(rowLengths, rowLen) \in Seq(1..UsizeMax)
      BY ONLY <3>1
    <3> QED
      BY ONLY <3>1, <3>2, <3>3
  <2>2. /\ pc' \in {"measure", "overflow"} /\ payloadLen' \in 0..UsizeMax
        /\ row' \in 0..rowCount /\ col' \in 0..columnCount /\ rowLen' \in 1..UsizeMax
    BY DEF IInv, TypeOK
  <2> QED
    BY <2>1, <2>2 DEF IInv, TypeOK
<1>2. CASE payloadLen + rowLen > UsizeMax
  <2>1. OffsetsOK'
    BY <1>2 DEF IInv, OffsetsOK, Measured
  <2> QED
    BY <1>1, <2>1 DEF IInv
<1>3. CASE ~(payloadLen + rowLen > UsizeMax)
  <2> DEFINE n == Measured
  <2>0. rowLengths \in Seq(1..UsizeMax) /\ rowLen \in 1..UsizeMax /\ n \in Nat /\ n = row
    BY DEF IInv, TypeOK, OffsetsOK, Measured
  <2>1. /\ n \in Nat /\ n = row /\ Measured' = n + 1
        /\ rowLengths'[n + 1] = rowLen
        /\ \A i \in 1..n : rowLengths'[i] = rowLengths[i]
    <3>1. rowLengths' = Append(rowLengths, rowLen)
      BY <1>3
    <3> HIDE DEF MeasureRow
    <3> QED
      BY <2>0, <3>1 DEF Measured
  <2>2. /\ off' = [k \in 0..(n + 1) |-> IF k = n + 1 THEN payloadLen + rowLen ELSE off[k]]
        /\ payloadLen' = payloadLen + rowLen
    BY <1>3, <2>1
  <2>3. \A k \in 0..n : off'[k] = off[k] /\ off[k] \in Nat /\ off[k] <= payloadLen
    <3> SUFFICES ASSUME NEW k \in 0..n
                 PROVE  off'[k] = off[k] /\ off[k] \in Nat /\ off[k] <= payloadLen
      OBVIOUS
    <3>1. off'[k] = off[k]
      BY <2>1, <2>2
    <3>2. off[k] \in Nat /\ off[n] = payloadLen /\ (k < n => off[k] < off[n])
      BY <2>1 DEF IInv, OffsetsOK
    <3> QED
      BY <2>1, <3>1, <3>2 DEF IInv, TypeOK
  <2>4. off'[n + 1] = payloadLen + rowLen /\ payloadLen \in Nat /\ rowLen \in Nat \ {0}
    BY <2>1, <2>2 DEF IInv, TypeOK
  <2>5. off' \in [0..(n + 1) -> Nat]
    <3> HIDE DEF MeasureRow, n
    <3>1. \A k \in 0..(n + 1) : k = n + 1 \/ k \in 0..n
      BY <2>0
    <3> QED
      BY <2>2, <2>3, <2>4, <3>1
  <2>6. \A i \in 1..(n + 1) : off'[i] = off'[i - 1] + rowLengths'[i]
    <3> SUFFICES ASSUME NEW i \in 1..(n + 1) PROVE off'[i] = off'[i - 1] + rowLengths'[i]
      OBVIOUS
    <3>1. CASE i = n + 1
      BY <2>1, <2>3, <2>4, <3>1 DEF IInv, OffsetsOK
    <3>2. CASE i \in 1..n
      BY <2>1, <2>3, <3>2 DEF IInv, OffsetsOK
    <3> QED
      BY <2>1, <3>1, <3>2
  <2>7. \A i, j \in 0..(n + 1) : i < j => off'[i] < off'[j]
    <3> SUFFICES ASSUME NEW i \in 0..(n + 1), NEW j \in 0..(n + 1), i < j
                 PROVE  off'[i] < off'[j]
      OBVIOUS
    <3>1. CASE j = n + 1
      BY <2>1, <2>3, <2>4, <3>1
    <3>2. CASE j \in 0..n
      BY <2>1, <2>3, <3>2 DEF IInv, OffsetsOK
    <3> QED
      BY <2>1, <3>1, <3>2
  <2>8. pc' = "measure" /\ Measured' = row' /\ ranges' = <<>>
    BY <1>3, <2>1 DEF IInv, OffsetsOK
  <2>9. OffsetsOK'
    <3> HIDE DEF MeasureRow
    <3>1. off'[0] = 0 /\ off'[n + 1] = payloadLen'
      BY <2>0, <2>2, <2>3, <2>4 DEF IInv, OffsetsOK
    <3> QED
      BY <2>1, <2>5, <2>6, <2>7, <2>8, <3>1 DEF OffsetsOK
  <2> QED
    BY <1>1, <2>9 DEF IInv
<1> QED
  BY <1>2, <1>3 DEF IInv, TypeOK

LEMMA BeginSplitIInv == ASSUME IInv, BeginSplit PROVE IInv'
<1> USE MeasuredBatchAssumption DEF BeginSplit, batchVars, measureVars
<1>1. TypeOK'
  <2>1. ranges' \in Seq(RowRange)
    OBVIOUS
  <2> QED
    BY <2>1 DEF IInv, TypeOK
<1>2. OffsetsOK'
  BY DEF IInv, OffsetsOK, Measured
<1> QED
  BY <1>1, <1>2 DEF IInv

-----------------------------------------------------------------------------
(* The open range of row_ranges is rows start..row-1; `bytes` is its length, *)
(* which respects the limit unless the range is a single row.                *)

OpenRangeOK ==
    pc = "split" =>
        /\ start + len = row
        /\ row > 0 => len > 0
        /\ bytes = off[row] - off[start]
        /\ len > 0 => WithinCap(off, maxPayload, start, row)

\* The ranges are in the order of their rows.
RangesInOrder ==
    /\ \A i, j \in 1..Len(ranges) : i < j => EndOf(ranges[i]) <= ranges[j].start
    /\ \A i \in 1..Len(ranges) : EndOf(ranges[i]) <= Resume

SplitInv ==
    /\ IInv /\ OpenRangeOK /\ RangesInOrder
    /\ RangesPartitionRows /\ RangesAreGreedy /\ SplitNeverOverflows

\* Why the checked addition of row_ranges cannot fail.
LEMMA RangeFitsPayload ==
    ASSUME IInv, pc = "split", row < rowCount, OpenRangeOK
    PROVE  /\ bytes + rowLengths[row + 1] = off[row + 1] - off[start]
           /\ bytes + rowLengths[row + 1] <= payloadLen
           /\ payloadLen <= UsizeMax
           /\ rowLengths[row + 1] = off[row + 1] - off[row]
           /\ rowLengths[row + 1] \in 1..UsizeMax
<1>1. /\ row \in Nat /\ rowCount \in Nat /\ start \in 0..row
      /\ payloadLen \in 0..UsizeMax /\ UsizeMax \in Nat
      /\ rowLengths \in Seq(1..UsizeMax) /\ Measured = rowCount
  BY MeasuredBatchAssumption DEF IInv, TypeOK, OffsetsOK, OpenRangeOK
<1>2. rowLengths[row + 1] \in 1..UsizeMax
  BY <1>1 DEF Measured
<1>3. row + 1 \in 1..Measured /\ off[row + 1] = off[row] + rowLengths[row + 1]
  BY <1>1 DEF IInv, OffsetsOK
<1>4. /\ off[row + 1] \in Nat /\ off[row] \in Nat /\ off[start] \in Nat
      /\ off[rowCount] = payloadLen
      /\ off[row + 1] <= off[rowCount]
  <2>1. row + 1 \in 0..rowCount /\ rowCount \in 0..rowCount /\ row \in 0..rowCount /\ start \in 0..rowCount
    BY <1>1
  <2>2. /\ off \in [0..rowCount -> Nat] /\ off[rowCount] = payloadLen
        /\ \A i, j \in 0..rowCount : i < j => off[i] < off[j]
    BY <1>1 DEF IInv, OffsetsOK
  <2>3. CASE row + 1 = rowCount
    BY <1>1, <2>1, <2>2, <2>3
  <2>4. CASE row + 1 < rowCount
    BY <1>1, <2>1, <2>2, <2>4
  <2> QED
    BY <1>1, <2>3, <2>4
<1>5. bytes = off[row] - off[start]
  BY DEF OpenRangeOK
<1>6. bytes + rowLengths[row + 1] = off[row + 1] - off[start]
  BY ONLY <1>2, <1>3, <1>4, <1>5
<1>7. bytes + rowLengths[row + 1] <= payloadLen
  <2>1. payloadLen \in Nat
    BY <1>1
  <2>2. off[row + 1] <= payloadLen
    BY <1>4
  <2> QED
    BY ONLY <1>4, <1>6, <2>1, <2>2
<1>8. rowLengths[row + 1] = off[row + 1] - off[row]
  BY ONLY <1>2, <1>3, <1>4
<1>9. payloadLen <= UsizeMax
  BY <1>1
<1> QED
  BY ONLY <1>2, <1>6, <1>7, <1>8, <1>9

\* A step that leaves the loop of row_ranges alone.
LEMMA OutsideSplit ==
    ASSUME SplitInv, IInv', pc # "split", pc' \notin {"split", "done", "splitOverflow"} \/ pc' = pc,
           ranges' = ranges, maxPayload' = maxPayload, rowCount' = rowCount,
           pc = "measure" => ranges = <<>>, pc # "measure" => off' = off
    PROVE  SplitInv'
<1>1. OpenRangeOK' /\ SplitNeverOverflows'
  BY DEF SplitInv, OpenRangeOK, SplitNeverOverflows
<1>2. RangesInOrder'
  BY DEF SplitInv, RangesInOrder, Resume, EndOf
<1>3. RangesPartitionRows'
  BY DEF SplitInv, RangesPartitionRows, Resume, EndOf
<1>4. RangesAreGreedy'
  BY DEF SplitInv, RangesAreGreedy, EndOf, WithinCap, ClosedForCause, RangeBytes
<1> QED
  BY <1>1, <1>2, <1>3, <1>4 DEF SplitInv

\* The fields of a recorded range are row numbers.
LEMMA RangeFields ==
    ASSUME NEW rs \in Seq(RowRange), NEW i \in 1..Len(rs)
    PROVE  rs[i].start \in Nat /\ rs[i].len \in Nat
<1>1. rs[i] \in RowRange
  OBVIOUS
<1>2. \A r \in RowRange : r.start \in Nat /\ r.len \in Nat
  BY DEF RowRange
<1> QED
  BY <1>1, <1>2

\* rs is a list of non-empty consecutive ranges over the rows before e, each as
\* long as the limit allows.
CoversUpTo(rs, e) ==
    /\ rs \in Seq(RowRange) /\ rs # <<>> /\ EndOf(rs[Len(rs)]) = e
    /\ \A i \in 1..Len(rs) :
          /\ rs[i].len > 0
          /\ rs[i].start = IF i = 1 THEN 0 ELSE EndOf(rs[i - 1])
          /\ EndOf(rs[i]) <= e /\ EndOf(rs[i]) <= rowCount
          /\ WithinCap(off, maxPayload, rs[i].start, EndOf(rs[i]))
          /\ ClosedForCause(off, rowCount, maxPayload, rs[i].start, EndOf(rs[i]))
    /\ \A i, j \in 1..Len(rs) : i < j => EndOf(rs[i]) <= rs[j].start

Extended == Append(ranges, [start |-> start, len |-> len])

\* Closing the open range [start, row): it is appended, and the invariants of
\* the closed ranges extend to it.
LEMMA CloseRange ==
    ASSUME SplitInv, pc = "split", len > 0, row <= rowCount,
           ClosedForCause(off, rowCount, maxPayload, start, row)
    PROVE  CoversUpTo(Extended, row)
<1> DEFINE m == Len(ranges)
           r == [start |-> start, len |-> len]
           rs == Extended
<1>1. /\ ranges \in Seq(RowRange) /\ m \in Nat /\ r \in RowRange
      /\ row \in Nat /\ rowCount \in Nat /\ start \in Nat /\ len \in Nat
      /\ start + len = row /\ Resume = start
  BY MeasuredBatchAssumption
     DEF SplitInv, IInv, TypeOK, OpenRangeOK, RangesPartitionRows, RowRange
<1>2. /\ rs \in Seq(RowRange) /\ Len(rs) = m + 1 /\ rs[m + 1] = r /\ rs # <<>>
      /\ \A i \in 1..m : rs[i] = ranges[i] /\ ranges[i] \in RowRange
  BY <1>1 DEF Extended
<1> HIDE DEF rs
<1>3. EndOf(r) = row /\ r.start = start /\ r.len = len
  BY <1>1 DEF EndOf
<1>4. m > 0 => EndOf(ranges[m]) = start
  BY <1>1 DEF Resume
<1>5. m = 0 => start = 0
  BY <1>1 DEF Resume
<1>6. WithinCap(off, maxPayload, start, row)
  BY DEF SplitInv, OpenRangeOK
<1>7. \A i \in 1..m : EndOf(ranges[i]) <= start /\ EndOf(ranges[i]) \in Nat
  <2>1. \A i \in 1..m : EndOf(ranges[i]) <= Resume
    BY DEF SplitInv, RangesInOrder
  <2>2. \A i \in 1..m : ranges[i].start \in Nat /\ ranges[i].len \in Nat
    BY <1>1, RangeFields
  <2> QED
    BY <1>1, <2>1, <2>2 DEF EndOf
<1>8. ASSUME NEW i \in 1..(m + 1)
      PROVE  /\ rs[i].len > 0
             /\ rs[i].start = IF i = 1 THEN 0 ELSE EndOf(rs[i - 1])
             /\ EndOf(rs[i]) <= row
             /\ EndOf(rs[i]) <= rowCount
             /\ WithinCap(off, maxPayload, rs[i].start, EndOf(rs[i]))
             /\ ClosedForCause(off, rowCount, maxPayload, rs[i].start, EndOf(rs[i]))
  <2>1. CASE i = m + 1
    <3>1. rs[i].start = IF i = 1 THEN 0 ELSE EndOf(rs[i - 1])
      <4>1. CASE m = 0
        BY <1>1, <1>2, <1>3, <1>5, <2>1, <4>1
      <4>2. CASE m > 0
        <5>1. i - 1 = m /\ i # 1 /\ rs[i - 1] = ranges[m]
          BY <1>1, <1>2, <2>1, <4>2
        <5> QED
          BY <1>2, <1>3, <1>4, <2>1, <4>2, <5>1
      <4> QED
        BY <1>1, <4>1, <4>2
    <3> QED
      BY <1>1, <1>2, <1>3, <1>6, <2>1, <3>1
  <2>2. CASE i \in 1..m
    <3>1. rs[i] = ranges[i] /\ (i # 1 => rs[i - 1] = ranges[i - 1])
      BY <1>1, <1>2, <2>2
    <3>2. /\ ranges[i].len > 0
          /\ ranges[i].start = IF i = 1 THEN 0 ELSE EndOf(ranges[i - 1])
      BY <2>2 DEF SplitInv, RangesPartitionRows
    <3>3. /\ WithinCap(off, maxPayload, ranges[i].start, EndOf(ranges[i]))
          /\ ClosedForCause(off, rowCount, maxPayload, ranges[i].start, EndOf(ranges[i]))
      BY <2>2 DEF SplitInv, RangesAreGreedy
    <3>4. EndOf(ranges[i]) <= row
      BY <1>1, <1>7, <2>2
    <3> QED
      BY <1>1, <1>7, <2>2, <3>1, <3>2, <3>3, <3>4
  <2> QED
    BY <1>1, <2>1, <2>2
<1>9. ASSUME NEW i \in 1..(m + 1), NEW j \in 1..(m + 1), i < j
      PROVE  EndOf(rs[i]) <= rs[j].start
  <2>1. i \in 1..m /\ rs[i] = ranges[i]
    BY <1>1, <1>2, <1>9
  <2>2. CASE j = m + 1
    BY <1>2, <1>3, <1>7, <2>1, <2>2
  <2>3. CASE j \in 1..m
    <3>1. EndOf(ranges[i]) <= ranges[j].start
      BY <1>9, <2>1, <2>3 DEF SplitInv, RangesInOrder
    <3> QED
      BY <1>2, <2>1, <2>3, <3>1
  <2> QED
    BY <1>1, <2>2, <2>3
<1>10. CoversUpTo(rs, row)
  BY <1>1, <1>2, <1>3, <1>8, <1>9 DEF CoversUpTo
<1> QED
  BY <1>10 DEF rs

LEMMA SplitRowInv == ASSUME SplitInv, SplitRow PROVE SplitInv'
<1> DEFINE rowBytes == rowLengths[row + 1]
           next == bytes + rowBytes
<1>1. /\ pc = "split" /\ row < rowCount
      /\ UNCHANGED <<rowCount, columnCount, maxPayload, col, rowLen, rowLengths, payloadLen, off>>
  BY DEF SplitRow, batchVars, measureVars
<1>2. /\ row \in Nat /\ rowCount \in Nat /\ start \in Nat /\ len \in Nat /\ bytes \in Nat
      /\ maxPayload \in Nat /\ UsizeMax \in Nat /\ payloadLen \in 0..UsizeMax
      /\ start + len = row /\ (row > 0 => len > 0)
  BY <1>1, MeasuredBatchAssumption DEF SplitInv, IInv, TypeOK, OpenRangeOK
<1>3. /\ next = off[row + 1] - off[start]
      /\ next <= payloadLen /\ rowBytes \in 1..UsizeMax
      /\ rowBytes = off[row + 1] - off[row]
  BY <1>1, RangeFitsPayload DEF SplitInv
<1>4. /\ row' = row + 1 /\ pc' = "split"
      /\ IF ClosesRange(next)
           THEN /\ ranges' = Append(ranges, [start |-> start, len |-> len])
                /\ start' = row /\ len' = 1 /\ bytes' = rowBytes
           ELSE /\ bytes' = next /\ len' = len + 1
                /\ start' = start /\ ranges' = ranges
  BY <1>1, <1>2, <1>3 DEF SplitRow
<1>5. OffsetsOK'
  BY <1>1, <1>4 DEF SplitInv, IInv, OffsetsOK, Measured
<1>6. CASE ClosesRange(next)
  <2>1. len > 0 /\ next > maxPayload /\ start < row
    BY <1>2, <1>6 DEF ClosesRange
  <2>2. ClosedForCause(off, rowCount, maxPayload, start, row)
    BY <1>3, <2>1 DEF ClosedForCause, RangeBytes
  <2>3. CoversUpTo(Extended, row)
    BY <1>1, <1>2, <2>1, <2>2, CloseRange
  <2>4. ranges' = Extended /\ start' = row /\ len' = 1 /\ bytes' = rowBytes
    BY <1>4, <1>6 DEF Extended
  <2>6. Resume' = row
    BY <2>3, <2>4 DEF CoversUpTo, Resume, EndOf
  <2>7. TypeOK'
    BY <1>1, <1>2, <1>3, <1>4, <2>3, <2>4 DEF CoversUpTo, SplitInv, IInv, TypeOK
  <2>8. OpenRangeOK'
    BY <1>1, <1>2, <1>3, <1>4, <2>4 DEF OpenRangeOK, WithinCap, RangeBytes
  <2>9. RangesInOrder'
    BY <2>3, <2>4, <2>6 DEF CoversUpTo, RangesInOrder, EndOf
  <2>10. RangesPartitionRows'
    BY <1>2, <1>4, <2>3, <2>4, <2>6 DEF CoversUpTo, RangesPartitionRows, EndOf
  <2>11. RangesAreGreedy'
    BY <1>1, <2>3, <2>4 DEF CoversUpTo, RangesAreGreedy, EndOf, WithinCap, ClosedForCause, RangeBytes
  <2> QED
    BY <1>4, <1>5, <2>7, <2>8, <2>9, <2>10, <2>11 DEF SplitInv, IInv, SplitNeverOverflows
<1>7. CASE ~ClosesRange(next)
  <2>1. bytes' = next /\ len' = len + 1 /\ start' = start /\ ranges' = ranges
    BY <1>4, <1>7
  <2>2. TypeOK'
    BY <1>1, <1>2, <1>3, <1>4, <2>1 DEF SplitInv, IInv, TypeOK
  <2>3. next <= maxPayload \/ len = 0
    BY <1>2, <1>3, <1>7 DEF ClosesRange
  <2>4. OpenRangeOK'
    BY <1>1, <1>2, <1>3, <1>4, <2>1, <2>3 DEF OpenRangeOK, WithinCap, RangeBytes
  <2>5. RangesInOrder'
    BY <2>1 DEF SplitInv, RangesInOrder, Resume, EndOf
  <2>6. RangesPartitionRows'
    BY <1>1, <1>2, <1>4, <2>1 DEF SplitInv, RangesPartitionRows, Resume, EndOf
  <2>7. RangesAreGreedy'
    BY <1>1, <2>1 DEF SplitInv, RangesAreGreedy, EndOf, WithinCap, ClosedForCause, RangeBytes
  <2> QED
    BY <1>4, <1>5, <2>2, <2>4, <2>5, <2>6, <2>7 DEF SplitInv, IInv, SplitNeverOverflows
<1> QED
  BY <1>6, <1>7

LEMMA FinishSplitInv == ASSUME SplitInv, FinishSplit PROVE SplitInv'
<1>1. /\ pc = "split" /\ row = rowCount /\ pc' = "done" /\ ranges' = RangesWithLast
      /\ UNCHANGED <<rowCount, columnCount, maxPayload, row, col, rowLen, rowLengths,
                     payloadLen, off, start, len, bytes>>
  BY DEF FinishSplit, batchVars, measureVars
<1>2. /\ row \in Nat /\ rowCount \in Nat /\ start \in Nat /\ len \in Nat
      /\ start + len = row /\ (row > 0 => len > 0) /\ Resume = start
      /\ ranges \in Seq(RowRange)
  BY <1>1, MeasuredBatchAssumption
     DEF SplitInv, IInv, TypeOK, OpenRangeOK, RangesPartitionRows
<1>3. OffsetsOK' /\ OpenRangeOK' /\ SplitNeverOverflows'
  BY <1>1 DEF SplitInv, IInv, OffsetsOK, Measured, OpenRangeOK, SplitNeverOverflows
<1>4. CASE len > 0
  <2>1. ClosedForCause(off, rowCount, maxPayload, start, row)
    BY <1>1 DEF ClosedForCause
  <2>2. CoversUpTo(Extended, row)
    BY <1>1, <1>2, <1>4, <2>1, CloseRange
  <2>3. ranges' = Extended
    BY <1>1, <1>2, <1>4 DEF RangesWithLast, Extended
  <2>4. Resume' = row
    BY <2>2, <2>3 DEF CoversUpTo, Resume, EndOf
  <2>5. TypeOK'
    BY <1>1, <2>2, <2>3 DEF CoversUpTo, SplitInv, IInv, TypeOK
  <2>6. RangesInOrder'
    BY <2>2, <2>3, <2>4 DEF CoversUpTo, RangesInOrder, EndOf
  <2>7. RangesPartitionRows'
    BY <1>1, <2>2, <2>3, <2>4 DEF CoversUpTo, RangesPartitionRows, EndOf
  <2>8. RangesAreGreedy'
    BY <1>1, <2>2, <2>3 DEF CoversUpTo, RangesAreGreedy, EndOf, WithinCap, ClosedForCause, RangeBytes
  <2> QED
    BY <1>3, <2>5, <2>6, <2>7, <2>8 DEF SplitInv, IInv
<1>5. CASE ~(len > 0)
  <2>1. ranges' = ranges /\ rowCount = 0 /\ Resume = rowCount
    BY <1>1, <1>2, <1>5 DEF RangesWithLast
  <2>2. TypeOK'
    BY <1>1, <2>1 DEF SplitInv, IInv, TypeOK
  <2>3. RangesInOrder'
    BY <2>1 DEF SplitInv, RangesInOrder, Resume, EndOf
  <2>4. RangesPartitionRows'
    BY <1>1, <2>1 DEF SplitInv, RangesPartitionRows, Resume, EndOf
  <2>5. RangesAreGreedy'
    BY <1>1, <2>1 DEF SplitInv, RangesAreGreedy, EndOf, WithinCap, ClosedForCause, RangeBytes
  <2> QED
    BY <1>3, <2>2, <2>3, <2>4, <2>5 DEF SplitInv, IInv
<1> QED
  BY <1>4, <1>5

-----------------------------------------------------------------------------
LEMMA InitInv == Init => SplitInv
<1> SUFFICES ASSUME Init PROVE SplitInv
  OBVIOUS
<1>1. pc = "measure" /\ ranges = <<>>
  BY DEF Init
<1>2. OpenRangeOK /\ RangesInOrder /\ RangesPartitionRows /\ RangesAreGreedy /\ SplitNeverOverflows
  BY <1>1 DEF OpenRangeOK, RangesInOrder, RangesPartitionRows, RangesAreGreedy, SplitNeverOverflows
<1> QED
  BY <1>2, InitIInv DEF SplitInv

LEMMA NextInv == SplitInv /\ [Next]_vars => SplitInv'
<1> SUFFICES ASSUME SplitInv, [Next]_vars PROVE SplitInv'
  OBVIOUS
<1>0. pc = "measure" => ranges = <<>>
  BY DEF SplitInv, IInv, OffsetsOK
<1>1. ASSUME NEW c \in CellLengths, MeasureCell(c) PROVE SplitInv'
  <2>1. IInv'
    BY <1>1, MeasureCellIInv DEF SplitInv
  <2> QED
    BY <1>0, <1>1, <2>1, OutsideSplit DEF MeasureCell, batchVars, splitVars
<1>2. CASE MeasureRow
  <2>1. IInv'
    BY <1>2, MeasureRowIInv DEF SplitInv
  <2> QED
    BY <1>0, <1>2, <2>1, OutsideSplit DEF MeasureRow, batchVars, splitVars
<1>3. CASE BeginSplit
  <2>1. IInv'
    BY <1>3, BeginSplitIInv DEF SplitInv
  <2>2. /\ pc = "measure" /\ ranges' = <<>> /\ row' = 0 /\ start' = 0 /\ len' = 0 /\ bytes' = 0
        /\ pc' \in {"badLimit", "split"} /\ off' = off
    BY <1>3 DEF BeginSplit, batchVars, measureVars
  <2>3. off[0] \in Nat
    BY MeasuredBatchAssumption DEF SplitInv, IInv, OffsetsOK, Measured, TypeOK
  <2>4. OpenRangeOK'
    BY <2>2, <2>3 DEF OpenRangeOK
  <2>5. RangesInOrder' /\ RangesPartitionRows' /\ RangesAreGreedy' /\ SplitNeverOverflows'
    BY <2>2 DEF RangesInOrder, RangesPartitionRows, RangesAreGreedy, SplitNeverOverflows, Resume
  <2> QED
    BY <2>1, <2>4, <2>5 DEF SplitInv
<1>4. CASE SplitRow
  BY <1>4, SplitRowInv
<1>5. CASE FinishSplit
  BY <1>5, FinishSplitInv
<1>6. CASE UNCHANGED vars
  <2>1. /\ UNCHANGED <<rowCount, columnCount, maxPayload, pc, row, col, rowLen, rowLengths>>
        /\ UNCHANGED <<payloadLen, off, start, len, bytes, ranges>>
    BY <1>6 DEF vars, batchVars, measureVars, splitVars
  <2>2. TypeOK' /\ OffsetsOK' /\ OpenRangeOK'
    BY <2>1 DEF SplitInv, IInv, TypeOK, OffsetsOK, OpenRangeOK, Measured, WithinCap, RangeBytes
  <2>3. RangesInOrder' /\ RangesPartitionRows' /\ RangesAreGreedy' /\ SplitNeverOverflows'
    BY <2>1 DEF SplitInv, RangesInOrder, RangesPartitionRows, RangesAreGreedy, SplitNeverOverflows,
                Resume, EndOf, WithinCap, ClosedForCause, RangeBytes
  <2> QED
    BY <2>2, <2>3 DEF SplitInv, IInv
<1>7. CASE Returned
  BY <1>6, <1>7 DEF Returned
<1> QED
  BY <1>1, <1>2, <1>3, <1>4, <1>5, <1>6, <1>7 DEF Next

LEMMA Invariance == Spec => []SplitInv
  BY InitInv, NextInv, PTL DEF Spec

\* The returned ranges are the plan of RangePlan.
LEMMA InvReturnsPlan == SplitInv => ReturnsRangePlan
<1> SUFFICES ASSUME SplitInv, pc = "done" PROVE ReturnsRangePlan
  BY DEF ReturnsRangePlan
<1> DEFINE ends == {EndOf(ranges[i]) : i \in 1..Len(ranges)}
<1>1. /\ rowCount \in Nat /\ ranges \in Seq(RowRange) /\ Measured = rowCount
      /\ Resume = rowCount
  BY MeasuredBatchAssumption
     DEF SplitInv, IInv, TypeOK, OffsetsOK, RangesPartitionRows
<1>2. IsOffsets(off, rowCount)
  BY <1>1 DEF SplitInv, IInv, OffsetsOK, IsOffsets
<1>3. \A i \in 1..Len(ranges) :
         /\ ranges[i].start \in Nat /\ ranges[i].len \in Nat \ {0}
         /\ EndOf(ranges[i]) = ranges[i].start + ranges[i].len
         /\ EndOf(ranges[i]) \in 1..rowCount
         /\ ranges[i].start = IF i = 1 THEN 0 ELSE EndOf(ranges[i - 1])
         /\ WithinCap(off, maxPayload, ranges[i].start, EndOf(ranges[i]))
         /\ ClosedForCause(off, rowCount, maxPayload, ranges[i].start, EndOf(ranges[i]))
  <2> SUFFICES ASSUME NEW i \in 1..Len(ranges)
               PROVE  /\ ranges[i].start \in Nat /\ ranges[i].len \in Nat \ {0}
                      /\ EndOf(ranges[i]) = ranges[i].start + ranges[i].len
                      /\ EndOf(ranges[i]) \in 1..rowCount
                      /\ ranges[i].start = IF i = 1 THEN 0 ELSE EndOf(ranges[i - 1])
                      /\ WithinCap(off, maxPayload, ranges[i].start, EndOf(ranges[i]))
                      /\ ClosedForCause(off, rowCount, maxPayload, ranges[i].start, EndOf(ranges[i]))
    OBVIOUS
  <2>1. ranges[i].start \in Nat /\ ranges[i].len \in Nat
    BY <1>1, RangeFields
  <2>2. /\ ranges[i].len > 0
        /\ ranges[i].start = IF i = 1 THEN 0 ELSE EndOf(ranges[i - 1])
    BY DEF SplitInv, RangesPartitionRows
  <2>3. /\ EndOf(ranges[i]) <= rowCount
        /\ WithinCap(off, maxPayload, ranges[i].start, EndOf(ranges[i]))
        /\ ClosedForCause(off, rowCount, maxPayload, ranges[i].start, EndOf(ranges[i]))
    BY DEF SplitInv, RangesAreGreedy
  <2>4. EndOf(ranges[i]) = ranges[i].start + ranges[i].len
    BY DEF EndOf
  <2>5. EndOf(ranges[i]) \in 1..rowCount
    BY <1>1, <2>1, <2>2, <2>3, <2>4
  <2> QED
    BY <2>1, <2>2, <2>3, <2>4, <2>5
<1>4. ends \subseteq 1..rowCount
  BY <1>3
<1>5. rowCount > 0 => rowCount \in ends
  <2>1. SUFFICES ASSUME rowCount > 0 PROVE rowCount \in ends
    OBVIOUS
  <2>2. ranges # <<>>
    BY <1>1, <2>1 DEF Resume
  <2>3. Len(ranges) \in 1..Len(ranges)
    BY <1>1, <2>2
  <2>4. EndOf(ranges[Len(ranges)]) = rowCount
    BY <1>1, <2>2 DEF Resume
  <2> QED
    BY <2>3, <2>4
<1>6. ASSUME NEW s \in ends \cup {0}, NEW e \in ends, Adjacent(ends, s, e)
      PROVE  /\ WithinCap(off, maxPayload, s, e)
             /\ ClosedForCause(off, rowCount, maxPayload, s, e)
  <2>1. PICK i \in 1..Len(ranges) : e = EndOf(ranges[i])
    OBVIOUS
  <2>2. /\ s \in Nat /\ e \in Nat /\ s < e
        /\ \A x \in ends : ~(s < x /\ x < e)
    BY <1>1, <1>4, <1>6 DEF Adjacent
  <2>3. ranges[i].start < e /\ ranges[i].start \in Nat
    BY <1>3, <2>1
  <2>4. ranges[i].start = 0 \/ ranges[i].start \in ends
    <3>1. CASE i = 1
      BY <1>3, <3>1
    <3>2. CASE i # 1
      <4>1. i - 1 \in 1..Len(ranges)
        BY <1>1, <3>2
      <4> QED
        BY <1>3, <3>2, <4>1
    <3> QED
      BY <3>1, <3>2
  <2>5. ~(s < ranges[i].start)
    BY <2>2, <2>3, <2>4
  <2>6. ~(ranges[i].start < s)
    <3>1. SUFFICES ASSUME ranges[i].start < s PROVE FALSE
      OBVIOUS
    <3>2. s \in ends
      BY <2>3, <3>1
    <3>3. PICK j \in 1..Len(ranges) : s = EndOf(ranges[j])
      BY <3>2
    <3>4. \A a, b \in 1..Len(ranges) : a < b => EndOf(ranges[a]) <= ranges[b].start
      BY DEF SplitInv, RangesInOrder
    <3>5. CASE j < i
      BY <2>2, <2>3, <3>1, <3>3, <3>4, <3>5
    <3>6. CASE j = i
      BY <2>1, <2>2, <3>3, <3>6
    <3>7. CASE i < j
      <4>1. e <= ranges[j].start /\ ranges[j].start < s
        BY <1>3, <2>1, <3>3, <3>4, <3>7
      <4> QED
        BY <1>3, <2>2, <4>1
    <3> QED
      BY <1>1, <3>5, <3>6, <3>7
  <2>7. s = ranges[i].start
    BY <2>2, <2>3, <2>5, <2>6
  <2> QED
    BY <1>3, <2>1, <2>7
<1>7. IsRangePlan(off, rowCount, maxPayload, ends)
  BY <1>4, <1>5, <1>6 DEF IsRangePlan
<1> QED
  BY <1>2, <1>7 DEF ReturnsRangePlan

-----------------------------------------------------------------------------
(* The results *)

\* Type correctness of the loops of measure_row_lengths and row_ranges: every
\* counter and every running length stays within usize.
THEOREM TypeCorrect == Spec => []TypeOK
<1>1. SplitInv => TypeOK
  BY DEF SplitInv, IInv
<1> QED
  BY <1>1, Invariance, PTL

\* row_ranges splits every batch into consecutive, non-empty ranges that cover
\* its rows, so the send loop of the direct backends sends each row once.
THEOREM RangesPartition == Spec => []RangesPartitionRows
<1>1. SplitInv => RangesPartitionRows
  BY DEF SplitInv
<1> QED
  BY <1>1, Invariance, PTL

\* row_ranges cannot fail with an overflow once measure_row_lengths returned.
THEOREM NoSplitOverflow == Spec => []SplitNeverOverflows
<1>1. SplitInv => SplitNeverOverflows
  BY DEF SplitInv
<1> QED
  BY <1>1, Invariance, PTL

\* row_ranges closes a range only at the limit: within the cap unless it is a
\* single row, and never earlier than the next row requires.
THEOREM GreedyRanges == Spec => []RangesAreGreedy
<1>1. SplitInv => RangesAreGreedy
  BY DEF SplitInv
<1> QED
  BY <1>1, Invariance, PTL

\* The value row_ranges returns is a range plan in the sense BulkWriter uses.
THEOREM SplitReturnsPlan == Spec => []ReturnsRangePlan
  BY InvReturnsPlan, Invariance, PTL
=============================================================================
