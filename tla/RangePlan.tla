----------------------------- MODULE RangePlan -----------------------------
(***************************************************************************)
(* What MeasuredDirectBatch::row_ranges promises its caller: a partition   *)
(* of the rows of a measured batch into consecutive payload ranges.        *)
(*                                                                         *)
(* A batch of n rows is given by its cumulative byte offsets: off[k] is    *)
(* the length of the first k rows, so off[b] - off[a] is the payload       *)
(* length of rows a..b-1 (MeasuredDirectBatch::range_payload_len).  A plan *)
(* is the set `ends` of row numbers at which a range closes.               *)
(***************************************************************************)
EXTENDS Naturals

\* Payload bytes of the rows after the first a and up to the first b.
RangeBytes(off, a, b) == off[b] - off[a]

\* The offsets of n measured rows: every row has at least its token byte.
IsOffsets(off, n) ==
    /\ off \in [0..n -> Nat]
    /\ off[0] = 0
    /\ \A i, j \in 0..n : i < j => off[i] < off[j]

\* The range that starts at row s closes at e: the next end after s.
Adjacent(ends, s, e) ==
    /\ e \in ends
    /\ s < e
    /\ \A x \in ends : ~(s < x /\ x < e)

\* A range fits the cap unless it is a single row that is larger than the
\* cap by itself, and it closes only where one more row would not have fit.
WithinCap(off, cap, s, e) == RangeBytes(off, s, e) <= cap \/ e = s + 1
ClosedForCause(off, n, cap, s, e) == e = n \/ RangeBytes(off, s, e + 1) > cap

IsRangePlan(off, n, cap, ends) ==
    /\ ends \subseteq 1..n
    /\ n > 0 => n \in ends
    /\ \A s \in ends \cup {0}, e \in ends :
          Adjacent(ends, s, e) => /\ WithinCap(off, cap, s, e)
                                  /\ ClosedForCause(off, n, cap, s, e)
=============================================================================
