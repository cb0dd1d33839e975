-------------------------- MODULE MCMeasuredBatch --------------------------
(***************************************************************************)
(* Small instance of MeasuredBatch: up to 5 rows of up to 2 cells, limits  *)
(* on both sides of a row length, and a usize that wraps within reach so   *)
(* that both checked additions of measure_row_lengths fail somewhere.      *)
(***************************************************************************)
EXTENDS MeasuredBatch

MCCellLengths == {0, 1, 3}
MCCaps == {1, 4, 7, 14}
=============================================================================
