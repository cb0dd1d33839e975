---------------------------- MODULE ColumnOutcome ----------------------------
(***************************************************************************)
(* What converting, measuring or writing the cells of one column returns:  *)
(* the result of a cell, and of the loop over the rows of the column.      *)
(***************************************************************************)
EXTENDS Integers, Sequences

Ok(v) == [code |-> "ok", value |-> v]
Fail(code) == [code |-> code, value |-> [kind |-> "none"]]
IsOk(r) == r.code = "ok"

Pending == [code |-> "pending", row |-> 0, cells |-> << >>]

\* A loop over the rows that stops at the first cell with an error.
StopAtFirstFailure(results) ==
    LET failed == {r \in DOMAIN results : ~IsOk(results[r])}
        first == CHOOSE r \in failed : \A s \in failed : r <= s
    IN  IF failed = {}
        THEN [code |-> "ok", row |-> 0, cells |-> [r \in DOMAIN results |-> results[r].value]]
        ELSE [code |-> results[first].code, row |-> first, cells |-> << >>]
=============================================================================
