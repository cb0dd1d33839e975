------------------------------ MODULE BulkLoad ------------------------------
(***************************************************************************)
(* What a bulk load promises to the program that drives it, without the    *)
(* requests, ranges and awaits of the implementation.                      *)
(*                                                                         *)
(* Each attempt to write a batch is one step.  It either loads all rows of *)
(* the batch and counts them, or fails: then nothing is counted, but a     *)
(* prefix of the rows may stay loaded, because the protocol has no way to  *)
(* take rows back.  Publishing the load makes exactly the loaded rows      *)
(* visible, once, and reports the count.                                   *)
(***************************************************************************)
EXTENDS Integers, Sequences

CONSTANTS
    BatchSizes,  \* row counts of the batches a caller may write
    MaxCount     \* value at which the row and batch counters saturate

VARIABLES
    phase,    \* "new", "loading", "closed"
    loaded,   \* rows that were put on the wire, in order
    count,    \* rows and batches reported as accepted
    tries,    \* number of attempts so far
    table     \* rows visible at the server

vars == <<phase, loaded, count, tries, table>>

\* The first k rows of attempt a.
Rows(a, k) == [r \in 1..k |-> [attempt |-> a, row |-> r]]

SaturatingAdd(x, y) == IF x + y > MaxCount THEN MaxCount ELSE x + y

Init ==
    /\ phase = "new"
    /\ loaded = <<>> /\ table = <<>>
    /\ count = [rows |-> 0, batches |-> 0]
    /\ tries = 0

Open ==
    /\ phase = "new" /\ phase' = "loading"
    /\ UNCHANGED <<loaded, count, tries, table>>

Refuse ==
    /\ phase = "new" /\ phase' = "closed"
    /\ UNCHANGED <<loaded, count, tries, table>>

Accept(n) ==
    /\ phase = "loading"
    /\ loaded' = loaded \o Rows(tries + 1, n)
    /\ count' = [rows |-> SaturatingAdd(count.rows, n),
                 batches |-> SaturatingAdd(count.batches, 1)]
    /\ tries' = tries + 1
    /\ UNCHANGED <<phase, table>>

Fail(n, k) ==
    /\ phase = "loading" /\ k <= n
    /\ loaded' = loaded \o Rows(tries + 1, k)
    /\ tries' = tries + 1
    /\ UNCHANGED <<phase, count, table>>

Publish ==
    /\ phase = "loading" /\ phase' = "closed"
    /\ table' = loaded
    /\ UNCHANGED <<loaded, count, tries>>

Abandon ==
    /\ phase = "loading" /\ phase' = "closed"
    /\ UNCHANGED <<loaded, count, tries, table>>

Next ==
    \/ Open \/ Refuse \/ Publish \/ Abandon
    \/ \E n \in BatchSizes : Accept(n) \/ \E k \in 0..n : Fail(n, k)

Spec == Init /\ [][Next]_vars
=============================================================================
