---------------------------- MODULE MCBulkWriter ----------------------------
(***************************************************************************)
(* Small instance of BulkWriter and its events.  With a payload limit of 5 *)
(* bytes the batch of four rows is sent by a direct backend as the ranges  *)
(* {1}, {2, 3} and {4} (row 1 is larger than the limit by itself) and by   *)
(* the token-row backend row by row; the bad row of the second batch comes *)
(* last, behind a range that would already be on the wire.                 *)
(***************************************************************************)
EXTENDS WriterTelemetry

Offsets4 == [k \in 0..4 |-> <<0, 6, 8, 11, 14>>[k + 1]]
Offsets3 == [k \in 0..3 |-> <<0, 3, 6, 8>>[k + 1]]
Offsets0 == [k \in {0} |-> 0]

MCBatches == {
    [schemaFits |-> TRUE, n |-> 4, bad |-> {}, off |-> Offsets4],
    [schemaFits |-> TRUE, n |-> 3, bad |-> {3}, off |-> Offsets3],
    [schemaFits |-> TRUE, n |-> 0, bad |-> {}, off |-> Offsets0],
    [schemaFits |-> FALSE, n |-> 3, bad |-> {}, off |-> Offsets3]}
=============================================================================
