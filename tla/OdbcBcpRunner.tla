--------------------------- MODULE OdbcBcpRunner ---------------------------
(***************************************************************************)
(* The bench command of the odbc-bcp runner                                *)
(* (xtask/odbc-bcp-runner/src/main.rs).  The BCP functions of the ODBC     *)
(* driver are told once where the value of a column lives and read it from *)
(* there at every bcp_sendrow: `bound` is what the driver remembers, `buf` *)
(* the runner's memory.  Any call of the driver may fail.                  *)
(***************************************************************************)
EXTENDS Integers, Sequences, FiniteSets, SequencesExt

CONSTANTS Columns,     \* of the dataset: sequence of [variable, nullable]
          Units,       \* what values are made of
          Datasets,    \* sequences of batches; a batch is a sequence of rows,
                       \* a row a sequence of cells: Null or a sequence of units
          Null, Garbage,
          BatchSizes,  \* --batch-size
          RowOptions,  \* --rows
          Repeats      \* --repeat

\* A value of a fixed-length column has its size, one unit.
Rows ==
    {row \in [DOMAIN Columns -> Seq(Units) \cup {Null}] :
        \A c \in DOMAIN Columns :
            Columns[c].variable \/ row[c] = Null \/ Len(row[c]) = 1}

RunnerAssumption ==
    /\ Columns \in Seq([variable : BOOLEAN, nullable : BOOLEAN]) \ {<<>>}
    /\ Null \notin Seq(Units)
    /\ \A dataset \in Datasets : dataset \in Seq(Seq(Rows))
    /\ RowOptions \subseteq Nat
    /\ BatchSizes \subseteq Nat \ {0}
    /\ Repeats \in Nat \ {0}
    /\ Null # Garbage

VARIABLES opts,       \* dataset, batch size, rows, defer, profile
          pc,         \* the next call
          handles,    \* ODBC handles allocated
          connected,  \* connections that are open
          repeat,     \* repeats finished
          at,         \* [batch, row, col] being read
          buf,        \* column |-> [gen, cap, content]; <<>> before binding
          bound,      \* column |-> [gen, len]: the driver's pointer and length
          inflight,   \* rows the driver holds, of the open bcp batch
          table,      \* rows the server stores, or Null without a table
          received,   \* ghost: rows the driver read in this repeat
          report,     \* BcpCopyResult of the repeat
          total,      \* merged over the repeats
          failed,     \* the repeat returned an error
          result,     \* "running", "ok" or "error"
          left        \* ghost: dropping the table failed

vars == <<opts, pc, handles, connected, repeat, at, buf, bound, inflight, table,
          received, report, total, failed, result, left>>
memory == <<buf, bound>>
odbc == <<handles, connected>>
server == <<inflight, table, received>>
outcome == <<failed, result, left>>

Cols == DOMAIN Columns
AllRows == FlattenSeq(opts.dataset)
ZeroReport == [batchCalls |-> 0, batchRows |-> 0, doneRows |-> 0]

-----------------------------------------------------------------------------
(* Connections: RawBcpConnection::{connect, allocate, drop} *)

\* writer first, then the observer of the profile.
Connecting == IF pc = "connect_writer" THEN "writer" ELSE "observer"
Drops == [writer |-> "drop_writer", observer |-> "drop_observer"]
Handle(kind) == <<Connecting, kind>>

Allocate(kind) ==
    /\ pc \in {"connect_writer", "connect_observer"}
    /\ Handle(kind) \notin handles
    /\ handles' = handles \cup {Handle(kind)}
    /\ UNCHANGED <<opts, pc, connected, repeat, at, memory, server, report, total, outcome>>

AllocateEnv == Allocate("env")
\* SQLSetEnvAttr, then the connection handle.
AllocateDbc == Handle("env") \in handles /\ Allocate("dbc")

\* allocate frees the environment itself; later failures leave it to the Drop.
AllocateFails ==
    /\ pc \in {"connect_writer", "connect_observer"}
    /\ Handle("dbc") \notin handles
    /\ handles' = handles \ {Handle("env")}
    /\ pc' = "drop_writer"
    /\ result' = "error"
    /\ UNCHANGED <<opts, connected, repeat, at, memory, server, report, total,
                   failed, left>>

\* SQL_COPT_SS_BCP must be on before SQLDriverConnect.
DriverConnect ==
    /\ pc \in {"connect_writer", "connect_observer"}
    /\ Handle("dbc") \in handles
    /\ \/ /\ connected' = connected \cup {Connecting}
          /\ pc' = IF pc = "connect_writer" /\ opts.profile
                     THEN "connect_observer" ELSE "setup"
          /\ UNCHANGED result
       \/ /\ pc' = Drops[Connecting]
          /\ result' = "error"
          /\ UNCHANGED connected
    /\ UNCHANGED <<opts, handles, repeat, at, memory, server, report, total, failed, left>>

\* Drop of a connection: disconnect, connection handle, environment.
DropConnection(who) ==
    /\ pc = Drops[who]
    /\ connected' = connected \ {who}
    /\ handles' = handles \ {<<who, "dbc">>, <<who, "env">>}
    /\ pc' = IF who = "observer" THEN "drop_writer" ELSE "exited"
    /\ UNCHANGED <<opts, repeat, at, memory, server, report, total, outcome>>

-----------------------------------------------------------------------------
(* run_repeat up to bcp_initA *)

StartCopy ==
    /\ at' = [batch |-> 1, row |-> 1, col |-> 1]
    /\ buf' = <<>> /\ bound' = <<>>
    /\ inflight' = <<>> /\ received' = <<>>
    /\ report' = ZeroReport

\* DROP TABLE IF EXISTS, CREATE TABLE from the template, bcp_initA; each on a
\* statement handle of its own that is freed whatever it returns.
SetUp ==
    /\ pc = "setup"
    /\ \/ pc' = "open" /\ table' = <<>> /\ UNCHANGED failed
       \/ pc' = "drop_table" /\ failed' = TRUE /\ table' \in {table, Null, <<>>}
    /\ StartCopy
    /\ UNCHANGED <<opts, odbc, repeat, total, result, left>>

\* An error of the repeat: no bcp_done, the table is dropped next.
RepeatFails == failed' = TRUE /\ pc' = "drop_table"

-----------------------------------------------------------------------------
(* Binding and setting a row: BcpColumnBindings, BcpColumnBinding *)

Batch == opts.dataset[at.batch]

\* Vec::new holds one byte, a fixed value its zero; the pointers given to
\* bcp_bind are into the Vec of columns, which no longer moves.
NewBuffer == [gen |-> 0, cap |-> 1, content |-> <<"0">>]
BindColumn(b) == [gen |-> b.gen, len |-> Len(b.content)]

OpenBatch ==
    /\ pc = "open"
    /\ at.batch <= Len(opts.dataset)
    /\ IF buf = <<>>
         THEN /\ buf' = [c \in Cols |-> NewBuffer]
              /\ bound' = [c \in Cols |-> BindColumn(NewBuffer)]
         ELSE UNCHANGED memory
    /\ pc' = IF Batch = <<>> THEN "next_batch" ELSE "cells"
    /\ UNCHANGED <<opts, odbc, repeat, at, server, report, total, outcome>>

\* Opening or reading the file, new bindings or bcp_bind failing.
OpenFails ==
    /\ pc = "open"
    /\ RepeatFails
    /\ UNCHANGED <<opts, odbc, repeat, at, memory, server, report, total, result, left>>

Cell == Batch[at.row][at.col]

\* clear and extend: the memory moves only if it has to grow.
Refilled(b, value, moves) ==
    IF Len(value) <= b.cap
      THEN [b EXCEPT !.content = value]
      ELSE [gen |-> IF moves THEN b.gen + 1 ELSE b.gen,
            cap |-> Len(value), content |-> value]

\* A plausible shortcut: the length alone is told after the first row.
PointedOnce(old, b, column) == [gen |-> old.gen, len |-> Len(b.content)]
\* bcp_colptr for a variable-length column, then bcp_collen.
Pointed(old, b, column) ==
    [gen |-> IF column.variable THEN b.gen ELSE old.gen, len |-> Len(b.content)]

\* NULL changes the length only.
NullCell(old) == [old EXCEPT !.len = -1]

SetCell ==
    /\ pc = "cells" /\ at.col <= Len(Columns)
    /\ IF Cell = Null
         THEN /\ Columns[at.col].nullable
              /\ bound' = [bound EXCEPT ![at.col] = NullCell(@)]
              /\ UNCHANGED buf
         ELSE \E moves \in BOOLEAN :
                LET b == Refilled(buf[at.col], Cell, moves) IN
                  /\ buf' = [buf EXCEPT ![at.col] = b]
                  /\ bound' = [bound EXCEPT ![at.col] = Pointed(@, b, Columns[at.col])]
    /\ at' = [at EXCEPT !.col = @ + 1]
    /\ UNCHANGED <<opts, pc, odbc, repeat, server, report, total, outcome>>

\* A conversion the runner refuses, bcp_colptr or bcp_collen failing.
SetCellFails ==
    /\ pc = "cells" /\ at.col <= Len(Columns)
    /\ RepeatFails
    /\ UNCHANGED <<opts, odbc, repeat, at, memory, server, report, total, result, left>>

-----------------------------------------------------------------------------
(* Sending *)

\* What the driver reads for a column.
ReadColumn(c) ==
    IF bound[c].len = -1 THEN Null
    ELSE IF bound[c].gen # buf[c].gen \/ bound[c].len > Len(buf[c].content) THEN Garbage
    ELSE SubSeq(buf[c].content, 1, bound[c].len)

BatchIsFull(rows) == ~opts.defer /\ rows = opts.batchSize

SendRow ==
    /\ pc = "cells" /\ at.col > Len(Columns)
    /\ LET row == [c \in Cols |-> ReadColumn(c)] IN
         /\ received' = Append(received, row)
         /\ inflight' = Append(inflight, row)
    /\ pc' = IF BatchIsFull(Len(inflight')) THEN "flush" ELSE "next_row"
    /\ UNCHANGED <<opts, odbc, repeat, at, memory, table, report, total, outcome>>

SendRowFails ==
    /\ pc = "cells" /\ at.col > Len(Columns)
    /\ RepeatFails
    /\ UNCHANGED <<opts, odbc, repeat, at, memory, server, report, total, result, left>>

\* bcp_batch and bcp_done commit what the driver holds and return a number of
\* rows; the runner relies neither on all of them being stored nor on the number.
Committed(rows) == {rows} \cup (IF rows = <<>> THEN {} ELSE {Front(rows)})
Returned(rows, stored) == {Len(stored), Len(rows)}

FlushReport(n) ==
    [report EXCEPT !.batchRows = @ + n, !.batchCalls = @ + 1]

Flush ==
    /\ pc \in {"flush", "last_flush"}
    /\ \E stored \in Committed(inflight) :
         /\ table' = table \o stored
         /\ \E n \in Returned(inflight, stored) : report' = FlushReport(n)
    /\ inflight' = <<>>
    /\ pc' = IF pc = "flush" THEN "next_row" ELSE "check_rows"
    /\ UNCHANGED <<opts, odbc, repeat, at, memory, received, total, outcome>>

\* -1: the rows of the batch are stored or not.
FlushFails ==
    /\ pc \in {"flush", "last_flush"}
    /\ table' \in {table, table \o inflight}
    /\ inflight' = <<>>
    /\ RepeatFails
    /\ UNCHANGED <<opts, odbc, repeat, at, memory, received, report, total, result, left>>

NextRow ==
    /\ pc = "next_row"
    /\ IF at.row < Len(Batch)
         THEN at' = [at EXCEPT !.row = @ + 1, !.col = 1] /\ pc' = "cells"
         ELSE UNCHANGED at /\ pc' = "next_batch"
    /\ UNCHANGED <<opts, odbc, repeat, memory, server, report, total, outcome>>

NextBatch ==
    /\ pc = "next_batch"
    /\ at' = [batch |-> at.batch + 1, row |-> 1, col |-> 1]
    /\ pc' = "open"
    /\ UNCHANGED <<opts, odbc, repeat, memory, server, report, total, outcome>>

\* The end of the file: the rest is flushed unless everything is left to done.
NeedsLastFlush == ~opts.defer /\ inflight # <<>>

EndOfFile ==
    /\ pc = "open" /\ at.batch > Len(opts.dataset)
    /\ buf # <<>>
    /\ pc' = IF NeedsLastFlush THEN "last_flush" ELSE "check_rows"
    /\ UNCHANGED <<opts, odbc, repeat, at, memory, server, report, total, outcome>>

\* rows_seen against --rows.
CheckRows ==
    /\ pc = "check_rows"
    /\ IF Len(received) = opts.rows
         THEN pc' = "done" /\ UNCHANGED failed
         ELSE RepeatFails
    /\ UNCHANGED <<opts, odbc, repeat, at, memory, server, report, total, result, left>>

\* A snapshot of the profile after the copy or after bcp_done fails: the error
\* replaces what the phase returned.
CapturePhaseFails ==
    /\ opts.profile /\ pc \in {"done", "count"}
    /\ RepeatFails
    /\ UNCHANGED <<opts, odbc, repeat, at, memory, server, report, total, result, left>>

ReportedRows(r) == r.batchRows + r.doneRows

\* bcp_done, then the reported rows against --rows.
Done ==
    /\ pc = "done"
    /\ \E stored \in Committed(inflight) :
         /\ table' = table \o stored
         /\ \E n \in Returned(inflight, stored) :
              report' = [report EXCEPT !.doneRows = n]
    /\ inflight' = <<>>
    /\ IF ReportedRows(report') = opts.rows
         THEN pc' = "count" /\ UNCHANGED failed
         ELSE RepeatFails
    /\ UNCHANGED <<opts, odbc, repeat, at, memory, received, total, result, left>>

DoneFails ==
    /\ pc = "done"
    /\ table' \in {table, table \o inflight}
    /\ inflight' = <<>>
    /\ RepeatFails
    /\ UNCHANGED <<opts, odbc, repeat, at, memory, received, report, total, result, left>>

\* select_count against the reported rows.
Count ==
    /\ pc = "count"
    /\ \/ Len(table) = ReportedRows(report) /\ pc' = "drop_table" /\ UNCHANGED failed
       \/ RepeatFails
    /\ UNCHANGED <<opts, odbc, repeat, at, memory, server, report, total, result, left>>

-----------------------------------------------------------------------------
(* After a repeat *)

\* The connection of an unfinished bulk copy still holds its rows; dropping the
\* table may fail then or any time.
NextRepeat == IF repeat + 1 < Repeats THEN "setup" ELSE "finish"
Leaving == IF opts.profile THEN "drop_observer" ELSE "drop_writer"

Merged ==
    [batchCalls |-> total.batchCalls + report.batchCalls,
     batchRows |-> total.batchRows + report.batchRows,
     doneRows |-> total.doneRows + report.doneRows]

DropTable ==
    /\ pc = "drop_table"
    /\ \E dropped \in BOOLEAN :
         /\ table' = IF dropped THEN Null ELSE table
         /\ left' = (left \/ ~dropped)
         /\ IF ~failed /\ dropped
              THEN /\ total' = Merged
                   /\ repeat' = repeat + 1
                   /\ pc' = NextRepeat
                   /\ UNCHANGED result
              ELSE /\ result' = "error"
                   /\ pc' = Leaving
                   /\ UNCHANGED <<total, repeat>>
    /\ inflight' = <<>>
    /\ UNCHANGED <<opts, odbc, at, memory, received, report, failed>>

\* SqlServerProfile::finish, then the printed report.
Finish ==
    /\ pc = "finish"
    /\ result' \in IF opts.profile THEN {"ok", "error"} ELSE {"ok"}
    /\ pc' = Leaving
    /\ UNCHANGED <<opts, odbc, repeat, at, memory, server, report, total, failed, left>>

-----------------------------------------------------------------------------
Options == [dataset : Datasets, batchSize : BatchSizes, rows : RowOptions,
            defer : BOOLEAN, profile : BOOLEAN]

Init ==
    /\ opts \in Options
    /\ pc = "connect_writer"
    /\ handles = {} /\ connected = {}
    /\ repeat = 0
    /\ at = [batch |-> 1, row |-> 1, col |-> 1]
    /\ buf = <<>> /\ bound = <<>>
    /\ inflight = <<>> /\ received = <<>> /\ table = Null
    /\ report = ZeroReport /\ total = ZeroReport
    /\ failed = FALSE /\ result = "running" /\ left = FALSE

Step ==
    \/ AllocateEnv \/ AllocateDbc \/ AllocateFails \/ DriverConnect
    \/ DropConnection("writer") \/ DropConnection("observer")
    \/ SetUp \/ OpenBatch \/ OpenFails \/ SetCell \/ SetCellFails
    \/ SendRow \/ SendRowFails \/ Flush \/ FlushFails
    \/ NextRow \/ NextBatch \/ EndOfFile \/ CheckRows \/ CapturePhaseFails
    \/ Done \/ DoneFails \/ Count \/ DropTable \/ Finish

Exit == pc = "exited" /\ UNCHANGED vars

Next == Step \/ Exit

\* The runner is one thread; every call of the driver returns.
Spec == Init /\ [][Next]_vars /\ WF_vars(Step)

-----------------------------------------------------------------------------
\* At every bcp_sendrow the driver reads the row of the dataset, NULLs
\* included, though buffers are reused, grow and move between rows.
DriverReadsTheRows == IsPrefix(received, AllRows)

\* Rows are visible before bcp_done only if they came in flushed batches:
\* deferred ones never, the others at most batch-size at a time.
CommitsFollowThePolicy ==
    pc \in {"cells", "next_row", "open", "check_rows"} /\ table # Null =>
        /\ opts.defer => table = <<>>
        /\ Len(inflight) <= opts.batchSize \/ opts.defer
        /\ Len(table) <= report.batchCalls * opts.batchSize

\* A printed report says what every table held when it was counted, and each of
\* them was the whole dataset of --rows rows in the batches asked for.
ReportIsTheTables ==
    result = "ok" =>
        LET n == Len(AllRows)
            calls == (n + opts.batchSize - 1) \div opts.batchSize IN
          /\ n = opts.rows
          /\ ReportedRows(total) = Repeats * n
          /\ total.batchCalls = IF opts.defer THEN 0 ELSE Repeats * calls
          /\ total.doneRows = IF opts.defer THEN Repeats * n ELSE 0

\* In a step: a repeat is merged only with the rows counted in its table.
MergedRowsWereCounted ==
    total' # total => ReportedRows(total') - ReportedRows(total) = Len(table)

\* However the run ends, every handle of both connections is freed and no
\* connection stays open.
HandlesAreFreed == pc = "exited" => handles = {} /\ connected = {}

\* No table outlives the run unless dropping it failed.
TablesAreDropped == pc = "exited" => table = Null \/ left
=============================================================================
