# A TLA+ model of arrow-tiberius

`arrow-tiberius` writes Arrow record batches into SQL Server through the
bulk-load request of Tiberius. A program plans a table schema from an Arrow
schema, opens a `BulkWriter` on a connection, calls `write_batch` any number of
times and ends with `finish`. The repository also holds the benchmark programs
that compare the crate's backends with two ODBC runners. This directory models
both in TLA+, checks the models with TLC on small instances, and proves some of
the properties for every instance with TLAPS.

The crate has no threads of its own: a writer borrows its client mutably, so one
call runs at a time. What makes it hard is the combination of

- awaits at which a call may fail or be dropped with rows already sent, in a
  protocol that cannot take rows back;
- two implementations of the same conversions, and three encoders, that must
  agree on which batches load and on every byte of them;
- values measured in one pass and written in another, in index bases and widths
  that coincide except at a boundary;
- a table that other sessions may alter between two round trips; and
- in the benchmarks: processes, containers, tables, transactions, callbacks with
  remembered addresses and a sampler beside a write, each step of which may
  fail.

## Inventory

| Component | Source (below `src/src` or `src/xtask`) | State | Operations | Hard part | Correct when |
|---|---|---|---|---|---|
| Bulk writer | `write/writer.rs` | backend, statistics, the open request | `new`, `write_batch`, `finish`, drop | failure or drop at each await, repeated calls | the wire is the attempts in order; rejected batches leave no row; statistics count accepted rows only |
| Batch measurement | `write/direct/measure.rs` | cell and row lengths, ranges | `new`, `row_ranges`, `range_layout` | overflow, a limit met exactly, an oversized row | the ranges partition the rows and respect the limit |
| Batch admission | `write/record_batch*`, the value passes of both backends | none between calls | schema check, value pass, preflight | two passes in different order, two ways to name the phase | both backends admit the same batches, and those fit the target |
| Target validation | `write/writer.rs` | the live columns | comparison with the plan | metadata is one round trip old when it is used | a load is open only on a table as planned |
| Direct encoder, row layout, payload | `write/direct/`, `rows/`, `binding/` | token offsets, cursors, bytes | measure, lay out, fill, append | three paths to the same bytes | every path writes the same rows, each byte once |
| Cell encodings | `write/direct/types/` | none | measure, fill, append | widths, prefixes, chunks; measured before written | a reader of the bytes finds the values |
| Value conversion | `mssql/cell/from_arrow/` | none | decimal, temporal, string | rounding with carry, negative epochs and scales | the nearest value, or an error |
| Schema planning, classification, profile, DDL | `schema/`, `conversion/`, `mssql/` | none | plan, classify, validate | combinations of policies | a planned type holds its Arrow type and has one encoder |
| Telemetry | `observability/` | none (events) | spans and events | a dropped future | the log tells the life of the writer |
| Profiling counters | `write/profile.rs` | thread-local profile, switches | record, take, merge | survives a failing backend | counts what was handed over |
| Benchmark commands | `src/main.rs`, `sqlserver.rs`, `odbc_runner.rs`, `writer_bench.rs` | containers, files, tables, recovery model | parse, start, measure, clean up | any step may fail | given back in order; success means measured |
| Scenarios and files | `writer_bench.rs`, `dataset.rs` | a batch reader, a file | schemas, generators, IPC file | batches need not divide the rows | the file is the rows |
| Server profile | `writer_bench.rs`, `sqlserver_profile.rs` | two readings, deltas, a sampler | capture, sample, merge | the sampler and the write race | each phase counts its write |
| ODBC BCP runner | `odbc-bcp-runner/` | handles, bound buffers, batches | bind, set cells, send, commit | the driver keeps addresses | what was copied is the dataset |
| Arrow ODBC runner | `arrow-odbc-runner/` | a transaction, tables | repeats, commit, roll back | lost connections, two errors at once | all repeats or nothing |
| Connected client, errors, token rows, tests | `connection.rs`, `error.rs`, `diagnostic.rs`, `token_row.rs`, `tests/` | | | lending, wording, one match per type | |

In the crate a call goes planning -> `new` (metadata, validation, request) ->
admission -> measurement -> ranges -> encoder -> request; between calls only the
writer's statistics and the request live on. In the benchmarks `xtask` generates
a dataset, starts SQL Server, runs the crate's backends itself and the runners as
processes, and meets the runners only in arguments, files, exit codes, printed
reports and tables. `PROJECT.json` has every component with its source files and
status, and the hazards, each at its line with the properties that would catch
it.

## Modules

### The writer

| Module | Models | State and actions |
|---|---|---|
| `RangePlan` | the contract of `row_ranges`: closing rows that cut offsets into ranges | operators |
| `MeasuredBatch` | `measure_row_lengths` and `row_ranges`, loop by loop | the locals of both; `MeasureCell`, `MeasureRow`, `BeginSplit`, `SplitRow`, `FinishSplit` |
| `BulkLoad` | abstract specification: what a bulk load promises its caller | loaded rows, count, table; one step per attempt |
| `BulkWriter` | the life of one writer | status, backend, statistics, the running call, the wire; one action per stretch of code between two awaits |
| `WriterTelemetry` | each action of `BulkWriter` with the events it emits; what a reader of a log alone can conclude | `log` |
| `BatchAdmission` | schema check, row-major and column-major value pass, preflight, phase of a rejection | loop counters, the result of each backend |
| `RowEncoding` | a measured range becomes a payload on the append, the cursor or the general path | offsets, tokens, positions, cursors, bytes; one action per loop iteration |

`BulkWriter` takes a range plan from the contract in `RangePlan`;
`MeasuredBatch` shows that the code meets it. `BatchAdmission` refines the two
tests (`schemaFits`, `bad`) to which `BulkWriter` reduces a batch, `RowEncoding`
justifies that a unit of a measured batch encodes and stands for its rows.
`BulkWriter` implements `BulkLoad` (`INSTANCE ... WITH`).

### Plans, tables and values

| Module | Models | State and actions |
|---|---|---|
| `SchemaPlan` | the type table under every policy, identifiers, the planning loop, the classifiers and the choice of a direct encoding | operators |
| `TargetTable` | plan, CREATE TABLE, the two round trips of `BulkWriter::new` and the validation between them | the live table, the columns read, the request; other sessions may alter the table at any time |
| `ColumnOutcome` | the loop over a column that stops at its first error | operators |
| `TemporalConversion`, `NumericConversion` | every conversion and cell encoding of dates, times, numbers and decimals, of both backends | operators over scaled widths and calendars |
| `TemporalColumn`, `NumericColumn`, `TextColumn` | one column from its plan over the token path, and measured, filled and appended on the direct path | the outcome of each pass |

`SchemaPlan` is extended by `TargetTable`, `BenchScenario` and `BcpColumn`. The
column modules keep the conversion of the token-row path and that of the direct
encoder as separate definitions wherever the code has two.

### The benchmarks

| Module | Models |
|---|---|
| `BenchmarkRun` | the commands of xtask that use SQL Server: what they acquire (a stack of guards), measure, report and release |
| `OdbcBcpRunner` | the bcp runner: buffers bound once, read at each row through remembered pointers, batches, handles |
| `ArrowOdbcRunner` | the arrow-odbc runner under both transaction policies, with a connection that may be lost |
| `BcpCells`, `BcpColumn` | the cells the bcp runner writes and what the server reads from them, in a column as planned |
| `BenchScenario` | the scenarios, their NULL patterns, and the reader that cuts them into a file of batches |
| `CommandOptions`, `BenchCommands`, `RunnerCommand` | the option parsers; the command line of xtask; the arguments and connection string xtask gives a runner, and how it finds the report |
| `DirectProfile` | the thread-local write profile and the fast-path switches, over backends and repeats |
| `ProfileDeltas`, `ProfiledServer`, `ServerProfile`, `RunnerProfile` | deltas of counters; the counters; the profile of xtask with its sampler; those of the runners |

### Instances

Each `MC*` module is an instance for TLC. Four of them hold several components
that share nothing at run time: `MCValueColumns` (three families of columns),
`MCBenchmarkPrograms` (three programs), `MCBenchmarkProfiles` (three profiles)
and `MCBenchmarkInputs` (cells, files, command lines, runner arguments). A
selector variable (`family`, `program`, `profiled`, `kind`) says whose behaviour
it is, the variables of the others rest at `Unused`, and the properties are
stated under the selector. No step of one can follow a step of another.

## Abstractions

- **Rows on the wire.** `sink` is the sequence of whole rows the Tiberius request
  took; when a send fails or is dropped, any prefix of the pending unit may have
  been taken.
- **Payload bytes** are named by what they stand for in `RowEncoding` (token,
  byte k of a length field that says n, byte k of the value at (r, c)); in the
  column modules they are numbers, little-endian as in the code.
- **Values** are as coarse as the properties allow: convertible or not
  (`BulkWriter`), ok / null / bad (`BatchAdmission`), integers (columns), strings
  as sequences of characters of one or two UTF-16 units (`TextColumn`). A float
  is a number or not finite; its bits are its value.
- **Scaled units.** Powers of ten, the byte, the day, the calendars, the digits of
  a u64 and of a decimal, the width of i128 and the longest binary are constants.
  The code's values are named in each module; the instances keep their order and
  make every boundary reachable.
- **Cell lengths** in `MeasuredBatch` are drawn when they are read; `off` keeps
  their sums as a history variable.
- **A datetime column** counts as `primitive` in `RowEncoding`: like those it has
  a length byte only when it is nullable.
- **Names and arguments** are tokens. A numeral or a list is a token with its
  meaning; the aliases of a connection string are kept, upper and lower case and
  the quoting rules of ADO strings are not.
- **Driver, server, container runtime and file system** are external: they are what
  the source relies on, and every call of them may fail. A lost connection rolls
  back the open transaction and fails every later statement. The three queries of
  a profile sample are one. A timed call takes one unit.

## Runs

| Run | Shows | Bounds |
|---|---|---|
| `measured_batch` | the split is a range plan and never overflows after measuring | 5 rows, 2 columns, cells of 0, 1, 3 bytes, limits 1, 4, 7, 14, usize up to 14 |
| `bulk_writer` | wire, attempts, statistics, log and report agree; `BulkLoad` is implemented; every polled call returns | 3 calls over 4 batches, payload limit 5, counters saturate at 9 |
| `batch_admission` | backends agree, rejections name the first fault, accepted batches fit the target, the preflight is enough | 4 plans, one without columns, all schemas of up to 3 fields, up to 2 rows |
| `row_encoding` | every path writes the rows of the range, each byte once, in the measured length, and reports where rows begin | 8 plans over 6 column families, all ranges of up to 3 rows |
| `value_columns` | accepted values are nearest or exact, both backends agree on every column, bytes decode to the token row's values | base 4, a day of 4 seconds, 3 days; 1-bit bytes, 4 digits; 3-valued bytes, binaries up to 3 |
| `target_table` | plans hold their Arrow types, the table made from a plan is accepted, an open load follows its plan | every Arrow type under 6 option sets, pairs of fields, one alteration at any point |
| `benchmark_programs` | everything is given back in order, what is reported was copied, transactions are atomic, every program ends | 2 repeats, 2 polls, 3 datasets of 2 columns for bcp with values of 0 to 2 units, files of 0, 2, 3 rows |
| `benchmark_profiles` | phases, totals, samples and write profiles count the work they are named for; a profiled run ends | 2 repeats, 2 steps of the counters, 1 sample, 3 tables, 2 orders of backends, payload 16 |
| `benchmark_inputs` | copied cells, scenario files, command lines and runner arguments are what they stand for | rows 1, 7, 60; batches 1..64; i128 up to 127; a day of 8 seconds; up to 2 options (3 where order could matter) |
| `strict_schema`, `decimal_scales`, `accepted_targets` | a sentence of the documentation that the code does not follow (expected violations) | as the runs of the same modules |

Why the bounds are enough. A range decision looks at one open range and one row,
so five rows give a first, inner and last range and one that closes behind an
oversized row; usize lies between the sums that occur, so both additions fail
somewhere. The writer's state between calls is the wire and two counters: three
calls give a broken attempt before, between and after accepted ones; the four
batches are a row-by-row or three-range send, a batch whose bad row lies in its
last range, an empty one and a foreign schema; 9 is below three times four rows,
so the row counter saturates. Two rows of two columns make row-major and
column-major order differ. An index error of an encoding shows on the second row
or column, and a range that starts behind row one needs a third row to end before
the batch does. A conversion is a function of one value: the scaled calendars
have every instant in the range and one second around it, in each unit, and the
scaled numbers every power of ten, every byte width and the limits of i128 with
their neighbours; two rows per column show the loop and the order. One alteration
of the table falls before, between and after the two round trips of `new`. Two
repeats show what one leaves to the next; each step of a program fails in some
behaviour. The bcp values grow, shrink, are empty and NULL, and one batch is
empty. Rows 1, 7 and 60 against batches of 1, 7, 25, 60 and 64 give a batch larger
than, equal to, dividing and not dividing the rows.

Deadlock is checked in the runs where the last step stutters explicitly.
`CHECK_DEADLOCK FALSE` stands where a behaviour just ends: a column with its last
cell or first error, a reader with its input, a command of a direct backend.

### Fairness

- `bulk_writer` (`CallsReturn`): weak fairness of `Step`, the answers a pending
  await may get, success and failure alike: the caller polls the future it holds
  and the transport answers or fails, as an executor and a TCP connection do. It
  does not say that anything succeeds, nor that the caller ever calls
  `write_batch` or `finish`.
- `benchmark_programs` (`ProgramsEnd`): weak fairness of `StepPrograms`: each
  operation a program waits for (a process, a driver call, a file) returns, well or
  not. `ServerStarts` is not fair: SQL Server may never be ready, and the deadline
  of the polling loop ends the command.
- `benchmark_profiles` (`ProfiledRunEnds`): weak fairness of the session's own
  statements and of the write. `select!` polls both its branches, so the sampler
  cannot keep the write from being polled; the sampler itself is given none. An
  error of the sampler ends the run where it stands: the `?` in the handler of
  `select!` leaves `sample_phase`, so the write is dropped and nothing of its phase
  is read or merged.

### Where code and documentation differ

Three runs state a sentence of the documentation and find a behaviour against it:

- `strict_schema`: `SchemaCheck::Strict` is documented as "Require exact schema
  equality with the planned schema" (`src/write/policy.rs:147`); the check ignores
  nullability and admits any member of the string and binary families.
  `AcceptedBatchFitsTarget` shows what holds instead.
- `decimal_scales`: `docs/type-mapping.md:44` supports `0 <= s <= p <= 38`; a
  column of scale 38 is planned and then takes no value.
- `accepted_targets`: the README says the writer validates target metadata; the
  lengths of string and binary columns are not compared, so a table with
  `nvarchar(50)` is accepted for a plan of `nvarchar(max)`, whose cells are
  framed differently.

Seen while modelling, modelled as the code has it, without a run of their own:

- `docs/type-mapping.md` says view arrays are not mapped; `Utf8View` and
  `BinaryView` are planned and written.
- `send_total` of the write profile (`write/profile.rs:23`) is said to include the
  encoding; for a table without variable-width columns the payload is encoded
  before the timer starts (`writer.rs:889`).
- `null_cells` (`profile.rs:39`) counts only on the append paths and the fill of
  fixed-size binaries, not on the fixed-width fast path.
- `docs/observability.md:173` puts protocol events under writer spans; the round
  trips of `new` and the finalize of `finish` are awaited outside them.
- `docs/benchmarks.md:195` promises cleanup except when interrupted; a container
  that is created and fails to start, and a dataset file whose writing fails, stay.
  `CommandCleansUp` excepts these two.
- `DIRECT_RAW_SUPPORTED_SCENARIOS` refuses `wide_mixed` and `tpch_lineitem_like` as
  not implemented; all their columns are classified with a direct encoding.

## Proofs

`MeasuredBatchProofs` proves about `MeasuredBatch`, for every number of rows and
columns, every set of cell lengths and limits and every `UsizeMax`, from the named
assumption that these are natural numbers: `TypeCorrect`; `RangesPartition` (the
ranges cover the rows once, in order); `GreedyRanges` (each respects the limit or
is one oversized row, and closes only where the next row does not fit);
`NoSplitOverflow` (`SplitNeverOverflows`); `SplitReturnsPlan` (`ReturnsRangePlan`,
the assumption of `BulkWriter`). `TypeOK` does not tie the sums to each other, so
`IInv` adds `OffsetsOK`: `off` is increasing, its differences are the row lengths,
its last value is the payload length and at most `UsizeMax`. That bound is why the
split cannot overflow: what it adds up is the difference of two offsets.
`SplitInv` then describes the split in progress: the closed ranges are adjacent,
the open one begins where the last ended, its byte count is the difference of its
offsets, and every closed range was closed for cause. One lemma per action; the
temporal theorems combine them with `PTL`.

`BulkWriterProofs` proves about `BulkWriter`, for every
set of batches, payload limit, counter width and number of calls, from
`BulkWriterAssumption` (a batch has a row count, its bad rows are rows of it, its
offsets are offsets of that many rows): `TypeCorrect`, `WireInOrder`
(`WireIsAttemptsInOrder`), `RejectionLeavesNoRows`
(`RejectedBatchLeavesNoRows`), `AcceptanceIsComplete`, and `Refinement`
(`ImplementsBulkLoad`). `IInv` is the conjunction of these invariants and
`SentBatchConverts`: a batch is being sent only if all its values convert. That is
the order of `write_batch`, and without it the encoding error of `SendUnit` could
end an attempt as a rejection with rows on the wire. `WireIsAttemptsInOrder` is
inductive because it also says where the next attempt begins, so a broken attempt
shifts the following ones and disturbs none before it. The actions fall into four
classes with one lemma each: a call ends before it sent anything (`RefusedCall`),
it ends while sending (`EndedCall`), it sends on (`WireOfRunningAttempt`), or
nothing is written (`BetweenCalls`). In the refinement an attempt takes effect at
its return: the rows loaded while a call runs are those before `call.at`, and
`SplitSink` shows that the wire is those rows and then the first rows of the
attempt. There is one step lemma per kind of return; `NextLoads` puts them
together.

`BulkWriterProofs` also proves what is counted:
`AcceptedRowsAreCounted` (`StatsCountAcceptedRows`) and
`FinishedReportIsPublished` (`FinishReportsPublishedRows`). The statistics are
compared with sets of wire positions, so the proof needs to know whose row each
position holds: `RowsHaveAttempts` says that it is of an ended attempt that sent
something, or of the running one and then behind `call.at`. Hence an accepted call
adds to `AcceptedOnWire` exactly the interval of its rows, whose cardinality is the
number `RecordAcceptedBatch` adds, and every other return adds nothing.
Saturation commutes with the addition (`SaturatedSum`). When no attempt broke,
every row on the wire is accepted, and the report is the length of the table.

The same module proves about `WriterTelemetry`, from the assumption of
`BulkWriter` and for any number of calls: `TelemetryIsPassive` (a behaviour of
the writer with its events is a behaviour of the writer, so every theorem above
holds of it, and `IInv` with them), `SubscriberKnowsTheWriter`
(`LogTellsTheWriter`) and `SubscriberSeesTheWire` (`RawDetailFollowsTheWire`).
The properties read a log on its own: its calls are the segments between two
`batch.started`, and what a segment says is set against `attempts`, `stats` and
the rows sent. None of them is inductive, because an event adds to the last
segment and leaves the others alone. So the proof first settles how each of these
readings changes with one more event (`QuietEvent`, `StartEvent`, `EndEvent`,
`PacketEvent`, `FailurePair`). `Agrees` says that a log tells of the construction,
the calls, the counters and, under the raw backend, of the packets; one lemma per
emission (`EmitStart`, `EmitPacket`, `EmitCompleted`, `EmitFailed`, ...) says what a
log that agrees agrees with afterwards. `TInv` is that the log agrees with the
writer at every moment, also with a call running, whose end is still missing: a
dropped call leaves exactly that behind. Each traced action is then its emissions
in order.

`TargetTableProofs` proves about `TargetTable`, for every schema, set of planning
options, alteration of the table and number of alterations: `PlansAreSound`
(`PlanIsSound`: a plan holds every value of its Arrow types, has one encoding for
each mapping and is all or nothing, and the table made from it can be stored),
`OwnTablesAreAccepted` (`OwnTableIsAccepted`) and `OpenLoadsFollowThePlan`
(`OpenLoadFollowsThePlan`). The named assumption is that fields, options and the
columns of other sessions are what their types say. The type table is turned
round first: `PlannedAs` says of a planned type which Arrow type, under which
options, it can come from; the facts about storage, width and classifiers
(`StorableTypes`, `WideTypes`, `Classifiers`, `OneEncoding`) follow case by case.
`IInv` has three parts. `PlanningInv` puts every field before the next one into
the mappings or the diagnostics, in order. `TableInv` says what a table can be
made of, and that without an alteration it is the planned one. `WriterInv` carries
the verdict of the validation across the second round trip: it speaks of the
columns that were read, as the table may have changed since.

`RowEncodingProofs` proves about `RowEncoding`, for every plan, batch and range and
on all three paths: `PayloadsAreRows` (`PayloadIsRows`), `TokensStartRows`
(`TokensAreRowStarts`) and `MeasuredRangesEncode` (`MeasuredRangeEncodes`). The
named assumption is that a plan has a column and that its columns are of the six
families. The expected bytes are two recursive functions that append piece after
piece (`RowTo` the cells of a row, `RowsTo` the rows). `Joins` names that shape,
and `JoinPiece` and `JoinCovers` show that the pieces tile the result; the
induction up to a number they need comes from the well-foundedness of `<`
(`InductionTo`). Hence each cell has a place in the payload, and every byte
is a row token or a byte of one cell. `IInv` has one conjunct per stage:
the positions or cursors handed on so far are those places (`LayoutInv`,
`MeasureInv`), a byte that is not yet that of the payload belongs to a cell still to
be filled (`FillInv`), and what has been appended is the rows before and the cells
of this one (`AppendInv`).

`BatchAdmissionProofs` proves the four invariants of `BatchAdmission` for every
set of plans and schemas and any number of rows:
`SameBatchesLoadOnEitherBackend`, `DiagnosticsLeadToAFault`,
`AcceptedBatchesFitTheirTarget` and `PreflightSavesASchemaError`. The named
assumption is that schema planning gives nvarchar to strings and varbinary to
binaries only, which is how `type_conversion.rs` chooses a target. `IInv` has one
disjunct per place of the two loops. Inside a loop it says that the cells the pass
has visited convert, in row-major (`RowsConvertUpTo`) or column-major order
(`ColumnsConvertUpTo`); after it the verdict is that all cells convert, or that the
reported one is the first that does not. Both verdicts thus speak of the same
matrix of cells, which is why the order cannot matter. A plan or a batch without
cells is a case of its own in the guards, as the loops of the code do nothing then.

`BenchmarkRunProofs` proves about `BenchmarkRun`, for every list of backends, size
of the dataset, number of repeats and of polls: `CommandsCleanUp`,
`ResultsAreTheRun` and `CommandStepsAreOrdered`. The named assumption is that those
numbers are positive and that `--backends` names backends. The four plans take
their stages in one order (`Rank`, `Plans`), so the set of stages still ahead says
what was done. `CommandInv` has a part per concern: the server, image and dataset
are there between the stages that make and remove them (`ServerInv`, `FilesInv`);
the guards were made in the order of the stages, and what is there is guarded, to
be kept or to be blamed on a failed operation (`GuardsInv`, `HeldInv`); the recovery
model differs only while its restore is ahead (`RecoveryInv`); a table belongs to a
repeat in progress or to a failed drop (`LoopInv`); reports and pending backends
make up the list of the options (`ReportInv`); and every stage that keeps its result
and was passed has kept it, truly (`OutcomeInv`, `DoneInv`, `ReleasedInv`), which is
why an Ok speaks for all of them.

`BenchmarkProgramsProofs` states this of the programs as they are composed:
`CommandsCleanUp` (`CommandCleansUp`), `ResultsAreTheRun` (`ResultIsTheRun`) and
`StepsAreOrdered` (`RunsAreOrdered`, for the odbc-bcp runner from `CopyInv`: a repeat
that comes to its drop without a failure was counted). It takes the lemmas of
`BenchmarkRunProofs` from an instance with the values of `MCBenchmarkPrograms`.
`BulkCopiesAreTheDataset` (`BulkCopyIsTheDataset`) holds for every set of columns,
datasets, batch sizes and `--rows` and any number of repeats. Its assumption
`RunnerAssumption` is that datasets have a column, their rows fit the columns (a
value of a fixed-length one has the size of its buffer), a batch size is positive
and NULL is not a value. The rows of a file are joined batch after batch
(`Joins`, `RowsTo`), and `Flattened` shows that this is the `FlattenSeq` of the
property. `BulkInv` has a part per concern. `MemoryInv` is why the pointers hold:
once bound, the address the driver remembers is that of the buffer, as only a
variable-length value can make a buffer move and its address is told again.
`PositionInv` and `CellsInv` say what was read at each place of the loops: the
batches before, the rows of this one and the cells of this row. `FlushInv` counts
it, as full batches that were committed and rows in flight, so that the calls at
the end are the rows divided by the batch size, rounded up; `ReportedInv` and
`TotalInv` carry the counts into the report and over the repeats. `HandlesInv` and
`TableInv` follow the handles and the table to the exit.
The module also proves about `ArrowOdbcRunner`, for every list of file sizes, batch size,
number of repeats and both transaction policies: `TypeCorrect`, `RunsAreAtomic`
(`RunIsAtomic`: without `--autocommit` no other connection ever sees a benchmark
table, the one commit is of all repeats, and a run that returns Ok has committed
what it reports) and `FailuresAreReported` (`ErrorsAreReported`: a table outlives a
run only under `--autocommit` after a failed drop, and then the run does not return
Ok). The invariant ties the program point to what must have gone right before it:
`TransactionIsClean` says what the uncommitted tables can be at each point,
`RepeatsCounted` that the total is of the repeats that are finished,
`LeftTablesFailed` that a table left behind has an error of its drop on record. From
these the properties follow at the last point.

`ValueColumnsProofs` proves about `MCValueColumns`, whose clock, calendars, digits,
bytes, fields, policies and columns are constants of the module: the instance above
is one choice of them. `ValuesAssumption` says that a slot is a value of its Arrow
type, that the digits of a magnitude fit the bytes it is written in, that the fields
of a cell hold the days and times of the calendar (`FieldsAssumption`) and a length
prefix the longest `binary(n)`, that a zone database knows the seconds of the calendar,
and how powers multiply, which the provers' arithmetic does not know; TLC evaluates all
of it on the instance, and the code's constants (256, 10, 38 digits, 8000) satisfy it.
`BackendsBlameTheSameRow` (`PathsAgree`), `LimitsCountUnits` (`LimitCountsUnits`),
`NumbersKeepTheirValue` (`NumbersAreExact`) and `InstantsStayInPlace`
(`InstantsAreKept`) hold in all three families. `IInv` says of each result which loop
computed it, and `Ends` where such a loop stops: behind its last row, or at the first
whose cell is an error (`LoopEnds`, from the least element of a set of numbers). Two
loops that fail on the same cells stop together (`EndTogether`), so the rest is about
one cell of one family. For a number it needs the order and the products of powers
(`PowersGrow`, `PowersAdd`): a negative scale is multiplied out within the digits the
plan made room for. For a string it needs that joining the characters and counting
gives the number the other path counts (`Utf16Length`). For an instant everything is
put into fractions of a second that each unit divides (`Clock`). `TicksKept` bounds
what the nanosecond policies lose, `Rounded` what the last rounding moves and in which
direction, `ErrorsAdd` what the two come to; a carry into the next day is the
statement that a day and a time are the quotient and remainder of one number of steps
(`StampOfSteps`). A value is out of range when a bound of the calendar, in the same
fractions, lies between it and the cell it would have had. `InstantsGrow` composes the
steps, each of which keeps the order. There is one lemma for each target type
(`DateCells`, ..., `DateTimeOffsetCells`).

`CellsReadAsTokens` (`CellsDecodeToTokens`) is about the bytes: both encoders take every
column that was measured, give each cell the length that was measured, on which the row
layout rests, and a reader of the bytes finds the value of the token-row path. Its
invariant has a second part: `WInv` says of `filled` and `appended` which loop over the
rows wrote them (`WrittenInvariant`). The reader sums digits with a recursive function
of any length; `SumsExist` and `SumIsASum` show that the function exists and what it
computes, by induction on the position, `SumOfDigits` that a number written in digits
(`Holds`) is read from them, and `ReadsHalves` the same of a magnitude written in two
parts. What is left is one lemma for each encoding: the fields of a date or time by
their widths (`FieldsOfCell`), a fixed-width number with its sign (`PrimitiveWritten`), a
decimal by sign and magnitude (`DecimalWritten`, `UInt64Written`), a bounded string or
binary by its length (`BoundedReads`), an unlimited one by its marker, chunk and
terminator (`PlpReads`), and Null, which none of the others can be mistaken for.

Only proved, not among the runs' properties: `TypeOK`, `RangesPartitionRows`,
`RangesAreGreedy` and `AcceptedBatchIsComplete`.

What stays with TLC: liveness and `ENABLED`, which are out of the prover's reach,
and these invariants, each of which compares the code with what a fold or a recursive
function computes from data of any length. `ServerProfileIsTheWrites`, `RunnerProfileIsTheRun` and
`DirectProfileIsTheRun` add up counters over samples, statements and batches
(`MapThenSumSet`). `CopiedCellsAreTheColumn` formats and parses numerals,
`ScenariosAreWhatTheySay` reads generated files, `CommandsRunAsGiven` and
`RunnersRunTheBenchmark` run option parsers. An induction up to a number can be proved
here from the well-foundedness of `<`, as in `RowEncodingProofs`, `ValueColumnsProofs`
and for the one fold in the properties of the bcp runner; the induction theorems of the
library take an operator, which the installed provers cannot instantiate.

## Not modelled

- `connection.rs`: it opens a TCP connection and lends it to one writer, which
  the borrow checker enforces.
- `observability/schema.rs`: one start and one end event around a synchronous
  function.
- TDS framing, packets and TLS are in Tiberius; `DirectFramedBulk` and
  `DirectRawBulk` differ only there and share their actions.
- The text of DDL, diagnostics, logs, tables and reports; the builders of a
  profile; commands that only print.
- The generated values of the scenarios but for their NULLs, lengths and digits;
  the driver and server behind the runners.
- `write/direct.rs` holds only tests, as do `tests/*_sqlserver.rs`; they were read
  as documentation of the code they test.
- What a Tiberius connection is after `new` was dropped between its round trips;
  the model shows only that no writer comes out of it.

## Plan

Done: the writer with its events, measurement, admission, encoding; planning and
the target table; the values of every family; the benchmark programs, profiles and
inputs; eight modules of proofs, for every component of the crate.
Left: `ServerProfileIsTheWrites` and its siblings for any number of samples.
