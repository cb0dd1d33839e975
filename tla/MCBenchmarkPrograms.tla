------------------------ MODULE MCBenchmarkPrograms ------------------------
(***************************************************************************)
(* The three programs of the benchmarks: a command of xtask, the odbc-bcp  *)
(* runner and the arrow-odbc runner.  They meet only through files, exit   *)
(* codes and the server, which each of them models for itself; a behaviour *)
(* is one run of one of them, the variables of the other two at rest.      *)
(***************************************************************************)
EXTENDS ArrowOdbcRunner, Sequences, FiniteSets

\* Of the odbc-bcp runner: NULL, bytes read astray, two units, columns and files.
CONSTANTS Null, Garbage, x, y, Columns, Units, Datasets

VARIABLES program,   \* "xtask", "bcp" or "arrow"
          chosen,    \* the options of xtask or of the odbc-bcp runner
          at, turn, held, printed, returned,  \* in both: position, repeat, table, report, result
          cmd, pending, stages, guards, world, recovery, ready, polls, current,
          acc, outcomes, lost,                \* of xtask
          handles, connected, step, buf, bound, inflight, received, totals,
          failed, left                        \* of the odbc-bcp runner

ofXtask == <<cmd, pending, stages, guards, world, recovery, ready, polls, current,
             acc, outcomes, lost>>
ofBcp == <<handles, connected, step, buf, bound, inflight, received, totals, failed, left>>
ofBoth == <<chosen, at, turn, held, printed, returned>>
all == <<program, vars, ofBoth, ofXtask, ofBcp>>
Unused == "unused"

-----------------------------------------------------------------------------
(* xtask: one backend of each kind, both orders of the kinds, and a pair   *)
(* whose second is refused for the scenario.                               *)

Xtask == INSTANCE BenchmarkRun WITH
    Commands <- {"test", "baseline", "arrow_odbc", "compare"},
    BackendLists <- {<<"direct-raw", "arrow-odbc">>, <<"odbc-bcp">>, <<"baseline">>,
                     <<"baseline", "direct-raw-no-date-fast-path">>},
    UnsupportedBy <- {"direct-raw-no-date-fast-path"},
    Flags <- {"none", "profile_direct", "odbc_bcp_defer_batches"},
    DatasetRows <- 1, MaxPolls <- 2,
    opts <- chosen, repeat <- turn, table <- held, report <- printed,
    result <- returned, outcome <- outcomes

-----------------------------------------------------------------------------
(* The odbc-bcp runner: a fixed and a variable-length column, both         *)
(* nullable; values that grow, shrink, are empty and are NULL in turn; an  *)
(* empty batch in the middle, one batch, none.                             *)

TwoColumns ==
    <<[variable |-> FALSE, nullable |-> TRUE], [variable |-> TRUE, nullable |-> TRUE]>>
TwoUnits == {x, y}

Growing == <<<<Null, <<x>>>>, <<<<y>>, <<x, y>>>>>>
Shrinking == <<<<<<x>>, <<>>>>>>
OneBatch == <<<<<<x>>, Null>>, <<<<y>>, <<y, x>>>>>>
ThreeDatasets == {<<Growing, <<>>, Shrinking>>, <<OneBatch>>, <<>>}

Bcp == INSTANCE OdbcBcpRunner WITH
    opts <- chosen, pc <- step, repeat <- turn, table <- held, report <- printed,
    result <- returned, total <- totals

ASSUME ProgramsAssumption == Xtask!CommandAssumption /\ Bcp!RunnerAssumption

-----------------------------------------------------------------------------
\* The arrow-odbc runner that was not started.
ArrowAtRest ==
    /\ Init
    /\ opts = CHOOSE o \in [autocommit : {FALSE}, profile : {FALSE}, fileRows : FileRows,
                            rows : RowOptions, batch : BatchSizes] : TRUE

XtaskAtRest ==
    /\ cmd = Unused /\ pending = Unused /\ stages = Unused /\ guards = Unused
    /\ world = Unused /\ recovery = Unused /\ ready = Unused /\ polls = Unused
    /\ current = Unused /\ acc = Unused /\ outcomes = Unused /\ lost = Unused
BcpAtRest ==
    /\ handles = Unused /\ connected = Unused /\ step = Unused /\ buf = Unused
    /\ bound = Unused /\ inflight = Unused /\ received = Unused
    /\ totals = Unused /\ failed = Unused /\ left = Unused
BothAtRest ==
    /\ chosen = Unused /\ at = Unused /\ turn = Unused /\ held = Unused
    /\ printed = Unused /\ returned = Unused

InitPrograms ==
    \/ program = "xtask" /\ Xtask!Init /\ at = Unused /\ BcpAtRest /\ ArrowAtRest
    \/ program = "bcp" /\ Bcp!Init /\ XtaskAtRest /\ ArrowAtRest
    \/ program = "arrow" /\ Init /\ XtaskAtRest /\ BcpAtRest /\ BothAtRest

StepPrograms ==
    \/ program = "xtask" /\ Xtask!Step /\ UNCHANGED <<program, at, ofBcp, vars>>
    \/ program = "bcp" /\ Bcp!Step /\ UNCHANGED <<program, ofXtask, vars>>
    \/ program = "arrow" /\ Step /\ UNCHANGED <<program, ofBoth, ofXtask, ofBcp>>

Ended ==
    CASE program = "xtask" -> Xtask!Exited
      [] program = "bcp" -> step = "exited"
      [] program = "arrow" -> pc = "done"

NextPrograms ==
    \/ StepPrograms
    \/ program = "xtask" /\ Xtask!ServerStarts /\ UNCHANGED <<program, at, ofBcp, vars>>
    \/ Ended /\ UNCHANGED all

\* Each operation a program waits for returns; SQL Server may never be ready.
SpecPrograms == InitPrograms /\ [][NextPrograms]_all /\ WF_all(StepPrograms)

-----------------------------------------------------------------------------
(* Properties *)

\* Whatever fails, a command of xtask leaves no network, container, image,
\* dataset or benchmark table and no changed recovery model, but those it is told
\* to keep and those whose removal failed; and while it runs, nothing is used
\* that is not there.
CommandCleansUp ==
    program = "xtask" =>
        /\ Xtask!NothingIsLeft
        /\ Xtask!RecoveryModelIsRestored
        /\ Xtask!NoTableIsLeft
        /\ Xtask!UsersFindWhatTheyUse

\* Ok means every backend measured, in order, over all repeats and rows, and
\* the results of the run cleaned up; compare's errors name the benchmark's.
ResultIsTheRun ==
    program = "xtask" => Xtask!SuccessIsComplete /\ Xtask!BenchmarkErrorIsNamed

\* The driver reads through its pointers the rows of the dataset, commits them as
\* asked, and what is reported is what the tables held; however the run ends, its
\* handles are freed and its tables dropped.
BulkCopyIsTheDataset ==
    program = "bcp" =>
        /\ Bcp!DriverReadsTheRows
        /\ Bcp!CommitsFollowThePolicy
        /\ Bcp!ReportIsTheTables
        /\ Bcp!HandlesAreFreed
        /\ Bcp!TablesAreDropped

\* The network outlives the container in it, and rows enter a report of xtask or
\* of the odbc-bcp runner only when they were counted in the table.
RunsAreOrdered ==
    [][/\ program = "xtask" => Xtask!NetworkOutlivesContainer /\ Xtask!ReportedRowsWereStored
       /\ program = "bcp" => Bcp!MergedRowsWereCounted]_all

\* Every program ends, the server ready or not, whatever fails.
ProgramsEnd == <>Ended
=============================================================================
