---------------------------- MODULE BenchmarkRun ----------------------------
(***************************************************************************)
(* The commands of xtask that use SQL Server (xtask/src/main.rs,           *)
(* sqlserver.rs, odbc_runner.rs and the runs of writer_bench.rs): what a   *)
(* command acquires, what it measures, what it releases and what it        *)
(* returns, when every container, SQL and file operation may fail.         *)
(*                                                                         *)
(* Guards with a Drop are a stack: leaving the command drops the newest    *)
(* first.  `stages` is what the command still has to do.                   *)
(***************************************************************************)
EXTENDS Naturals, Sequences, FiniteSets, SequencesExt

CONSTANTS Commands,         \* those of the run: subset of the keys of Plan
          BackendLists,     \* lists --backends may give
          UnsupportedBy,    \* backend |-> it refuses the scenario
          Flags,            \* the option of compare that needs a backend
          Repeats,          \* --repeat
          DatasetRows,      \* rows of the dataset
          MaxPolls          \* readiness polls before the deadline

Direct == {"direct-framed", "direct-raw", "direct-raw-no-date-fast-path",
           "direct-raw-no-fixed-fast-path"}
Tiberius == {"baseline"} \cup Direct
Odbc == {"arrow-odbc", "odbc-bcp"}

VARIABLES cmd,        \* the command
          opts,       \* existing connection, keep flags, recovery model, flag,
                      \* and the backends to measure
          pending,    \* the backends still to measure
          stages,     \* stages left
          guards,     \* values with a Drop, the newest last
          world,      \* what exists outside the process
          recovery,   \* recovery model of the database
          ready,      \* SQL Server answers
          polls,      \* readiness polls so far
          repeat,     \* repeats done of the first pending backend
          table,      \* rows of the benchmark table, or NoBenchTable
          current,    \* rows written by the current repeat: its report
          acc,        \* rows of the backend's report so far
          report,     \* reports of the backends measured
          outcome,    \* stage |-> failed, of the results kept for later
          result,     \* errors named by the returned Result; {} is Ok
          lost        \* ghost: operations that failed: a creation or a setting that
                      \* took effect all the same, a removal that did not

vars == <<cmd, opts, pending, stages, guards, world, recovery, ready, polls,
          repeat, table, current, acc, report, outcome, result, lost>>
dbVars == <<recovery, table>>
measureVars == <<pending, repeat, current, acc, report>>

NoBenchTable == DatasetRows + 1  \* no benchmark table exists

UsesOdbc == \E b \in Odbc : Contains(opts.backends, b)

-----------------------------------------------------------------------------
(* The order of each command *)

Serve == <<"container", "ready", "database">>

\* run_sqlserver_tests and run_sqlserver_compat_probe.
TestPlan == Serve \o <<"cargo_test">>

BaselinePlan == Serve \o <<"dataset", "measure", "clean_dataset", "return">>

ArrowOdbcPlan == <<"network">> \o Serve \o
    <<"image", "dataset", "measure", "clean_dataset", "clean_image", "return">>

ComparePlan == <<"validate", "network">> \o Serve \o
    <<"image", "dataset", "snapshot", "set", "measure", "restore",
      "clean_dataset", "clean_image", "return">>

Plan == [test |-> TestPlan, baseline |-> BaselinePlan,
         arrow_odbc |-> ArrowOdbcPlan, compare |-> ComparePlan]

CommandAssumption ==
    /\ {Repeats, DatasetRows, MaxPolls} \subseteq Nat \ {0}
    /\ Commands \subseteq DOMAIN Plan
    /\ BackendLists \subseteq Seq(Tiberius \cup Odbc)

\* A stage the options make a no-op is skipped.
Skipped(stage) ==
    \/ stage \in {"network", "container", "ready", "database"} /\ opts.existing
    \/ stage \in {"network", "image", "clean_image"} /\ ~UsesOdbc
    \/ stage = "clean_image" /\ opts.keepImage
    \/ stage \in {"snapshot", "set", "restore"} /\ ~opts.setRecovery

At(stage) == stages # <<>> /\ Head(stages) = stage
Advance == stages' = Tail(stages)

\* `?`: the function returns, the guards drop, nothing else of the plan runs.
Fail(error) == stages' = <<>> /\ result' = {error}

Skip ==
    /\ stages # <<>> /\ Skipped(Head(stages))
    /\ Advance
    /\ UNCHANGED <<cmd, opts, guards, world, dbVars, ready, polls, measureVars,
                   outcome, result, lost>>

Do(stage) == At(stage) /\ ~Skipped(stage)

-----------------------------------------------------------------------------
(* Validation of compare *)

BackendsFor == [profile_direct |-> Direct,
                arrow_odbc_autocommit |-> {"arrow-odbc"},
                odbc_bcp_defer_batches |-> {"odbc-bcp"},
                profile_sqlserver |-> Tiberius \cup Odbc,
                none |-> Tiberius \cup Odbc]

CompareOptionsAccepted ==
    LET chosen == ToSet(opts.backends) IN
    /\ chosen \cap BackendsFor[opts.flag] # {}
    /\ chosen \cap UnsupportedBy = {}

Validate ==
    /\ Do("validate")
    /\ IF CompareOptionsAccepted
         THEN Advance /\ UNCHANGED result
         ELSE Fail("validation")
    /\ UNCHANGED <<cmd, opts, guards, world, dbVars, ready, polls, measureVars,
                   outcome, lost>>

-----------------------------------------------------------------------------
(* Network, container, image and dataset *)

\* A creating command that fails may have created: no guard is built for it.
Create(stage, guard) ==
    /\ Do(stage)
    /\ \/ /\ world' = world \cup {stage}
          /\ guards' = guards \o guard
          /\ Advance
          /\ UNCHANGED <<result, lost>>
       \/ /\ \/ UNCHANGED <<world, lost>>
             \/ world' = world \cup {stage} /\ lost' = lost \cup {<<"create", stage>>}
          /\ Fail(stage)
          /\ UNCHANGED guards
    /\ UNCHANGED <<cmd, opts, dbVars, ready, polls, measureVars, outcome>>

CreateNetwork == Create("network", <<"network">>)
StartContainer == Create("container", <<"container">>)
BuildImage == Create("image", <<"image">>)
\* The dataset has no Drop: its file is removed by the command itself.
WriteDataset == Create("dataset", <<>>)

ServerStarts ==
    /\ "container" \in world /\ ~ready
    /\ ready' = TRUE
    /\ UNCHANGED <<cmd, opts, stages, guards, world, dbVars, polls, measureVars,
                   outcome, result, lost>>

WaitWithoutDeadline ==
    /\ Do("ready") /\ ready
    /\ Advance
    /\ UNCHANGED <<cmd, opts, guards, world, dbVars, ready, polls, measureVars,
                   outcome, result, lost>>

\* One SELECT 1 by sqlcmd, in the place its image has it.
WaitUntilReady ==
    /\ Do("ready")
    /\ IF polls = MaxPolls
         THEN Fail("ready") /\ UNCHANGED polls
         ELSE \/ ready /\ Advance /\ UNCHANGED <<polls, result>>
              \/ polls' = polls + 1 /\ UNCHANGED <<stages, result>>
    /\ UNCHANGED <<cmd, opts, guards, world, dbVars, ready, measureVars, outcome, lost>>

\* An operation that only succeeds or fails.
Attempt(stage) ==
    /\ Do(stage)
    /\ \/ Advance /\ UNCHANGED result
       \/ Fail(stage)
    /\ UNCHANGED <<cmd, opts, guards, world, dbVars, ready, polls, measureVars,
                   outcome, lost>>

InitializeDatabase == Attempt("database")
CargoTest == Attempt("cargo_test")

-----------------------------------------------------------------------------
(* Recovery model of compare *)

\* The early returns of compare remove the dataset before they return.
FailWithDataset(error) ==
    /\ stages' = <<>>
    /\ \/ world' = world \ {"dataset"} /\ result' = {error} /\ UNCHANGED lost
       \/ /\ result' = {error, "clean_dataset"}
          /\ lost' = lost \cup {<<"remove", "dataset">>}
          /\ UNCHANGED world

SnapshotRecovery ==
    /\ Do("snapshot")
    /\ \/ Advance /\ UNCHANGED <<world, result, lost>>
       \/ FailWithDataset("snapshot")
    /\ UNCHANGED <<cmd, opts, guards, dbVars, ready, polls, measureVars, outcome>>

\* ALTER DATABASE may take effect although its answer is lost.
SetRecovery ==
    /\ Do("set")
    /\ \/ recovery' = "requested" /\ Advance /\ UNCHANGED <<world, result, lost>>
       \/ UNCHANGED recovery /\ FailWithDataset("set")
       \/ /\ recovery' = "requested"
          /\ stages' = <<>>
          /\ world' = world \ {"dataset"}
          /\ result' = {"set"}
          /\ lost' = lost \cup {<<"set", "recovery">>}
    /\ UNCHANGED <<cmd, opts, guards, table, ready, polls, measureVars, outcome>>

-----------------------------------------------------------------------------
(* Measuring: run_tiberius_benchmark_from_ipc and the runner containers *)

Measuring == Do("measure") /\ "measure" \notin DOMAIN outcome
Kept(stage, failed) == outcome' = [s \in DOMAIN outcome \cup {stage} |->
                                     IF s = stage THEN failed ELSE outcome[s]]

\* "idle": between repeats; "open": table made; "written": writer finished;
\* "checked": rows counted; "failed": the repeat returned an error.
NextBackend ==
    /\ pending' = Tail(pending)
    /\ repeat' = 0 /\ acc' = 0

\* connect, and the session of the profile: nothing is left behind.
ConnectFails ==
    /\ Measuring /\ pending # <<>> /\ Head(pending) \in Tiberius
    /\ current.step = "idle" /\ repeat = 0
    /\ Kept("measure", TRUE)
    /\ UNCHANGED <<cmd, opts, stages, guards, world, dbVars, ready, polls,
                   measureVars, result, lost>>

\* DROP IF EXISTS, CREATE, the table lock option and BulkWriter::new.
RepeatSetup ==
    /\ Measuring /\ pending # <<>> /\ Head(pending) \in Tiberius
    /\ current.step = "idle" /\ repeat < Repeats
    /\ \/ table' = 0 /\ current' = [step |-> "open", rows |-> 0]
       \/ table' \in {NoBenchTable, 0} /\ current' = [step |-> "failed", rows |-> 0]
    /\ UNCHANGED <<cmd, opts, pending, stages, guards, world, recovery, ready,
                   polls, repeat, acc, report, outcome, result, lost>>

\* write_batch for every batch, then finish.  What the table holds afterwards
\* is the server's matter.
RepeatWrite ==
    /\ current.step = "open"
    /\ table' \in 0 .. DatasetRows
    /\ \/ current' = [step |-> "written", rows |-> DatasetRows]
       \/ current' = [step |-> "failed", rows |-> 0]
    /\ UNCHANGED <<cmd, opts, pending, stages, guards, world, recovery, ready,
                   polls, repeat, acc, report, outcome, result, lost>>

\* select_count against the rows the writer accepted; a query may fail too.
RepeatValidate ==
    /\ current.step = "written"
    /\ \/ table = current.rows /\ current' = [current EXCEPT !.step = "checked"]
       \/ current' = [step |-> "failed", rows |-> 0]
    /\ UNCHANGED <<cmd, opts, pending, stages, guards, world, dbVars, ready,
                   polls, repeat, acc, report, outcome, result, lost>>

\* The table is dropped on either outcome of the repeat; a failing drop is an
\* error of a good repeat and a warning of a failed one.
RepeatCleanup ==
    /\ current.step \in {"checked", "failed"}
    /\ \E dropped \in BOOLEAN :
         /\ table' = IF dropped THEN NoBenchTable ELSE table
         /\ lost' = IF dropped THEN lost ELSE lost \cup {<<"remove", "table">>}
         /\ IF current.step = "checked" /\ dropped
              THEN /\ acc' = acc + current.rows
                   /\ repeat' = repeat + 1
                   /\ UNCHANGED outcome
              ELSE Kept("measure", TRUE) /\ UNCHANGED <<acc, repeat>>
    /\ current' = [step |-> "idle", rows |-> 0]
    /\ UNCHANGED <<cmd, opts, pending, stages, guards, world, recovery, ready,
                   polls, report, result>>

BackendMeasured ==
    /\ Measuring /\ pending # <<>> /\ Head(pending) \in Tiberius
    /\ current.step = "idle" /\ repeat = Repeats
    /\ report' = Append(report, [backend |-> Head(pending), rows |-> acc])
    /\ NextBackend
    /\ UNCHANGED <<cmd, opts, stages, guards, world, dbVars, ready, polls,
                   current, outcome, result, lost>>

\* A runner container: it makes, fills and drops its own tables, prints its
\* report and exits, or fails, or its report cannot be parsed.  The command
\* arrow-odbc inherits the output and parses nothing.
RunRunner ==
    /\ Measuring /\ pending # <<>> /\ Head(pending) \in Odbc
    /\ \/ /\ report' = Append(report, [backend |-> Head(pending),
                                       rows |-> Repeats * DatasetRows])
          /\ NextBackend
          /\ UNCHANGED outcome
       \/ /\ Kept("measure", TRUE)
          /\ UNCHANGED <<pending, repeat, acc, report>>
    /\ UNCHANGED <<cmd, opts, stages, guards, world, dbVars, ready, polls,
                   current, result, lost>>

AllMeasured ==
    /\ Measuring /\ pending = <<>>
    /\ Kept("measure", FALSE)
    /\ UNCHANGED <<cmd, opts, stages, guards, world, dbVars, ready, polls,
                   measureVars, result, lost>>

ReturnAtOnce ==
    /\ Do("measure") /\ "measure" \in DOMAIN outcome
    /\ IF outcome.measure THEN Fail("measure") ELSE Advance /\ UNCHANGED result
    /\ UNCHANGED <<cmd, opts, guards, world, dbVars, ready, polls, measureVars,
                   outcome, lost>>

\* The loop has returned: its result is kept while the command cleans up.
MeasureReturns ==
    /\ Do("measure") /\ "measure" \in DOMAIN outcome
    /\ Advance
    /\ UNCHANGED <<cmd, opts, guards, world, dbVars, ready, polls, measureVars,
                   outcome, result, lost>>

-----------------------------------------------------------------------------
(* Cleaning up and returning *)

RestoreRecovery ==
    /\ Do("restore")
    /\ \/ recovery' = "original" /\ Kept("restore", FALSE) /\ UNCHANGED lost
       \/ Kept("restore", TRUE) /\ lost' = lost \cup {<<"restore", "recovery">>} /\ UNCHANGED recovery
    /\ Advance
    /\ UNCHANGED <<cmd, opts, guards, world, table, ready, polls, measureVars, result>>

CleanDataset ==
    /\ Do("clean_dataset")
    /\ \/ world' = world \ {"dataset"} /\ Kept("clean_dataset", FALSE) /\ UNCHANGED lost
       \/ Kept("clean_dataset", TRUE) /\ lost' = lost \cup {<<"remove", "dataset">>} /\ UNCHANGED world
    /\ Advance
    /\ UNCHANGED <<cmd, opts, guards, dbVars, ready, polls, measureVars, result>>

\* ManagedRunnerImage::cleanup.  arrow-odbc returns its error at once; compare
\* keeps it.  A failed removal is tried again by the Drop.
CleanImage ==
    /\ Do("clean_image")
    /\ \/ /\ world' = world \ {"image"}
          /\ Kept("clean_image", FALSE)
          /\ Advance /\ UNCHANGED result
       \/ /\ IF cmd = "arrow_odbc"
               THEN Fail("clean_image") /\ UNCHANGED outcome
               ELSE Kept("clean_image", TRUE) /\ Advance /\ UNCHANGED result
          /\ UNCHANGED world
    /\ UNCHANGED <<cmd, opts, guards, dbVars, ready, polls, measureVars, lost>>

Failed(stage) == stage \in DOMAIN outcome /\ outcome[stage]

ReturnedIgnoringRestore ==
    IF Failed("measure") THEN {"measure"}
    ELSE IF Failed("clean_dataset") THEN {"clean_dataset"}
    ELSE IF Failed("clean_image") THEN {"clean_image"} ELSE {}

\* The match on the benchmark's and the restore's results, then the cleanups.
Returned ==
    IF Failed("measure") \/ Failed("restore")
      THEN {s \in {"measure", "restore"} : Failed(s)}
    ELSE IF Failed("clean_dataset") THEN {"clean_dataset"}
    ELSE IF Failed("clean_image") THEN {"clean_image"} ELSE {}

Return ==
    /\ Do("return")
    /\ result' = Returned
    /\ Advance
    /\ UNCHANGED <<cmd, opts, guards, world, dbVars, ready, polls, measureVars,
                   outcome, lost>>

\* ManagedNetwork::drop, SqlServerContainer::drop, ManagedRunnerImage::drop.
\* The exit status of `rm` is not looked at.
KeptOnDrop(guard) ==
    IF guard = "image" THEN opts.keepImage ELSE opts.keep

Removal(guard) ==
    IF guard = "network" /\ "container" \in world THEN {FALSE} ELSE BOOLEAN

DropInOrder == guards
DropOrder == Reverse(guards)

DropGuard ==
    /\ stages = <<>> /\ guards # <<>>
    /\ LET guard == Head(DropOrder) IN
         IF KeptOnDrop(guard) \/ guard \notin world
           THEN UNCHANGED <<world, dbVars, ready, lost>>
           ELSE \E removed \in Removal(guard) :
                  /\ world' = IF removed THEN world \ {guard} ELSE world
                  /\ lost' = IF removed THEN lost ELSE lost \cup {<<"remove", guard>>}
                  /\ IF guard = "container" /\ removed
                       THEN ready' = FALSE /\ recovery' = "original" /\ table' = NoBenchTable
                       ELSE UNCHANGED <<ready, dbVars>>
    /\ guards' = Reverse(Tail(DropOrder))
    /\ UNCHANGED <<cmd, opts, stages, polls, measureVars, outcome, result>>

Exited == stages = <<>> /\ guards = <<>>
Exit == Exited /\ UNCHANGED vars

-----------------------------------------------------------------------------
BackendsOf(c) == CASE c = "compare" -> BackendLists
                   [] c = "arrow_odbc" -> {<<"arrow-odbc">>}
                   [] OTHER -> {<<"baseline">>}

ServerOptions == [existing : BOOLEAN, keep : BOOLEAN, keepImage : BOOLEAN,
                  setRecovery : BOOLEAN, flag : Flags,
                  backends : UNION {BackendsOf(c) : c \in Commands}]

\* Options a command does not have stay at their default.
OptionsOf(c) ==
    {o \in ServerOptions :
       /\ o.backends \in BackendsOf(c)
       /\ c # "compare" => ~o.setRecovery /\ o.flag = "none"
       /\ c \in {"test", "baseline"} => ~o.keepImage}

Init ==
    /\ cmd \in Commands
    /\ opts \in OptionsOf(cmd)
    /\ pending = opts.backends
    /\ stages = Plan[cmd]
    /\ guards = <<>>
    /\ world = IF opts.existing THEN {"server"} ELSE {}
    /\ recovery = "original"
    /\ ready = opts.existing
    /\ polls = 0
    /\ repeat = 0 /\ acc = 0
    /\ table = NoBenchTable
    /\ current = [step |-> "idle", rows |-> 0]
    /\ report = <<>>
    /\ outcome = [s \in {} |-> TRUE]
    /\ result = {}
    /\ lost = {}

Step ==
    \/ Skip \/ Validate \/ CreateNetwork \/ StartContainer \/ BuildImage
    \/ WriteDataset \/ WaitUntilReady \/ InitializeDatabase \/ CargoTest
    \/ SnapshotRecovery \/ SetRecovery
    \/ ConnectFails \/ RepeatSetup \/ RepeatWrite \/ RepeatValidate
    \/ RepeatCleanup \/ BackendMeasured \/ RunRunner \/ AllMeasured
    \/ MeasureReturns \/ RestoreRecovery \/ CleanDataset \/ CleanImage
    \/ Return \/ DropGuard

Next == Step \/ ServerStarts \/ Exit

\* Every operation of a command is awaited and returns.
Spec == Init /\ [][Next]_vars /\ WF_vars(Step)

-----------------------------------------------------------------------------
\* A command leaves no network, container, image or dataset but those it is
\* told to keep, unless an operation failed that made or removed it (the Drops,
\* the cleanups of both runs and the early returns of compare).
NothingIsLeft == Exited =>
    \A r \in world \ {"server"} :
       \/ {<<"create", r>>, <<"remove", r>>} \cap lost # {}
       \/ r # "dataset" /\ KeptOnDrop(r)

\* A database that outlives the command has its recovery model back, unless the
\* answer to setting it was lost or restoring it failed (compare's restore runs
\* whether the benchmark succeeded or not).
RecoveryModelIsRestored ==
    Exited => recovery = "original" \/ \E op \in {"set", "restore"} : <<op, "recovery">> \in lost

\* No benchmark table outlives a command unless dropping it failed: every way
\* out of a repeat passes the drop.
NoTableIsLeft == Exited => table = NoBenchTable \/ <<"remove", "table">> \in lost

\* Ok means: every backend was measured, in the order given, over all repeats
\* and rows, and whatever the command kept results of was cleaned up.
SuccessIsComplete ==
    Exited /\ result = {} /\ "measure" \in ToSet(Plan[cmd]) =>
       /\ [i \in DOMAIN report |-> report[i].backend] = opts.backends
       /\ \A i \in DOMAIN report : report[i].rows = Repeats * DatasetRows
       /\ recovery = "original" /\ table = NoBenchTable /\ "dataset" \notin world

\* compare never hides the error of the benchmark behind one of a cleanup.
BenchmarkErrorIsNamed ==
    Exited /\ cmd = "compare" /\ Failed("measure") => "measure" \in result

\* Tests and backends run against a server that answers, and a runner's
\* container finds its image, the dataset and the network of the server.
UsersFindWhatTheyUse ==
    /\ \A s \in {"cargo_test", "measure", "snapshot", "restore"} :
          Do(s) => ready /\ (opts.existing \/ "container" \in world)
    /\ Do("measure") => "dataset" \in world
    /\ Measuring /\ pending # <<>> /\ Head(pending) \in Odbc =>
          "image" \in world /\ (opts.existing \/ "network" \in world)

\* In a step: the network is removed after the container that uses it: the declaration
\* order of the two guards in the commands that have both.
NetworkOutlivesContainer ==
    Contains(guards, "network") /\ ~Contains(guards', "network") =>
       \/ "container" \notin world
       \/ opts.keep
       \/ \E op \in {"create", "remove"} : <<op, "container">> \in lost

\* In a step: a repeat enters the report only with the rows its table was seen to hold.
ReportedRowsWereStored == acc' > acc => acc' = acc + table
=============================================================================
