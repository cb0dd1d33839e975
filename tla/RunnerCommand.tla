---------------------------- MODULE RunnerCommand ----------------------------
(***************************************************************************)
(* How xtask runs an ODBC runner for a benchmark and learns its result     *)
(* (xtask/src/writer_bench.rs, the bench and BenchOptions of both          *)
(* runners): the options of compare or arrow-odbc become arguments and an  *)
(* ODBC connection string, the runner's own parser reads them, makes its   *)
(* tables from the template it was given, and prints a report that xtask   *)
(* finds again among the other output.                                     *)
(***************************************************************************)
EXTENDS CommandOptions

CONSTANTS ConnectionStrings,  \* token |-> [segments, meant]: its name = value parts,
                              \* and the settings its author meant
          Counts,             \* rows, batch sizes and repeats: some of Numerals
          MaxRows             \* rows a copy reports

VARIABLES stage,        \* asked, running, writing, written, reported, failed
          asked,        \* the options of the benchmark
          connection,   \* what the runner connects with
          statement,    \* the words of the CREATE TABLE it sends
          ran,          \* what the runner measured
          printed,      \* what its process wrote: [label, value] lines
          report        \* what xtask takes for the result

runnerVars == <<stage, asked, connection, statement, ran, printed, report>>
vars == <<parserVars, runnerVars>>

-----------------------------------------------------------------------------
(* Arguments *)

Ask(option) == option \in DOMAIN asked /\ asked[option]

NotYet == <<>>

DatasetPath == "/workspace/target/dataset.arrow"
TableOption == "--create-table-sql-template"

\* The statements a template stands for: the table, and the option for bulk
\* locks when it is asked for.
Placeholder == "__ARROW_TIBERIUS_ODBC_TABLE__"
TableSql == <<"CREATE TABLE", Placeholder, "columns">>
LockSql == <<"EXEC sp_tableoption", Placeholder, "table lock on bulk load">>
Words == ("table" :> TableSql) @@ ("table and lock" :> TableSql \o LockSql)
Template == IF Ask("--sqlserver-bulk-table-lock") THEN "table and lock" ELSE "table"

Shared ==
    <<"--rows", asked["--rows"], "--batch-size", asked["--batch-size"],
      "--scenario", asked["--scenario"], "--repeat", asked["--repeat"],
      "--input-ipc", DatasetPath, TableOption, Template>>
When(option, flag) == IF Ask(option) THEN <<flag>> ELSE <<>>

ArrowRunnerArgs ==
    Shared \o When("--profile-sqlserver", "--profile-sqlserver")
           \o When("--arrow-odbc-autocommit", "--autocommit")

BcpRunnerArgs ==
    Shared \o When("--profile-sqlserver", "--profile-sqlserver")
           \o When("--odbc-bcp-defer-batches", "--defer-batches")

-----------------------------------------------------------------------------
(* The connection *)

AnySetting(segments, names) ==
    LET hits == SelectSeq(segments, LAMBDA s : s.name \in names)
    IN  IF hits = <<>> THEN None ELSE Head(hits).value

\* The first part with one of the names and a value.
Setting(segments, names) ==
    LET hits == SelectSeq(segments, LAMBDA s : s.name \in names /\ s.value # "")
    IN  IF hits = <<>> THEN None ELSE Head(hits).value

BoolValue(value) == IF value \in {"true", "yes", "1"} THEN "yes" ELSE "no"

OdbcConnection(segments) ==
    LET trust == Setting(segments, {"trustservercertificate"})
    IN  [server |-> Setting(segments, {"server", "data source"}),
         user |-> Setting(segments, {"user id", "uid"}),
         password |-> Setting(segments, {"password", "pwd"}),
         database |-> asked["--database"],
         trust |-> BoolValue(IF trust = None THEN "yes" ELSE trust)]

Segments == ConnectionStrings[asked["--connection-string"]].segments

\* The runner of one of the backends asked for is started with its arguments.
\* The benchmark's parser is done, so its variables serve the runner's.
StartRunner(runner) ==
    /\ stage = "asked"
    /\ connection' = OdbcConnection(Segments)
    /\ IF None \in {connection'.server, connection'.user, connection'.password}
       THEN stage' = "failed" /\ UNCHANGED parserVars
       ELSE /\ stage' = "running"
            /\ command' = runner /\ index' = 1 /\ sampling' = None
            /\ args' = IF runner = "arrow-odbc runner" THEN ArrowRunnerArgs ELSE BcpRunnerArgs
            /\ options' = Defaults(runner) /\ outcome' = Reading
    /\ UNCHANGED <<asked, statement, ran, printed, report>>

RunnerReads ==
    /\ stage = "running" /\ (ReadArgument \/ EndOfRunnerOptions)
    /\ stage' = CASE outcome'.is = "error" -> "failed"
                  [] outcome'.is = "parsed" -> "writing"
                  [] OTHER -> "running"
    /\ UNCHANGED <<asked, connection, statement, ran, printed, report>>

-----------------------------------------------------------------------------
(* The runner *)

Table == "[dbo].[bench_7_0]"

\* Every placeholder of the template becomes the table of the repeat.
CreateTable ==
    /\ stage = "writing" /\ statement = <<>>
    /\ statement' = [i \in DOMAIN Words[options[TableOption]] |->
                        IF Words[options[TableOption]][i] = Placeholder THEN Table
                        ELSE Words[options[TableOption]][i]]
    /\ UNCHANGED <<parserVars, stage, asked, connection, ran, printed, report>>

\* What the copy did: rows of the batches and of the end, the time, and the
\* peak of its memory where the system tells it.
Write ==
    /\ stage = "writing" /\ statement # <<>>
    /\ \E inBatches, atEnd \in 0 .. MaxRows, peak \in {None, "4096"} :
          ran' = [batches |-> inBatches, done |-> atEnd, seconds |-> "0.067", peak |-> peak]
    /\ stage' = "written"
    /\ UNCHANGED <<parserVars, asked, connection, statement, printed, report>>

Line(label, value) == [label |-> label, value |-> value]
Total == ToString(ran.batches + ran.done)
PeakLine == IF ran.peak = None THEN <<>> ELSE <<Line("peak rss KiB", ran.peak)>>
ProfileLines ==
    IF options["--profile-sqlserver"] THEN <<Line("sql server profile", "")>> ELSE <<>>

ArrowReport ==
    <<Line("arrow-odbc runner", ""), Line("repeat", options["--repeat"]),
      Line("rows written", Total), Line("write seconds", ran.seconds),
      Line("write rows/sec", "375.43")>> \o PeakLine \o ProfileLines

BcpReport ==
    <<Line("odbc-bcp runner", ""), Line("repeat", options["--repeat"]),
      Line("bcp batch rows reported", ToString(ran.batches)),
      Line("bcp done rows reported", ToString(ran.done)),
      Line("rows written", Total), Line("write seconds", ran.seconds),
      Line("write rows/sec", "375.43")>> \o PeakLine \o ProfileLines

\* cargo's own output is on stderr, which xtask appends.
PrintReport ==
    /\ stage = "written" /\ printed = <<>>
    /\ printed' = (IF command = "arrow-odbc runner" THEN ArrowReport ELSE BcpReport)
                  \o <<Line("Compiling runner", "")>>
    /\ UNCHANGED <<parserVars, stage, asked, connection, statement, ran, report>>

-----------------------------------------------------------------------------
(* The report as xtask reads it *)

Labelled(label) ==
    LET hits == SelectSeq(printed, LAMBDA l : l.label = label)
    IN  IF hits = <<>> THEN None ELSE Head(hits).value

RunnerReport ==
    [rows |-> Labelled("rows written"), seconds |-> Labelled("write seconds"),
     peak |-> Labelled("peak rss KiB")]

ParseReport ==
    /\ stage = "written" /\ printed # <<>>
    /\ report' = RunnerReport
    /\ stage' = IF None \in {RunnerReport.rows, RunnerReport.seconds} THEN "failed"
                ELSE "reported"
    /\ UNCHANGED <<parserVars, asked, connection, statement, ran, printed>>

-----------------------------------------------------------------------------
\* compare names its backends; the arrow-odbc command has the options of its own
\* parser only.
Given(c, rows, batch, scenario, repeat, string) ==
    ("--rows" :> rows) @@ ("--batch-size" :> batch) @@ ("--scenario" :> scenario) @@
    ("--repeat" :> repeat) @@ ("--connection-string" :> string) @@ Defaults(c)
Flags(profile, lock, autocommit, defer) ==
    ("--profile-sqlserver" :> profile) @@ ("--sqlserver-bulk-table-lock" :> lock) @@
    ("--arrow-odbc-autocommit" :> autocommit) @@ ("--odbc-bcp-defer-batches" :> defer)

Init ==
    /\ command \in {"compare", "arrow-odbc"}
    /\ \E rows, batch, repeat \in Counts, scenario \in Scenarios,
          string \in DOMAIN ConnectionStrings, profile, lock, autocommit, defer \in BOOLEAN :
          LET given == Given(command, rows, batch, scenario, repeat, string)
          IN  asked = IF command = "compare"
                      THEN Flags(profile, lock, autocommit, defer) @@ given ELSE given
    /\ args = <<>> /\ index = 1 /\ options = asked /\ sampling = None
    /\ outcome = [Reading EXCEPT !.is = "parsed"]
    /\ stage = "asked" /\ statement = <<>> /\ printed = <<>>
    /\ connection = NotYet /\ ran = NotYet /\ report = NotYet

Start ==
    \E runner \in IF command = "compare" THEN Runners ELSE {"arrow-odbc runner"} :
       StartRunner(runner)
Next == Start \/ RunnerReads \/ CreateTable \/ Write \/ PrintReport \/ ParseReport

Spec == Init /\ [][Next]_vars

-----------------------------------------------------------------------------
(* Properties *)

\* A runner never refuses the arguments xtask makes, and what it then runs is the
\* benchmark that was asked for: its rows, batches, scenario and repeats, under the
\* transaction policy asked of this runner and not of the other.
RunnerRunsTheBenchmark ==
    /\ stage = "running" => outcome.is # "error"
    /\ stage = "failed" => command \notin Runners
    /\ stage \in {"writing", "written", "reported"} =>
         /\ \A o \in {"--rows", "--batch-size", "--scenario", "--repeat"} :
               options[o] = asked[o]
         /\ options["--input-ipc"] = DatasetPath
         /\ options["--profile-sqlserver"] <=> Ask("--profile-sqlserver")
         /\ IF command = "arrow-odbc runner"
            THEN options["--autocommit"] <=> Ask("--arrow-odbc-autocommit")
            ELSE options["--defer-batches"] <=> Ask("--odbc-bcp-defer-batches")

\* The statements a runner sends name its own table wherever xtask could only
\* write the placeholder, and set the lock if and only if it was asked for.
StatementsNameTheTable ==
    statement # <<>> =>
        /\ Placeholder \notin ToSet(statement)
        /\ statement[2] = Table
        /\ LET lock == SelectInSeq(statement, LAMBDA w : w = "EXEC sp_tableoption")
           IN  IF Ask("--sqlserver-bulk-table-lock")
               THEN lock # 0 /\ statement[lock + 1] = Table
               ELSE lock = 0

\* A runner connects to the server, and as the user, its connection string means,
\* by whichever of their names and in whatever order these are given, but to the
\* database of the benchmark; no string that says less starts a runner.
RunnerConnectsAsMeant ==
    LET meant == ConnectionStrings[asked["--connection-string"]].meant
    IN  /\ stage = "failed" => None \in {meant.server, meant.user, meant.password}
        /\ stage \notin {"asked", "failed"} =>
             /\ connection.database = asked["--database"]
             /\ \A s \in DOMAIN meant : connection[s] = meant[s]

\* The rows and the time xtask compares backends by are those the runner wrote
\* and measured, though other lines count rows as well, and a report without a
\* peak is a report.
ReportIsTheRunners ==
    stage \in {"reported", "failed"} /\ printed # <<>> =>
        report = [rows |-> Total, seconds |-> ran.seconds, peak |-> ran.peak]
=============================================================================
