------------------------- MODULE MCBenchmarkInputs -------------------------
(***************************************************************************)
(* What the benchmarks are given: command lines, scenarios and their data, *)
(* the arguments xtask hands to a runner and the cells a runner hands to   *)
(* the server.  A behaviour reads one input of one kind.                   *)
(***************************************************************************)
EXTENDS BenchScenario, TLC

CONSTANTS Null

VARIABLES kind,     \* "cells", "scenario", "commands" or "runner"
          column, slots, row, content, stored, error,
          command, args, index, options, sampling, outcome,  \* of both parsers
          words, groups,
          stage, asked, connection, statement, ran, printed, report

cellVars == <<column, slots, row, content, stored, error>>
scenarioVars == <<scenario, rows, batchSize, offset, file, replayed>>
parserVars == <<command, args, index, options, sampling, outcome>>
lineVars == <<words, groups>>
runnerVars == <<stage, asked, connection, statement, ran, printed, report>>
all == <<kind, phase, cellVars, scenarioVars, parserVars, lineVars, runnerVars>>
Unused == "unused"

-----------------------------------------------------------------------------
(* Cells: i128 has eight bits, a day eight seconds of four milliseconds,   *)
(* and SQL Server nine days.  The scenarios tell only the buffers apart.   *)

Arrow(type, p, s, zone) == [kind |-> type, p |-> p, s |-> s, zone |-> zone]
ArrowColumn(type, nullable, values) == [type |-> type, nullable |-> nullable, values |-> values]

MCChronoDays == -6 .. 6
MCServerDays == -5 .. 3

Numbers == {-128, -127, -100, -99, -10, -9, -1, 0, 1, 5, 9, 10, 99, 100, 127}
Days == {-7, -6, -5, -1, 0, 3, 4, 6, 7}
Millis == {-193, -161, -160, -33, -32, -31, -1, 0, 1, 31, 32, 127, 128, 256}

BcpColumns ==
    {ArrowColumn(Arrow("Decimal128", p, s, "none"), TRUE, Numbers) :
        p \in {1, 2}, s \in {-1, 0, 1, 2}}
    \cup {ArrowColumn(Arrow("Date32", 0, 0, "none"), n, Days) : n \in BOOLEAN}
    \cup {ArrowColumn(Arrow("Timestamp", unit, 0, zone), TRUE, Millis) :
        unit \in {3, 6}, zone \in {"none", "empty", "named"}}
    \cup {ArrowColumn(Arrow(type, 0, 0, "none"), TRUE, {0, 1}) :
        type \in {"UInt8", "Int8", "Int16", "Int32", "UInt16", "Int64", "UInt32",
                  "Float32", "Float64", "Boolean", "Utf8", "Binary", "LargeUtf8",
                  "UInt64", "Date64", "Time32"}}
    \cup {ArrowColumn(Arrow("FixedSizeBinary", 4, 0, "none"), TRUE, {0, 1})}

Permissive ==
    [uint64 |-> "Decimal20_0", string |-> [kind |-> "Max", n |-> 0],
     binary |-> [kind |-> "Max", n |-> 0], decimal |-> "NormalizeNegativeScale",
     decimal256 |-> "Reject", date64 |-> "TimestampDateTime2",
     timestamp |-> [kind |-> "DateTime2", n |-> 7], timezone |-> "DateTimeOffset"]

Cells == INSTANCE BcpColumn WITH
    Columns <- BcpColumns, PlanOptions <- Permissive, NullSlot <- Null, Rows <- 2

-----------------------------------------------------------------------------
(* Command lines of up to two options, right and wrong, for every command, *)
(* and of three where their order could matter.  An option without its     *)
(* value can only be the last.                                             *)

Numerals ==
    ("0" :> [is |-> "0", bits |-> 0]) @@
    ("+2" :> [is |-> "2", bits |-> 2]) @@
    ("5" :> [is |-> "5", bits |-> 3]) @@
    ("70000" :> [is |-> "70000", bits |-> 17]) @@
    ("5000000000" :> [is |-> "5000000000", bits |-> 33]) @@
    ("36893488147419103232" :> [is |-> "36893488147419103232", bits |-> 66])

Lists ==
    ("baseline, odbc-bcp" :> <<"baseline", "odbc-bcp">>) @@
    ("odbc-bcp,direct-raw,odbc-bcp" :> <<"odbc-bcp", "direct-raw", "odbc-bcp">>) @@
    ("baseline,,nope" :> <<"baseline", "", "nope">>)

ScenarioNames == {"narrow_numeric", "wide_mixed"}

\* The parser's tables, which do not depend on the instance.
Parser == INSTANCE CommandOptions WITH Scenarios <- ScenarioNames, Templates <- {}

AllOptions == UNION {Parser!Accepts[c] : c \in DOMAIN Parser!Accepts}
Dashed == AllOptions \cup Parser!Help \cup {"--nope"}

\* What may be written after an option, its refusals among them.
ValuesOf(o) ==
    CASE o = "--rows" -> {"5", "0", "--rows"}
      [] o = "--batch-size" -> {"+2"}
      [] o = "--repeat" -> {"5000000000", "36893488147419103232"}
      [] o = "--sqlserver-profile-sample-ms" -> {"5", "70000", "0"}
      [] o = "--tds-packet-size" -> {"70000", "5000000000"}
      [] o = "--compatibility-level" -> {"0", "5", "70000"}
      [] o = "--scenario" -> {"wide_mixed", "nope"}
      [] o = "--output" -> {"human", "json"}
      [] o = "--backends" -> DOMAIN Lists \cup {"arrow-odbc"}
      [] o = "--sqlserver-recovery-model" -> {"bulk-logged", "BULK_LOGGED"}
      [] o = "--version" -> {"2022", "2016"}
      [] o = "--database" -> {"bench", "--profile-sqlserver", "-h", Parser!NotUtf8}
      [] OTHER -> {"x"}

Right(c) ==
    UNION {IF o \in Parser!Flag THEN {<<o>>} ELSE {<<o, v>> : v \in ValuesOf(o)} :
              o \in Parser!Accepts[c]}
Strange == {<<"--nope">>, <<Parser!NotUtf8>>, <<"-h">>}
Cut(c) == {<<o>> : o \in Parser!Accepts[c] \ Parser!Flag}

WordsOf(c) ==
    IF c = "summary" THEN <<"writer-bench">>
    ELSE IF c \in {"baseline", "arrow-odbc", "compare", "ipc"} THEN <<"writer-bench", c>> ELSE <<c>>

\* Options of compare whose order could matter.
Intertwined ==
    {<<"--profile-sqlserver">>, <<"--sqlserver-profile-sample-ms", "5">>,
     <<"--sqlserver-profile-sample-ms", "70000">>, <<"--sqlserver-profile-sample-ms", "0">>,
     <<"--database", "--profile-sqlserver">>, <<"--backends", "baseline, odbc-bcp">>,
     <<"--backends", "arrow-odbc">>, <<"--nope">>}

Commands == DOMAIN Parser!Accepts \ Parser!Runners
LinesOf(c, n) ==
    {[words |-> WordsOf(c), groups |-> line \o cut] :
        line \in [1 .. n -> Right(c) \cup Strange], cut \in {<<>>} \cup {<<g>> : g \in Cut(c)}}

CommandLines ==
    UNION {LinesOf(c, n) : c \in Commands, n \in 0 .. 1} \cup
    UNION {{l \in LinesOf(c, 2) : Len(l.groups) = 2} : c \in Commands} \cup
    {[words |-> WordsOf("compare"), groups |-> line] : line \in [1 .. 3 -> Intertwined]} \cup
    {[words |-> w, groups |-> <<>>] :
        w \in {<<>>, <<"-h">>, <<Parser!NotUtf8>>, <<"nope">>, <<"writer-bench", "nope">>}}

Line == INSTANCE BenchCommands WITH Scenarios <- ScenarioNames, Templates <- {}

-----------------------------------------------------------------------------
(* Benchmarks that differ in what reaches a runner, and connection strings *)
(* with other names, empty and repeated settings, and settings missing.    *)

Part(name, value) == [name |-> name, value |-> value]
Meant(server, user, password, trust) ==
    [server |-> server, user |-> user, password |-> password, trust |-> trust]

ConnectionStrings ==
    ("plain" :> [segments |-> <<Part("server", "a"), Part("user id", "sa"),
                                Part("password", "p"), Part("trustservercertificate", "true")>>,
                 meant |-> Meant("a", "sa", "p", "yes")]) @@
    ("aliases" :> [segments |-> <<Part("pwd", "p"), Part("database", "other"), Part("uid", "sa"),
                                  Part("trustservercertificate", "false"),
                                  Part("data source", "a")>>,
                   meant |-> Meant("a", "sa", "p", "no")]) @@
    ("empty server" :> [segments |-> <<Part("server", ""), Part("data source", "a"),
                                       Part("uid", "sa"), Part("pwd", "p"), Part("pwd", "q")>>,
                        meant |-> Meant("a", "sa", "p", "yes")]) @@
    ("no password" :> [segments |-> <<Part("server", "a"), Part("uid", "sa"), Part("pwd", "")>>,
                       meant |-> Meant("a", "sa", Parser!None, "yes")])

Handed == INSTANCE RunnerCommand WITH
    Numerals <- [t \in {"2", "5000000000"} |-> [is |-> t, bits |-> 33]],
    Lists <- <<>>, Scenarios <- ScenarioNames, Templates <- {"table", "table and lock"},
    Counts <- {"2", "5000000000"}, MaxRows <- 1

-----------------------------------------------------------------------------
CellsAtRest ==
    /\ column = Unused /\ slots = Unused /\ row = Unused /\ content = Unused
    /\ stored = Unused /\ error = Unused
ScenarioAtRest ==
    /\ scenario = Unused /\ rows = Unused /\ batchSize = Unused
    /\ offset = Unused /\ file = Unused /\ replayed = Unused
ParserAtRest ==
    /\ command = Unused /\ args = Unused /\ index = Unused /\ options = Unused
    /\ sampling = Unused /\ outcome = Unused
LineAtRest ==
    /\ words = Unused /\ groups = Unused
RunnerAtRest ==
    /\ stage = Unused /\ asked = Unused /\ connection = Unused
    /\ statement = Unused /\ ran = Unused /\ printed = Unused
    /\ report = Unused

InitInputs ==
    \/ /\ kind = "cells" /\ Cells!Init
       /\ ScenarioAtRest /\ ParserAtRest /\ LineAtRest /\ RunnerAtRest
    \/ /\ kind = "scenario" /\ Init
       /\ CellsAtRest /\ ParserAtRest /\ LineAtRest /\ RunnerAtRest
    \/ /\ kind = "commands" /\ Line!Init
       /\ phase = Unused /\ CellsAtRest /\ ScenarioAtRest /\ RunnerAtRest
    \/ /\ kind = "runner" /\ Handed!Init
       /\ phase = Unused /\ CellsAtRest /\ ScenarioAtRest /\ LineAtRest

NextInputs ==
    \/ /\ kind = "cells" /\ Cells!Next
       /\ UNCHANGED <<kind, scenarioVars, parserVars, lineVars, runnerVars>>
    \/ /\ kind = "scenario" /\ Next
       /\ UNCHANGED <<kind, cellVars, parserVars, lineVars, runnerVars>>
    \/ /\ kind = "commands" /\ Line!Next
       /\ UNCHANGED <<kind, phase, cellVars, scenarioVars, runnerVars>>
    \/ /\ kind = "runner" /\ Handed!Next
       /\ UNCHANGED <<kind, phase, cellVars, scenarioVars, lineVars>>

SpecInputs == InitInputs /\ [][NextInputs]_all

-----------------------------------------------------------------------------
(* Properties *)

\* What the server stores through the bulk copy is what the Arrow column holds,
\* in a type as wide as the planned one, and only what the runner is not made
\* for, or the server cannot hold, is refused.
CopiedCellsAreTheColumn ==
    kind = "cells" =>
        /\ Cells!StoredIsTheColumn
        /\ Cells!OnlyKnownRefusals
        /\ Cells!ServerTypeFitsThePlan

\* A scenario's file holds its rows whatever the batch size; its columns can be
\* generated, planned and written by the backends listed for it, and its shapes
\* are on the side of the in-row limit they are named for.
ScenariosAreWhatTheySay ==
    kind = "scenario" =>
        /\ DatasetIsTheRows
        /\ NullsFollowTheSchema
        /\ ScenarioIsPlanned
        /\ DirectListIsWritable
        /\ BcpListIsExact
        /\ ShapesStraddleTheRowLimit

\* A command line runs what was given last, its defaults for the rest, and
\* nothing else; of all that is wrong with one the error names the first.
CommandsRunAsGiven ==
    kind = "commands" => Line!RejectionNamesFirstFault /\ Line!RunsAsGiven

\* A runner measures the benchmark xtask was asked for, in the table named by its
\* statements and on the server the connection string means, and xtask reports
\* what the runner measured.
RunnersRunTheBenchmark ==
    kind = "runner" =>
        /\ Handed!RunnerRunsTheBenchmark
        /\ Handed!StatementsNameTheTable
        /\ Handed!RunnerConnectsAsMeant
        /\ Handed!ReportIsTheRunners
=============================================================================
