--------------------------- MODULE CommandOptions ---------------------------
(***************************************************************************)
(* The option parsers of the commands: those of xtask (xtask/src/main.rs   *)
(* and writer_bench.rs) and those of the two ODBC runners, which xtask     *)
(* starts with arguments of its own.  Each parser is the same loop over    *)
(* the arguments with its own set of options, kept as one function from    *)
(* option to value.                                                        *)
(*                                                                         *)
(* An argument is a token.  Numerals and Lists say what the tokens that    *)
(* are numbers and lists of names stand for.                               *)
(***************************************************************************)
EXTENDS Naturals, Sequences, SequencesExt

CONSTANTS Numerals,     \* token |-> [is, bits]: the number as it is printed, and its width
          Lists,        \* token |-> the pieces between its commas, trimmed
          Scenarios,    \* names of the table SCENARIOS
          Templates     \* tokens that hold a CREATE TABLE with the placeholder

VARIABLES command,      \* whose parser reads
          args,         \* the process's arguments
          index,        \* the next to read
          options,      \* option |-> value so far
          sampling,     \* --sqlserver-profile-sample-ms, kept until the end
          outcome       \* [is, kind, of]: reading, parsed, help or error

parserVars == <<command, args, index, options, sampling, outcome>>

-----------------------------------------------------------------------------
(* The options of each command *)

NotUtf8 == "<not utf-8>"
None == "<none>"
Help == {"-h", "--help"}

SummaryOptions == {"--rows", "--batch-size", "--scenario", "--repeat", "--output"}
IpcOptions == {"--path", "--rows", "--batch-size", "--scenario"}
TestOptions ==
    {"--container-runtime", "--connection-string", "--image", "--database", "--keep-container"}
ProbeOptions == TestOptions \cup {"--version", "--compatibility-level"}
BaselineOptions == SummaryOptions \cup TestOptions \cup {"--tds-packet-size"}
ArrowOdbcOptions == SummaryOptions \cup TestOptions \cup {"--runner-image", "--keep-runner-image"}
CompareOptions ==
    BaselineOptions \cup ArrowOdbcOptions \cup
    {"--backends", "--sqlserver-recovery-model", "--sqlserver-bulk-table-lock",
     "--profile-sqlserver", "--sqlserver-profile-sample-ms", "--arrow-odbc-autocommit",
     "--odbc-bcp-defer-batches", "--profile-direct"}
ArrowRunnerOptions ==
    {"--rows", "--batch-size", "--scenario", "--repeat", "--input-ipc",
     "--create-table-sql-template", "--profile-sqlserver", "--autocommit"}
BcpRunnerOptions == (ArrowRunnerOptions \ {"--autocommit"}) \cup {"--defer-batches"}

Runners == {"arrow-odbc runner", "odbc-bcp runner"}
Accepts ==
    [summary |-> SummaryOptions, ipc |-> IpcOptions, baseline |-> BaselineOptions,
     compare |-> CompareOptions] @@
    ("arrow-odbc" :> ArrowOdbcOptions) @@
    ("sqlserver-test" :> TestOptions) @@
    ("sqlserver-compat-probe" :> ProbeOptions) @@
    ("arrow-odbc runner" :> ArrowRunnerOptions) @@
    ("odbc-bcp runner" :> BcpRunnerOptions)

Flag ==
    {"--keep-container", "--keep-runner-image", "--sqlserver-bulk-table-lock",
     "--profile-sqlserver", "--arrow-odbc-autocommit", "--odbc-bcp-defer-batches",
     "--profile-direct", "--autocommit", "--defer-batches"}

-----------------------------------------------------------------------------
(* Values *)

Models == {"full", "bulk-logged", "simple"}
Backends ==
    {"baseline", "direct-framed", "direct-raw", "direct-raw-no-date-fast-path",
     "direct-raw-no-fixed-fast-path", "arrow-odbc", "odbc-bcp"}
Versions == {"2017", "2019", "2022", "2025"}

Fits(token, bits) == token \in DOMAIN Numerals /\ Numerals[token].bits <= bits
Positive(token, bits) == Fits(token, bits) /\ Numerals[token].is # "0"

\* The pieces of --backends are taken one by one, up to the first that is
\* empty, unknown or there already.
NextBackend(read, piece) ==
    IF read.fault # None THEN read
    ELSE IF piece = "" THEN [read EXCEPT !.fault = "empty backend"]
    ELSE IF piece \notin Backends THEN [read EXCEPT !.fault = "unknown backend"]
    ELSE IF Contains(read.names, piece) THEN [read EXCEPT !.fault = "repeated backend"]
    ELSE [read EXCEPT !.names = Append(@, piece)]
BackendsOf(token) ==
    FoldLeft(NextBackend, [names |-> <<>>, fault |-> None],
             IF token \in DOMAIN Lists THEN Lists[token] ELSE <<token>>)

\* What is wrong with the value of an option, or None.
Complaint(c, option, token) ==
    LET Known(set, complaint) == IF token \in set THEN None ELSE complaint
        Number(holds) == IF holds THEN None ELSE "invalid positive integer"
    IN  CASE option \in {"--rows", "--batch-size", "--repeat",
                         "--sqlserver-profile-sample-ms"} -> Number(Positive(token, 64))
          [] option = "--tds-packet-size" -> Number(Positive(token, 32))
          [] option = "--compatibility-level" ->
                 IF Fits(token, 16) THEN None ELSE "invalid compatibility level"
          [] option = "--scenario" /\ c \notin Runners -> Known(Scenarios, "unknown scenario")
          [] option = "--output" -> Known({"human"}, "unknown output")
          [] option = "--backends" -> BackendsOf(token).fault
          [] option = "--sqlserver-recovery-model" -> Known(Models, "unknown recovery model")
          [] option = "--version" -> Known(Versions, "unknown version")
          [] OTHER -> None

ValueOf(option, token) ==
    IF option = "--backends" THEN BackendsOf(token).names
    ELSE IF option \in {"--rows", "--batch-size", "--repeat", "--tds-packet-size",
                        "--sqlserver-profile-sample-ms", "--compatibility-level"}
    THEN Numerals[token].is
    ELSE token

\* The values an option has when it is not given.
SummaryDefaults ==
    ("--rows" :> "100000") @@ ("--batch-size" :> "8192") @@
    ("--scenario" :> "narrow_numeric") @@ ("--repeat" :> "1") @@ ("--output" :> "human")
ServerDefaults(c) ==
    ("--image" :> "mcr.microsoft.com/mssql/server:2017-latest") @@
    ("--database" :> IF c = "sqlserver-test" THEN "arrow_tiberius_integration"
                     ELSE "arrow_tiberius_benchmark")
CompareDefaults ==
    ("--backends" :> <<"baseline", "arrow-odbc">>) @@
    ("--runner-image" :> "arrow-tiberius-odbc-runner:local") @@
    ("--sqlserver-profile-sample-ms" :> "250")
ProbeDefaults ==
    ("--database" :> "arrow_tiberius_compat_probe") @@
    ("--version" :> "2017") @@ ("--compatibility-level" :> "100")

Defaults(c) ==
    LET given == IF c = "sqlserver-compat-probe" THEN ProbeDefaults @@ ServerDefaults(c)
                 ELSE SummaryDefaults @@ ServerDefaults(c) @@ CompareDefaults
    IN  [o \in Accepts[c] |-> IF o \in Flag THEN FALSE
                              ELSE IF o \in DOMAIN given THEN given[o] ELSE None]

-----------------------------------------------------------------------------
(* The loop *)

Reading == [is |-> "reading", kind |-> None, of |-> None]
Rejected(kind, of) == [is |-> "error", kind |-> kind, of |-> of]
Reads == outcome.is = "reading"

Argument == args[index]
HasArgument == Reads /\ index <= Len(args)
IsValued == Argument \in Accepts[command] \ Flag
HasValue == IsValued /\ index < Len(args)
Value == args[index + 1]

TakeFlag ==
    /\ HasArgument /\ Argument \in Accepts[command] \cap Flag
    /\ options' = [options EXCEPT ![Argument] = TRUE]
    /\ index' = index + 1
    /\ UNCHANGED <<command, args, sampling, outcome>>

SampleAfterProfile ==
    /\ HasArgument /\ HasValue /\ Argument = "--sqlserver-profile-sample-ms"
    /\ Value # NotUtf8 /\ Complaint(command, Argument, Value) = None
    /\ sampling' = ValueOf(Argument, Value)
    /\ outcome' = IF options["--profile-sqlserver"] THEN outcome
                  ELSE Rejected("sample without profile", Argument)
    /\ index' = index + 2
    /\ UNCHANGED <<command, args, options>>

TakeSample ==
    /\ HasArgument /\ HasValue /\ Argument = "--sqlserver-profile-sample-ms"
    /\ Value # NotUtf8 /\ Complaint(command, Argument, Value) = None
    /\ sampling' = ValueOf(Argument, Value)
    /\ index' = index + 2
    /\ UNCHANGED <<command, args, options, outcome>>

TakeValue ==
    /\ HasArgument /\ HasValue /\ Argument # "--sqlserver-profile-sample-ms"
    /\ Value # NotUtf8 /\ Complaint(command, Argument, Value) = None
    /\ options' = [options EXCEPT ![Argument] = ValueOf(Argument, Value)]
    /\ index' = index + 2
    /\ UNCHANGED <<command, args, sampling, outcome>>

RefuseValue ==
    /\ HasArgument /\ HasValue
    /\ Value # NotUtf8 /\ Complaint(command, Argument, Value) # None
    /\ outcome' = Rejected(Complaint(command, Argument, Value), Value)
    /\ UNCHANGED <<command, args, index, options, sampling>>

\* required_value: there is a next argument, and it is UTF-8.
MissingValue ==
    /\ HasArgument /\ IsValued
    /\ \/ index = Len(args) /\ outcome' = Rejected("missing value", Argument)
       \/ HasValue /\ Value = NotUtf8 /\ outcome' = Rejected("invalid utf-8", Value)
    /\ UNCHANGED <<command, args, index, options, sampling>>

RefuseArgument ==
    /\ HasArgument /\ Argument \notin Accepts[command]
    /\ \/ Argument = NotUtf8 /\ outcome' = Rejected("invalid utf-8", Argument)
       \/ /\ Argument # NotUtf8 /\ (Argument \in Help => command \in Runners)
          /\ outcome' = Rejected("unknown option", Argument)
    /\ UNCHANGED <<command, args, index, options, sampling>>

\* The help inside the loop: the options read so far are returned.
HelpInside ==
    /\ HasArgument /\ Argument \in Help /\ command \notin Runners
    /\ outcome' = [is |-> "parsed", kind |-> "helped", of |-> Argument]
    /\ UNCHANGED <<command, args, index, options, sampling>>

ReadArgument ==
    \/ TakeFlag \/ TakeSample \/ TakeValue \/ RefuseValue
    \/ MissingValue \/ RefuseArgument \/ HelpInside

\* What a parser asks after the last argument: of ipc its file, of compare that
\* a sample interval has a profile to be used in.
EndOfOptions ==
    /\ Reads /\ index > Len(args) /\ command \notin Runners
    /\ IF command = "ipc" /\ options["--path"] = None
       THEN outcome' = Rejected("missing path", None) /\ UNCHANGED options
       ELSE IF sampling # None /\ ~options["--profile-sqlserver"]
       THEN outcome' = Rejected("sample without profile", None) /\ UNCHANGED options
       ELSE /\ outcome' = [Reading EXCEPT !.is = "parsed"]
            /\ options' = IF sampling = None THEN options
                          ELSE [options EXCEPT !["--sqlserver-profile-sample-ms"] = sampling]
    /\ UNCHANGED <<command, args, index, sampling>>

\* The runners ask for their file and for a statement with the placeholder.
EndOfRunnerOptions ==
    /\ Reads /\ index > Len(args) /\ command \in Runners
    /\ outcome' =
         IF options["--input-ipc"] = None THEN Rejected("missing input", None)
         ELSE IF options["--create-table-sql-template"] = None
         THEN Rejected("missing template", None)
         ELSE IF options["--create-table-sql-template"] \notin Templates
         THEN Rejected("no placeholder", None)
         ELSE [Reading EXCEPT !.is = "parsed"]
    /\ UNCHANGED <<command, args, index, options, sampling>>
=============================================================================
