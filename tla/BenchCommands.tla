---------------------------- MODULE BenchCommands ----------------------------
(***************************************************************************)
(* The command line of xtask: which command the arguments name             *)
(* (xtask/src/main.rs, run; xtask/src/writer_bench.rs, run), and what its  *)
(* parser (CommandOptions) makes of the rest.  `words` and `groups` are    *)
(* what the user meant: the command's words, and each option with the      *)
(* value written after it.                                                 *)
(***************************************************************************)
EXTENDS CommandOptions

CONSTANTS Dashed,       \* tokens that begin with a dash
          CommandLines  \* the [words, groups] of the instance

VARIABLES words, groups

vars == <<parserVars, words, groups>>

-----------------------------------------------------------------------------
(* Which command *)

Dispatching == outcome.is = "dispatching"
Enter(c, from) ==
    /\ command' = c /\ index' = from /\ options' = Defaults(c) /\ outcome' = Reading
    /\ UNCHANGED <<args, sampling, words, groups>>
Leave(is, kind) ==
    /\ outcome' = [is |-> is, kind |-> kind, of |-> None]
    /\ UNCHANGED <<command, args, index, options, sampling, words, groups>>

AsksForHelp(from) == \E i \in from .. Len(args) : args[i] \in Help
IsFirst(tokens) == args # <<>> /\ Head(args) \in tokens

\* The help of xtask, also for a first argument that is not UTF-8.
TopLevelHelp ==
    /\ Dispatching /\ (args # <<>> => Head(args) \in Help \cup {NotUtf8})
    /\ Leave("help", None)

UnknownTask ==
    /\ Dispatching /\ args # <<>>
    /\ Head(args) \notin Help \cup {NotUtf8, "sqlserver-test", "sqlserver-compat-probe",
                                   "writer-bench"}
    /\ Leave("error", "unknown command")

SqlServerTask ==
    /\ Dispatching /\ IsFirst({"sqlserver-test", "sqlserver-compat-probe"})
    /\ IF AsksForHelp(2) THEN Leave("help", None) ELSE Enter(Head(args), 2)

Benchmarks == {"baseline", "arrow-odbc", "compare", "ipc"}

WriterBench ==
    /\ Dispatching /\ IsFirst({"writer-bench"})
    /\ IF Len(args) = 1 THEN Leave("help", None)
       ELSE IF args[2] \in Help THEN Leave("help", None)
       ELSE IF args[2] \in Benchmarks
       THEN IF AsksForHelp(3) THEN Leave("help", None) ELSE Enter(args[2], 3)
       ELSE IF args[2] # NotUtf8 /\ args[2] \notin Dashed
       THEN Leave("error", "unknown command")
       ELSE Enter("summary", 2)

-----------------------------------------------------------------------------
Init ==
    \E line \in CommandLines :
       /\ words = line.words /\ groups = line.groups
       /\ args = line.words \o FlattenSeq(line.groups)
       /\ command = None /\ index = 1 /\ options = <<>> /\ sampling = None
       /\ outcome = [Reading EXCEPT !.is = "dispatching"]

Dispatch == TopLevelHelp \/ UnknownTask \/ SqlServerTask \/ WriterBench
Parse == (ReadArgument \/ EndOfOptions) /\ UNCHANGED <<words, groups>>
Next == Dispatch \/ Parse

Spec == Init /\ [][Next]_vars

-----------------------------------------------------------------------------
(* Properties *)

Given == 1 .. Len(groups)

\* What is wrong with an option as it was written, or None.
FaultOf(group) ==
    LET option == group[1]
    IN  IF option = NotUtf8 THEN "invalid utf-8"
        ELSE IF option \notin Accepts[command] THEN "unknown option"
        ELSE IF option \in Flag THEN None
        ELSE IF Len(group) = 1 THEN "missing value"
        ELSE IF group[2] = NotUtf8 THEN "invalid utf-8"
        ELSE Complaint(command, option, group[2])

\* Of all that is wrong with a command line, the error names the first: an
\* option is refused at its place, and only a line whose every option is right
\* is refused for what it lacks as a whole.
RejectionNamesFirstFault ==
    outcome.is = "error" /\ command # None =>
        LET faulty == {i \in Given : FaultOf(groups[i]) # None}
            gives(o) == \E i \in Given : groups[i][1] = o
        IN  IF faulty # {}
            THEN /\ outcome.kind = FaultOf(groups[Min(faulty)])
                 /\ outcome.of # None
            ELSE \/ outcome.kind = "missing path" /\ command = "ipc" /\ ~gives("--path")
                 \/ /\ outcome.kind = "sample without profile" /\ command = "compare"
                    /\ gives("--sqlserver-profile-sample-ms") /\ ~gives("--profile-sqlserver")

\* A command runs with what was asked of it: every option has the value it was
\* last given, whatever came between and in whatever order (an interval may
\* come before the profile it is of), or its default; nothing given was passed
\* over; and a line that asks for help anywhere, be it as a value, runs nothing
\* but the summary.
RunsAsGiven ==
    outcome.is = "parsed" =>
        LET read == IF outcome.kind = "helped"
                    THEN {i \in Given : \A j \in 1 .. i : groups[j][1] \notin Help}
                    ELSE Given
            last(o) == {i \in read : groups[i][1] = o}
        IN  /\ (\E i \in Given : ToSet(groups[i]) \cap Help # {}) => command = "summary"
            /\ \A i \in read : FaultOf(groups[i]) = None
            /\ \A o \in Accepts[command] :
                 options[o] = IF last(o) = {} THEN Defaults(command)[o]
                              ELSE IF o \in Flag THEN TRUE
                              ELSE ValueOf(o, groups[Max(last(o))][2])
=============================================================================
