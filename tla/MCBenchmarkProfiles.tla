------------------------ MODULE MCBenchmarkProfiles ------------------------
(***************************************************************************)
(* The three profiles of the benchmarks: that of SQL Server in xtask, with *)
(* its sampler; those of the ODBC runners, without; and the crate's own    *)
(* profile of the direct backends, over three tables and two orders of the *)
(* backends.  A behaviour is one run under one of them.                    *)
(***************************************************************************)
EXTENDS Naturals, Sequences

CONSTANTS Repeats,    \* --repeat
          MaxGrowth,  \* bound: steps of the server's counters
          MaxSamples, \* bound: samples of a run
          Null

VARIABLES profiled,   \* "server", "runner" or "direct"
          pc, repeat, result,     \* in xtask
          server, first, spans,   \* of the counters of the server
          answers, phase, final, write, sampler, target,
          runner, autocommit, stage, todo, reading, start, work, deltas, totals, pages,
          scenario, backends, profiling, batch, ranges, disabled, overrides, profile,
          request, merged, reports, wire

ofServer == <<answers, phase, final, write, sampler, target>>
ofRunner == <<runner, autocommit, stage, todo, reading, start, work, deltas, totals, pages>>
ofDirect == <<scenario, backends, profiling, batch, ranges, disabled, overrides, profile,
              request, merged, reports, wire>>
inXtask == <<pc, repeat>>
counted == <<server, first, spans>>
vars == <<profiled, inXtask, result, counted, ofServer, ofRunner, ofDirect>>
Unused == "unused"

-----------------------------------------------------------------------------
Server == INSTANCE ServerProfile WITH Waits <- {"network_io", "write_log"}, Files <- {1}

Runner == INSTANCE RunnerProfile WITH
    Waits <- {"network_io"}, Files <- {1}, Runners <- {"bcp", "arrow"}

\* Two ranges, one range, and a batch without rows.
Scenarios ==
    {[columns |-> <<"date", "binary">>,
      batches |-> <<<< <<4, 2>>, <<Null, Null>>, <<4, 2>> >>, << <<4, 2>> >> >>],
     [columns |-> <<"fixed", "fixed">>,
      batches |-> <<<< <<4, Null>>, <<4, 4>> >>, <<>> >>],
     [columns |-> <<"text", "bytes">>,
      batches |-> <<<< <<6, Null>>, <<0, 3>>, <<Null, 1>> >>, << <<2, 9>> >> >>]}

BackendLists ==
    {<<"direct-raw-no-date-fast-path", "baseline", "direct-raw">>,
     <<"direct-raw-no-fixed-fast-path", "direct-framed", "direct-raw-no-date-fast-path">>}

Direct == INSTANCE DirectProfile WITH MaxPayload <- 16, PacketSize <- 10

ASSUME /\ Server!SamplingAssumption /\ Server!GrowthAssumption
       /\ Runner!RunnerAssumption /\ Direct!ProfileAssumption

-----------------------------------------------------------------------------
ServerAtRest ==
    /\ answers = Unused /\ phase = Unused /\ final = Unused /\ write = Unused
    /\ sampler = Unused /\ target = Unused

RunnerAtRest ==
    /\ runner = Unused /\ autocommit = Unused /\ stage = Unused /\ todo = Unused
    /\ reading = Unused /\ start = Unused /\ work = Unused /\ deltas = Unused
    /\ totals = Unused /\ pages = Unused

DirectAtRest ==
    /\ scenario = Unused /\ backends = Unused /\ profiling = Unused /\ batch = Unused
    /\ ranges = Unused /\ disabled = Unused /\ overrides = Unused /\ profile = Unused
    /\ request = Unused /\ merged = Unused /\ reports = Unused /\ wire = Unused

XtaskAtRest == pc = Unused /\ repeat = Unused
CountersAtRest == server = Unused /\ first = Unused /\ spans = Unused

Init ==
    \/ profiled = "server" /\ Server!Init /\ RunnerAtRest /\ DirectAtRest
    \/ profiled = "runner" /\ Runner!Init /\ ServerAtRest /\ DirectAtRest /\ XtaskAtRest
    \/ profiled = "direct" /\ Direct!Init /\ ServerAtRest /\ RunnerAtRest /\ CountersAtRest

Session ==
    /\ profiled = "server" /\ Server!Session
    /\ UNCHANGED <<profiled, ofRunner, ofDirect>>

\* A direct backend's command ends with its last step, or its first error.
Next ==
    \/ Session
    \/ /\ profiled = "server"
       /\ Server!Sampling \/ Server!Counting \/ Server!Done
       /\ UNCHANGED <<profiled, ofRunner, ofDirect>>
    \/ /\ profiled = "runner" /\ Runner!Next
       /\ UNCHANGED <<profiled, inXtask, ofServer, ofDirect>>
    \/ /\ profiled = "direct" /\ Direct!Next
       /\ UNCHANGED <<profiled, counted, ofServer, ofRunner>>

\* The write and the statements around it make progress; select! polls both its
\* branches, so the sampler cannot keep the write from running.
Spec == Init /\ [][Next]_vars /\ WF_vars(Session)

-----------------------------------------------------------------------------
(* Properties *)

\* The totals of the server's profile are the sums of its phases, which count the
\* writes they are named for and nothing between them; a sample lies in the write
\* it is labelled with, and a profile that is reported has every repeat.
ServerProfileIsTheWrites ==
    profiled = "server" =>
        /\ Server!TotalsAreThePhases
        /\ Server!PhasesCountTheirWrites
        /\ Server!SamplesLieInTheirWrite
        /\ Server!ReportedProfileIsComplete

\* What a runner prints: every phase of its run in order, each counting its own
\* work, within totals that are measured and not added up.
RunnerProfileIsTheRun ==
    profiled = "runner" =>
        /\ Runner!PhasesAreWithinTheTotals
        /\ Runner!PhasesCountTheirWork
        /\ Runner!PrintedProfileIsTheRun

\* The profile of a direct backend counts what it handed over in its repeats, by
\* the encoder it asks for, and leaves neither a profile nor a switch to the
\* backend that runs after it on the thread.
DirectProfileIsTheRun ==
    profiled = "direct" =>
        /\ Direct!ProfileIsTheRun
        /\ Direct!EncodedAsAsked
        /\ Direct!ThreadIsLeftAsFound
        /\ Direct!ProfileKeepsToTheWire

\* A profiled run ends: the sampler does not keep the measured write from
\* completing, and its error ends the run.
ProfiledRunEnds == <>(profiled = "server" => pc = "done")
=============================================================================
