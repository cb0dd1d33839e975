--------------------------- MODULE ServerProfile ---------------------------
(***************************************************************************)
(* SqlServerProfileSession of the benchmark of the Tiberius backends       *)
(* (xtask/src/writer_bench.rs and writer_bench/sqlserver_profile.rs): a    *)
(* second connection, the observer, reads the server's counters before and *)
(* after every write, and samples the writer's activity while it runs.     *)
(* The sampler and the write are the two branches of one select!, so one   *)
(* of them is dropped where it stands when the other is done: the          *)
(* observer may be left with the answer of a query nobody reads.           *)
(***************************************************************************)
EXTENDS ProfiledServer, Sequences, SequencesExt

CONSTANTS Repeats,     \* --repeat
          MaxSamples   \* bound: samples of a run

SamplingAssumption == {Repeats, MaxSamples} \subseteq Nat \ {0}

VARIABLES answers,  \* answers on the observer connection, not read yet
          pc,       \* where sample_phase or its caller is
          phase,    \* "write_batch" or "finish"
          repeat,   \* repeat_index
          first,    \* readings at the start of the phase
          final,    \* readings at its end
          write,    \* the measured future: "idle", "running", "ok", "failed",
                    \* "dropped"
          sampler,  \* "off", "ticking" or "reading"
          target,   \* SqlServerProfileTarget
          result,   \* "running", "ok", "write", "snapshot" or "sampler"
          spans     \* ghost: the phases with the counters as they were

vars == <<server, answers, pc, phase, repeat, first, final, write, sampler,
          target, result, spans>>
caller == <<phase, repeat>>
readings == <<first, final>>
futures == <<write, sampler>>

-----------------------------------------------------------------------------
(* The observer connection *)

\* A new query first reads to its end the answer of the one before.
FlushStream(queue) == <<>>

Asked == Append(FlushStream(answers), server)

\* A query and its answer, read by the same step.
Query(step, next) ==
    /\ pc = step /\ pc' = next
    /\ answers' = Tail(Asked)

\* `?` of a snapshot: the error replaces everything else.
SnapshotFails ==
    /\ pc \in {"first_waits", "first_files", "first_connection", "final_waits",
               "final_files", "final_connection", "pages"}
    /\ pc' = "done" /\ result' = "snapshot"
    /\ answers' = Tail(Asked)
    /\ UNCHANGED <<server, caller, readings, futures, target, spans>>

-----------------------------------------------------------------------------
(* sample_phase *)

FirstWaits ==
    /\ Query("first_waits", "first_files")
    /\ first' = [first EXCEPT !.waits = Head(Asked).waits]
    /\ spans' = Append(spans, [name |-> phase, repeat |-> repeat, opened |-> server,
                               started |-> server, stopped |-> server, closed |-> server,
                               over |-> FALSE])
    /\ UNCHANGED <<server, caller, final, futures, target, result>>

FirstFiles ==
    /\ Query("first_files", "first_connection")
    /\ first' = [first EXCEPT !.files = Head(Asked).files]
    /\ UNCHANGED <<server, caller, final, futures, target, result, spans>>

\* The futures are made after the last snapshot; the first tick of the interval
\* comes at once and takes no sample.
FirstConnection ==
    /\ Query("first_connection", "select")
    /\ first' = [first EXCEPT !.reads = Head(Asked).reads]
    /\ write' = "running" /\ sampler' = "ticking"
    /\ spans' = [spans EXCEPT ![Len(spans)].started = server]
    /\ UNCHANGED <<server, caller, final, target, result>>

\* Mutant: the write is polled only between samples.
WritePolledBetweenSamples(end) ==
    /\ sampler = "ticking"
    /\ pc = "select" /\ write = "running"
    /\ write' = end /\ sampler' = "off"
    /\ pc' = "final_waits"
    /\ spans' = [spans EXCEPT ![Len(spans)].stopped = server]
    /\ UNCHANGED <<server, answers, caller, readings, target, result>>

\* The write is done: the sampler is dropped, a query of it included.
WriteCompletes(end) ==
    /\ pc = "select" /\ write = "running"
    /\ write' = end /\ sampler' = "off"
    /\ pc' = "final_waits"
    /\ spans' = [spans EXCEPT ![Len(spans)].stopped = server]
    /\ UNCHANGED <<server, answers, caller, readings, target, result>>

WriteSucceeds == WriteCompletes("ok")
WriteFails == WriteCompletes("failed")

\* The three queries of an activity snapshot are one.
SampleAsks ==
    /\ pc = "select" /\ sampler = "ticking"
    /\ Len(target.samples) < MaxSamples
    /\ sampler' = "reading"
    /\ answers' = Asked
    /\ UNCHANGED <<server, pc, caller, readings, write, target, result, spans>>

SampleReads ==
    /\ pc = "select" /\ sampler = "reading"
    /\ sampler' = "ticking"
    /\ target' = [target EXCEPT !.samples =
                    Append(@, [phase |-> phase, repeat |-> repeat,
                               reads |-> Head(answers).reads])]
    /\ answers' = Tail(answers)
    /\ UNCHANGED <<server, pc, caller, readings, write, result, spans>>

\* `?` in the handler of select! leaves sample_phase at once: the write is dropped,
\* nothing of the phase is read or merged, and the run ends with the sampler's error.
SampleFails ==
    /\ pc = "select" /\ sampler = "reading"
    /\ sampler' = "off" /\ write' = "dropped"
    /\ answers' = Tail(answers)
    /\ pc' = "done" /\ result' = "sampler"
    /\ spans' = [spans EXCEPT ![Len(spans)].stopped = server]
    /\ UNCHANGED <<server, caller, readings, target>>

\* Each total is merged as soon as its snapshot is there.
FinalWaits ==
    /\ Query("final_waits", "final_files")
    /\ final' = [final EXCEPT !.waits = Head(Asked).waits]
    /\ target' = [target EXCEPT !.totals.waits =
                    MergedWaits(@, WaitDeltas(first.waits, Head(Asked).waits))]
    /\ UNCHANGED <<server, caller, first, futures, result, spans>>

FinalFiles ==
    /\ Query("final_files", "final_connection")
    /\ final' = [final EXCEPT !.files = Head(Asked).files]
    /\ target' = [target EXCEPT !.totals.files =
                    MergedFiles(@, FileDeltas(first.files, Head(Asked).files))]
    /\ UNCHANGED <<server, caller, first, futures, result, spans>>

PhaseDelta(initial, last) ==
    [waits |-> WaitDeltas(initial.waits, last.waits),
     files |-> FileDeltas(initial.files, last.files),
     connection |-> ConnectionDelta(initial.reads, last.reads)]

\* The phase is merged, and the write's own result returned: an error of it ends
\* the repeat and the run.
FinalConnection ==
    /\ pc = "final_connection"
    /\ answers' = Tail(Asked)
    /\ LET delta == PhaseDelta(first, [final EXCEPT !.reads = Head(Asked).reads]) IN
       target' = [target EXCEPT
                    !.totals.connection = MergedConnection(@, delta.connection),
                    !.phases = MergedPhase(@, phase, delta)]
    /\ first' = NoReading /\ final' = NoReading
    /\ write' = "idle"
    /\ spans' = [spans EXCEPT ![Len(spans)].closed = server, ![Len(spans)].over = TRUE]
    /\ CASE write = "ok" -> pc' = "returned" /\ UNCHANGED result
         [] write = "failed" -> pc' = "done" /\ result' = "write"
    /\ UNCHANGED <<server, caller, sampler>>

-----------------------------------------------------------------------------
(* run_tiberius_repeat_with_batches and run_tiberius_benchmark_from_ipc *)

\* `finish` follows the writing of the batches; both have the same repeat.
FinishFollows ==
    /\ pc = "returned" /\ phase = "write_batch"
    /\ phase' = "finish" /\ pc' = "first_waits"
    /\ UNCHANGED <<server, answers, repeat, readings, futures, target, result, spans>>

\* The count and the contents are validated by the writer's connection.
Validated ==
    /\ pc = "returned" /\ phase = "finish"
    /\ pc' = "pages"
    /\ UNCHANGED <<server, answers, caller, readings, futures, target, result, spans>>

ValidationFails ==
    /\ pc = "returned" /\ phase = "finish"
    /\ pc' = "done" /\ result' = "write"
    /\ UNCHANGED <<server, answers, caller, readings, futures, target, spans>>

\* next_repeat_index for the repeat after it; the target is copied into the
\* report after the last.
SnapshotTablePages ==
    /\ pc = "pages"
    /\ answers' = Tail(Asked)
    /\ target' = [target EXCEPT !.pages = Append(@, repeat)]
    /\ phase' = "write_batch"
    /\ repeat' = repeat + 1
    /\ IF repeat' = Repeats
         THEN pc' = "done" /\ result' = "ok"
         ELSE pc' = "first_waits" /\ UNCHANGED result
    /\ UNCHANGED <<server, readings, futures, spans>>

NoTarget == [totals |-> NoDeltas, phases |-> <<>>, samples |-> <<>>, pages |-> <<>>]

Init ==
    /\ ServerInit
    /\ answers = <<>>
    /\ pc = "first_waits"
    /\ phase = "write_batch" /\ repeat = 0
    /\ first = NoReading /\ final = NoReading
    /\ write = "idle" /\ sampler = "off"
    /\ target = NoTarget
    /\ result = "running"
    /\ spans = <<>>

Done == pc = "done" /\ UNCHANGED vars

Session ==
    \/ FirstWaits \/ FirstFiles \/ FirstConnection \/ SnapshotFails
    \/ WriteSucceeds \/ WriteFails
    \/ FinalWaits \/ FinalFiles \/ FinalConnection
    \/ FinishFollows \/ Validated \/ ValidationFails \/ SnapshotTablePages

Sampling == SampleAsks \/ SampleReads \/ SampleFails

Counting ==
    /\ result = "running"
    /\ ServerCounts
    /\ UNCHANGED <<answers, pc, caller, readings, futures, target, result, spans>>

Next == Session \/ Sampling \/ Counting \/ Done

\* The write and the statements around it make progress; select! polls both its
\* branches, so the sampler cannot keep the write from running.
Spec == Init /\ [][Next]_vars /\ WF_vars(Session)

-----------------------------------------------------------------------------
(* Properties *)

\* No phase is merged in part.
BetweenPhases ==
    pc \in {"first_waits", "returned", "pages", "done"} /\ result # "snapshot"

SumOver(phases) ==
    FoldFunctionOnSet(Merged, NoDeltas, phases, DOMAIN phases)

\* The totals of a profile are the sums of its phases, which the code adds up
\* separately and in separate steps; the last read of the totals is that of the
\* phase that was closed last.
TotalsAreThePhases ==
    BetweenPhases =>
        /\ target.totals.waits = SumOver(target.phases).waits
        /\ target.totals.files = SumOver(target.phases).files
        /\ target.totals.connection.reads = SumOver(target.phases).connection.reads
        /\ \A p \in DOMAIN target.phases :
              target.phases[p].connection.last <= target.totals.connection.last

SpansOf(name) == {i \in DOMAIN spans : spans[i].name = name /\ spans[i].over}
Sum(name, Grown(_)) == MapThenSumSet(Grown, SpansOf(name))

\* What a phase reports is at least what the server counted while its writes ran
\* and at most what it counted from their first snapshot to their last: nothing
\* of a write is missed, although the sampler is dropped with a query under way,
\* and nothing of the time between the phases is in it, nor of a phase that lost
\* its sampler.
PhasesCountTheirWrites ==
    \A p \in DOMAIN target.phases :
        /\ \A w \in Waits : \A c \in {"tasks", "ms"} :
              LET Of(reading) == At(reading.waits, w, NoWait)[c]
                  counted == At(target.phases[p].waits, w, NoWait)[c]
              IN /\ Sum(p, LAMBDA i : Of(spans[i].stopped) - Of(spans[i].started)) <= counted
                 /\ counted <= Sum(p, LAMBDA i : Of(spans[i].closed) - Of(spans[i].opened))
        /\ \A f \in Files :
              LET Of(reading) == At(reading.files, f, 0)
                  counted == At(target.phases[p].files, f, 0)
              IN /\ Sum(p, LAMBDA i : Of(spans[i].stopped) - Of(spans[i].started)) <= counted
                 /\ counted <= Sum(p, LAMBDA i : Of(spans[i].closed) - Of(spans[i].opened))
        /\ LET counted == target.phases[p].connection.reads
           IN /\ Sum(p, LAMBDA i : spans[i].stopped.reads - spans[i].started.reads) <= counted
              /\ counted <= Sum(p, LAMBDA i : spans[i].closed.reads - spans[i].opened.reads)

\* A sample tells the activity of the write it is labelled with: it was taken
\* between the start and the end of the write of that phase and repeat.
SamplesLieInTheirWrite ==
    \A k \in DOMAIN target.samples :
        \E i \in DOMAIN spans :
            LET sample == target.samples[k] IN
            /\ spans[i].name = sample.phase /\ spans[i].repeat = sample.repeat
            /\ spans[i].started.reads <= sample.reads
            /\ (i < Len(spans) \/ pc # "select") => sample.reads <= spans[i].stopped.reads

\* The profile of a run that returns is complete: each repeat has both phases
\* and the pages of its table.  A run that loses a phase returns an error.
ReportedProfileIsComplete ==
    result = "ok" =>
        /\ target.pages = [k \in 1 .. Repeats |-> k - 1]
        /\ DOMAIN target.phases = {"write_batch", "finish"}
        /\ \A p \in {"write_batch", "finish"}, r \in 0 .. Repeats - 1 :
              Cardinality({i \in SpansOf(p) : spans[i].repeat = r}) = 1

=============================================================================
