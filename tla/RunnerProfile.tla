--------------------------- MODULE RunnerProfile ---------------------------
(***************************************************************************)
(* The SQL Server profiles of the two ODBC runners                         *)
(* (xtask/odbc-bcp-runner/src/main.rs, arrow-odbc-runner/src/main.rs):     *)
(* each phase is read before and after it, and the run from the start of   *)
(* the profile to `finish`, with no sampling.  The arrow-odbc runner does  *)
(* not read the connection and its run is finished even if it failed.      *)
(***************************************************************************)
EXTENDS ProfiledServer, Sequences, SequencesExt

CONSTANTS Runners,   \* subset of {"bcp", "arrow"}
          Repeats    \* --repeat

RunnerAssumption == Repeats \in Nat \ {0}

VARIABLES runner, autocommit,  \* of the arrow-odbc runner
          stage,     \* "start", "open", "work", "close", "pages", "finish", "done"
          todo,      \* counters still to be read in this stage
          reading,   \* counters read in this stage
          start,     \* the reading at the start of the run
          first,     \* the reading at the start of the phase
          work,      \* of the phase: "ok" or "failed"
          deltas,    \* phase_deltas
          totals,    \* the deltas of the run
          pages,     \* table_page_snapshots: the repeats
          result,    \* "running", "ok" or "error"
          spans      \* ghost: of each phase, the counters as they were

vars == <<server, runner, autocommit, stage, todo, reading, start, first, work,
          deltas, totals, pages, result, spans>>
options == <<runner, autocommit>>

-----------------------------------------------------------------------------
(* The phases of a run *)

BcpPhases == FlattenSeq([r \in 1 .. Repeats |-> <<"copy_and_bcp_batch", "bcp_done">>])

ArrowPhases ==
    [r \in 1 .. Repeats |-> "insert"] \o (IF autocommit THEN <<>> ELSE <<"commit">>)

Phases == IF runner = "bcp" THEN BcpPhases ELSE ArrowPhases
Current == Phases[Len(deltas) + 1]

\* What a stage reads, in this order.
Counters(of) ==
    IF runner = "arrow" THEN <<"waits", "files">>
    ELSE IF of = "start" THEN <<"reads", "waits", "files">>
    ELSE <<"waits", "files", "reads">>

Enter(of) ==
    /\ stage' = of
    /\ todo' = IF of \in {"start", "open", "close", "finish"} THEN Counters(of) ELSE <<>>
    /\ reading' = NoReading

\* A phase is opened while one is left, unless the last failed: an error of the
\* bcp runner leaves the function, one of the other goes to `finish`.
After(failed, done) ==
    IF failed THEN IF runner = "bcp" THEN "done" ELSE "finish"
    ELSE IF runner = "bcp" /\ done # 0 /\ done % 2 = 0 /\ Len(pages) < done \div 2 THEN "pages"
    ELSE IF done < Len(Phases) THEN "open" ELSE "finish"

-----------------------------------------------------------------------------
(* Reading *)

Read ==
    /\ todo # <<>>
    /\ reading' = [reading EXCEPT ![Head(todo)] = server[Head(todo)]]
    /\ todo' = Tail(todo)
    /\ spans' = IF stage = "open" /\ todo = Counters("open")
                  THEN Append(spans, [opened |-> server, started |-> server,
                                      stopped |-> server, closed |-> server])
                  ELSE spans
    /\ UNCHANGED <<server, options, stage, start, first, work, deltas, totals, pages, result>>

\* `?` of a query, of a column that is NULL or does not parse.  The error of a
\* snapshot after the work replaces the result of the work, and no delta of the
\* phase is kept.  finish of the bcp runner is only reached by a run without error.
ReadFails ==
    /\ todo # <<>> \/ stage = "pages"
    /\ result' = "error"
    /\ IF stage \in {"start", "finish"} \/ runner = "bcp" \/ Current = "commit"
         THEN Enter("done") ELSE Enter("finish")
    /\ spans' = SubSeq(spans, 1, Len(deltas))
    /\ UNCHANGED <<server, options, start, first, work, deltas, totals, pages>>

Started ==
    /\ stage = "start" /\ todo = <<>>
    /\ start' = reading
    /\ Enter(After(FALSE, 0))
    /\ UNCHANGED <<server, options, first, work, deltas, totals, pages, result, spans>>

-----------------------------------------------------------------------------
(* capture_phase *)

\* Mutant: every phase is measured from the start of the run.
OpenedAtStart ==
    /\ stage = "open" /\ todo = <<>>
    /\ first' = start
    /\ Enter("work")
    /\ spans' = [spans EXCEPT ![Len(spans)].started = server]
    /\ UNCHANGED <<server, options, start, work, deltas, totals, pages, result>>

Opened ==
    /\ stage = "open" /\ todo = <<>>
    /\ first' = reading
    /\ Enter("work")
    /\ spans' = [spans EXCEPT ![Len(spans)].started = server]
    /\ UNCHANGED <<server, options, start, work, deltas, totals, pages, result>>

Worked(end) ==
    /\ stage = "work"
    /\ work' = end
    /\ Enter("close")
    /\ spans' = [spans EXCEPT ![Len(spans)].stopped = server]
    /\ UNCHANGED <<server, options, start, first, deltas, totals, pages, result>>

BcpDeltas(initial, final) ==
    [waits |-> WaitDeltas(initial.waits, final.waits),
     files |-> FileDeltas(initial.files, final.files),
     connection |-> ConnectionDelta(initial.reads, final.reads)]

ArrowDeltas(initial, final) ==
    [waits |-> WaitDeltas(initial.waits, final.waits),
     files |-> FileDeltas(initial.files, final.files),
     connection |-> NoConnection]

Deltas(initial, final) ==
    IF runner = "bcp" THEN BcpDeltas(initial, final) ELSE ArrowDeltas(initial, final)

\* The delta is pushed also when the work failed.  A failed commit leaves the
\* arrow-odbc runner at once.
Closed ==
    /\ stage = "close" /\ todo = <<>>
    /\ deltas' = Append(deltas, [phase |-> Current, delta |-> Deltas(first, reading)])
    /\ result' = IF work = "failed" THEN "error" ELSE result
    /\ IF work = "failed" /\ Current = "commit"
         THEN Enter("done")
         ELSE Enter(After(work = "failed", Len(deltas) + 1))
    /\ spans' = [spans EXCEPT ![Len(spans)].closed = server]
    /\ UNCHANGED <<server, options, start, first, work, totals, pages>>

\* Of the bcp runner, after the rows of a repeat are counted.
SnapshotTablePages ==
    /\ stage = "pages"
    /\ pages' = Append(pages, Len(pages))
    /\ Enter(IF Len(deltas) < Len(Phases) THEN "open" ELSE "finish")
    /\ UNCHANGED <<server, options, start, first, work, deltas, totals, result, spans>>

\* finish; the run's own error is returned after it.
Finish ==
    /\ stage = "finish" /\ todo = <<>>
    /\ totals' = Deltas(start, reading)
    /\ result' = IF result = "error" THEN "error" ELSE "ok"
    /\ Enter("done")
    /\ UNCHANGED <<server, options, start, first, work, deltas, pages, spans>>

Counting ==
    /\ result = "running" /\ ServerCounts
    /\ UNCHANGED <<options, stage, todo, reading, start, first, work, deltas, totals,
                   pages, result, spans>>

Init ==
    /\ ServerInit
    /\ runner \in Runners
    /\ autocommit \in IF runner = "arrow" THEN BOOLEAN ELSE {FALSE}
    /\ stage = "start" /\ todo = Counters("start") /\ reading = NoReading
    /\ start = NoReading /\ first = NoReading
    /\ work = "ok"
    /\ deltas = <<>> /\ totals = NoDeltas /\ pages = <<>>
    /\ result = "running"
    /\ spans = <<>>

Done == stage = "done" /\ UNCHANGED vars

Next ==
    \/ Read \/ ReadFails \/ Started \/ Opened \/ Worked("ok") \/ Worked("failed")
    \/ Closed \/ SnapshotTablePages \/ Finish \/ Counting \/ Done

Spec == Init /\ [][Next]_vars

-----------------------------------------------------------------------------
(* Properties *)

Tasks(delta, w) == At(delta.waits, w, NoWait).tasks
Ms(delta, w) == At(delta.waits, w, NoWait).ms
Io(delta, f) == At(delta.files, f, 0)

SumOfPhases(Of(_)) == MapThenSumSet(LAMBDA i : Of(deltas[i].delta), DOMAIN deltas)

\* The totals of a printed profile hold everything its phases hold: they are
\* computed from the first reading of the run, not added up.
PhasesAreWithinTheTotals ==
    result = "ok" =>
        /\ \A w \in Waits :
              /\ SumOfPhases(LAMBDA d : Tasks(d, w)) <= Tasks(totals, w)
              /\ SumOfPhases(LAMBDA d : Ms(d, w)) <= Ms(totals, w)
        /\ \A f \in Files : SumOfPhases(LAMBDA d : Io(d, f)) <= Io(totals, f)
        /\ SumOfPhases(LAMBDA d : d.connection.reads) <= totals.connection.reads

\* The entry of a phase counts all of its work and nothing before its first or
\* after its last snapshot.
PhasesCountTheirWork ==
    \A i \in DOMAIN deltas :
        LET span == spans[i]
            Counted(Of(_), n) ==
                /\ Of(span.stopped) - Of(span.started) <= n
                /\ n <= Of(span.closed) - Of(span.opened)
        IN /\ \A w \in Waits :
                 /\ Counted(LAMBDA r : Tasks(r, w), Tasks(deltas[i].delta, w))
                 /\ Counted(LAMBDA r : Ms(r, w), Ms(deltas[i].delta, w))
           /\ \A f \in Files : Counted(LAMBDA r : Io(r, f), Io(deltas[i].delta, f))
           /\ runner = "bcp" =>
                 Counted(LAMBDA r : r.reads, deltas[i].delta.connection.reads)

\* A run that returns Ok prints every phase of it, in order, and the pages of
\* every table; what is printed of a run never skips a phase.
PrintedProfileIsTheRun ==
    /\ \A i \in DOMAIN deltas : deltas[i].phase = Phases[i]
    /\ result = "ok" => /\ Len(deltas) = Len(Phases)
                        /\ runner = "bcp" => pages = [r \in 1 .. Repeats |-> r - 1]
=============================================================================
