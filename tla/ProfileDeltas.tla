--------------------------- MODULE ProfileDeltas ---------------------------
(***************************************************************************)
(* What the SQL Server profile computes from two readings of the server's  *)
(* counters: the deltas, and the sums of deltas of several phases          *)
(* (xtask/src/writer_bench.rs).                                            *)
(*                                                                         *)
(* A reading is a record: `waits`, a function from the wait types the      *)
(* session has met to [tasks, ms]; `files`, from the files of the database *)
(* to a counter (the code has six for each file, all treated alike); and   *)
(* `reads`, the packets read by the connection.  A list of deltas sorted   *)
(* for printing is the function from its keys to the deltas.               *)
(***************************************************************************)
EXTENDS Integers, FiniteSets, Functions, FiniteSetsExt

NoWait == [tasks |-> 0, ms |-> 0]

\* Value of a key, `zero` before the server lists it.
At(reading, key, zero) == IF key \in DOMAIN reading THEN reading[key] ELSE zero

CounterDelta(initial, final) == final - initial

WaitDelta(initial, final) ==
    [tasks |-> CounterDelta(initial.tasks, final.tasks),
     ms |-> CounterDelta(initial.ms, final.ms)]

\* sql_server_session_wait_deltas: a wait that neither began nor lasted is left
\* out.
WaitDeltas(initial, final) ==
    LET delta == [w \in DOMAIN final |-> WaitDelta(At(initial, w, NoWait), final[w])]
    IN Restrict(delta, {w \in DOMAIN delta : delta[w].tasks > 0 \/ delta[w].ms > 0})

\* sql_server_database_file_io_deltas: every file is kept.
FileDeltas(initial, final) ==
    [f \in DOMAIN final |-> CounterDelta(At(initial, f, 0), final[f])]

\* sql_server_connection_delta: the time of the last read is not a counter; it
\* is told here by the number of that read.
ConnectionDelta(initial, final) ==
    [reads |-> CounterDelta(initial, final), last |-> final]

-----------------------------------------------------------------------------
(* Merging *)

MergedWaits(target, source) ==
    [w \in DOMAIN target \cup DOMAIN source |->
        [tasks |-> At(target, w, NoWait).tasks + At(source, w, NoWait).tasks,
         ms |-> At(target, w, NoWait).ms + At(source, w, NoWait).ms]]

MergedFiles(target, source) ==
    [f \in DOMAIN target \cup DOMAIN source |-> At(target, f, 0) + At(source, f, 0)]

\* A run has one writer connection, so one entry.
MergedConnection(target, source) ==
    [reads |-> target.reads + source.reads, last |-> source.last]

NoConnection == [reads |-> 0, last |-> 0]
NoDeltas == [waits |-> <<>>, files |-> <<>>, connection |-> NoConnection]

Merged(target, source) ==
    [waits |-> MergedWaits(target.waits, source.waits),
     files |-> MergedFiles(target.files, source.files),
     connection |-> MergedConnection(target.connection, source.connection)]

\* Mutant: the newest repeat replaces the ones before it.
PhaseReplaced(phases, name, delta) ==
    [p \in DOMAIN phases \cup {name} |-> IF p # name THEN phases[p] ELSE delta]

\* merge_sql_server_profile_phase_delta: one entry for each name of a phase.
MergedPhase(phases, name, delta) ==
    [p \in DOMAIN phases \cup {name} |->
        IF p # name THEN phases[p]
        ELSE IF p \in DOMAIN phases THEN Merged(phases[p], delta) ELSE delta]
=============================================================================
