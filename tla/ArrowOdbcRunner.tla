-------------------------- MODULE ArrowOdbcRunner --------------------------
(***************************************************************************)
(* The bench command of the arrow-odbc runner                              *)
(* (xtask/arrow-odbc-runner/src/main.rs).  Without --autocommit all its    *)
(* repeats, the tables they create and drop included, are one transaction, *)
(* committed or rolled back at the end; with it every statement is its     *)
(* own.  Any statement may fail, and the connection may be lost.           *)
(***************************************************************************)
EXTENDS Naturals

CONSTANTS FileRows,    \* numbers of rows the IPC file may have
          RowOptions,  \* --rows
          BatchSizes,  \* --batch-size
          Repeats,     \* --repeat
          NoTable      \* in place of its rows: no benchmark table exists

ASSUME RunnerAssumption ==
    /\ FileRows \cup RowOptions \subseteq Nat
    /\ BatchSizes \subseteq Nat \ {0}
    /\ Repeats \in Nat \ {0}
    /\ NoTable \notin Nat

VARIABLES opts,       \* autocommit, profile, fileRows, rows, batch
          pc,         \* the next call
          alive,      \* the writer's connection is open at the server
          stored,     \* rows of the benchmark table other connections see, or NoTable
          seen,       \* rows of it the writer sees
          repeat,     \* repeats finished
          total,      \* total_rows
          failure,    \* of the repeats: "none" or the kind of error
          result,     \* "running", "ok" or the kind of error returned
          committed,  \* ghost: the transaction took effect
          undropped   \* ghost: a drop failed, or was never sent

vars == <<opts, pc, alive, stored, seen, repeat, total, failure, result,
          committed, undropped>>
server == <<alive, stored, seen>>
outcome == <<failure, result>>
ghosts == <<committed, undropped>>

-----------------------------------------------------------------------------
(* Statements of the writer's connection *)

\* Mutant: set_autocommit(false) is forgotten.
EffectAtOnce(rows) ==
    /\ seen' = rows
    /\ stored' = rows
    /\ UNCHANGED alive

\* The effect of a statement on the table is seen by the others at once under
\* autocommit, and at the commit otherwise.
Effect(rows) ==
    /\ seen' = rows
    /\ stored' = IF opts.autocommit THEN rows ELSE stored
    /\ UNCHANGED alive

Executes(step, next, rows) ==
    /\ pc = step /\ alive
    /\ Effect(rows)
    /\ pc' = next

\* The server refuses the statement, or the connection is lost with it: an open
\* transaction is rolled back by the server, a statement of its own may have
\* taken effect.
StatementFails(rows) ==
    \/ UNCHANGED server
    \/ /\ alive' = FALSE
       /\ stored' \in IF opts.autocommit /\ alive THEN {stored, rows} ELSE {stored}
       /\ seen' = stored'

-----------------------------------------------------------------------------
(* bench: the connections *)

Leave(kind) == pc' = "done" /\ result' = kind

Connect ==
    /\ pc = "connect"
    /\ alive' = TRUE
    /\ pc' = IF opts.autocommit THEN "profile" ELSE "set_autocommit"
    /\ UNCHANGED <<opts, stored, seen, repeat, total, outcome, ghosts>>

SetAutocommit ==
    /\ pc = "set_autocommit"
    /\ pc' = "profile"
    /\ UNCHANGED <<opts, server, repeat, total, outcome, ghosts>>

\* The observer connects and SqlServerProfile::start reads the counters.
StartProfile ==
    /\ pc = "profile"
    /\ pc' = "create"
    /\ UNCHANGED <<opts, server, repeat, total, outcome, ghosts>>

StartFails ==
    /\ pc \in {"connect", "set_autocommit"} \cup (IF opts.profile THEN {"profile"} ELSE {})
    /\ Leave("start")
    /\ UNCHANGED <<opts, server, repeat, total, failure, ghosts>>

-----------------------------------------------------------------------------
(* run_repeat *)

\* DROP TABLE IF EXISTS and CREATE TABLE.
CreateTable ==
    /\ Executes("create", "read", 0)
    /\ UNCHANGED <<opts, repeat, total, outcome, ghosts>>

\* ipc_batches reads the whole file.
ReadFile ==
    /\ pc = "read"
    /\ opts.fileRows = opts.rows
    /\ pc' = IF opts.profile THEN "open" ELSE "insert"
    /\ UNCHANGED <<opts, server, repeat, total, outcome, ghosts>>

\* The snapshots of capture_phase around the insert.
OpenPhase ==
    /\ pc = "open" /\ pc' = "insert"
    /\ UNCHANGED <<opts, server, repeat, total, outcome, ghosts>>

\* insert_into_table executes once for every batch of rows.
NextBatch ==
    IF seen + opts.batch < opts.fileRows THEN seen + opts.batch ELSE opts.fileRows

InsertBatch ==
    /\ pc = "insert" /\ seen < opts.fileRows
    /\ Executes("insert", "insert", NextBatch)
    /\ UNCHANGED <<opts, repeat, total, outcome, ghosts>>

Inserted ==
    /\ pc = "insert" /\ seen = opts.fileRows
    /\ pc' = IF opts.profile THEN "close" ELSE "count"
    /\ UNCHANGED <<opts, server, repeat, total, outcome, ghosts>>

\* The work's own error is returned once the phase is closed.
ClosePhase ==
    /\ pc = "close"
    /\ pc' = IF failure = "none" THEN "count" ELSE "drop"
    /\ UNCHANGED <<opts, server, repeat, total, outcome, ghosts>>

\* select_count and validate_scenario_contents.
Count ==
    /\ pc = "count" /\ alive
    /\ seen = opts.fileRows
    /\ pc' = "drop"
    /\ UNCHANGED <<opts, server, repeat, total, outcome, ghosts>>

RepeatFails(next) ==
    /\ failure' = "repeat"
    /\ pc' = next
    /\ UNCHANGED <<opts, repeat, total, result, ghosts>>

\* A statement of the repeat fails; a failed insert keeps the batches before it
\* and, with a profile, is followed by the snapshots that close its phase.
StatementOfRepeatFails ==
    \/ pc = "create" /\ StatementFails(0) /\ RepeatFails("drop")
    \/ pc = "insert" /\ StatementFails(NextBatch)
                     /\ RepeatFails(IF opts.profile THEN "close" ELSE "drop")
    \/ pc = "count" /\ StatementFails(seen) /\ RepeatFails("drop")

\* The file cannot be read or has another number of rows.
ReadFails == pc = "read" /\ UNCHANGED server /\ RepeatFails("drop")

\* An error of a snapshot replaces that of the insert.
SnapshotFails ==
    /\ pc \in {"open", "close"}
    /\ failure' = "profile"
    /\ pc' = "drop"
    /\ UNCHANGED <<opts, server, repeat, total, result, ghosts>>

-----------------------------------------------------------------------------
(* run_repeats: DROP TABLE after every repeat *)

AfterDrop == IF failure # "none" THEN "end" ELSE IF repeat + 1 < Repeats THEN "create" ELSE "end"

DropTable ==
    /\ Executes("drop", AfterDrop, NoTable)
    /\ IF failure = "none"
         THEN total' = total + opts.fileRows /\ repeat' = repeat + 1
         ELSE UNCHANGED <<total, repeat>>
    /\ UNCHANGED <<opts, outcome, ghosts>>

\* Mutant: a failed drop is a warning always.
DropWarns ==
    /\ pc = "drop"
    /\ StatementFails(NoTable)
    /\ undropped' = TRUE
    /\ pc' = "end"
    /\ UNCHANGED <<opts, repeat, total, outcome, committed>>

\* Returned if the repeat is all right, else a warning.
DropFails ==
    /\ pc = "drop"
    /\ StatementFails(NoTable)
    /\ failure' = IF failure = "none" THEN "cleanup" ELSE failure
    /\ undropped' = TRUE
    /\ pc' = "end"
    /\ UNCHANGED <<opts, repeat, total, result, committed>>

-----------------------------------------------------------------------------
(* bench: the end of the transaction *)

Finishing == IF opts.profile THEN "finish" ELSE "report"

\* Autocommit leaves nothing to do.
EndAutocommit ==
    /\ pc = "end" /\ opts.autocommit
    /\ pc' = Finishing
    /\ UNCHANGED <<opts, server, repeat, total, outcome, ghosts>>

Commit ==
    /\ pc = "end" /\ ~opts.autocommit /\ failure = "none" /\ alive
    /\ stored' = seen
    /\ committed' = TRUE
    /\ pc' = Finishing
    /\ UNCHANGED <<opts, alive, seen, repeat, total, outcome, undropped>>

\* `?`: the commit failed, or a snapshot of its phase, before it or after.
CommitFails ==
    /\ pc = "end" /\ ~opts.autocommit /\ failure = "none"
    /\ committed' \in IF alive THEN BOOLEAN ELSE {FALSE}
    /\ stored' = IF committed' THEN seen ELSE stored
    /\ Leave("commit")
    /\ UNCHANGED <<opts, alive, seen, repeat, total, failure, undropped>>

Rollback ==
    /\ pc = "end" /\ ~opts.autocommit /\ failure # "none" /\ alive
    /\ seen' = stored
    /\ pc' = Finishing
    /\ UNCHANGED <<opts, alive, stored, repeat, total, outcome, ghosts>>

\* A warning; the server rolls back when the connection is dropped.
RollbackFails ==
    /\ pc = "end" /\ ~opts.autocommit /\ failure # "none"
    /\ pc' = Finishing
    /\ UNCHANGED <<opts, server, repeat, total, outcome, ghosts>>

FinishProfile ==
    /\ pc = "finish"
    /\ pc' = "report"
    /\ UNCHANGED <<opts, server, repeat, total, outcome, ghosts>>

\* profile.finish()? comes before the result of the repeats is looked at.
FinishFails ==
    /\ pc = "finish"
    /\ Leave("profile")
    /\ UNCHANGED <<opts, server, repeat, total, failure, ghosts>>

\* total_rows_result?, then the rows are printed.
Report ==
    /\ pc = "report"
    /\ Leave(IF failure = "none" THEN "ok" ELSE failure)
    /\ UNCHANGED <<opts, server, repeat, total, failure, ghosts>>

Init ==
    /\ opts \in [autocommit : BOOLEAN, profile : BOOLEAN, fileRows : FileRows,
                 rows : RowOptions, batch : BatchSizes]
    /\ pc = "connect"
    /\ alive = FALSE
    /\ stored = NoTable /\ seen = NoTable
    /\ repeat = 0 /\ total = 0
    /\ failure = "none" /\ result = "running"
    /\ committed = FALSE /\ undropped = FALSE

Exited == pc = "done" /\ UNCHANGED vars

Step ==
    \/ Connect \/ SetAutocommit \/ StartProfile \/ StartFails
    \/ CreateTable \/ ReadFile \/ OpenPhase \/ InsertBatch \/ Inserted
    \/ ClosePhase \/ Count \/ StatementOfRepeatFails \/ ReadFails \/ SnapshotFails
    \/ DropTable \/ DropFails
    \/ EndAutocommit \/ Commit \/ CommitFails \/ Rollback \/ RollbackFails
    \/ FinishProfile \/ FinishFails \/ Report

Next == Step \/ Exited

\* Every call of the driver returns.
Spec == Init /\ [][Next]_vars /\ WF_vars(Step)

-----------------------------------------------------------------------------
(* Properties *)

TypeOK ==
    /\ {stored, seen} \subseteq Nat \cup {NoTable}
    /\ repeat \in 0 .. Repeats /\ total \in Nat
    /\ failure \in {"none", "repeat", "cleanup", "profile"}
    /\ result \in {"running", "ok", "start", "repeat", "cleanup", "profile", "commit"}
    /\ result # "running" <=> pc = "done"

\* Without --autocommit no other connection ever sees a benchmark table, however
\* the run ends: the transaction is only committed when every table it created
\* was dropped in it.
ManualRunsAreInvisible == ~opts.autocommit => stored = NoTable

\* Rows are reported only if every repeat stored and counted all rows asked for,
\* and, without --autocommit, only if the transaction took effect.
ReportedRowsAreDurable ==
    result = "ok" =>
        /\ total = Repeats * opts.rows
        /\ repeat = Repeats
        /\ ~opts.autocommit => committed

\* A run that failed in a repeat has not committed the repeats before it.
CommitIsOfAllRepeats == committed => repeat = Repeats /\ failure = "none"

\* A table is left behind only by an autocommit run whose DROP TABLE failed; such
\* a run does not return Ok.
LeftTablesAreReported ==
    pc = "done" /\ stored # NoTable => opts.autocommit /\ undropped /\ result # "ok"

\* The error returned for a run whose repeats failed is that of the repeats; only
\* an error of the profile takes its place.
FirstErrorIsReturned ==
    pc = "done" /\ failure # "none" => result \in {failure, "profile"}

\* One transaction or none of it: nothing of a run without --autocommit is seen
\* before or without its commit, which is of all its repeats, and a run reports
\* only rows that are stored.
RunIsAtomic ==
    ManualRunsAreInvisible /\ ReportedRowsAreDurable /\ CommitIsOfAllRepeats

\* What went wrong is told: a table left behind, and the first error of the run.
ErrorsAreReported == LeftTablesAreReported /\ FirstErrorIsReturned
=============================================================================
