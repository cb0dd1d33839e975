---------------------- MODULE BenchmarkProgramsProofs ----------------------
(***************************************************************************)
(* Proofs about the programs of the benchmarks, composed as they are run:  *)
(* the arrow-odbc runner (what other connections see, what is reported and *)
(* what is left behind) for every file, batch size and number of repeats,  *)
(* the commands of xtask by the theorems of BenchmarkRunProofs, and the    *)
(* odbc-bcp runner: its driver reads, commits and reports the dataset.     *)
(*                                                                         *)
(* The invariants of the arrow-odbc runner follow from what is known at    *)
(* each call: a program point stands for the steps that were all right     *)
(* before it.                                                              *)
(***************************************************************************)
EXTENDS MCBenchmarkPrograms, Integers, SequenceTheorems, WellFoundedInduction, TLAPS

Opening == {"connect", "set_autocommit", "profile"}
InRepeat == {"create", "read", "open", "insert", "close", "count", "drop"}
Closing == {"finish", "report"}

\* The types the other invariants rely on.
Typed ==
    /\ opts \in [autocommit : BOOLEAN, profile : BOOLEAN, fileRows : FileRows,
                 rows : RowOptions, batch : BatchSizes]
    /\ opts.rows \in Nat /\ opts.fileRows \in Nat /\ opts.batch \in Nat
    /\ pc \in Opening \cup InRepeat \cup Closing \cup {"end", "done"}
    /\ pc \in {"read", "open", "insert"} => seen \in Nat
    /\ committed \in BOOLEAN /\ undropped \in BOOLEAN

\* Repeats are counted once they are over, and only while nothing failed.
RepeatsCounted ==
    /\ pc \in Opening \cup InRepeat => repeat < Repeats
    /\ pc \in Opening \cup {"create", "read", "open", "insert", "count"}
           => failure = "none"
    /\ pc \in Closing \cup {"end"} /\ failure = "none" => repeat = Repeats
    /\ pc \in {"open", "insert", "close", "count", "drop"} /\ failure = "none"
           => opts.fileRows = opts.rows
    /\ total = repeat * opts.rows

\* The transaction can only be committed where no table of it is left.
TransactionIsClean ==
    /\ ~opts.autocommit => stored = NoTable
    /\ pc = "end" /\ failure = "none" /\ ~opts.autocommit => seen = NoTable
    /\ pc \in Closing /\ failure = "none" /\ ~opts.autocommit => committed
    /\ committed => /\ pc \in Closing \cup {"done"}
                    /\ repeat = Repeats /\ failure = "none"

\* A table left by a statement of its own was not dropped, and that is an error.
LeftTablesFailed ==
    /\ pc \in Opening => stored = NoTable
    /\ pc \in Closing \cup {"end"} /\ stored # NoTable => undropped /\ failure # "none"

Promises ==
    /\ ReportedRowsAreDurable
    /\ LeftTablesAreReported
    /\ FirstErrorIsReturned

IInv == TypeOK /\ Typed /\ RepeatsCounted /\ TransactionIsClean /\ LeftTablesFailed /\ Promises

-----------------------------------------------------------------------------
LEMMA InitIInv == Init => IInv
<1> SUFFICES ASSUME Init PROVE IInv
  OBVIOUS
<1> USE RunnerAssumption
<1>1. opts.rows \in Nat /\ opts.fileRows \in Nat /\ opts.batch \in Nat
  BY DEF Init
<1>2. TypeOK
  BY DEF Init, TypeOK
<1>6. Typed
  BY <1>1 DEF Init, Typed, Opening
<1>3. RepeatsCounted
  BY <1>1 DEF Init, RepeatsCounted, Opening, InRepeat, Closing
<1>4. TransactionIsClean /\ LeftTablesFailed
  BY DEF Init, TransactionIsClean, LeftTablesFailed, Closing
<1>5. Promises
  BY DEF Init, Promises, ReportedRowsAreDurable, LeftTablesAreReported, FirstErrorIsReturned
<1> QED
  BY <1>2, <1>3, <1>4, <1>5, <1>6 DEF IInv

-----------------------------------------------------------------------------
LEMMA StepIInv == ASSUME IInv, Step PROVE IInv'
<1> USE RunnerAssumption DEF IInv, TypeOK, Typed, RepeatsCounted, TransactionIsClean,
        LeftTablesFailed, Promises, Opening, InRepeat, Closing, server, outcome, ghosts,
        ReportedRowsAreDurable, LeftTablesAreReported, FirstErrorIsReturned
<1>1. CASE Connect
  BY <1>1 DEF Connect
<1>2. CASE SetAutocommit
  BY <1>2 DEF SetAutocommit
<1>3. CASE StartProfile
  BY <1>3 DEF StartProfile
<1>4. CASE StartFails
  BY <1>4 DEF StartFails, Leave
<1>5. CASE CreateTable
  BY <1>5 DEF CreateTable, Executes, Effect
<1>6. CASE ReadFile
  BY <1>6 DEF ReadFile
<1>7. CASE OpenPhase
  BY <1>7 DEF OpenPhase
<1>8. CASE InsertBatch
  <2>1. NextBatch \in Nat
    BY <1>8 DEF InsertBatch, NextBatch
  <2>2. pc = "insert" /\ pc' = "insert" /\ seen' = NextBatch
        /\ stored' = IF opts.autocommit THEN NextBatch ELSE stored
    BY <1>8 DEF InsertBatch, Executes, Effect
  <2>3. UNCHANGED <<opts, alive, repeat, total, failure, result, committed, undropped>>
    BY <1>8 DEF InsertBatch, Executes, Effect
  <2> QED
    BY <2>1, <2>2, <2>3
<1>9. CASE Inserted
  BY <1>9 DEF Inserted
<1>10. CASE ClosePhase
  BY <1>10 DEF ClosePhase
<1>11. CASE Count
  BY <1>11 DEF Count
<1>12. CASE StatementOfRepeatFails
  <2>1. pc \in {"create", "insert", "count"} /\ pc' \in {"close", "drop"}
        /\ failure' = "repeat"
    BY <1>12 DEF StatementOfRepeatFails, RepeatFails
  <2>2. UNCHANGED <<opts, repeat, total, result, committed, undropped>>
    BY <1>12 DEF StatementOfRepeatFails, RepeatFails
  <2>3. pc = "insert" => NextBatch \in Nat
    BY DEF NextBatch
  <2>4. stored' \in Nat \cup {NoTable} /\ seen' \in Nat \cup {NoTable}
        /\ (~opts.autocommit => stored' = stored)
    BY <1>12, <2>3 DEF StatementOfRepeatFails, StatementFails
  <2> QED
    BY <2>1, <2>2, <2>4
<1>13. CASE ReadFails
  BY <1>13 DEF ReadFails, RepeatFails
<1>14. CASE SnapshotFails
  BY <1>14 DEF SnapshotFails
<1>15. CASE DropTable
  <2>1. /\ pc = "drop" /\ pc' = AfterDrop /\ seen' = NoTable
        /\ stored' = IF opts.autocommit THEN NoTable ELSE stored
        /\ UNCHANGED <<opts, alive, failure, result, committed, undropped>>
    BY <1>15 DEF DropTable, Executes, Effect
  <2>2. CASE failure = "none"
    <3>1. total' = total + opts.fileRows /\ repeat' = repeat + 1 /\ opts.fileRows = opts.rows
      BY <1>15, <2>1, <2>2 DEF DropTable
    <3>2. total' = repeat' * opts.rows
      <4>1. repeat \in Nat /\ opts.rows \in Nat /\ total = repeat * opts.rows
        OBVIOUS
      <4>2. (repeat + 1) * opts.rows = repeat * opts.rows + opts.rows
        BY ONLY <4>1
      <4> QED
        BY <3>1, <4>1, <4>2
    <3>3. pc' = IF repeat' < Repeats THEN "create" ELSE "end"
      BY <2>1, <2>2, <3>1 DEF AfterDrop
    <3>4. repeat < Repeats /\ repeat' \in 0 .. Repeats /\ total' \in Nat
      BY <2>1, <3>1
    <3> QED
      BY <2>1, <2>2, <3>1, <3>2, <3>3, <3>4
  <2>3. CASE failure # "none"
    <3>1. pc' = "end" /\ UNCHANGED <<total, repeat>>
      BY <1>15, <2>1, <2>3 DEF DropTable, AfterDrop
    <3> QED
      BY <2>1, <2>3, <3>1
  <2> QED
    BY <2>2, <2>3
<1>16. CASE DropFails
  BY <1>16 DEF DropFails, StatementFails
<1>17. CASE EndAutocommit
  BY <1>17 DEF EndAutocommit, Finishing
<1>18. CASE Commit
  BY <1>18 DEF Commit, Finishing
<1>19. CASE CommitFails
  BY <1>19 DEF CommitFails, Leave
<1>20. CASE Rollback
  BY <1>20 DEF Rollback, Finishing
<1>21. CASE RollbackFails
  BY <1>21 DEF RollbackFails, Finishing
<1>22. CASE FinishProfile
  BY <1>22 DEF FinishProfile
<1>23. CASE FinishFails
  BY <1>23 DEF FinishFails, Leave
<1>24. CASE Report
  BY <1>24 DEF Report, Leave
<1> QED
  BY <1>1, <1>2, <1>3, <1>4, <1>5, <1>6, <1>7, <1>8, <1>9, <1>10, <1>11, <1>12, <1>13, <1>14, <1>15, <1>16, <1>17, <1>18, <1>19, <1>20, <1>21, <1>22, <1>23, <1>24 DEF Step

LEMMA NextIInv == IInv /\ [Next]_vars => IInv'
<1> SUFFICES ASSUME IInv, [Next]_vars PROVE IInv'
  OBVIOUS
<1>1. CASE Step
  BY <1>1, StepIInv
<1>2. CASE UNCHANGED vars
  BY <1>2 DEF vars, IInv, TypeOK, Typed, RepeatsCounted, TransactionIsClean,
              LeftTablesFailed, Promises, ReportedRowsAreDurable,
              LeftTablesAreReported, FirstErrorIsReturned, Opening, InRepeat, Closing
<1> QED
  BY <1>1, <1>2 DEF Next, Exited

\* What is known at each call holds in every run.
THEOREM SpecIInv == Spec => []IInv
<1>1. Init => IInv
  BY InitIInv
<1>2. IInv /\ [Next]_vars => IInv'
  BY NextIInv
<1> QED
  BY <1>1, <1>2, PTL DEF Spec

\* Every reachable state of the command has its types, whatever fails.
THEOREM TypeCorrect == Spec => []TypeOK
<1>1. IInv => TypeOK
  BY DEF IInv
<1> QED
  BY <1>1, SpecIInv, PTL

\* A run without --autocommit is one transaction: its tables are never seen, it
\* is committed with all its repeats or not at all, and a run that returns its
\* report has stored all rows the report counts.
THEOREM RunsAreAtomic == Spec => []RunIsAtomic
<1>1. IInv => RunIsAtomic
  BY DEF IInv, Promises, TransactionIsClean, RunIsAtomic, ManualRunsAreInvisible,
         CommitIsOfAllRepeats
<1> QED
  BY <1>1, SpecIInv, PTL

\* A table that is left was not dropped by a run that says so, and the error of
\* the repeats is not replaced by one of the end of the transaction.
THEOREM FailuresAreReported == Spec => []ErrorsAreReported
<1>1. IInv => ErrorsAreReported
  BY DEF IInv, Promises, ErrorsAreReported
<1> QED
  BY <1>1, SpecIInv, PTL

-----------------------------------------------------------------------------
(* The commands of xtask, beside the runners: the theorems of              *)
(* BenchmarkRunProofs for the instance the programs are composed of.       *)
XtaskProofs == INSTANCE BenchmarkRunProofs WITH
    Commands <- {"test", "baseline", "arrow_odbc", "compare"},
    BackendLists <- {<<"direct-raw", "arrow-odbc">>, <<"odbc-bcp">>, <<"baseline">>,
                     <<"baseline", "direct-raw-no-date-fast-path">>},
    UnsupportedBy <- {"direct-raw-no-date-fast-path"},
    Flags <- {"none", "profile_direct", "odbc_bcp_defer_batches"},
    DatasetRows <- 1, MaxPolls <- 2,
    opts <- chosen, repeat <- turn, table <- held, report <- printed,
    result <- returned, outcome <- outcomes

\* The operations of the two instances are the same formulas.
LEMMA SameSteps == Xtask!Step => XtaskProofs!Step
<1> USE DEF Xtask!Direct, XtaskProofs!Direct, Xtask!Tiberius, XtaskProofs!Tiberius, Xtask!Odbc, XtaskProofs!Odbc, Xtask!dbVars, XtaskProofs!dbVars, Xtask!measureVars, XtaskProofs!measureVars, Xtask!NoBenchTable, XtaskProofs!NoBenchTable, Xtask!UsesOdbc, XtaskProofs!UsesOdbc, Xtask!Contains, XtaskProofs!Contains, Xtask!Skipped, XtaskProofs!Skipped, Xtask!At, XtaskProofs!At, Xtask!Advance, XtaskProofs!Advance, Xtask!Fail, XtaskProofs!Fail, Xtask!Do, XtaskProofs!Do, Xtask!Kept, XtaskProofs!Kept, Xtask!Measuring, XtaskProofs!Measuring
<1>1. Xtask!Skip => XtaskProofs!Skip
  BY DEF Xtask!Skip, XtaskProofs!Skip
<1>2. Xtask!Validate => XtaskProofs!Validate
  BY DEF Xtask!Validate, XtaskProofs!Validate, Xtask!CompareOptionsAccepted, XtaskProofs!CompareOptionsAccepted, Xtask!BackendsFor, XtaskProofs!BackendsFor, Xtask!ToSet, XtaskProofs!ToSet
<1>3. Xtask!CreateNetwork => XtaskProofs!CreateNetwork
  BY DEF Xtask!CreateNetwork, XtaskProofs!CreateNetwork, Xtask!Create, XtaskProofs!Create
<1>4. Xtask!StartContainer => XtaskProofs!StartContainer
  BY DEF Xtask!StartContainer, XtaskProofs!StartContainer, Xtask!Create, XtaskProofs!Create
<1>5. Xtask!BuildImage => XtaskProofs!BuildImage
  BY DEF Xtask!BuildImage, XtaskProofs!BuildImage, Xtask!Create, XtaskProofs!Create
<1>6. Xtask!WriteDataset => XtaskProofs!WriteDataset
  BY DEF Xtask!WriteDataset, XtaskProofs!WriteDataset, Xtask!Create, XtaskProofs!Create
<1>7. Xtask!WaitUntilReady => XtaskProofs!WaitUntilReady
  BY DEF Xtask!WaitUntilReady, XtaskProofs!WaitUntilReady
<1>8. Xtask!InitializeDatabase => XtaskProofs!InitializeDatabase
  BY DEF Xtask!InitializeDatabase, XtaskProofs!InitializeDatabase, Xtask!Attempt, XtaskProofs!Attempt
<1>9. Xtask!CargoTest => XtaskProofs!CargoTest
  BY DEF Xtask!CargoTest, XtaskProofs!CargoTest, Xtask!Attempt, XtaskProofs!Attempt
<1>10. Xtask!SnapshotRecovery => XtaskProofs!SnapshotRecovery
  BY DEF Xtask!SnapshotRecovery, XtaskProofs!SnapshotRecovery, Xtask!FailWithDataset, XtaskProofs!FailWithDataset
<1>11. Xtask!SetRecovery => XtaskProofs!SetRecovery
  BY DEF Xtask!SetRecovery, XtaskProofs!SetRecovery, Xtask!FailWithDataset, XtaskProofs!FailWithDataset
<1>12. Xtask!ConnectFails => XtaskProofs!ConnectFails
  BY DEF Xtask!ConnectFails, XtaskProofs!ConnectFails
<1>13. Xtask!RepeatSetup => XtaskProofs!RepeatSetup
  BY DEF Xtask!RepeatSetup, XtaskProofs!RepeatSetup
<1>14. Xtask!RepeatWrite => XtaskProofs!RepeatWrite
  BY DEF Xtask!RepeatWrite, XtaskProofs!RepeatWrite
<1>15. Xtask!RepeatValidate => XtaskProofs!RepeatValidate
  BY DEF Xtask!RepeatValidate, XtaskProofs!RepeatValidate
<1>16. Xtask!RepeatCleanup => XtaskProofs!RepeatCleanup
  BY DEF Xtask!RepeatCleanup, XtaskProofs!RepeatCleanup
<1>17. Xtask!BackendMeasured => XtaskProofs!BackendMeasured
  BY DEF Xtask!BackendMeasured, XtaskProofs!BackendMeasured, Xtask!NextBackend, XtaskProofs!NextBackend
<1>18. Xtask!RunRunner => XtaskProofs!RunRunner
  BY DEF Xtask!RunRunner, XtaskProofs!RunRunner, Xtask!NextBackend, XtaskProofs!NextBackend
<1>19. Xtask!AllMeasured => XtaskProofs!AllMeasured
  BY DEF Xtask!AllMeasured, XtaskProofs!AllMeasured
<1>20. Xtask!MeasureReturns => XtaskProofs!MeasureReturns
  BY DEF Xtask!MeasureReturns, XtaskProofs!MeasureReturns
<1>21. Xtask!RestoreRecovery => XtaskProofs!RestoreRecovery
  BY DEF Xtask!RestoreRecovery, XtaskProofs!RestoreRecovery
<1>22. Xtask!CleanDataset => XtaskProofs!CleanDataset
  BY DEF Xtask!CleanDataset, XtaskProofs!CleanDataset
<1>23. Xtask!CleanImage => XtaskProofs!CleanImage
  BY DEF Xtask!CleanImage, XtaskProofs!CleanImage
<1>24. Xtask!Return => XtaskProofs!Return
  BY DEF Xtask!Return, XtaskProofs!Return, Xtask!Returned, XtaskProofs!Returned, Xtask!Failed, XtaskProofs!Failed
<1>25. Xtask!DropGuard => XtaskProofs!DropGuard
  BY DEF Xtask!DropGuard, XtaskProofs!DropGuard, Xtask!DropOrder, XtaskProofs!DropOrder, Xtask!Reverse, XtaskProofs!Reverse, Xtask!KeptOnDrop, XtaskProofs!KeptOnDrop, Xtask!Removal, XtaskProofs!Removal
<1> QED
  BY <1>1, <1>2, <1>3, <1>4, <1>5, <1>6, <1>7, <1>8, <1>9, <1>10, <1>11, <1>12, <1>13, <1>14, <1>15, <1>16, <1>17, <1>18, <1>19, <1>20, <1>21, <1>22, <1>23, <1>24, <1>25 DEF Xtask!Step, XtaskProofs!Step

LEMMA SameStates ==
    /\ Xtask!Init => XtaskProofs!Init
    /\ Xtask!ServerStarts => XtaskProofs!ServerStarts
    /\ Xtask!CommandAssumption => XtaskProofs!CommandAssumption
<1> USE DEF Xtask!Plan, XtaskProofs!Plan, Xtask!TestPlan, XtaskProofs!TestPlan,
            Xtask!BaselinePlan, XtaskProofs!BaselinePlan,
            Xtask!ArrowOdbcPlan, XtaskProofs!ArrowOdbcPlan,
            Xtask!ComparePlan, XtaskProofs!ComparePlan, Xtask!Serve, XtaskProofs!Serve
<1>1. Xtask!Init => XtaskProofs!Init
  BY DEF Xtask!Init, XtaskProofs!Init, Xtask!OptionsOf, XtaskProofs!OptionsOf,
         Xtask!ServerOptions, XtaskProofs!ServerOptions, Xtask!BackendsOf, XtaskProofs!BackendsOf,
         Xtask!NoBenchTable, XtaskProofs!NoBenchTable
<1>2. Xtask!ServerStarts => XtaskProofs!ServerStarts
  BY DEF Xtask!ServerStarts, XtaskProofs!ServerStarts, Xtask!dbVars, XtaskProofs!dbVars,
         Xtask!measureVars, XtaskProofs!measureVars
<1>3. Xtask!CommandAssumption => XtaskProofs!CommandAssumption
  BY DEF Xtask!CommandAssumption, XtaskProofs!CommandAssumption, Xtask!Tiberius,
         XtaskProofs!Tiberius, Xtask!Direct, XtaskProofs!Direct, Xtask!Odbc, XtaskProofs!Odbc
<1> QED
  BY <1>1, <1>2, <1>3

LEMMA SameProperties ==
    /\ XtaskProofs!NothingIsLeft => Xtask!NothingIsLeft
    /\ XtaskProofs!RecoveryModelIsRestored => Xtask!RecoveryModelIsRestored
    /\ XtaskProofs!NoTableIsLeft => Xtask!NoTableIsLeft
    /\ XtaskProofs!UsersFindWhatTheyUse => Xtask!UsersFindWhatTheyUse
    /\ XtaskProofs!SuccessIsComplete => Xtask!SuccessIsComplete
    /\ XtaskProofs!BenchmarkErrorIsNamed => Xtask!BenchmarkErrorIsNamed
    /\ XtaskProofs!NetworkOutlivesContainer => Xtask!NetworkOutlivesContainer
    /\ XtaskProofs!ReportedRowsWereStored => Xtask!ReportedRowsWereStored
<1> USE DEF Xtask!Exited, XtaskProofs!Exited, Xtask!KeptOnDrop, XtaskProofs!KeptOnDrop,
            Xtask!Failed, XtaskProofs!Failed, Xtask!NoBenchTable, XtaskProofs!NoBenchTable,
            Xtask!Contains, XtaskProofs!Contains, Xtask!ToSet, XtaskProofs!ToSet
<1>1. XtaskProofs!NothingIsLeft => Xtask!NothingIsLeft
  BY DEF Xtask!NothingIsLeft, XtaskProofs!NothingIsLeft
<1>2. XtaskProofs!RecoveryModelIsRestored => Xtask!RecoveryModelIsRestored
  BY DEF Xtask!RecoveryModelIsRestored, XtaskProofs!RecoveryModelIsRestored
<1>3. XtaskProofs!NoTableIsLeft => Xtask!NoTableIsLeft
  BY DEF Xtask!NoTableIsLeft, XtaskProofs!NoTableIsLeft
<1>4. XtaskProofs!UsersFindWhatTheyUse => Xtask!UsersFindWhatTheyUse
  BY DEF Xtask!UsersFindWhatTheyUse, XtaskProofs!UsersFindWhatTheyUse, Xtask!Do, XtaskProofs!Do,
         Xtask!At, XtaskProofs!At, Xtask!Skipped, XtaskProofs!Skipped, Xtask!UsesOdbc,
         XtaskProofs!UsesOdbc, Xtask!Measuring, XtaskProofs!Measuring, Xtask!Odbc, XtaskProofs!Odbc
<1>5. XtaskProofs!SuccessIsComplete => Xtask!SuccessIsComplete
  BY DEF Xtask!SuccessIsComplete, XtaskProofs!SuccessIsComplete, Xtask!Plan, XtaskProofs!Plan,
         Xtask!TestPlan, XtaskProofs!TestPlan, Xtask!BaselinePlan, XtaskProofs!BaselinePlan,
         Xtask!ArrowOdbcPlan, XtaskProofs!ArrowOdbcPlan, Xtask!ComparePlan,
         XtaskProofs!ComparePlan, Xtask!Serve, XtaskProofs!Serve
<1>6. XtaskProofs!BenchmarkErrorIsNamed => Xtask!BenchmarkErrorIsNamed
  BY DEF Xtask!BenchmarkErrorIsNamed, XtaskProofs!BenchmarkErrorIsNamed
<1>7. XtaskProofs!NetworkOutlivesContainer => Xtask!NetworkOutlivesContainer
  BY DEF Xtask!NetworkOutlivesContainer, XtaskProofs!NetworkOutlivesContainer
<1>8. XtaskProofs!ReportedRowsWereStored => Xtask!ReportedRowsWereStored
  BY DEF Xtask!ReportedRowsWereStored, XtaskProofs!ReportedRowsWereStored
<1> QED
  BY <1>1, <1>2, <1>3, <1>4, <1>5, <1>6, <1>7, <1>8

\* What a step of the programs is to xtask.
LEMMA StepsOfXtask ==
    ASSUME program = "xtask", [NextPrograms]_all
    PROVE  program' = "xtask" /\ [XtaskProofs!Next]_(XtaskProofs!vars)
<1>1. CASE Xtask!Step /\ program' = program
  BY <1>1, SameSteps DEF XtaskProofs!Next
<1>2. CASE Xtask!ServerStarts /\ program' = program
  BY <1>2, SameStates DEF XtaskProofs!Next
<1>3. CASE UNCHANGED all
  BY <1>3 DEF all, ofBoth, ofXtask, XtaskProofs!vars
<1> QED
  BY <1>1, <1>2, <1>3 DEF NextPrograms, StepPrograms

LEMMA CommandInvariance == SpecPrograms => [](program = "xtask" => XtaskProofs!CommandInv)
<1>1. XtaskProofs!CommandAssumption
  BY ProgramsAssumption, SameStates
<1>2. InitPrograms => (program = "xtask" => XtaskProofs!CommandInv)
  BY <1>1, SameStates, XtaskProofs!Initially DEF InitPrograms
<1>3. (program = "xtask" => XtaskProofs!CommandInv) /\ [NextPrograms]_all
        => (program = "xtask" => XtaskProofs!CommandInv)'
  <2> SUFFICES ASSUME program = "xtask" => XtaskProofs!CommandInv, [NextPrograms]_all,
                      program' = "xtask"
               PROVE  XtaskProofs!CommandInv'
    OBVIOUS
  <2>1. program = "xtask"
    BY DEF NextPrograms, StepPrograms, all
  <2> QED
    BY <1>1, <2>1, StepsOfXtask, XtaskProofs!Inductive
<1> QED
  BY <1>2, <1>3, PTL DEF SpecPrograms

\* Whatever fails and wherever a command of xtask is left, no network, container,
\* image, dataset, changed recovery model or benchmark table outlives it but what
\* it was told to keep and what a failed operation made or did not remove; and
\* until then whatever is used is there.
THEOREM CommandsCleanUp == SpecPrograms => []CommandCleansUp
<1>1. (program = "xtask" => XtaskProofs!CommandInv) => CommandCleansUp
  BY SameProperties, XtaskProofs!CleansUp, XtaskProofs!UsersFind DEF CommandCleansUp
<1> QED
  BY <1>1, CommandInvariance, PTL

\* An Ok of a command stands for the whole measurement, and no cleanup's error
\* hides the benchmark's.
THEOREM ResultsAreTheRun == SpecPrograms => []ResultIsTheRun
<1>1. (program = "xtask" => XtaskProofs!CommandInv) => ResultIsTheRun
  BY SameProperties, XtaskProofs!SuccessMeans, XtaskProofs!ErrorNamed DEF ResultIsTheRun
<1> QED
  BY <1>1, CommandInvariance, PTL

-----------------------------------------------------------------------------
(* The odbc-bcp runner: what a repeat merges into the totals               *)

Counts == [batchCalls : Int, batchRows : Int, doneRows : Int]

\* A repeat that reaches its drop without a failure was counted.
CopyInv ==
    /\ totals \in Counts /\ printed \in Counts
    /\ \E S : inflight \in Seq(S)
    /\ step = "drop_table" /\ ~failed => Len(held) = Bcp!ReportedRows(printed)

LEMMA RowsCommitted ==
    ASSUME NEW S, NEW rows \in Seq(S), NEW put \in Bcp!Committed(rows),
           NEW n \in Bcp!Returned(rows, put)
    PROVE  n \in Int
<1>1. CASE put = rows
  BY <1>1 DEF Bcp!Returned
<1>2. CASE rows # <<>> /\ put = Bcp!Front(rows)
  <2>1. Len(rows) \in Nat \ {0} /\ put = SubSeq(rows, 1, Len(rows) - 1)
    BY <1>2 DEF Bcp!Front
  <2>2. Len(put) = Len(rows) - 1
    <3>1. PICK k \in Nat : Len(rows) = k + 1
      BY <2>1
    <3>2. \A i \in 1..k : rows[i] \in S
      BY <3>1
    <3>3. Len(SubSeq(rows, 1, k)) = IF 1 <= k THEN k - 1 + 1 ELSE 0
      BY <3>2, SubSeqProperties
    <3>4. put = SubSeq(rows, 1, k)
      BY <2>1, <3>1
    <3> QED
      BY <3>1, <3>3, <3>4
  <2> QED
    BY <2>1, <2>2 DEF Bcp!Returned
<1> QED
  BY <1>1, <1>2 DEF Bcp!Committed

LEMMA CopyStarts == Bcp!Init => CopyInv
<1> SUFFICES ASSUME Bcp!Init PROVE CopyInv
  OBVIOUS
<1>1. inflight \in Seq({})
  BY DEF Bcp!Init
<1> QED
  BY <1>1 DEF Bcp!Init, Bcp!ZeroReport, CopyInv, Counts

LEMMA CopyKept == ASSUME CopyInv, Bcp!Step PROVE CopyInv' /\ Bcp!MergedRowsWereCounted
<1> USE DEF Bcp!memory, Bcp!odbc, Bcp!server, Bcp!outcome, Bcp!RepeatFails
<1>1. PICK S : inflight \in Seq(S)
  BY DEF CopyInv
<1>2. totals \in Counts /\ printed \in Counts
  BY DEF CopyInv
\* A step that counts nothing leaves the totals, and fails the repeat if it drops.
<1>3. ASSUME UNCHANGED <<totals, printed>>, step' # "drop_table" \/ failed',
             inflight' \in Seq(S)
      PROVE  CopyInv' /\ Bcp!MergedRowsWereCounted
  BY <1>2, <1>3 DEF CopyInv, Bcp!MergedRowsWereCounted
<1>4. <<>> \in Seq(S)
  OBVIOUS
<1>5. CASE Bcp!AllocateEnv \/ Bcp!AllocateDbc
  <2>1. UNCHANGED <<step, totals, printed, inflight>> /\ step # "drop_table"
    BY <1>5 DEF Bcp!AllocateEnv, Bcp!AllocateDbc, Bcp!Allocate
  <2> QED
    BY <1>1, <1>3, <2>1
<1>6. CASE Bcp!AllocateFails
  BY <1>1, <1>3, <1>6 DEF Bcp!AllocateFails
<1>7. CASE Bcp!DriverConnect \/ Bcp!DropConnection("writer") \/ Bcp!DropConnection("observer")
  <2>1. UNCHANGED <<totals, printed, inflight>> /\ step' # "drop_table"
    BY <1>7 DEF Bcp!DriverConnect, Bcp!DropConnection, Bcp!Drops, Bcp!Connecting
  <2> QED
    BY <1>1, <1>3, <2>1
<1>8. CASE Bcp!SetUp
  <2>1. /\ totals' = totals /\ printed' = Bcp!ZeroReport /\ inflight' = <<>>
        /\ step' = "open" \/ failed'
    BY <1>8 DEF Bcp!SetUp, Bcp!StartCopy
  <2>2. printed' \in Counts
    BY <2>1 DEF Bcp!ZeroReport, Counts
  <2> QED
    BY <1>2, <1>4, <2>1, <2>2 DEF CopyInv, Bcp!MergedRowsWereCounted
<1>9. CASE Bcp!OpenBatch \/ Bcp!EndOfFile \/ Bcp!NextRow \/ Bcp!NextBatch
  <2>1. UNCHANGED <<totals, printed, inflight>> /\ step' # "drop_table"
    BY <1>9 DEF Bcp!OpenBatch, Bcp!EndOfFile, Bcp!NextRow, Bcp!NextBatch
  <2> QED
    BY <1>1, <1>3, <2>1
<1>10. CASE Bcp!OpenFails \/ Bcp!SetCellFails \/ Bcp!SendRowFails \/ Bcp!CapturePhaseFails
            \/ Bcp!FlushFails \/ Bcp!DoneFails
  <2>1. UNCHANGED <<totals, printed>> /\ (inflight' = inflight \/ inflight' = <<>>) /\ failed'
    BY <1>10 DEF Bcp!OpenFails, Bcp!SetCellFails, Bcp!SendRowFails, Bcp!CapturePhaseFails,
         Bcp!FlushFails, Bcp!DoneFails
  <2> QED
    BY <1>1, <1>3, <1>4, <2>1
<1>11. CASE Bcp!SetCell
  <2>1. UNCHANGED <<step, totals, printed, inflight>> /\ step # "drop_table"
    BY <1>11 DEF Bcp!SetCell
  <2> QED
    BY <1>1, <1>3, <2>1
<1>12. CASE Bcp!SendRow
  <2>1. PICK row : inflight' = Append(inflight, row)
    BY <1>12 DEF Bcp!SendRow
  <2>2. inflight' \in Seq(S \cup {row})
    BY <1>1, <2>1
  <2>3. UNCHANGED <<totals, printed>> /\ step' # "drop_table"
    BY <1>12 DEF Bcp!SendRow
  <2> QED
    BY <1>2, <2>2, <2>3 DEF CopyInv, Bcp!MergedRowsWereCounted
<1>13. CASE Bcp!Flush
  <2>1. PICK put \in Bcp!Committed(inflight) : \E n \in Bcp!Returned(inflight, put) :
               printed' = Bcp!FlushReport(n)
    BY <1>13 DEF Bcp!Flush
  <2>2. PICK n \in Int : printed' = [printed EXCEPT !.batchRows = @ + n, !.batchCalls = @ + 1]
    BY <1>1, <2>1, RowsCommitted DEF Bcp!FlushReport
  <2>4. printed' \in Counts
    <3>1. printed.batchRows + n \in Int /\ printed.batchCalls + 1 \in Int
      BY <1>2 DEF Counts
    <3>2. printed' = [batchCalls |-> printed.batchCalls + 1, batchRows |-> printed.batchRows + n,
                      doneRows |-> printed.doneRows]
      BY <1>2, <2>2 DEF Counts
    <3> QED
      BY <1>2, <3>1, <3>2 DEF Counts
  <2>3. totals' = totals /\ step' # "drop_table" /\ inflight' = <<>>
    BY <1>13 DEF Bcp!Flush
  <2> QED
    BY <1>2, <1>4, <2>3, <2>4 DEF CopyInv, Bcp!MergedRowsWereCounted
<1>14. CASE Bcp!CheckRows
  <2>1. UNCHANGED <<totals, printed, inflight>> /\ (step' = "done" \/ failed')
    BY <1>14 DEF Bcp!CheckRows
  <2> QED
    BY <1>1, <1>3, <2>1
<1>15. CASE Bcp!Done
  <2>1. PICK put \in Bcp!Committed(inflight) : \E n \in Bcp!Returned(inflight, put) :
               printed' = [printed EXCEPT !.doneRows = n]
    BY <1>15 DEF Bcp!Done
  <2>2. printed' \in Counts
    BY <1>1, <1>2, <2>1, RowsCommitted DEF Counts
  <2>3. totals' = totals /\ inflight' = <<>> /\ (step' = "count" \/ failed')
    BY <1>15 DEF Bcp!Done
  <2> QED
    BY <1>2, <1>4, <2>2, <2>3 DEF CopyInv, Bcp!MergedRowsWereCounted
<1>16. CASE Bcp!Count
  <2>1. /\ UNCHANGED <<totals, printed, inflight, held>>
        /\ Len(held) = Bcp!ReportedRows(printed) \/ failed'
    BY <1>16 DEF Bcp!Count
  <2> QED
    BY <1>1, <1>2, <2>1 DEF CopyInv, Bcp!MergedRowsWereCounted, Bcp!ReportedRows
<1>17. CASE Bcp!DropTable
  <2>1. /\ printed' = printed /\ inflight' = <<>> /\ step = "drop_table"
        /\ totals' = totals \/ (~failed /\ totals' = Bcp!Merged)
    BY <1>17 DEF Bcp!DropTable
  <2>2. step' # "drop_table"
    BY <1>17 DEF Bcp!DropTable, Bcp!NextRepeat, Bcp!Leaving
  <2>3. CASE ~failed /\ totals' = Bcp!Merged
    <3>1. totals' \in Counts
      BY <1>2, <2>3 DEF Bcp!Merged, Counts
    <3>2. Bcp!ReportedRows(totals') - Bcp!ReportedRows(totals) = Bcp!ReportedRows(printed)
      BY <1>2, <2>3 DEF Bcp!Merged, Bcp!ReportedRows, Counts
    <3>3. Len(held) = Bcp!ReportedRows(printed)
      BY <2>1, <2>3 DEF CopyInv
    <3> QED
      BY <1>2, <1>4, <2>1, <2>2, <3>1, <3>2, <3>3 DEF CopyInv, Bcp!MergedRowsWereCounted
  <2> QED
    BY <1>3, <1>4, <2>1, <2>2, <2>3
<1>18. CASE Bcp!Finish
  <2>1. UNCHANGED <<totals, printed, inflight>> /\ step' # "drop_table"
    BY <1>18 DEF Bcp!Finish, Bcp!Leaving
  <2> QED
    BY <1>1, <1>3, <2>1
<1> QED
  BY <1>5, <1>6, <1>7, <1>8, <1>9, <1>10, <1>11, <1>12, <1>13, <1>14, <1>15, <1>16, <1>17, <1>18
     DEF Bcp!Step

LEMMA CopyInvariance == SpecPrograms => [](program = "bcp" => CopyInv)
<1>1. InitPrograms => (program = "bcp" => CopyInv)
  BY CopyStarts DEF InitPrograms
<1>2. (program = "bcp" => CopyInv) /\ [NextPrograms]_all => (program = "bcp" => CopyInv)'
  <2> SUFFICES ASSUME program = "bcp" => CopyInv, [NextPrograms]_all, program' = "bcp"
               PROVE  CopyInv'
    OBVIOUS
  <2>1. program = "bcp"
    BY DEF NextPrograms, StepPrograms, all
  <2>2. CASE Bcp!Step
    BY <2>1, <2>2, CopyKept
  <2>3. CASE UNCHANGED all
    BY <2>1, <2>3 DEF all, ofBoth, ofBcp, CopyInv, Bcp!ReportedRows
  <2> QED
    BY <2>1, <2>2, <2>3 DEF NextPrograms, StepPrograms
<1> QED
  BY <1>1, <1>2, PTL DEF SpecPrograms

\* The network outlives the container in it, and rows enter a report of xtask or
\* of the odbc-bcp runner only when they were counted in the table.
THEOREM StepsAreOrdered == SpecPrograms => RunsAreOrdered
<1>1. (program = "xtask" => XtaskProofs!CommandInv) /\ (program = "bcp" => CopyInv)
         /\ [NextPrograms]_all =>
           [/\ program = "xtask" => Xtask!NetworkOutlivesContainer /\ Xtask!ReportedRowsWereStored
            /\ program = "bcp" => Bcp!MergedRowsWereCounted]_all
  <2> SUFFICES ASSUME program = "xtask" => XtaskProofs!CommandInv, program = "bcp" => CopyInv,
                      [NextPrograms]_all
               PROVE  /\ program = "xtask" => /\ Xtask!NetworkOutlivesContainer
                                              /\ Xtask!ReportedRowsWereStored
                      /\ program = "bcp" => Bcp!MergedRowsWereCounted
    OBVIOUS
  <2>1. ASSUME program = "xtask"
        PROVE  Xtask!NetworkOutlivesContainer /\ Xtask!ReportedRowsWereStored
    <3>1. XtaskProofs!CommandAssumption
      BY ProgramsAssumption, SameStates
    <3> QED
      BY <2>1, <3>1, StepsOfXtask, SameProperties, XtaskProofs!NetworkIsLast,
         XtaskProofs!RowsWereStored
  <2>2. ASSUME program = "bcp" PROVE Bcp!MergedRowsWereCounted
    <3>1. CASE Bcp!Step
      BY <2>2, <3>1, CopyKept
    <3>2. CASE UNCHANGED all
      BY <3>2 DEF all, ofBcp, Bcp!MergedRowsWereCounted
    <3> QED
      BY <2>2, <3>1, <3>2 DEF NextPrograms, StepPrograms
  <2> QED
    BY <2>1, <2>2
<1> QED
  BY <1>1, CommandInvariance, CopyInvariance, PTL DEF SpecPrograms, RunsAreOrdered

-----------------------------------------------------------------------------
(* The rows of a file, batch after batch                                   *)

LEMMA InductionTo ==
    ASSUME NEW n \in Nat, NEW S, 0 \in S, \A k \in 0..(n - 1) : k \in S => k + 1 \in S
    PROVE  0..n \subseteq S
<1> DEFINE B == 0..n \ S
           R == OpToRel(<, Nat)
<1>1. SUFFICES ASSUME B # {} PROVE FALSE
  OBVIOUS
<1>2. IsWellFoundedOn(R, Nat)
  BY NatLessThanWellFounded
<1>3. \A k, m \in Nat : <<k, m>> \in R <=> k < m
  BY DEF OpToRel
<1>4. B \subseteq Nat
  OBVIOUS
<1> HIDE DEF R
<1>5. PICK m \in B : \A k \in B : ~ (<<k, m>> \in R)
  <2> HIDE DEF B
  <2> QED
    BY <1>1, <1>2, <1>4, WFMin
<1>6. m # 0 /\ m - 1 \in 0..(n - 1) /\ m - 1 + 1 = m
  OBVIOUS
<1>7. <<m - 1, m>> \in R
  BY <1>3, <1>6
<1>8. m - 1 \notin B
  <2> HIDE DEF B
  <2> QED
    BY <1>5, <1>7
<1> QED
  BY <1>6, <1>8

\* f says where each of the batches of d ends.
Joins(f, d, S) ==
    /\ f \in [0..Len(d) -> Seq(S)]
    /\ f[0] = <<>>
    /\ \A i \in 1..Len(d) : f[i] = f[i - 1] \o d[i]

\* What is read when r rows of the i-th batch are.
ReadTo(f, d, i, r) == f[i - 1] \o SubSeq(d[i], 1, r)

LEMMA JoinsExist ==
    ASSUME NEW S, NEW d \in Seq(Seq(S))
    PROVE  \E f : Joins(f, d, S)
<1> DEFINE n == Len(d)
           To(f, k) == /\ f \in [0..k -> Seq(S)]
                       /\ f[0] = <<>>
                       /\ \A i \in 1..k : f[i] = f[i - 1] \o d[i]
           P == {k \in 0..n : \E f : To(f, k)}
<1>1. n \in Nat
  OBVIOUS
<1>2. 0 \in P
  <2> DEFINE f == [i \in 0..0 |-> <<>>]
  <2>1. To(f, 0)
    OBVIOUS
  <2> HIDE DEF f, To
  <2> QED
    BY <1>1, <2>1
<1>3. ASSUME NEW k \in 0..(n - 1), k \in P PROVE k + 1 \in P
  <2>1. PICK f : To(f, k)
    BY <1>3
  <2> DEFINE h == [i \in 0..(k + 1) |-> IF i = k + 1 THEN f[k] \o d[k + 1] ELSE f[i]]
  <2>2. f[k] \in Seq(S) /\ d[k + 1] \in Seq(S)
    BY <2>1
  <2>3. f[k] \o d[k + 1] \in Seq(S)
    BY <2>2, ConcatProperties
  <2>4. h \in [0..(k + 1) -> Seq(S)] /\ h[0] = <<>>
    BY <2>1, <2>3
  <2>5. ASSUME NEW i \in 1..(k + 1) PROVE h[i] = h[i - 1] \o d[i]
    <3>1. CASE i = k + 1
      <4>1. h[k + 1] = f[k] \o d[k + 1] /\ h[k] = f[k]
        <5>1. k \in 0..(k + 1) /\ k + 1 \in 0..(k + 1) /\ k # k + 1
          BY <1>1
        <5> QED
          BY <5>1
      <4>2. i - 1 = k
        BY <3>1
      <4> HIDE DEF h
      <4> QED
        BY <3>1, <4>1, <4>2
    <3>2. CASE i # k + 1
      <4>1. i \in 1..k /\ h[i] = f[i] /\ h[i - 1] = f[i - 1]
        BY <3>2
      <4> HIDE DEF h
      <4> QED
        BY <2>1, <4>1
    <3> QED
      BY <3>1, <3>2
  <2> HIDE DEF h
  <2>6. To(h, k + 1)
    BY <2>4, <2>5
  <2>7. k + 1 \in 0..n
    BY <1>1
  <2> HIDE DEF To
  <2> QED
    BY <2>6, <2>7
<1>4. 0..n \subseteq P
  <2> HIDE DEF P, n
  <2> QED
    BY <1>1, <1>2, <1>3, InductionTo
<1>5. n \in 0..n
  BY <1>1
<1>6. PICK f : To(f, n)
  <2> HIDE DEF To
  <2> QED
    BY <1>4, <1>5
<1>7. Joins(f, d, S)
  BY <1>6 DEF Joins
<1> QED
  BY <1>7

\* Concatenation, known by its law alone while it is hidden.
Cat(s, t) == s \o t

LEMMA CatAssociates ==
    \A S : \A s, t, u \in Seq(S) : Cat(Cat(s, t), u) = Cat(s, Cat(t, u))
  BY ConcatAssociative, Zenon DEF Cat

Continues(u, s, S) == \E t \in Seq(S) : u = s \o t

\* What follows a batch is appended to it.
LEMMA JoinedPrefix ==
    ASSUME NEW S, NEW d, d \in Seq(Seq(S)), NEW f, Joins(f, d, S), NEW i, i \in 0..Len(d)
    PROVE  Continues(f[Len(d)], f[i], S)
<1> DEFINE n == Len(d)
           P == {k \in 0..n : \E t \in Seq(S) : f[n] = f[n - k] \o t}
<1>1. n \in Nat
  OBVIOUS
<1>2. \A k \in 0..n : f[k] \in Seq(S)
  BY DEF Joins
<1>3. 0 \in P
  <2>1. f[n] \in Seq(S) /\ n - 0 = n
    BY <1>1, <1>2
  <2>2. f[n] = f[n - 0] \o <<>>
    BY <2>1, ConcatEmptySeq
  <2>3. <<>> \in Seq(S) /\ 0 \in 0..n
    BY <1>1
  <2>4. \E t \in Seq(S) : f[n] = f[n - 0] \o t
    BY <2>2, <2>3
  <2> QED
    BY <2>3, <2>4
<1>4. ASSUME NEW k \in 0..(n - 1), k \in P PROVE k + 1 \in P
  <2>1. PICK t \in Seq(S) : f[n] = f[n - k] \o t
    BY <1>4
  <2>2. n - k \in 1..n /\ n - k - 1 = n - (k + 1) /\ n - (k + 1) \in 0..n /\ k + 1 \in 0..n
    BY <1>1
  <2>3. f[n - k] = f[n - (k + 1)] \o d[n - k]
    BY <2>2 DEF Joins
  <2>4. f[n - (k + 1)] \in Seq(S) /\ d[n - k] \in Seq(S)
    BY <1>2, <2>2
  <2>5. f[n] = f[n - (k + 1)] \o (d[n - k] \o t)
    <3>1. PICK a, b : a = f[n - (k + 1)] /\ b = d[n - k]
      OBVIOUS
    <3>2. (a \o b) \o t = a \o (b \o t)
      <4>1. a \in Seq(S) /\ b \in Seq(S)
        BY ONLY <2>4, <3>1
      <4>2. t \in Seq(S)
        OBVIOUS
      <4>3. Cat(Cat(a, b), t) = Cat(a, Cat(b, t))
        BY ONLY <4>1, <4>2, CatAssociates
      <4> QED
        BY ONLY <4>3 DEF Cat
    <3>3. f[n] = (a \o b) \o t
      BY ONLY <2>1, <2>3, <3>1
    <3> QED
      BY <3>1, <3>2, <3>3
  <2>6. d[n - k] \o t \in Seq(S)
    BY <2>4, ConcatProperties
  <2> QED
    BY <2>2, <2>5, <2>6
<1>5. 0..n \subseteq P
  <2> HIDE DEF P, n
  <2> QED
    BY <1>1, <1>3, <1>4, InductionTo
<1>6. n - i \in 0..n /\ n - (n - i) = i
  BY <1>1
<1>7. n - i \in P
  <2> HIDE DEF P
  <2> QED
    BY <1>5, <1>6
<1> QED
  BY <1>6, <1>7 DEF Continues

LEMMA ConcatIsPrefix ==
    ASSUME NEW S, NEW s \in Seq(S), NEW t \in Seq(S)
    PROVE  Bcp!IsPrefix(s, s \o t)
<1>1. Len(s) \in Nat /\ Len(s) <= Len(s \o t)
  BY ConcatProperties
<1>2. CASE Len(s) = 0
  <2>1. SubSeq(s, 1, Len(s)) = <<>> /\ SubSeq(s \o t, 1, Len(s)) = <<>>
    BY <1>2, SubSeqEmpty
  <2> QED
    BY <1>1, <2>1 DEF Bcp!IsPrefix
<1>3. CASE Len(s) # 0
  <2>1. 1 \in 1..Len(s) /\ Len(s) \in 1..Len(s)
    BY <1>1, <1>3
  <2>2. SubSeq(s \o t, 1, Len(s)) = SubSeq(s, 1, Len(s))
    BY <2>1, SubSeqOfConcat1
  <2> QED
    BY <1>1, <2>2 DEF Bcp!IsPrefix
<1> QED
  BY <1>2, <1>3

\* FlattenSeq grows in the same way.
LEMMA Flattened ==
    ASSUME NEW S, NEW d, d \in Seq(Seq(S)), NEW f, Joins(f, d, S)
    PROVE  Bcp!FlattenSeq(d) = f[Len(d)]
<1> DEFINE n == Len(d)
           Grows(h) == h = [i \in 1..n |-> IF i = 1 THEN d[i] ELSE h[i - 1] \o d[i]]
           flatten == CHOOSE h : Grows(h)
<1>1. n \in Nat
  OBVIOUS
<1>2. CASE n = 0
  <2>1. Bcp!FlattenSeq(d) = d
    BY <1>2 DEF Bcp!FlattenSeq
  <2>2. d = <<>>
    BY <1>2
  <2> QED
    BY <1>2, <2>1, <2>2 DEF Joins
<1>3. CASE n # 0
  <2>1. f[0] = <<>> /\ \A i \in 1..n : f[i] = f[i - 1] \o d[i]
    BY DEF Joins
  <2>2. f[1] = d[1]
    <3>1. 1 \in 1..n /\ 1 - 1 = 0
      BY <1>1, <1>3
    <3>2. d[1] \in Seq(S)
      BY <3>1, ElementOfSeq
    <3>3. f[1] = f[1 - 1] \o d[1]
      <4>1. PICK i \in 1..n : i = 1
        BY <3>1
      <4> QED
        BY <2>1, <4>1
    <3> QED
      BY <2>1, <3>1, <3>2, <3>3, ConcatEmptySeq
  <2> DEFINE g == [i \in 1..n |-> f[i]]
  <2>3. ASSUME NEW i \in 1..n PROVE g[i] = IF i = 1 THEN d[i] ELSE g[i - 1] \o d[i]
    <3>1. i # 1 => i - 1 \in 1..n
      BY <1>1
    <3> QED
      BY <2>1, <2>2, <3>1
  <2>4. Grows(g)
    <3>1. g = [i \in 1..n |-> g[i]]
      OBVIOUS
    <3> HIDE DEF g
    <3> QED
      BY <2>3, <3>1
  <2>5. Grows(flatten)
    <3> HIDE DEF Grows, g
    <3> QED
      BY <2>4, Zenon
  <2>6. \A i \in 1..n : flatten[i] = IF i = 1 THEN d[i] ELSE flatten[i - 1] \o d[i]
    <3> HIDE DEF flatten
    <3> QED
      BY <2>5
  <2>7. Bcp!FlattenSeq(d) = flatten[n]
    BY <1>3, Zenon DEF Bcp!FlattenSeq
  <2> HIDE DEF flatten
  <2> DEFINE P == {k \in 0..n : k = 0 \/ flatten[k] = f[k]}
  <2>8. 0 \in P
    BY <1>1
  <2>9. ASSUME NEW k \in 0..(n - 1), k \in P PROVE k + 1 \in P
    <3>1. k + 1 \in 1..n /\ k + 1 \in 0..n
      BY <1>1
    <3>2. CASE k = 0
      BY <2>2, <2>6, <3>1, <3>2
    <3>3. CASE k # 0
      <4>1. PICK i \in 1..n : i = k + 1
        BY <3>1
      <4>2. i # 1 /\ i - 1 = k /\ flatten[k] = f[k]
        BY <3>3, <4>1, <2>9
      <4>3. flatten[i] = f[i]
        BY <2>1, <2>6, <4>2
      <4> QED
        BY <3>1, <4>1, <4>3
    <3> QED
      BY <3>2, <3>3
  <2>10. 0..n \subseteq P
    <3> HIDE DEF P, n
    <3> QED
      BY <1>1, <2>8, <2>9, InductionTo
  <2>11. n \in P
    <3> HIDE DEF P
    <3> QED
      BY <1>1, <2>10
  <2> QED
    BY <1>3, <2>7, <2>11
<1> QED
  BY <1>2, <1>3

\* Where the batches of a file end in its rows.
RowsTo(file) == CHOOSE f : Joins(f, file, Bcp!Rows)

LEMMA RowsOfFile ==
    ASSUME NEW d, d \in Seq(Seq(Bcp!Rows))
    PROVE  /\ Joins(RowsTo(d), d, Bcp!Rows)
           /\ Bcp!FlattenSeq(d) = RowsTo(d)[Len(d)]
           /\ Bcp!FlattenSeq(d) \in Seq(Bcp!Rows)
           /\ \A i \in 0..Len(d) : Bcp!IsPrefix(RowsTo(d)[i], Bcp!FlattenSeq(d))
<1>1. \E f : Joins(f, d, Bcp!Rows)
  BY JoinsExist
<1>2. PICK S, f : S = Bcp!Rows /\ f = RowsTo(d)
  OBVIOUS
<1>3. d \in Seq(Seq(S)) /\ Joins(f, d, S)
  BY <1>1, <1>2 DEF RowsTo
<1>4. Bcp!FlattenSeq(d) = f[Len(d)]
  BY ONLY <1>3, Flattened
<1>5. (\A i \in 0..Len(d) : f[i] \in Seq(S)) /\ Len(d) \in 0..Len(d)
  <2>1. \A i \in 0..Len(d) : f[i] \in Seq(S)
    BY ONLY <1>3, Zenon DEF Joins
  <2>2. Len(d) \in 0..Len(d)
    OBVIOUS
  <2> QED
    BY ONLY <2>1, <2>2
<1>6. ASSUME NEW i \in 0..Len(d) PROVE Bcp!IsPrefix(f[i], Bcp!FlattenSeq(d))
  <2>1. PICK a, b : a = f[i] /\ b = f[Len(d)]
    OBVIOUS
  <2>2. Continues(f[Len(d)], f[i], S)
    <3>1. i \in 0..Len(d)
      OBVIOUS
    <3> QED
      BY ONLY <1>3, <3>1, JoinedPrefix
  <2>3. PICK t \in Seq(S) : b = a \o t
    BY ONLY <2>1, <2>2 DEF Continues
  <2>4. a \in Seq(S) /\ t \in Seq(S)
    BY <1>5, <2>1
  <2>5. Bcp!IsPrefix(a, a \o t)
    BY ONLY <2>4, ConcatIsPrefix
  <2> QED
    BY ONLY <1>4, <2>1, <2>3, <2>5
<1> QED
  BY ONLY <1>2, <1>3, <1>4, <1>5, <1>6

-----------------------------------------------------------------------------
(* The odbc-bcp runner: one part per concern                               *)

File == chosen.dataset
AllRows == Bcp!AllRows
Copying == {"open", "cells", "flush", "next_row", "next_batch"}
Checking == {"last_flush", "check_rows", "done", "count"}

\* A repeat that comes to its drop without a failure.
Copied == step = "drop_table" /\ ~failed

TypesInv ==
    /\ chosen \in Bcp!Options
    /\ inflight \in Seq(Bcp!Rows) /\ received \in Seq(Bcp!Rows)
    /\ printed \in Counts
    /\ left \in BOOLEAN
    /\ at \in [batch : Nat, row : Nat, col : Nat]

\* An observer is there for a profile only, and is dropped before the writer.
HandlesOf(who) == {<<who, "dbc">>, <<who, "env">>}
WriterOnly == handles \subseteq HandlesOf("writer") /\ connected \subseteq {"writer"}
HandlesInv ==
    /\ handles \subseteq HandlesOf("writer") \cup HandlesOf("observer")
    /\ connected \subseteq {"writer", "observer"}
    /\ step \in {"connect_writer", "drop_writer"} \/ ~chosen.profile => WriterOnly
    /\ step = "connect_observer" => chosen.profile /\ connected \subseteq {"writer"}
    /\ step = "exited" => handles = {} /\ connected = {}

\* Between repeats there is no table but one whose drop failed.
TableInv == step \notin Copying \cup Checking \cup {"drop_table"} => held = Null \/ left

\* Once bound, the driver's pointers are those of the buffers; a buffer of the
\* least size holds a value of a fixed-length column.
Pointing ==
    /\ buf \in [Bcp!Cols -> [gen : Nat, cap : Nat \ {0}, content : Seq(Units \cup {"0"})]]
    /\ bound \in [Bcp!Cols -> [gen : Nat, len : Int]]
    /\ \A c \in Bcp!Cols : bound[c].gen = buf[c].gen
MemoryInv == step \in Copying => Pointing \/ (step = "open" /\ buf = <<>>)

\* The position in the file says what the driver has read.
ReadUpTo(i, r) == received = ReadTo(RowsTo(File), File, i, r)
PositionInv ==
    /\ step \in Copying \ {"open"} => at.batch \in 1..Len(File)
    /\ step \in {"cells", "flush", "next_row"} => at.row \in 1..Len(File[at.batch])
    /\ step = "open" => /\ at.batch \in 1..(Len(File) + 1) /\ at.row = 1 /\ at.col = 1
                        /\ received = RowsTo(File)[at.batch - 1]
    /\ step = "cells" => ReadUpTo(at.batch, at.row - 1)
    /\ step \in {"flush", "next_row"} => ReadUpTo(at.batch, at.row)
    /\ step = "next_batch" => received = RowsTo(File)[at.batch]
    /\ step \in Checking \/ Copied => received = AllRows
CellsInv ==
    step = "cells" =>
        /\ at.col \in 1..(Len(Columns) + 1)
        /\ \A c \in 1..(at.col - 1) : Bcp!ReadColumn(c) = File[at.batch][at.row][c]

\* Where the rows are that the driver has read: in full batches and in flight.
Calls(n) == (n + chosen.batchSize - 1) \div chosen.batchSize
Deferred == held = <<>> /\ printed = Bcp!ZeroReport /\ Len(inflight) = Len(received)
Flushed ==
    /\ held \in Seq(Bcp!Rows) /\ Len(held) <= printed.batchCalls * chosen.batchSize
    /\ printed.batchCalls \in Nat /\ printed.doneRows = 0
FlushInv ==
    /\ step \in Copying \cup {"last_flush", "check_rows", "done"}
         => IF chosen.defer THEN Deferred ELSE Flushed
    /\ step \in {"flush", "last_flush"} => ~chosen.defer
    /\ step \in Copying \cup {"last_flush"} /\ ~chosen.defer =>
         /\ Len(received) = printed.batchCalls * chosen.batchSize + Len(inflight)
         /\ IF step = "flush" THEN Len(inflight) = chosen.batchSize
            ELSE Len(inflight) < chosen.batchSize
    /\ step = "last_flush" => inflight # <<>>
    /\ step \in {"check_rows", "done"} /\ ~chosen.defer =>
         inflight = <<>> /\ printed.batchCalls = Calls(Len(received))

\* What a repeat reports when all its checks passed.
RepeatCalls == IF chosen.defer THEN 0 ELSE Calls(chosen.rows)
RepeatDone == IF chosen.defer THEN chosen.rows ELSE 0
ReportedInv ==
    /\ step \in {"done", "count"} \/ Copied => Len(received) = chosen.rows
    /\ step = "count" \/ Copied =>
         /\ Bcp!ReportedRows(printed) = chosen.rows
         /\ printed.batchCalls = RepeatCalls
         /\ printed.doneRows = RepeatDone

\* The totals are of the repeats that are finished.
Over == {"drop_observer", "drop_writer", "exited"}
TotalInv ==
    /\ totals \in Counts
    /\ turn \in 0..Repeats
    /\ step \notin Over => returned = "running"
    /\ step \notin Over \cup {"finish"} => turn < Repeats
    /\ step = "finish" \/ returned = "ok" => turn = Repeats
    /\ turn > 0 => Len(AllRows) = chosen.rows
    /\ totals.batchCalls = turn * RepeatCalls
    /\ totals.doneRows = turn * RepeatDone
    /\ Bcp!ReportedRows(totals) = turn * chosen.rows

BulkInv ==
    /\ TypesInv /\ HandlesInv /\ TableInv /\ MemoryInv /\ PositionInv /\ CellsInv
    /\ FlushInv /\ ReportedInv /\ TotalInv /\ Bcp!DriverReadsTheRows


LEMMA Values == Bcp!RunnerAssumption
  BY ProgramsAssumption

LEMMA OptionsTyped ==
    ASSUME TypesInv
    PROVE  /\ File \in Seq(Seq(Bcp!Rows))
           /\ chosen.batchSize \in Nat \ {0}
           /\ chosen.rows \in Nat
           /\ chosen.defer \in BOOLEAN /\ chosen.profile \in BOOLEAN
           /\ AllRows = Bcp!FlattenSeq(File)
           /\ Joins(RowsTo(File), File, Bcp!Rows)
           /\ AllRows = RowsTo(File)[Len(File)]
           /\ AllRows \in Seq(Bcp!Rows)
           /\ \A i \in 0..Len(File) : Bcp!IsPrefix(RowsTo(File)[i], AllRows)
<1>1. chosen \in Bcp!Options
  BY DEF TypesInv
<1>2. chosen.dataset \in Datasets /\ chosen.batchSize \in BatchSizes /\ chosen.rows \in RowOptions
      /\ chosen.defer \in BOOLEAN /\ chosen.profile \in BOOLEAN
  BY <1>1 DEF Bcp!Options
<1>3. File \in Seq(Seq(Bcp!Rows)) /\ chosen.batchSize \in Nat \ {0} /\ chosen.rows \in Nat
  BY <1>2, Values DEF Bcp!RunnerAssumption, File
<1>4. AllRows = Bcp!FlattenSeq(File)
  BY DEF AllRows, Bcp!AllRows, File
<1> HIDE DEF File
<1> QED
  BY <1>2, <1>3, <1>4, RowsOfFile

-----------------------------------------------------------------------------
(* Handles and tables *)

LEMMA HandlesKept ==
    ASSUME TypesInv, HandlesInv, Bcp!Step
    PROVE  HandlesInv'
<1> USE DEF Bcp!memory, Bcp!odbc, Bcp!server, Bcp!outcome, Bcp!RepeatFails, HandlesInv,
            WriterOnly, HandlesOf
<1>0. chosen.profile \in BOOLEAN
  BY OptionsTyped
<1>1. ASSUME UNCHANGED <<chosen, handles, connected>>,
             step' \notin {"connect_writer", "connect_observer", "exited"},
             step' = "drop_writer" => ~chosen.profile
      PROVE  HandlesInv'
  BY <1>0, <1>1
<1>2. CASE Bcp!AllocateEnv \/ Bcp!AllocateDbc
  <2>1. PICK kind \in {"env", "dbc"} : Bcp!Allocate(kind)
    BY <1>2 DEF Bcp!AllocateEnv, Bcp!AllocateDbc
  <2>2. UNCHANGED <<chosen, step, connected>> /\ step \in {"connect_writer", "connect_observer"}
    BY <2>1 DEF Bcp!Allocate
  <2>3. handles' = handles \cup {<<IF step = "connect_writer" THEN "writer" ELSE "observer", kind>>}
    BY <2>1 DEF Bcp!Allocate, Bcp!Handle, Bcp!Connecting
  <2> QED
    BY <1>0, <2>2, <2>3
<1>3. CASE Bcp!AllocateFails
  <2>1. UNCHANGED <<chosen, connected>> /\ step' = "drop_writer"
        /\ step \in {"connect_writer", "connect_observer"}
    BY <1>3 DEF Bcp!AllocateFails
  <2>2. CASE step = "connect_writer"
    <3>1. handles' \subseteq handles
      BY <1>3 DEF Bcp!AllocateFails
    <3> QED
      BY <2>1, <2>2, <3>1
  <2>3. CASE step = "connect_observer"
    <3>1. handles' = handles \ {<<"observer", "env">>} /\ <<"observer", "dbc">> \notin handles
      BY <1>3, <2>3 DEF Bcp!AllocateFails, Bcp!Handle, Bcp!Connecting
    <3> QED
      BY <2>1, <2>3, <3>1
  <2> QED
    BY <2>1, <2>2, <2>3
<1>4. CASE Bcp!DriverConnect
  <2>1. UNCHANGED <<chosen, handles>> /\ step \in {"connect_writer", "connect_observer"}
    BY <1>4 DEF Bcp!DriverConnect
  <2>2. CASE step = "connect_writer"
    <3>1. \/ connected' = connected \cup {"writer"}
             /\ step' = IF chosen.profile THEN "connect_observer" ELSE "setup"
          \/ connected' = connected /\ step' = "drop_writer"
      BY <1>4, <2>2 DEF Bcp!DriverConnect, Bcp!Connecting, Bcp!Drops
    <3> QED
      BY <1>0, <2>1, <2>2, <3>1
  <2>3. CASE step = "connect_observer"
    <3>1. \/ connected' = connected \cup {"observer"} /\ step' = "setup"
          \/ connected' = connected /\ step' = "drop_observer"
      BY <1>4, <2>3 DEF Bcp!DriverConnect, Bcp!Connecting, Bcp!Drops
    <3> QED
      BY <1>0, <2>1, <2>3, <3>1
  <2> QED
    BY <2>1, <2>2, <2>3
<1>5. CASE Bcp!DropConnection("writer")
  <2>1. /\ step = "drop_writer" /\ step' = "exited" /\ chosen' = chosen
        /\ connected' = connected \ {"writer"}
        /\ handles' = handles \ {<<"writer", "dbc">>, <<"writer", "env">>}
    BY <1>5 DEF Bcp!DropConnection, Bcp!Drops
  <2> QED
    BY <2>1
<1>6. CASE Bcp!DropConnection("observer")
  <2>1. /\ step = "drop_observer" /\ step' = "drop_writer" /\ chosen' = chosen
        /\ connected' = connected \ {"observer"}
        /\ handles' = handles \ {<<"observer", "dbc">>, <<"observer", "env">>}
    BY <1>6 DEF Bcp!DropConnection, Bcp!Drops
  <2> QED
    BY <2>1
<1>7. CASE Bcp!SetUp \/ Bcp!OpenBatch \/ Bcp!OpenFails \/ Bcp!SetCell \/ Bcp!SetCellFails
  BY <1>1, <1>7 DEF Bcp!SetUp, Bcp!OpenBatch, Bcp!OpenFails, Bcp!SetCell, Bcp!SetCellFails
<1>8. CASE Bcp!SendRow \/ Bcp!SendRowFails \/ Bcp!Flush \/ Bcp!FlushFails
  BY <1>1, <1>8 DEF Bcp!SendRow, Bcp!SendRowFails, Bcp!Flush, Bcp!FlushFails
<1>9. CASE Bcp!NextRow \/ Bcp!NextBatch \/ Bcp!EndOfFile \/ Bcp!CheckRows
           \/ Bcp!CapturePhaseFails
  BY <1>1, <1>9 DEF Bcp!NextRow, Bcp!NextBatch, Bcp!EndOfFile, Bcp!CheckRows, Bcp!CapturePhaseFails
<1>10. CASE Bcp!Done \/ Bcp!DoneFails \/ Bcp!Count
  BY <1>1, <1>10 DEF Bcp!Done, Bcp!DoneFails, Bcp!Count
<1>11. CASE Bcp!DropTable \/ Bcp!Finish
  <2>1. UNCHANGED <<chosen, handles, connected>>
        /\ step' \in {"setup", "finish", Bcp!Leaving}
    BY <1>11 DEF Bcp!DropTable, Bcp!Finish, Bcp!NextRepeat
  <2> QED
    BY <1>1, <2>1 DEF Bcp!Leaving
<1> QED
  BY <1>2, <1>3, <1>4, <1>5, <1>6, <1>7, <1>8, <1>9, <1>10, <1>11 DEF Bcp!Step

LEMMA TableKept ==
    ASSUME TypesInv, TableInv, Bcp!Step
    PROVE  TableInv'
<1> USE DEF Bcp!memory, Bcp!odbc, Bcp!server, Bcp!outcome, Bcp!RepeatFails, TableInv, Copying,
            Checking
<1>1. CASE Bcp!DropTable
  <2>1. PICK dropped \in BOOLEAN : held' = (IF dropped THEN Null ELSE held)
                                   /\ left' = (left \/ ~dropped)
    BY <1>1 DEF Bcp!DropTable
  <2> QED
    BY <2>1
<1>2. CASE Bcp!DropConnection("writer") \/ Bcp!DropConnection("observer")
  <2>1. UNCHANGED <<held, left>> /\ step \in {"drop_writer", "drop_observer"}
    BY <1>2 DEF Bcp!DropConnection, Bcp!Drops
  <2> QED
    BY <2>1
<1>3. CASE Bcp!AllocateEnv \/ Bcp!AllocateDbc \/ Bcp!AllocateFails \/ Bcp!DriverConnect
  BY <1>3 DEF Bcp!AllocateEnv, Bcp!AllocateDbc, Bcp!Allocate, Bcp!AllocateFails,
         Bcp!DriverConnect
<1>4. CASE Bcp!Finish
  BY <1>4 DEF Bcp!Finish
<1>5. CASE Bcp!SetUp \/ Bcp!OpenBatch \/ Bcp!OpenFails \/ Bcp!SetCell \/ Bcp!SetCellFails
  BY <1>5 DEF Bcp!SetUp, Bcp!OpenBatch, Bcp!OpenFails, Bcp!SetCell, Bcp!SetCellFails
<1>6. CASE Bcp!SendRow \/ Bcp!SendRowFails \/ Bcp!Flush \/ Bcp!FlushFails
  BY <1>6 DEF Bcp!SendRow, Bcp!SendRowFails, Bcp!Flush, Bcp!FlushFails
<1>7. CASE Bcp!NextRow \/ Bcp!NextBatch \/ Bcp!EndOfFile \/ Bcp!CheckRows
           \/ Bcp!CapturePhaseFails
  BY <1>7 DEF Bcp!NextRow, Bcp!NextBatch, Bcp!EndOfFile, Bcp!CheckRows, Bcp!CapturePhaseFails
<1>8. CASE Bcp!Done \/ Bcp!DoneFails \/ Bcp!Count
  BY <1>8 DEF Bcp!Done, Bcp!DoneFails, Bcp!Count
<1> QED
  BY <1>1, <1>2, <1>3, <1>4, <1>5, <1>6, <1>7, <1>8 DEF Bcp!Step

-----------------------------------------------------------------------------
(* What the driver reads                                                   *)

LEMMA RowTyped ==
    ASSUME TypesInv, PositionInv, step = "cells"
    PROVE  /\ File[at.batch][at.row] \in Bcp!Rows
           /\ File[at.batch] \in Seq(Bcp!Rows)
           /\ at.batch \in 1..Len(File) /\ at.row \in 1..Len(File[at.batch])
           /\ Bcp!Batch = File[at.batch]
<1>1. File \in Seq(Seq(Bcp!Rows))
  BY OptionsTyped
<1>2. at.batch \in 1..Len(File) /\ at.row \in 1..Len(File[at.batch])
  BY DEF PositionInv, Copying
<1>3. File[at.batch] \in Seq(Bcp!Rows)
  BY <1>1, <1>2, ElementOfSeq
<1>4. File[at.batch][at.row] \in Bcp!Rows
  BY <1>2, <1>3, ElementOfSeq
<1> QED
  BY <1>2, <1>3, <1>4 DEF Bcp!Batch, File

LEMMA ColumnsTyped ==
    /\ Bcp!Cols = 1..Len(Columns)
    /\ Len(Columns) \in Nat \ {0}
    /\ \A c \in Bcp!Cols : Columns[c].variable \in BOOLEAN
<1> DEFINE Column == [variable : BOOLEAN, nullable : BOOLEAN]
<1>1. Columns \in Seq(Column) /\ Columns # <<>>
  BY Values DEF Bcp!RunnerAssumption
<1>2. \A column \in Column : column.variable \in BOOLEAN
  OBVIOUS
<1> HIDE DEF Column
<1>3. Len(Columns) \in Nat \ {0}
  BY <1>1, EmptySeq
<1>4. Bcp!Cols = 1..Len(Columns)
  BY <1>1, LenProperties DEF Bcp!Cols
<1>5. \A c \in Bcp!Cols : Columns[c] \in Column
  BY <1>1, <1>4, ElementOfSeq
<1> QED
  BY <1>2, <1>3, <1>4, <1>5

\* A cell is set where the driver looks for it.
LEMMA CellIsSet ==
    ASSUME TypesInv, PositionInv, CellsInv, Pointing, Bcp!SetCell
    PROVE  /\ step = "cells" /\ UNCHANGED <<chosen, step, received>>
           /\ at' = [at EXCEPT !.col = @ + 1]
           /\ at.col \in Bcp!Cols
           /\ Pointing'
           /\ \A c \in Bcp!Cols :
                 Bcp!ReadColumn(c)' = IF c = at.col THEN File[at.batch][at.row][c]
                                      ELSE Bcp!ReadColumn(c)
<1>1. step = "cells" /\ UNCHANGED <<chosen, step, received>> /\ at' = [at EXCEPT !.col = @ + 1]
      /\ at.col <= Len(Columns)
  BY DEF Bcp!SetCell, Bcp!server
<1>2. at.col \in Bcp!Cols
  <2>1. at.col \in 1..(Len(Columns) + 1)
    BY <1>1 DEF CellsInv
  <2> QED
    BY <1>1, <2>1, ColumnsTyped
<1>a. PICK k \in Bcp!Cols : k = at.col
  BY <1>2
<1>b. PICK value : value = File[at.batch][at.row][k]
  OBVIOUS
<1>3. Bcp!Cell = value
  BY <1>1, <1>a, <1>b, RowTyped DEF Bcp!Cell
<1>4. /\ value \in Seq(Units) \cup {Null}
      /\ Columns[k].variable \/ value = Null \/ Len(value) = 1
  <2>1. File[at.batch][at.row] \in Bcp!Rows
    BY <1>1, RowTyped
  <2> QED
    BY <1>b, <2>1 DEF Bcp!Rows, Bcp!Cols
<1> DEFINE Buffers == [gen : Nat, cap : Nat \ {0}, content : Seq(Units \cup {"0"})]
           Pointers == [gen : Nat, len : Int]
<1>5. /\ buf \in [Bcp!Cols -> Buffers] /\ bound \in [Bcp!Cols -> Pointers]
      /\ \A c \in Bcp!Cols : bound[c].gen = buf[c].gen
  BY DEF Pointing
<1>6. PICK b \in Buffers, p \in Pointers :
         /\ buf' = [buf EXCEPT ![k] = b] /\ bound' = [bound EXCEPT ![k] = p]
         /\ p.gen = b.gen
         /\ \/ value = Null /\ p.len = -1
            \/ value # Null /\ p.len = Len(value) /\ b.content = value
  <2>1. CASE value = Null
    <3>1. bound' = [bound EXCEPT ![k] = [bound[k] EXCEPT !.len = -1]] /\ buf' = buf
      BY <1>3, <1>a, <2>1 DEF Bcp!SetCell, Bcp!NullCell
    <3>2. [bound[k] EXCEPT !.len = -1] \in Pointers /\ [bound[k] EXCEPT !.len = -1].gen = buf[k].gen
          /\ [bound[k] EXCEPT !.len = -1].len = -1
      BY <1>5
    <3>3. buf[k] \in Buffers /\ buf' = [buf EXCEPT ![k] = buf[k]]
      BY <1>5, <3>1
    <3> HIDE DEF Buffers, Pointers
    <3> QED
      BY <2>1, <3>1, <3>2, <3>3
  <2>2. CASE value # Null
    <3>1. PICK moves \in BOOLEAN :
             /\ buf' = [buf EXCEPT ![k] = Bcp!Refilled(buf[k], value, moves)]
             /\ bound' = [bound EXCEPT ![k] =
                            Bcp!Pointed(bound[k], Bcp!Refilled(buf[k], value, moves), Columns[k])]
      BY <1>3, <1>a, <2>2 DEF Bcp!SetCell
    <3>2. PICK b, p : b = Bcp!Refilled(buf[k], value, moves) /\ p = Bcp!Pointed(bound[k], b, Columns[k])
      OBVIOUS
    <3>3. /\ value \in Seq(Units \cup {"0"}) /\ Len(value) \in Nat
          /\ Columns[k].variable \/ Len(value) = 1
      BY <1>4, <2>2, SeqMonotonic
    <3>4. buf[k] \in Buffers /\ bound[k] \in Pointers /\ bound[k].gen = buf[k].gen
      BY <1>5
    <3>5. b \in Buffers /\ b.content = value /\ (~Columns[k].variable => b.gen = buf[k].gen)
      <4>1. CASE Len(value) <= buf[k].cap
        BY <3>2, <3>3, <3>4, <4>1 DEF Bcp!Refilled
      <4>2. CASE ~(Len(value) <= buf[k].cap)
        <5>1. b = [gen |-> IF moves THEN buf[k].gen + 1 ELSE buf[k].gen,
                   cap |-> Len(value), content |-> value]
          BY <3>2, <4>2 DEF Bcp!Refilled
        <5>2. Len(value) \in Nat \ {0} /\ Columns[k].variable
          <6>1. buf[k].cap \in Nat \ {0} /\ Len(value) \in Nat
            BY <3>3, <3>4
          <6>2. PICK cap, len : cap = buf[k].cap /\ len = Len(value)
            OBVIOUS
          <6>3. cap \in Nat \ {0} /\ len \in Nat /\ ~(len <= cap)
            BY <4>2, <6>1, <6>2
          <6>4. len \in Nat \ {0} /\ len # 1
            BY ONLY <6>3
          <6> QED
            BY <3>3, <6>2, <6>4
        <5> QED
          BY <3>3, <3>4, <5>1, <5>2
      <4> QED
        BY <4>1, <4>2
    <3>6. p = [gen |-> IF Columns[k].variable THEN b.gen ELSE bound[k].gen, len |-> Len(value)]
      BY <3>2, <3>5 DEF Bcp!Pointed
    <3>7. p \in Pointers /\ p.gen = b.gen /\ p.len = Len(value)
      BY <3>3, <3>4, <3>5, <3>6
    <3> HIDE DEF Buffers, Pointers
    <3> QED
      BY <2>2, <3>1, <3>2, <3>5, <3>7
  <2> QED
    BY <2>1, <2>2
<1>7. /\ buf' \in [Bcp!Cols -> Buffers] /\ bound' \in [Bcp!Cols -> Pointers]
      /\ buf'[k] = b /\ bound'[k] = p
      /\ \A c \in Bcp!Cols \ {k} : buf'[c] = buf[c] /\ bound'[c] = bound[c]
  <2> HIDE DEF Buffers, Pointers
  <2> QED
    BY <1>5, <1>6
<1>8. Pointing'
  <2>1. \A c \in Bcp!Cols : bound'[c].gen = buf'[c].gen
    BY <1>5, <1>6, <1>7
  <2> QED
    BY <1>7, <2>1 DEF Pointing, Bcp!Cols
<1>9. \A c \in Bcp!Cols : c # k => Bcp!ReadColumn(c)' = Bcp!ReadColumn(c)
  BY <1>7 DEF Bcp!ReadColumn
<1>10. Bcp!ReadColumn(k)' = value
  <2>1. CASE value = Null
    BY <1>6, <1>7, <2>1 DEF Bcp!ReadColumn
  <2>2. CASE value # Null
    <3>1. value \in Seq(Units) /\ Len(value) \in Nat
      BY <1>4, <2>2
    <3>2. Bcp!ReadColumn(k)' = SubSeq(value, 1, Len(value))
      BY <1>6, <1>7, <2>2, <3>1 DEF Bcp!ReadColumn
    <3> QED
      BY <3>1, <3>2, SubSeqFull
  <2> QED
    BY <2>1, <2>2
<1> QED
  BY <1>1, <1>2, <1>8, <1>9, <1>10, <1>a, <1>b

\* A row whose cells are all set is read as it is.
LEMMA RowIsRead ==
    ASSUME TypesInv, PositionInv, CellsInv, step = "cells", at.col > Len(Columns)
    PROVE  [c \in Bcp!Cols |-> Bcp!ReadColumn(c)] = File[at.batch][at.row]
<1>1. File[at.batch][at.row] \in Bcp!Rows
  BY RowTyped
<1>2. File[at.batch][at.row] = [c \in Bcp!Cols |-> File[at.batch][at.row][c]]
  BY <1>1 DEF Bcp!Rows, Bcp!Cols
<1>3. at.col = Len(Columns) + 1 /\ Bcp!Cols = 1..(at.col - 1)
  BY ColumnsTyped DEF CellsInv
<1>4. \A c \in Bcp!Cols : Bcp!ReadColumn(c) = File[at.batch][at.row][c]
  BY <1>3 DEF CellsInv
<1> QED
  BY <1>2, <1>4

LEMMA JoinsAt ==
    ASSUME NEW S, NEW d, d \in Seq(Seq(S)), NEW f, Joins(f, d, S)
    PROVE  \A i \in 1..Len(d) :
              f[i - 1] \in Seq(S) /\ f[i] \in Seq(S) /\ d[i] \in Seq(S)
<1> TAKE i \in 1..Len(d)
<1>1. Len(d) \in Nat
  OBVIOUS
<1>2. i - 1 \in 0..Len(d) /\ i \in 0..Len(d)
  BY <1>1
<1>3. f \in [0..Len(d) -> Seq(S)]
  BY DEF Joins
<1>4. f[i - 1] \in Seq(S) /\ f[i] \in Seq(S)
  BY ONLY <1>2, <1>3
<1>5. d[i] \in Seq(S)
  BY ElementOfSeq
<1> QED
  BY <1>4, <1>5

\* One more row of the batch.
LEMMA RowAppended ==
    ASSUME NEW S, NEW d, d \in Seq(Seq(S)), NEW f, Joins(f, d, S),
           NEW i \in 1..Len(d), NEW r \in 1..Len(d[i])
    PROVE  Append(ReadTo(f, d, i, r - 1), d[i][r]) = ReadTo(f, d, i, r)
<1>1. f[i - 1] \in Seq(S)
  BY JoinsAt
<1>2. d[i] \in Seq(S)
  BY ElementOfSeq
<1>3. PICK a, b : a = f[i - 1] /\ b = d[i]
  OBVIOUS
<1>4. a \in Seq(S) /\ b \in Seq(S) /\ r \in 1..Len(b)
  BY <1>1, <1>2, <1>3
<1>5. b[r] \in S /\ SubSeq(b, 1, r - 1) \in Seq(S)
  BY ONLY <1>4, ElementOfSeq
<1>6. SubSeq(b, 1, r) = SubSeq(b, 1, r - 1) \o <<b[r]>>
  BY ONLY <1>4, SubSeqRecursiveSecond
<1>7. PICK s, e : s = SubSeq(b, 1, r - 1) /\ e = <<b[r]>>
  OBVIOUS
<1>8. a \o s \in Seq(S) /\ s \in Seq(S) /\ e \in Seq(S)
  BY <1>4, <1>5, <1>7, ConcatProperties
<1>9. Append(a \o s, b[r]) = (a \o s) \o <<b[r]>>
  BY ONLY <1>5, <1>8, AppendIsConcat
<1>10. (a \o s) \o e = a \o (s \o e)
  <2>1. a \in Seq(S) /\ s \in Seq(S) /\ e \in Seq(S)
    BY <1>4, <1>8
  <2>2. Cat(Cat(a, s), e) = Cat(a, Cat(s, e))
    BY ONLY <2>1, CatAssociates
  <2> QED
    BY ONLY <2>2 DEF Cat
<1> QED
  BY <1>3, <1>6, <1>7, <1>9, <1>10 DEF ReadTo

\* None of a batch, and all of it.
ReadWhole(f, d, i) ==
    /\ ReadTo(f, d, i, 0) = f[i - 1]
    /\ ReadTo(f, d, i, Len(d[i])) = f[i]
    /\ d[i] = <<>> => f[i] = f[i - 1]

LEMMA BatchRead ==
    ASSUME NEW S, NEW d, d \in Seq(Seq(S)), NEW f, Joins(f, d, S)
    PROVE  \A i \in 1..Len(d) : ReadWhole(f, d, i)
<1> TAKE i \in 1..Len(d)
<1>1. f[i - 1] \in Seq(S) /\ d[i] \in Seq(S)
  BY JoinsAt
<1>2. f[i] = f[i - 1] \o d[i]
  BY DEF Joins
<1>3. SubSeq(d[i], 1, 0) = <<>> /\ SubSeq(d[i], 1, Len(d[i])) = d[i]
  BY <1>1, SubSeqEmpty, SubSeqFull
<1>4. f[i - 1] \o <<>> = f[i - 1]
  BY <1>1, ConcatEmptySeq
<1>5. ReadTo(f, d, i, 0) = f[i - 1]
  BY <1>3, <1>4 DEF ReadTo
<1>6. ReadTo(f, d, i, Len(d[i])) = f[i]
  BY <1>2, <1>3 DEF ReadTo
<1>7. d[i] = <<>> => f[i] = f[i - 1]
  BY <1>2, <1>4
<1> QED
  BY <1>5, <1>6, <1>7 DEF ReadWhole

\* Any rows of a batch behind those before it are a beginning of the file's.
LEMMA ReadIsPrefix ==
    ASSUME TypesInv, NEW i \in 1..Len(File), NEW r \in 0..Len(File[i])
    PROVE  /\ ReadTo(RowsTo(File), File, i, r) \in Seq(Bcp!Rows)
           /\ Bcp!IsPrefix(ReadTo(RowsTo(File), File, i, r), AllRows)
<1>1. PICK S, d, f : S = Bcp!Rows /\ d = File /\ f = RowsTo(File)
  OBVIOUS
<1>2. d \in Seq(Seq(S)) /\ Joins(f, d, S) /\ AllRows = f[Len(d)]
  BY <1>1, OptionsTyped
<1>3. i \in 1..Len(d) /\ r \in 0..Len(d[i]) /\ d[i] \in Seq(S)
  BY <1>1, <1>2, ElementOfSeq
<1>4. f[i - 1] \in Seq(S) /\ f[i] \in Seq(S) /\ f[i] = f[i - 1] \o d[i]
  <2>1. f[i - 1] \in Seq(S) /\ f[i] \in Seq(S)
    BY ONLY <1>2, <1>3, JoinsAt
  <2> QED
    BY <1>2, <1>3, <2>1 DEF Joins
<1>5. PICK t \in Seq(S) : f[Len(d)] = f[i] \o t
  <2>1. i \in 0..Len(d)
    BY <1>2, <1>3
  <2>2. Continues(f[Len(d)], f[i], S)
    BY ONLY <1>2, <2>1, JoinedPrefix
  <2> QED
    BY ONLY <2>2 DEF Continues
<1>6. PICK a, b, s, u : /\ a = f[i - 1] /\ b = d[i]
                        /\ s = SubSeq(b, 1, r) /\ u = SubSeq(b, r + 1, Len(b))
  OBVIOUS
<1>7. s \in Seq(S) /\ u \in Seq(S) /\ a \in Seq(S) /\ b \in Seq(S)
  BY <1>3, <1>4, <1>6
<1>8. s \o u = b
  <2>1. 1 \in 1..(Len(b) + 1) /\ r \in (1 - 1)..Len(b) /\ Len(b) \in r..Len(b) /\ b \in Seq(S)
    BY <1>3, <1>6
  <2>2. SubSeq(b, 1, r) \o SubSeq(b, r + 1, Len(b)) = SubSeq(b, 1, Len(b))
    BY ONLY <2>1, ConcatAdjacentSubSeq
  <2> QED
    BY <1>6, <2>1, <2>2, SubSeqFull
<1>9. a \o s \in Seq(S) /\ u \o t \in Seq(S)
  BY <1>5, <1>7, ConcatProperties
<1>10. f[Len(d)] = (a \o s) \o (u \o t)
  <2>1. (a \o s) \o u = a \o (s \o u)
    <3>1. Cat(Cat(a, s), u) = Cat(a, Cat(s, u))
      BY ONLY <1>7, CatAssociates
    <3> QED
      BY ONLY <3>1 DEF Cat
  <2>2. PICK v : v = a \o s
    OBVIOUS
  <2>3. (v \o u) \o t = v \o (u \o t)
    <3>1. v \in Seq(S) /\ u \in Seq(S) /\ t \in Seq(S)
      BY <1>5, <1>7, <1>9, <2>2
    <3>2. Cat(Cat(v, u), t) = Cat(v, Cat(u, t))
      BY ONLY <3>1, CatAssociates
    <3> QED
      BY ONLY <3>2 DEF Cat
  <2>4. f[Len(d)] = (a \o b) \o t
    BY ONLY <1>4, <1>5, <1>6
  <2>5. (a \o b) \o t = (v \o u) \o t
    BY ONLY <1>8, <2>1, <2>2
  <2> QED
    BY ONLY <2>2, <2>3, <2>4, <2>5
<1>11. Bcp!IsPrefix(a \o s, f[Len(d)])
  BY <1>9, <1>10, ConcatIsPrefix
<1> QED
  BY <1>1, <1>2, <1>6, <1>9, <1>11 DEF ReadTo

LEMMA OptionsStay == Bcp!Step => /\ chosen' = chosen /\ File' = File /\ AllRows' = AllRows
<1> SUFFICES ASSUME Bcp!Step PROVE chosen' = chosen
  BY DEF File, AllRows, Bcp!AllRows
<1>1. CASE Bcp!AllocateEnv \/ Bcp!AllocateDbc \/ Bcp!AllocateFails \/ Bcp!DriverConnect
  BY <1>1 DEF Bcp!AllocateEnv, Bcp!AllocateDbc, Bcp!Allocate, Bcp!AllocateFails,
         Bcp!DriverConnect
<1>2. CASE Bcp!DropConnection("writer") \/ Bcp!DropConnection("observer")
  BY <1>2 DEF Bcp!DropConnection
<1>3. CASE Bcp!SetUp \/ Bcp!OpenBatch \/ Bcp!OpenFails \/ Bcp!SetCell \/ Bcp!SetCellFails
  BY <1>3 DEF Bcp!SetUp, Bcp!OpenBatch, Bcp!OpenFails, Bcp!SetCell, Bcp!SetCellFails
<1>4. CASE Bcp!SendRow \/ Bcp!SendRowFails \/ Bcp!Flush \/ Bcp!FlushFails
  BY <1>4 DEF Bcp!SendRow, Bcp!SendRowFails, Bcp!Flush, Bcp!FlushFails
<1>5. CASE Bcp!NextRow \/ Bcp!NextBatch \/ Bcp!EndOfFile \/ Bcp!CheckRows
           \/ Bcp!CapturePhaseFails
  BY <1>5 DEF Bcp!NextRow, Bcp!NextBatch, Bcp!EndOfFile, Bcp!CheckRows, Bcp!CapturePhaseFails
<1>6. CASE Bcp!Done \/ Bcp!DoneFails \/ Bcp!Count \/ Bcp!DropTable \/ Bcp!Finish
  BY <1>6 DEF Bcp!Done, Bcp!DoneFails, Bcp!Count, Bcp!DropTable, Bcp!Finish
<1> QED
  BY <1>1, <1>2, <1>3, <1>4, <1>5, <1>6 DEF Bcp!Step

\* Steps that read nothing: before and after a copy, and those that fail it.
ReadsNothing ==
    /\ received' = received
    /\ \/ step' \notin Copying \cup Checking \cup {"drop_table"}
       \/ step' = "drop_table" /\ failed'

LEMMA StepsThatReadNothing ==
    ASSUME Bcp!AllocateEnv \/ Bcp!AllocateDbc \/ Bcp!AllocateFails \/ Bcp!DriverConnect
           \/ Bcp!DropConnection("writer") \/ Bcp!DropConnection("observer")
           \/ Bcp!OpenFails \/ Bcp!SetCellFails \/ Bcp!SendRowFails \/ Bcp!FlushFails
           \/ Bcp!CapturePhaseFails \/ Bcp!DoneFails \/ Bcp!DropTable \/ Bcp!Finish
    PROVE  ReadsNothing
<1> USE DEF Bcp!memory, Bcp!odbc, Bcp!server, Bcp!outcome, Bcp!RepeatFails, ReadsNothing,
            Copying, Checking
<1>1. CASE Bcp!AllocateEnv \/ Bcp!AllocateDbc \/ Bcp!AllocateFails \/ Bcp!DriverConnect
  BY <1>1 DEF Bcp!AllocateEnv, Bcp!AllocateDbc, Bcp!Allocate, Bcp!AllocateFails,
         Bcp!DriverConnect, Bcp!Drops, Bcp!Connecting
<1>2. CASE Bcp!DropConnection("writer") \/ Bcp!DropConnection("observer")
  BY <1>2 DEF Bcp!DropConnection
<1>3. CASE Bcp!OpenFails \/ Bcp!SetCellFails \/ Bcp!SendRowFails \/ Bcp!FlushFails
           \/ Bcp!CapturePhaseFails \/ Bcp!DoneFails
  BY <1>3 DEF Bcp!OpenFails, Bcp!SetCellFails, Bcp!SendRowFails, Bcp!FlushFails,
         Bcp!CapturePhaseFails, Bcp!DoneFails
<1>4. CASE Bcp!DropTable \/ Bcp!Finish
  BY <1>4 DEF Bcp!DropTable, Bcp!Finish, Bcp!NextRepeat, Bcp!Leaving
<1> QED
  BY <1>1, <1>2, <1>3, <1>4

LEMMA TypesKept ==
    ASSUME TypesInv, PositionInv, CellsInv, CopyInv', Bcp!Step
    PROVE  TypesInv'
<1> USE DEF Bcp!memory, Bcp!odbc, Bcp!server, Bcp!outcome, Bcp!RepeatFails
<1>1. printed' \in Counts /\ chosen' \in Bcp!Options
  BY OptionsStay DEF CopyInv, TypesInv, Bcp!Options
<1>2. /\ inflight \in Seq(Bcp!Rows) /\ received \in Seq(Bcp!Rows) /\ left \in BOOLEAN
      /\ at \in [batch : Nat, row : Nat, col : Nat]
  BY DEF TypesInv
<1>3. <<>> \in Seq(Bcp!Rows)
  OBVIOUS
<1>4. ASSUME inflight' = inflight \/ inflight' = <<>>, left' \in BOOLEAN,
             received' = received \/ received' = <<>>,
             at' \in [batch : Nat, row : Nat, col : Nat]
      PROVE  TypesInv'
  BY <1>1, <1>2, <1>3, <1>4 DEF TypesInv, Bcp!Options, Bcp!Rows
<1>5. CASE Bcp!AllocateEnv \/ Bcp!AllocateDbc \/ Bcp!AllocateFails \/ Bcp!DriverConnect
  BY <1>2, <1>4, <1>5 DEF Bcp!AllocateEnv, Bcp!AllocateDbc, Bcp!Allocate, Bcp!AllocateFails,
         Bcp!DriverConnect
<1>6. CASE Bcp!DropConnection("writer") \/ Bcp!DropConnection("observer") \/ Bcp!Finish
  BY <1>2, <1>4, <1>6 DEF Bcp!DropConnection, Bcp!Finish
<1>7. CASE Bcp!SetUp
  BY <1>2, <1>4, <1>7 DEF Bcp!SetUp, Bcp!StartCopy
<1>8. CASE Bcp!OpenBatch \/ Bcp!OpenFails \/ Bcp!SetCellFails \/ Bcp!SendRowFails
  BY <1>2, <1>4, <1>8 DEF Bcp!OpenBatch, Bcp!OpenFails, Bcp!SetCellFails, Bcp!SendRowFails
<1>9. CASE Bcp!SetCell
  BY <1>2, <1>4, <1>9 DEF Bcp!SetCell
<1>10. CASE Bcp!SendRow
  <2>1. step = "cells" /\ at.col > Len(Columns) /\ UNCHANGED <<at, left>>
    BY <1>10 DEF Bcp!SendRow
  <2>2. /\ inflight' = Append(inflight, [c \in Bcp!Cols |-> Bcp!ReadColumn(c)])
        /\ received' = Append(received, [c \in Bcp!Cols |-> Bcp!ReadColumn(c)])
    BY <1>10 DEF Bcp!SendRow
  <2>3. [c \in Bcp!Cols |-> Bcp!ReadColumn(c)] \in Bcp!Rows
    BY <2>1, RowIsRead, RowTyped
  <2>4. inflight' \in Seq(Bcp!Rows) /\ received' \in Seq(Bcp!Rows)
    BY <1>2, <2>2, <2>3, AppendProperties
  <2> QED
    BY <1>1, <1>2, <2>1, <2>4 DEF TypesInv, Bcp!Options, Bcp!Rows
<1>11. CASE Bcp!Flush \/ Bcp!FlushFails
  BY <1>2, <1>4, <1>11 DEF Bcp!Flush, Bcp!FlushFails
<1>12. CASE Bcp!NextRow
  <2>1. /\ at' = at \/ at' = [at EXCEPT !.row = @ + 1, !.col = 1]
        /\ UNCHANGED <<inflight, received, left>>
    BY <1>12 DEF Bcp!NextRow
  <2>2. [at EXCEPT !.row = @ + 1, !.col = 1] \in [batch : Nat, row : Nat, col : Nat]
    <3>1. PICK moved : moved = [at EXCEPT !.row = @ + 1]
      OBVIOUS
    <3>2. moved \in [batch : Nat, row : Nat, col : Nat]
      BY <1>2, <3>1
    <3>3. [moved EXCEPT !.col = 1] \in [batch : Nat, row : Nat, col : Nat]
      BY <3>2
    <3>4. [at EXCEPT !.row = @ + 1, !.col = 1] = [moved EXCEPT !.col = 1]
      BY <3>1
    <3> QED
      BY <3>3, <3>4
  <2>3. at' \in [batch : Nat, row : Nat, col : Nat]
    BY <1>2, <2>1, <2>2
  <2> QED
    BY <1>2, <1>4, <2>1, <2>3
<1>13. CASE Bcp!NextBatch
  BY <1>2, <1>4, <1>13 DEF Bcp!NextBatch
<1>14. CASE Bcp!EndOfFile \/ Bcp!CheckRows \/ Bcp!CapturePhaseFails
  BY <1>2, <1>4, <1>14 DEF Bcp!EndOfFile, Bcp!CheckRows, Bcp!CapturePhaseFails
<1>15. CASE Bcp!Done \/ Bcp!DoneFails \/ Bcp!Count
  BY <1>2, <1>4, <1>15 DEF Bcp!Done, Bcp!DoneFails, Bcp!Count
<1>16. CASE Bcp!DropTable
  BY <1>2, <1>4, <1>16 DEF Bcp!DropTable
<1> QED
  BY <1>5, <1>6, <1>7, <1>8, <1>9, <1>10, <1>11, <1>12, <1>13, <1>14, <1>15, <1>16 DEF Bcp!Step

LEMMA MemoryKept ==
    ASSUME TypesInv, PositionInv, CellsInv, MemoryInv, Bcp!Step
    PROVE  MemoryInv'
<1> USE DEF Bcp!memory, Bcp!odbc, Bcp!server, Bcp!outcome, MemoryInv, Copying
<1>1. CASE Bcp!AllocateEnv \/ Bcp!AllocateDbc \/ Bcp!AllocateFails \/ Bcp!DriverConnect
           \/ Bcp!DropConnection("writer") \/ Bcp!DropConnection("observer")
           \/ Bcp!OpenFails \/ Bcp!SetCellFails \/ Bcp!SendRowFails \/ Bcp!FlushFails
           \/ Bcp!CapturePhaseFails \/ Bcp!DoneFails \/ Bcp!DropTable \/ Bcp!Finish
  <2>1. step' \notin Copying
    BY <1>1, StepsThatReadNothing DEF ReadsNothing
  <2> QED
    BY <2>1
<1>2. CASE Bcp!SetUp
  BY <1>2 DEF Bcp!SetUp, Bcp!StartCopy, Bcp!RepeatFails
<1>3. CASE Bcp!OpenBatch
  <2>1. CASE buf = <<>>
    <3>1. /\ buf' = [c \in Bcp!Cols |-> Bcp!NewBuffer]
          /\ bound' = [c \in Bcp!Cols |-> Bcp!BindColumn(Bcp!NewBuffer)]
      BY <1>3, <2>1 DEF Bcp!OpenBatch
    <3>2. Bcp!NewBuffer \in [gen : Nat, cap : Nat \ {0}, content : Seq(Units \cup {"0"})]
      BY DEF Bcp!NewBuffer
    <3>3. Bcp!BindColumn(Bcp!NewBuffer) = [gen |-> 0, len |-> 1]
      BY DEF Bcp!BindColumn, Bcp!NewBuffer
    <3>4. Pointing'
      BY <3>1, <3>2, <3>3 DEF Pointing, Bcp!NewBuffer, Bcp!Cols
    <3> QED
      BY <3>4
  <2>2. CASE buf # <<>>
    <3>1. UNCHANGED <<buf, bound>> /\ step = "open"
      BY <1>3, <2>2 DEF Bcp!OpenBatch
    <3> QED
      BY <2>2, <3>1 DEF Pointing, Bcp!Cols
  <2> QED
    BY <2>1, <2>2
<1>4. CASE Bcp!SetCell
  <2>1. Pointing
    BY <1>4 DEF Bcp!SetCell
  <2> QED
    BY <1>4, <2>1, CellIsSet
<1>5. CASE Bcp!SendRow \/ Bcp!NextRow \/ Bcp!NextBatch
  <2>1. UNCHANGED <<buf, bound>> /\ step \in Copying \ {"open"}
    BY <1>5 DEF Bcp!SendRow, Bcp!NextRow, Bcp!NextBatch
  <2> QED
    BY <2>1 DEF Pointing, Bcp!Cols
<1>6. CASE Bcp!Flush
  <2>1. UNCHANGED <<buf, bound>> /\ (step = "flush" \/ step' = "check_rows")
    BY <1>6 DEF Bcp!Flush
  <2> QED
    BY <2>1 DEF Pointing, Bcp!Cols
<1>7. CASE Bcp!EndOfFile \/ Bcp!CheckRows \/ Bcp!Done \/ Bcp!Count
  BY <1>7 DEF Bcp!EndOfFile, Bcp!CheckRows, Bcp!Done, Bcp!Count, Bcp!RepeatFails
<1> QED
  BY <1>1, <1>2, <1>3, <1>4, <1>5, <1>6, <1>7 DEF Bcp!Step

-----------------------------------------------------------------------------
(* The position in the file                                                *)

Reading == PositionInv /\ CellsInv /\ Bcp!DriverReadsTheRows

LEMMA ReadingKept ==
    ASSUME TypesInv, Reading, MemoryInv, Bcp!Step
    PROVE  Reading'
<1> USE DEF Bcp!memory, Bcp!odbc, Bcp!server, Bcp!outcome, Reading
<1>0. File' = File /\ AllRows' = AllRows /\ RowsTo(File)' = RowsTo(File)
  BY OptionsStay
<1>1. PICK d, f : d = File /\ f = RowsTo(File)
  OBVIOUS
<1>2. /\ d \in Seq(Seq(Bcp!Rows)) /\ Joins(f, d, Bcp!Rows)
      /\ AllRows = f[Len(d)] /\ AllRows \in Seq(Bcp!Rows)
      /\ \A i \in 0..Len(d) : Bcp!IsPrefix(f[i], AllRows)
  BY <1>1, OptionsTyped
<1>a. PICK S : S = Bcp!Rows
  OBVIOUS
<1>b. d \in Seq(Seq(S)) /\ Joins(f, d, S)
  BY <1>2, <1>a
<1>3. Len(d) \in Nat
  BY <1>2
<1>4. at \in [batch : Nat, row : Nat, col : Nat]
  BY DEF TypesInv
<1>5. Bcp!Batch = d[at.batch]
  BY <1>1 DEF Bcp!Batch, File
\* The invariant before and after the step, with names for the file and its rows.
<1>6. /\ step \in Copying \ {"open"} => at.batch \in 1..Len(d)
      /\ step \in {"cells", "flush", "next_row"} => at.row \in 1..Len(d[at.batch])
      /\ step = "open" => /\ at.batch \in 1..(Len(d) + 1) /\ at.row = 1 /\ at.col = 1
                          /\ received = f[at.batch - 1]
      /\ step = "cells" => received = ReadTo(f, d, at.batch, at.row - 1)
      /\ step \in {"flush", "next_row"} => received = ReadTo(f, d, at.batch, at.row)
      /\ step = "next_batch" => received = f[at.batch]
      /\ step \in Checking \/ Copied => received = AllRows
      /\ Bcp!IsPrefix(received, AllRows)
  BY <1>1 DEF PositionInv, ReadUpTo, Bcp!DriverReadsTheRows, AllRows
<1>7. SUFFICES
        /\ step' \in Copying \ {"open"} => at'.batch \in 1..Len(d)
        /\ step' \in {"cells", "flush", "next_row"} => at'.row \in 1..Len(d[at'.batch])
        /\ step' = "open" => /\ at'.batch \in 1..(Len(d) + 1) /\ at'.row = 1 /\ at'.col = 1
                             /\ received' = f[at'.batch - 1]
        /\ step' = "cells" => received' = ReadTo(f, d, at'.batch, at'.row - 1)
        /\ step' \in {"flush", "next_row"} =>
             received' = ReadTo(f, d, at'.batch, at'.row)
        /\ step' = "next_batch" => received' = f[at'.batch]
        /\ step' \in Checking \/ Copied' => received' = AllRows
        /\ Bcp!IsPrefix(received', AllRows)
        /\ CellsInv'
  <2>1. PositionInv'
    BY <1>0, <1>1, <1>7 DEF PositionInv, ReadUpTo, Copied, Copying, Checking
  <2>2. Bcp!DriverReadsTheRows'
    BY <1>0, <1>7 DEF Bcp!DriverReadsTheRows, AllRows
  <2> QED
    BY <1>7, <2>1, <2>2
<1>8. CASE ReadsNothing
  BY <1>6, <1>8 DEF ReadsNothing, Copying, Checking, Copied, CellsInv
<1>9. PICK b, r, c \in Nat : at = [batch |-> b, row |-> r, col |-> c]
  BY <1>4
<1>10. CASE Bcp!SetUp
  <2>1. /\ at' = [batch |-> 1, row |-> 1, col |-> 1] /\ received' = <<>>
        /\ step' = "open" \/ (step' = "drop_table" /\ failed')
    BY <1>10 DEF Bcp!SetUp, Bcp!StartCopy
  <2>2. f[0] = <<>> /\ 0 \in 0..Len(d) /\ 1 - 1 = 0 /\ 1 \in 1..(Len(d) + 1)
    BY <1>2, <1>3 DEF Joins
  <2>3. Bcp!IsPrefix(<<>>, AllRows)
    BY <1>2, <2>2
  <2> QED
    BY <2>1, <2>2, <2>3 DEF Copying, Checking, Copied, CellsInv
<1>11. CASE Bcp!OpenBatch
  <2>1. /\ step = "open" /\ b \in 1..Len(d) /\ r = 1 /\ c = 1 /\ received = f[b - 1]
        /\ at' = at /\ received' = received
        /\ step' = IF d[b] = <<>> THEN "next_batch" ELSE "cells"
    BY <1>1, <1>3, <1>5, <1>6, <1>9, <1>11 DEF Bcp!OpenBatch, File
  <2>2. d[b] \in Seq(Bcp!Rows)
    BY <1>2, <2>1, ElementOfSeq
  <2>3. CASE d[b] = <<>>
    <3>1. f[b] = f[b - 1]
      <4>1. b \in 1..Len(d)
        BY <2>1
      <4>2. ReadWhole(f, d, b)
        BY ONLY <1>b, <4>1, BatchRead
      <4> QED
        BY ONLY <2>3, <4>2 DEF ReadWhole
    <3>2. step' = "next_batch" /\ received' = f[b] /\ at' = at /\ at.batch = b
      BY <1>9, <2>1, <2>3, <3>1
    <3>3. Bcp!IsPrefix(received', AllRows)
      BY <1>6, <2>1
    <3> QED
      BY <2>1, <3>2, <3>3 DEF Copying, Checking, Copied, CellsInv
  <2>4. CASE d[b] # <<>>
    <3>1. 1 \in 1..Len(d[b]) /\ 1 - 1 = 0
      BY <2>2, <2>4
    <3>2. ReadTo(f, d, b, 0) = f[b - 1]
      <4>1. b \in 1..Len(d)
        BY <2>1
      <4>2. ReadWhole(f, d, b)
        BY ONLY <1>b, <4>1, BatchRead
      <4> QED
        BY ONLY <4>2 DEF ReadWhole
    <3>3. CellsInv'
      BY <1>9, <2>1, ColumnsTyped DEF CellsInv
    <3> QED
      BY <1>6, <1>9, <2>1, <2>4, <3>1, <3>2, <3>3 DEF Copying, Checking, Copied
  <2> QED
    BY <2>3, <2>4
<1>12. CASE Bcp!SetCell
  <2>1. step = "cells" /\ Pointing
    BY <1>12 DEF Bcp!SetCell, MemoryInv, Copying
  <2>2. /\ step' = step /\ received' = received /\ at' = [at EXCEPT !.col = @ + 1]
        /\ at.col \in Bcp!Cols
        /\ \A k \in Bcp!Cols : Bcp!ReadColumn(k)' = IF k = at.col THEN File[at.batch][at.row][k]
                                                   ELSE Bcp!ReadColumn(k)
    BY <1>12, <2>1, CellIsSet
  <2>3. at' = [batch |-> b, row |-> r, col |-> c + 1]
    BY <1>9, <2>2
  <2>4. CellsInv'
    <3>1. c \in 1..Len(Columns) /\ Bcp!Cols = 1..Len(Columns)
      BY <1>9, <2>2, ColumnsTyped
    <3>2. c + 1 \in 1..(Len(Columns) + 1)
      BY <3>1, ColumnsTyped
    <3>3. ASSUME NEW k \in 1..(c + 1 - 1) PROVE Bcp!ReadColumn(k)' = File[b][r][k]
      <4>1. k \in Bcp!Cols /\ (k = c \/ k \in 1..(c - 1))
        BY <3>1, <3>3
      <4>2. k # c => Bcp!ReadColumn(k) = File[b][r][k]
        BY <1>9, <2>1, <4>1 DEF CellsInv
      <4> QED
        BY <1>9, <2>2, <4>1, <4>2
    <3> QED
      BY <1>0, <2>3, <3>2, <3>3 DEF CellsInv
  <2> QED
    BY <1>6, <1>9, <2>1, <2>2, <2>3, <2>4 DEF Copying, Checking, Copied
<1>13. CASE Bcp!SendRow
  <2>1. /\ step = "cells" /\ at.col > Len(Columns) /\ at' = at
        /\ received' = Append(received, [k \in Bcp!Cols |-> Bcp!ReadColumn(k)])
        /\ step' \in {"flush", "next_row"}
    BY <1>13 DEF Bcp!SendRow
  <2>2. b \in 1..Len(d) /\ r \in 1..Len(d[b])
        /\ received = ReadTo(f, d, b, r - 1)
    BY <1>6, <1>9, <2>1 DEF Copying
  <2>3. [k \in Bcp!Cols |-> Bcp!ReadColumn(k)] = d[b][r]
    BY <1>1, <1>9, <2>1, RowIsRead
  <2>4. received' = ReadTo(f, d, b, r)
    <3>1. b \in 1..Len(d) /\ r \in 1..Len(d[b])
      BY <2>2
    <3>2. Append(ReadTo(f, d, b, r - 1), d[b][r]) = ReadTo(f, d, b, r)
      BY ONLY <1>b, <3>1, RowAppended
    <3> QED
      BY <2>1, <2>2, <2>3, <3>2
  <2>5. Bcp!IsPrefix(received', AllRows)
    <3>1. r \in 0..Len(d[b])
      BY <2>2
    <3> QED
      BY <1>1, <2>2, <2>4, <3>1, ReadIsPrefix
  <2> QED
    BY <1>9, <2>1, <2>2, <2>4, <2>5 DEF Copying, Checking, Copied, CellsInv
<1>14. CASE Bcp!Flush
  <2>1. \/ step = "flush" /\ step' = "next_row"
        \/ step = "last_flush" /\ step' = "check_rows"
    BY <1>14 DEF Bcp!Flush
  <2>2. at' = at /\ received' = received
    BY <1>14 DEF Bcp!Flush
  <2> QED
    BY <1>6, <2>1, <2>2 DEF Copying, Checking, Copied, CellsInv
<1>15. CASE Bcp!NextRow
  <2>1. step = "next_row" /\ b \in 1..Len(d) /\ r \in 1..Len(d[b])
        /\ received = ReadTo(f, d, b, r) /\ received' = received
    BY <1>6, <1>9, <1>15 DEF Bcp!NextRow, Copying
  <2>2. CASE r < Len(d[b])
    <3>1. at' = [at EXCEPT !.row = @ + 1, !.col = 1] /\ step' = "cells"
      BY <1>5, <1>9, <1>15, <2>2 DEF Bcp!NextRow
    <3>2. at'.batch = b /\ at'.row = r + 1 /\ at'.col = 1
      BY <1>9, <3>1
    <3>3. d[b] \in Seq(Bcp!Rows)
      BY <1>2, <2>1, ElementOfSeq
    <3>4. r + 1 \in 1..Len(d[b]) /\ r + 1 - 1 = r
      BY <2>1, <2>2, <3>3
    <3>5. CellsInv'
      BY <3>1, <3>2, ColumnsTyped DEF CellsInv
    <3>6. received' = ReadTo(f, d, b, at'.row - 1)
      BY <2>1, <3>2, <3>4
    <3> QED
      BY <1>6, <2>1, <3>1, <3>2, <3>4, <3>5, <3>6 DEF Copying, Checking, Copied
  <2>3. CASE ~(r < Len(d[b]))
    <3>1. at' = at /\ step' = "next_batch"
      BY <1>5, <1>9, <1>15, <2>3 DEF Bcp!NextRow
    <3>2. d[b] \in Seq(Bcp!Rows)
      BY <1>2, <2>1, ElementOfSeq
    <3>3. r = Len(d[b])
      BY <2>1, <2>3, <3>2
    <3>4. received = f[b]
      <4>1. b \in 1..Len(d)
        BY <2>1
      <4>2. ReadWhole(f, d, b)
        BY ONLY <1>b, <4>1, BatchRead
      <4>3. ReadTo(f, d, b, Len(d[b])) = f[b]
        BY ONLY <4>2 DEF ReadWhole
      <4> QED
        BY <2>1, <3>3, <4>3
    <3> QED
      BY <1>6, <1>9, <2>1, <3>1, <3>4 DEF Copying, Checking, Copied, CellsInv
  <2> QED
    BY <2>2, <2>3
<1>16. CASE Bcp!NextBatch
  <2>1. step = "next_batch" /\ b \in 1..Len(d) /\ received = f[b] /\ received' = received
        /\ step' = "open" /\ at' = [batch |-> b + 1, row |-> 1, col |-> 1]
    BY <1>6, <1>9, <1>16 DEF Bcp!NextBatch, Copying
  <2>2. b + 1 \in 1..(Len(d) + 1) /\ b + 1 - 1 = b
    BY <1>3, <2>1
  <2> QED
    BY <1>6, <2>1, <2>2 DEF Copying, Checking, Copied, CellsInv
<1>17. CASE Bcp!EndOfFile
  <2>1. /\ step = "open" /\ b \in 1..(Len(d) + 1) /\ received = f[b - 1] /\ b > Len(d)
        /\ received' = received /\ step' \in {"last_flush", "check_rows"}
    BY <1>1, <1>6, <1>9, <1>17 DEF Bcp!EndOfFile, File
  <2>2. b - 1 = Len(d)
    BY <1>3, <2>1
  <2> QED
    BY <1>2, <1>6, <2>1, <2>2 DEF Copying, Checking, Copied, CellsInv
<1>18. CASE Bcp!CheckRows \/ Bcp!Done \/ Bcp!Count
  <2>1. /\ step \in Checking /\ received' = received
        /\ step' \in Checking \/ step' = "drop_table"
    BY <1>18 DEF Bcp!CheckRows, Bcp!Done, Bcp!Count, Bcp!RepeatFails, Checking
  <2> QED
    BY <1>6, <2>1 DEF Copying, Checking, Copied, CellsInv
<1> QED
  BY <1>8, <1>10, <1>11, <1>12, <1>13, <1>14, <1>15, <1>16, <1>17, <1>18, StepsThatReadNothing
     DEF Bcp!Step

-----------------------------------------------------------------------------
(* What is counted                                                         *)

LEMMA DivisionIsUnique ==
    ASSUME NEW q \in Nat, NEW b \in Nat \ {0}, NEW r \in 0..(b - 1)
    PROVE  (q * b + r) \div b = q
  OBVIOUS

LEMMA CallsNeeded ==
    ASSUME TypesInv, NEW q \in Nat, NEW k \in 0..(chosen.batchSize - 1)
    PROVE  Calls(q * chosen.batchSize + k) = IF k = 0 THEN q ELSE q + 1
<1>1. PICK b \in Nat \ {0} : b = chosen.batchSize
  BY OptionsTyped
<1>2. q * b \in Nat /\ (q + 1) * b = q * b + b
  OBVIOUS
<1>3. Calls(q * b + k) = (q * b + k + b - 1) \div b
  BY <1>1 DEF Calls
<1>4. CASE k = 0
  <2>1. q * b + k + b - 1 = q * b + (b - 1) /\ b - 1 \in 0..(b - 1)
    BY <1>2, <1>4
  <2> QED
    BY <1>1, <1>3, <1>4, <2>1, DivisionIsUnique
<1>5. CASE k # 0
  <2>1. PICK p \in Nat : p = q + 1
    OBVIOUS
  <2>2. q * b + k + b - 1 = p * b + (k - 1) /\ k - 1 \in 0..(b - 1)
    BY <1>1, <1>2, <1>5, <2>1
  <2>3. (p * b + (k - 1)) \div b = p
    BY ONLY <2>2, p \in Nat, b \in Nat \ {0}, DivisionIsUnique
  <2> QED
    BY <1>1, <1>3, <1>5, <2>1, <2>2, <2>3
<1> QED
  BY <1>4, <1>5

\* What is committed of the rows in flight, and what is returned for it.
LEMMA RowsStored ==
    ASSUME NEW S, NEW rows \in Seq(S), NEW put \in Bcp!Committed(rows)
    PROVE  /\ put \in Seq(S) /\ Len(put) <= Len(rows)
           /\ \A n \in Bcp!Returned(rows, put) : n \in 0..Len(rows)
<1>1. put \in Seq(S) /\ Len(put) <= Len(rows)
  <2>1. CASE put = rows
    BY <2>1
  <2>2. CASE rows # <<>> /\ put = Bcp!Front(rows)
    <3>1. PICK k \in Nat : Len(rows) = k + 1
      <4>1. Len(rows) \in Nat \ {0}
        BY <2>2, EmptySeq
      <4> QED
        BY <4>1
    <3>2. \A i \in 1..k : rows[i] \in S
      BY <3>1
    <3>3. put = SubSeq(rows, 1, k)
      BY <2>2, <3>1 DEF Bcp!Front
    <3>4. SubSeq(rows, 1, k) \in Seq(S) /\ Len(SubSeq(rows, 1, k)) = IF 1 <= k THEN k - 1 + 1 ELSE 0
      BY <3>2, SubSeqProperties
    <3> QED
      BY <3>1, <3>3, <3>4
  <2> QED
    BY <2>1, <2>2 DEF Bcp!Committed
<1>2. Len(put) \in Nat /\ Len(rows) \in Nat
  BY <1>1
<1> QED
  BY <1>1, <1>2 DEF Bcp!Returned

\* Steps in a copy, to the end of a batch of bcp or not, that count nothing.
CountsNothing ==
    /\ UNCHANGED <<held, printed, inflight, received>>
    /\ step \in Copying \ {"flush"} /\ step' \in Copying \ {"flush"}

LEMMA CountsKept ==
    ASSUME TypesInv, FlushInv, ReportedInv, TypesInv', Bcp!Step
    PROVE  FlushInv' /\ ReportedInv'
<1> USE DEF Bcp!memory, Bcp!odbc, Bcp!server, Bcp!outcome
<1>0. chosen' = chosen
  BY OptionsStay
<1>1. PICK size \in Nat \ {0}, n \in Nat, deferring \in BOOLEAN :
         size = chosen.batchSize /\ n = chosen.rows /\ deferring = chosen.defer
  BY OptionsTyped
<1>2. /\ inflight \in Seq(Bcp!Rows) /\ inflight' \in Seq(Bcp!Rows)
      /\ received \in Seq(Bcp!Rows) /\ received' \in Seq(Bcp!Rows)
      /\ printed \in Counts /\ printed' \in Counts
  BY DEF TypesInv
<1>3. Len(inflight) \in Nat /\ Len(received) \in Nat
  BY <1>2
<1>4. CASE ReadsNothing
  BY <1>4 DEF ReadsNothing, FlushInv, ReportedInv, Copied, Copying, Checking
<1>5. CASE CountsNothing
  <2>1. Deferred' = Deferred /\ Flushed' = Flushed
    BY <1>0, <1>5 DEF CountsNothing, Deferred, Flushed, Bcp!ZeroReport, Bcp!Rows
  <2>2. FlushInv'
    BY <1>0, <1>5, <2>1 DEF CountsNothing, FlushInv, Copying
  <2>3. ReportedInv'
    BY <1>5 DEF CountsNothing, ReportedInv, Copied, Copying
  <2> QED
    BY <2>2, <2>3
<1>6. CASE Bcp!OpenBatch \/ Bcp!SetCell \/ Bcp!NextRow \/ Bcp!NextBatch
  <2>1. CountsNothing
    BY <1>6 DEF CountsNothing, Copying, Bcp!OpenBatch, Bcp!SetCell, Bcp!NextRow, Bcp!NextBatch
  <2> QED
    BY <1>5, <2>1
<1>7. CASE Bcp!SetUp
  <2>1. CASE step' = "open"
    <3>1. /\ held' = <<>> /\ inflight' = <<>> /\ received' = <<>>
          /\ printed' = [batchCalls |-> 0, batchRows |-> 0, doneRows |-> 0]
      BY <1>7, <2>1 DEF Bcp!SetUp, Bcp!StartCopy, Bcp!ZeroReport
    <3>2. 0 * size = 0 /\ Len(<<>>) = 0 /\ <<>> \in Seq(Bcp!Rows)
      OBVIOUS
    <3>3. Deferred' /\ Flushed'
      BY <1>0, <1>1, <3>1, <3>2 DEF Deferred, Flushed, Bcp!ZeroReport, Bcp!Rows
    <3>4. FlushInv'
      BY <1>0, <1>1, <2>1, <3>1, <3>2, <3>3 DEF FlushInv, Copying
    <3> QED
      BY <2>1, <3>4 DEF ReportedInv, Copied
  <2>2. CASE step' # "open"
    BY <1>7, <2>2 DEF Bcp!SetUp, FlushInv, ReportedInv, Copied, Copying
  <2> QED
    BY <2>1, <2>2
<1>8. CASE Bcp!SendRow
  <2>1. /\ step = "cells" /\ UNCHANGED <<held, printed>>
        /\ Len(inflight') = Len(inflight) + 1 /\ Len(received') = Len(received) + 1
        /\ step' = IF ~deferring /\ Len(inflight') = size THEN "flush" ELSE "next_row"
    BY <1>0, <1>1, <1>2, <1>8 DEF Bcp!SendRow, Bcp!BatchIsFull
  <2>2. CASE deferring
    <3>1. Deferred'
      BY <1>1, <2>1, <2>2 DEF FlushInv, Copying, Deferred, Bcp!ZeroReport
    <3> QED
      BY <1>0, <1>1, <2>1, <2>2, <3>1 DEF FlushInv, ReportedInv, Copied, Copying
  <2>3. CASE ~deferring
    <3>1. Flushed /\ Len(received) = printed.batchCalls * size + Len(inflight)
          /\ Len(inflight) < size
      BY <1>1, <2>1, <2>3 DEF FlushInv, Copying
    <3>2. Flushed'
      BY <1>0, <2>1, <3>1 DEF Flushed, Bcp!Rows
    <3>3. printed.batchCalls * size \in Int
      BY <3>1 DEF Flushed
    <3>4. Len(received') = printed.batchCalls * size + Len(inflight')
          /\ (Len(inflight') = size \/ Len(inflight') < size)
      <4>1. PICK p, m, k : /\ p = printed.batchCalls * size /\ m = Len(inflight)
                           /\ k = Len(received)
        OBVIOUS
      <4>2. p \in Int /\ m \in Nat /\ k = p + m /\ m < size /\ size \in Nat
        BY <1>3, <3>1, <3>3, <4>1
      <4>3. printed' = printed /\ Len(inflight') = m + 1 /\ Len(received') = k + 1
        BY <2>1, <4>1
      <4> QED
        BY ONLY <4>1, <4>2, <4>3
    <3>5. printed' = printed /\ step' \in {"flush", "next_row"}
          /\ (step' = "flush" <=> Len(inflight') = size)
      BY <2>1, <2>3
    <3>6. FlushInv'
      BY <1>0, <1>1, <2>3, <3>2, <3>4, <3>5 DEF FlushInv, Copying
    <3>7. ReportedInv'
      BY <3>5 DEF ReportedInv, Copied
    <3> QED
      BY <3>6, <3>7
  <2> QED
    BY <2>2, <2>3
<1>9. CASE Bcp!Flush
  <2>1. step \in {"flush", "last_flush"} /\ ~deferring
    BY <1>1, <1>9 DEF Bcp!Flush, FlushInv
  <2>2. PICK put \in Bcp!Committed(inflight) :
           /\ held' = held \o put
           /\ \E m \in Bcp!Returned(inflight, put) : printed' = Bcp!FlushReport(m)
    BY <1>9 DEF Bcp!Flush
  <2>3. PICK calls \in Nat : calls = printed.batchCalls
    BY <1>1, <2>1 DEF FlushInv, Flushed, Copying
  <2>4. /\ printed.doneRows = 0 /\ held \in Seq(Bcp!Rows) /\ Len(held) <= calls * size
        /\ Len(received) = calls * size + Len(inflight)
        /\ IF step = "flush" THEN Len(inflight) = size ELSE Len(inflight) \in 1..(size - 1)
    BY <1>1, <1>2, <1>3, <2>1, <2>3, EmptySeq DEF FlushInv, Flushed, Copying
  <2>5. /\ inflight' = <<>> /\ received' = received
        /\ step' = IF step = "flush" THEN "next_row" ELSE "check_rows"
        /\ printed'.batchCalls = calls + 1 /\ printed'.doneRows = 0
    <3>1. PICK m : printed' = [printed EXCEPT !.batchRows = @ + m, !.batchCalls = @ + 1]
      BY <2>2 DEF Bcp!FlushReport
    <3>2. printed'.batchCalls = printed.batchCalls + 1 /\ printed'.doneRows = printed.doneRows
      <4>1. PICK part : part = [printed EXCEPT !.batchRows = @ + m]
        OBVIOUS
      <4>2. part \in [batchCalls : Int, batchRows : {part.batchRows}, doneRows : Int]
            /\ part.batchCalls = printed.batchCalls /\ part.doneRows = printed.doneRows
        BY <1>2, <4>1 DEF Counts
      <4>3. printed' = [part EXCEPT !.batchCalls = @ + 1]
        BY <3>1, <4>1
      <4> QED
        BY <4>2, <4>3
    <3> QED
      BY <1>9, <2>3, <2>4, <3>2 DEF Bcp!Flush
  <2>6. calls * size \in Nat /\ (calls + 1) * size = calls * size + size
    OBVIOUS
  <2>7. Flushed'
    <3>1. put \in Seq(Bcp!Rows) /\ Len(put) <= Len(inflight)
      BY <1>2, RowsStored
    <3>2. held' \in Seq(Bcp!Rows) /\ Len(held') = Len(held) + Len(put)
      BY <2>2, <2>4, <3>1, ConcatProperties
    <3>3. Len(inflight) <= size
      BY <1>3, <2>4
    <3>4. Len(held') <= (calls + 1) * size
      BY <1>3, <2>4, <2>6, <3>1, <3>2, <3>3
    <3> QED
      BY <1>0, <1>1, <2>5, <3>2, <3>4 DEF Flushed, Bcp!Rows
  <2>8. CASE step = "flush"
    <3>1. Len(received') = (calls + 1) * size + Len(inflight') /\ Len(inflight') < size
      BY <2>4, <2>5, <2>6, <2>8
    <3> QED
      BY <1>0, <1>1, <2>1, <2>5, <2>7, <2>8, <3>1 DEF FlushInv, ReportedInv, Copied, Copying
  <2>9. CASE step = "last_flush"
    <3>1. PICK k \in 1..(size - 1) : k = Len(inflight)
      BY <2>4, <2>9
    <3>2. Calls(calls * size + k) = calls + 1
      <4>1. k \in 0..(chosen.batchSize - 1) /\ k # 0
        BY <1>1
      <4> QED
        BY <1>1, <4>1, CallsNeeded
    <3>3. Calls(Len(received))' = calls + 1
      BY <1>0, <2>4, <2>5, <3>1, <3>2 DEF Calls
    <3> QED
      BY <1>0, <1>1, <2>1, <2>5, <2>7, <2>9, <3>3 DEF FlushInv, ReportedInv, Copied, Copying
  <2> QED
    BY <2>1, <2>8, <2>9
<1>10. CASE Bcp!EndOfFile
  <2>1. /\ step = "open" /\ UNCHANGED <<held, printed, inflight, received>>
        /\ step' = IF ~deferring /\ inflight # <<>> THEN "last_flush" ELSE "check_rows"
    BY <1>1, <1>10 DEF Bcp!EndOfFile, Bcp!NeedsLastFlush
  <2>2. (Deferred' = Deferred) /\ (Flushed' = Flushed)
    BY <1>0, <2>1 DEF Deferred, Flushed, Bcp!ZeroReport, Bcp!Rows
  <2>3. CASE deferring
    BY <1>0, <1>1, <2>1, <2>2, <2>3 DEF FlushInv, ReportedInv, Copied, Copying
  <2>4. CASE ~deferring /\ inflight # <<>>
    BY <1>0, <1>1, <2>1, <2>2, <2>4 DEF FlushInv, ReportedInv, Copied, Copying
  <2>5. CASE ~deferring /\ inflight = <<>>
    <3>1. PICK calls \in Nat : calls = printed.batchCalls
      BY <1>1, <2>1, <2>5 DEF FlushInv, Flushed, Copying
    <3>2. Len(received) = calls * size + 0
      BY <1>1, <2>1, <2>5, <3>1 DEF FlushInv, Copying
    <3>3. Calls(calls * size + 0) = calls
      <4>1. 0 \in 0..(chosen.batchSize - 1)
        BY <1>1
      <4> QED
        BY <1>1, <4>1, CallsNeeded
    <3>4. Calls(Len(received))' = calls
      BY <1>0, <2>1, <3>2, <3>3 DEF Calls
    <3> QED
      BY <1>0, <1>1, <2>1, <2>2, <2>5, <3>1, <3>4 DEF FlushInv, ReportedInv, Copied, Copying
  <2> QED
    BY <2>3, <2>4, <2>5
<1>11. CASE Bcp!CheckRows
  <2>1. UNCHANGED <<held, printed, inflight, received>> /\ step = "check_rows"
        /\ \/ step' = "done" /\ Len(received) = n
           \/ step' = "drop_table" /\ failed'
    BY <1>1, <1>11 DEF Bcp!CheckRows, Bcp!RepeatFails
  <2>2. (Deferred' = Deferred) /\ (Flushed' = Flushed) /\ (Calls(Len(received))' = Calls(Len(received)))
    BY <1>0, <2>1 DEF Deferred, Flushed, Bcp!ZeroReport, Bcp!Rows, Calls
  <2> QED
    BY <1>0, <1>1, <2>1, <2>2 DEF FlushInv, ReportedInv, Copied, Copying
<1>12. CASE Bcp!Done
  <2>1. /\ step = "done" /\ received' = received
        /\ \/ step' = "count" /\ Bcp!ReportedRows(printed') = n
           \/ step' = "drop_table" /\ failed'
    BY <1>1, <1>12 DEF Bcp!Done, Bcp!RepeatFails
  <2>2. PICK put \in Bcp!Committed(inflight) :
           \E m \in Bcp!Returned(inflight, put) : printed' = [printed EXCEPT !.doneRows = m]
    BY <1>12 DEF Bcp!Done
  <2>3. PICK m \in 0..Len(inflight) : printed' = [printed EXCEPT !.doneRows = m]
    BY <1>2, <2>2, RowsStored
  <2>4. /\ printed'.batchCalls = printed.batchCalls /\ printed'.doneRows = m
        /\ printed'.batchRows = printed.batchRows
    BY <1>2, <2>3 DEF Counts
  <2>5. Len(received) = n
    BY <1>1, <2>1 DEF ReportedInv
  <2>6. CASE step' = "count"
    <3>1. FlushInv'
      BY <2>6 DEF FlushInv, Copying
    <3>2. printed'.batchCalls = (IF deferring THEN 0 ELSE Calls(n))
          /\ printed'.doneRows = IF deferring THEN n ELSE 0
      <4>1. CASE deferring
        <5>1. printed.batchCalls = 0 /\ printed.batchRows = 0
          BY <1>1, <2>1, <4>1 DEF FlushInv, Deferred, Bcp!ZeroReport
        <5> QED
          BY <2>1, <2>3, <2>4, <2>6, <4>1, <5>1 DEF Bcp!ReportedRows
      <4>2. CASE ~deferring
        <5>1. inflight = <<>> /\ printed.batchCalls = Calls(n)
          BY <1>1, <2>1, <2>5, <4>2 DEF FlushInv
        <5>2. m = 0
          BY <2>3, <5>1
        <5> QED
          BY <2>4, <4>2, <5>1, <5>2
      <4> QED
        BY <4>1, <4>2
    <3>3. ReportedInv'
      <4>1. RepeatCalls' = (IF deferring THEN 0 ELSE Calls(n))
            /\ RepeatDone' = IF deferring THEN n ELSE 0
        BY <1>0, <1>1 DEF RepeatCalls, RepeatDone, Calls
      <4> QED
        BY <1>0, <1>1, <2>1, <2>5, <2>6, <3>2, <4>1 DEF ReportedInv, Copied, Bcp!ReportedRows
    <3> QED
      BY <3>1, <3>3
  <2>7. CASE step' # "count"
    BY <2>1, <2>7 DEF FlushInv, ReportedInv, Copied, Copying
  <2> QED
    BY <2>6, <2>7
<1>13. CASE Bcp!Count
  <2>1. UNCHANGED <<chosen, printed, received>> /\ step = "count" /\ step' = "drop_table"
    BY <1>0, <1>13 DEF Bcp!Count, Bcp!RepeatFails
  <2>2. RepeatCalls' = RepeatCalls /\ RepeatDone' = RepeatDone
    BY <2>1 DEF RepeatCalls, RepeatDone, Calls
  <2> QED
    BY <2>1, <2>2 DEF FlushInv, ReportedInv, Copied, Copying, Bcp!ReportedRows
<1> QED
  BY <1>4, <1>6, <1>7, <1>8, <1>9, <1>10, <1>11, <1>12, <1>13, StepsThatReadNothing DEF Bcp!Step

LEMMA RepeatTyped ==
    ASSUME TypesInv
    PROVE  RepeatCalls \in Int /\ RepeatDone \in Int
<1>1. PICK b \in Nat \ {0}, n \in Nat : b = chosen.batchSize /\ n = chosen.rows
  BY OptionsTyped
<1>2. (n + b - 1) \div b \in Int
  OBVIOUS
<1>3. Calls(chosen.rows) \in Int
  BY <1>1, <1>2 DEF Calls
<1> QED
  BY <1>1, <1>3 DEF RepeatCalls, RepeatDone

LEMMA TotalKept ==
    ASSUME TypesInv, PositionInv, ReportedInv, TotalInv, CopyInv', Bcp!Step
    PROVE  TotalInv'
<1> USE DEF Bcp!memory, Bcp!odbc, Bcp!server, Bcp!outcome, Bcp!RepeatFails, Over
<1>1. chosen' = chosen /\ AllRows' = AllRows
  BY OptionsStay
<1>2. RepeatCalls' = RepeatCalls /\ RepeatDone' = RepeatDone
  BY <1>1 DEF RepeatCalls, RepeatDone, Calls
<1>3. totals' \in Counts /\ Repeats \in Nat \ {0}
  BY Values DEF CopyInv, Bcp!RunnerAssumption
\* Everywhere else the totals stay as they are.
<1>4. ASSUME UNCHANGED <<turn, totals>>,
             step' \notin Over => returned' = "running",
             step' \notin Over \cup {"finish"} => turn < Repeats,
             step' = "finish" \/ returned' = "ok" => turn = Repeats
      PROVE  TotalInv'
  BY <1>1, <1>2, <1>3, <1>4 DEF TotalInv, Bcp!ReportedRows
<1>5. ASSUME UNCHANGED <<turn, totals, returned>>, step \notin Over \cup {"finish"},
             step' \notin Over \cup {"finish"}
      PROVE  TotalInv'
  BY <1>4, <1>5 DEF TotalInv
<1>6. CASE Bcp!AllocateEnv \/ Bcp!AllocateDbc
  BY <1>5, <1>6 DEF Bcp!AllocateEnv, Bcp!AllocateDbc, Bcp!Allocate
<1>7. CASE Bcp!AllocateFails \/ Bcp!DriverConnect
  <2>1. /\ UNCHANGED <<turn, totals>> /\ step \in {"connect_writer", "connect_observer"}
        /\ \/ returned' = returned /\ step' \in {"connect_observer", "setup"}
           \/ returned' = "error" /\ step' \in Over
    BY <1>7 DEF Bcp!AllocateFails, Bcp!DriverConnect, Bcp!Drops, Bcp!Connecting
  <2> QED
    BY <1>4, <2>1 DEF TotalInv
<1>8. CASE Bcp!DropConnection("writer") \/ Bcp!DropConnection("observer")
  <2>1. UNCHANGED <<turn, totals, returned>> /\ step' \in Over
    BY <1>8 DEF Bcp!DropConnection
  <2> QED
    BY <1>4, <2>1 DEF TotalInv
<1>9. CASE Bcp!SetUp \/ Bcp!OpenBatch \/ Bcp!OpenFails \/ Bcp!SetCell \/ Bcp!SetCellFails
  BY <1>5, <1>9 DEF Bcp!SetUp, Bcp!OpenBatch, Bcp!OpenFails, Bcp!SetCell, Bcp!SetCellFails
<1>10. CASE Bcp!SendRow \/ Bcp!SendRowFails \/ Bcp!Flush \/ Bcp!FlushFails
  BY <1>5, <1>10 DEF Bcp!SendRow, Bcp!SendRowFails, Bcp!Flush, Bcp!FlushFails
<1>11. CASE Bcp!NextRow \/ Bcp!NextBatch \/ Bcp!EndOfFile \/ Bcp!CheckRows
            \/ Bcp!CapturePhaseFails
  BY <1>5, <1>11 DEF Bcp!NextRow, Bcp!NextBatch, Bcp!EndOfFile, Bcp!CheckRows,
     Bcp!CapturePhaseFails
<1>12. CASE Bcp!Done \/ Bcp!DoneFails \/ Bcp!Count
  BY <1>5, <1>12 DEF Bcp!Done, Bcp!DoneFails, Bcp!Count
<1>13. CASE Bcp!Finish
  <2>1. UNCHANGED <<turn, totals>> /\ step = "finish" /\ step' \in Over
    BY <1>13 DEF Bcp!Finish, Bcp!Leaving
  <2> QED
    BY <1>4, <2>1 DEF TotalInv
<1>14. CASE Bcp!DropTable
  <2>1. step = "drop_table" /\ turn < Repeats /\ turn \in Nat /\ turn + 1 \in 0..Repeats
    BY <1>3, <1>14 DEF Bcp!DropTable, TotalInv
  <2>2. CASE returned' = "error"
    <3>1. UNCHANGED <<turn, totals>> /\ step' \in Over
      BY <1>14, <2>1, <2>2 DEF Bcp!DropTable, Bcp!Leaving, TotalInv
    <3> QED
      BY <1>4, <2>2, <3>1
  <2>3. CASE returned' # "error"
    <3>1. /\ ~failed /\ totals' = Bcp!Merged /\ turn' = turn + 1 /\ returned' = returned
          /\ step' = IF turn + 1 < Repeats THEN "setup" ELSE "finish"
      BY <1>14, <2>3 DEF Bcp!DropTable, Bcp!NextRepeat
    <3>2. Copied
      BY <2>1, <3>1 DEF Copied
    <3>3. Len(AllRows) = chosen.rows
      BY <3>2 DEF PositionInv, ReportedInv
    <3>4. /\ Bcp!ReportedRows(printed) = chosen.rows
          /\ printed.batchCalls = RepeatCalls /\ printed.doneRows = RepeatDone
      BY <3>2 DEF ReportedInv
    <3>5. PICK k \in Nat, n \in Nat, calls \in Int, done \in Int :
             k = turn /\ n = chosen.rows /\ calls = RepeatCalls /\ done = RepeatDone
      BY <2>1, OptionsTyped, RepeatTyped
    <3>6. (k + 1) * n = k * n + n /\ (k + 1) * calls = k * calls + calls
          /\ (k + 1) * done = k * done + done
      OBVIOUS
    <3>7. /\ totals.batchCalls = k * calls /\ totals.doneRows = k * done
          /\ totals.batchRows + totals.doneRows = k * n
      BY <3>5 DEF TotalInv, Bcp!ReportedRows
    <3>8. /\ totals'.batchCalls = totals.batchCalls + printed.batchCalls
          /\ totals'.batchRows = totals.batchRows + printed.batchRows
          /\ totals'.doneRows = totals.doneRows + printed.doneRows
      BY <3>1 DEF Bcp!Merged
    <3>9. totals'.batchCalls = (k + 1) * calls /\ totals'.doneRows = (k + 1) * done
      BY <3>4, <3>5, <3>6, <3>7, <3>8
    <3>10. totals'.batchRows + totals'.doneRows = (k + 1) * n
      <4>1. printed.batchRows + printed.doneRows = n
        BY <3>4, <3>5 DEF Bcp!ReportedRows
      <4>2. /\ printed.batchRows \in Int /\ printed.doneRows \in Int
            /\ totals.batchRows \in Int /\ totals.doneRows \in Int
        BY DEF TypesInv, TotalInv, Counts
      <4> QED
        BY <3>6, <3>7, <3>8, <4>1, <4>2
    <3>11. returned' = "running" /\ step' \in {"setup", "finish"}
           /\ (step' = "setup" => turn' < Repeats) /\ (step' = "finish" => turn' = Repeats)
      BY <1>3, <2>1, <3>1 DEF TotalInv
    <3> QED
      BY <1>1, <1>2, <1>3, <2>1, <3>1, <3>3, <3>5, <3>9, <3>10, <3>11 DEF TotalInv, Bcp!ReportedRows
  <2> QED
    BY <2>2, <2>3
<1> QED
  BY <1>6, <1>7, <1>8, <1>9, <1>10, <1>11, <1>12, <1>13, <1>14 DEF Bcp!Step

-----------------------------------------------------------------------------
(* The invariant, and what follows from it                                 *)

LEMMA BulkStarts == Bcp!Init => BulkInv
<1> SUFFICES ASSUME Bcp!Init PROVE BulkInv
  OBVIOUS
<1>1. /\ chosen \in Bcp!Options /\ step = "connect_writer" /\ handles = {} /\ connected = {}
      /\ turn = 0 /\ at = [batch |-> 1, row |-> 1, col |-> 1]
      /\ inflight = <<>> /\ received = <<>> /\ held = Null
      /\ printed = Bcp!ZeroReport /\ totals = Bcp!ZeroReport
      /\ failed = FALSE /\ returned = "running" /\ left = FALSE
  BY DEF Bcp!Init
<1>2. Bcp!ZeroReport \in Counts
  BY DEF Bcp!ZeroReport, Counts
<1>3. TypesInv
  <2>1. <<>> \in Seq(Bcp!Rows)
    OBVIOUS
  <2>2. at \in [batch : Nat, row : Nat, col : Nat]
    BY <1>1
  <2> QED
    BY <1>1, <1>2, <2>1, <2>2 DEF TypesInv
<1>4. HandlesInv /\ TableInv /\ MemoryInv
  BY <1>1 DEF HandlesInv, WriterOnly, HandlesOf, TableInv, MemoryInv, Copying, Checking
<1>5. PositionInv /\ CellsInv /\ FlushInv /\ ReportedInv
  BY <1>1 DEF PositionInv, CellsInv, FlushInv, ReportedInv, Copied, Copying, Checking
<1>6. Bcp!DriverReadsTheRows
  <2>1. AllRows \in Seq(Bcp!Rows)
    BY <1>3, OptionsTyped
  <2> QED
    BY <1>1, <2>1 DEF Bcp!DriverReadsTheRows, Bcp!IsPrefix, AllRows
<1>7. TotalInv
  <2>1. Repeats \in Nat \ {0}
    BY Values DEF Bcp!RunnerAssumption
  <2>2. RepeatCalls \in Int /\ RepeatDone \in Int /\ chosen.rows \in Nat
    BY <1>3, RepeatTyped, OptionsTyped
  <2>3. 0 * RepeatCalls = 0 /\ 0 * RepeatDone = 0 /\ 0 * chosen.rows = 0
    BY <2>2
  <2> QED
    BY <1>1, <1>2, <2>1, <2>3 DEF TotalInv, Over, Bcp!ZeroReport, Bcp!ReportedRows
<1> QED
  BY <1>3, <1>4, <1>5, <1>6, <1>7 DEF BulkInv

LEMMA BulkKept == ASSUME CopyInv, BulkInv, Bcp!Step PROVE BulkInv'
<1> USE DEF BulkInv
<1>1. CopyInv'
  BY CopyKept
<1>2. TypesInv'
  BY <1>1, TypesKept
<1>3. HandlesInv' /\ TableInv' /\ MemoryInv'
  BY HandlesKept, TableKept, MemoryKept
<1>4. PositionInv' /\ CellsInv' /\ Bcp!DriverReadsTheRows'
  BY ReadingKept DEF Reading
<1>5. FlushInv' /\ ReportedInv'
  BY <1>2, CountsKept
<1>6. TotalInv'
  BY <1>1, TotalKept
<1> QED
  BY <1>2, <1>3, <1>4, <1>5, <1>6

LEMMA BulkStutters == ASSUME BulkInv, UNCHANGED <<ofBoth, ofBcp>> PROVE BulkInv'
<1> USE DEF BulkInv, ofBoth, ofBcp
<1>1. File' = File /\ AllRows' = AllRows
  BY DEF File, AllRows, Bcp!AllRows
<1>2. TypesInv' /\ HandlesInv' /\ TableInv'
  BY DEF TypesInv, HandlesInv, WriterOnly, HandlesOf, TableInv, Bcp!Options, Bcp!Rows
<1>3. MemoryInv'
  BY DEF MemoryInv, Pointing, Bcp!Cols
<1>4. PositionInv' /\ Bcp!DriverReadsTheRows'
  BY <1>1 DEF PositionInv, ReadUpTo, Copied, Bcp!DriverReadsTheRows, AllRows
<1>5. CellsInv'
  BY <1>1 DEF CellsInv, Bcp!ReadColumn
<1>6. FlushInv'
  BY DEF FlushInv, Deferred, Flushed, Calls, Bcp!ZeroReport, Bcp!Rows
<1>7. ReportedInv' /\ TotalInv'
  BY <1>1 DEF ReportedInv, TotalInv, Copied, RepeatCalls, RepeatDone, Calls, Bcp!ReportedRows
<1> QED
  BY <1>2, <1>3, <1>4, <1>5, <1>6, <1>7

LEMMA BulkPromises ==
    ASSUME BulkInv
    PROVE  /\ Bcp!DriverReadsTheRows
           /\ Bcp!CommitsFollowThePolicy
           /\ Bcp!ReportIsTheTables
           /\ Bcp!HandlesAreFreed
           /\ Bcp!TablesAreDropped
<1> USE DEF BulkInv
<1>1. PICK size \in Nat \ {0}, n \in Nat, deferring \in BOOLEAN :
         size = chosen.batchSize /\ n = chosen.rows /\ deferring = chosen.defer
  BY OptionsTyped
<1>2. Bcp!CommitsFollowThePolicy
  <2> SUFFICES ASSUME step \in {"cells", "next_row", "open", "check_rows"}
               PROVE  /\ deferring => held = <<>>
                      /\ Len(inflight) <= size \/ deferring
                      /\ Len(held) <= printed.batchCalls * size
    BY <1>1 DEF Bcp!CommitsFollowThePolicy
  <2>1. CASE deferring
    <3>1. held = <<>> /\ printed.batchCalls = 0
      BY <1>1, <2>1 DEF FlushInv, Deferred, Copying, Bcp!ZeroReport
    <3>2. Len(<<>>) = 0 /\ 0 * size = 0
      OBVIOUS
    <3> QED
      BY <2>1, <3>1, <3>2
  <2>2. CASE ~deferring
    <3>1. Len(held) <= printed.batchCalls * size
      BY <1>1, <2>2 DEF FlushInv, Flushed, Copying
    <3>2. Len(inflight) <= size
      <4>1. inflight = <<>> \/ Len(inflight) < size
        BY <1>1, <2>2 DEF FlushInv, Copying
      <4>2. Len(inflight) \in Nat
        BY DEF TypesInv
      <4> QED
        BY <4>1, <4>2
    <3> QED
      BY <2>2, <3>1, <3>2
  <2> QED
    BY <2>1, <2>2
<1>3. Bcp!ReportIsTheTables
  <2> SUFFICES ASSUME returned = "ok" PROVE Bcp!ReportIsTheTables
    BY DEF Bcp!ReportIsTheTables
  <2>1. turn = Repeats /\ Repeats \in Nat \ {0}
    BY Values DEF TotalInv, Bcp!RunnerAssumption
  <2>2. Len(AllRows) = n
    BY <1>1, <2>1 DEF TotalInv
  <2>3. PICK calls \in Int : calls = (n + size - 1) \div size
    OBVIOUS
  <2>4. Calls(chosen.rows) = calls
    BY <1>1, <2>3 DEF Calls
  <2>5. /\ Bcp!ReportedRows(totals) = Repeats * n
        /\ totals.batchCalls = IF deferring THEN 0 ELSE Repeats * calls
        /\ totals.doneRows = IF deferring THEN Repeats * n ELSE 0
    <3>1. PICK k \in Nat : k = Repeats
      BY <2>1
    <3>2. k * 0 = 0
      OBVIOUS
    <3>3. /\ Bcp!ReportedRows(totals) = k * n
          /\ totals.batchCalls = k * (IF deferring THEN 0 ELSE calls)
          /\ totals.doneRows = k * (IF deferring THEN n ELSE 0)
      BY <1>1, <2>1, <2>4, <3>1 DEF TotalInv, RepeatCalls, RepeatDone
    <3> QED
      BY <3>1, <3>2, <3>3
  <2> QED
    BY <1>1, <2>2, <2>3, <2>5 DEF Bcp!ReportIsTheTables, AllRows
<1>4. Bcp!HandlesAreFreed
  BY DEF HandlesInv, Bcp!HandlesAreFreed
<1>5. Bcp!TablesAreDropped
  BY DEF TableInv, Bcp!TablesAreDropped, Copying, Checking
<1> QED
  BY <1>2, <1>3, <1>4, <1>5

LEMMA BulkInvariance == SpecPrograms => [](program = "bcp" => CopyInv /\ BulkInv)
<1>1. InitPrograms => (program = "bcp" => CopyInv /\ BulkInv)
  BY CopyStarts, BulkStarts DEF InitPrograms
<1>2. (program = "bcp" => CopyInv /\ BulkInv) /\ [NextPrograms]_all
        => (program = "bcp" => CopyInv /\ BulkInv)'
  <2> SUFFICES ASSUME program = "bcp" => CopyInv /\ BulkInv, [NextPrograms]_all, program' = "bcp"
               PROVE  CopyInv' /\ BulkInv'
    OBVIOUS
  <2>1. program = "bcp"
    BY DEF NextPrograms, StepPrograms, all
  <2>2. CASE Bcp!Step
    BY <2>1, <2>2, CopyKept, BulkKept
  <2>3. CASE UNCHANGED all
    <3>1. UNCHANGED <<ofBoth, ofBcp>>
      BY <2>3 DEF all
    <3>2. CopyInv'
      BY <2>1, <3>1 DEF ofBoth, ofBcp, CopyInv, Bcp!ReportedRows
    <3> QED
      BY <2>1, <3>1, <3>2, BulkStutters
  <2> QED
    BY <2>1, <2>2, <2>3 DEF NextPrograms, StepPrograms
<1> QED
  BY <1>1, <1>2, PTL DEF SpecPrograms

\* For every dataset, batch size, number of rows and of repeats: the driver reads
\* through its pointers the rows of the dataset; rows are committed as asked; what
\* is reported is every table, counted; handles are freed and tables dropped.
THEOREM BulkCopiesAreTheDataset == SpecPrograms => []BulkCopyIsTheDataset
<1>1. (program = "bcp" => CopyInv /\ BulkInv) => BulkCopyIsTheDataset
  BY BulkPromises DEF BulkCopyIsTheDataset
<1> QED
  BY <1>1, BulkInvariance, PTL
=============================================================================
