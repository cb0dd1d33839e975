------------------------- MODULE BenchmarkRunProofs -------------------------
(***************************************************************************)
(* Proofs about BenchmarkRun for every list of backends, dataset and       *)
(* number of repeats: what a command leaves behind, what it uses, and what *)
(* an Ok and an error mean.                                                *)
(*                                                                         *)
(* The four plans take their stages in one order (Rank).  What a command   *)
(* has done so far is therefore known from the set of its stages that are  *)
(* still ahead.                                                            *)
(***************************************************************************)
EXTENDS BenchmarkRun, SequenceTheorems, FiniteSetTheorems, TLAPS

Rank == [validate |-> 1, network |-> 2, container |-> 3, ready |-> 4, database |-> 5,
         image |-> 6, dataset |-> 7, snapshot |-> 8, set |-> 9, measure |-> 10,
         restore |-> 11, clean_dataset |-> 12, clean_image |-> 13, return |-> 14,
         cargo_test |-> 15]
Stage == DOMAIN Rank

Increasing(s) == \A i, j \in 1..Len(s) : i < j => Rank[s[i]] < Rank[s[j]]

LEMMA Ranks ==
    /\ Stage = {"validate", "network", "container", "ready", "database", "image",
                "dataset", "snapshot", "set", "measure", "restore", "clean_dataset",
                "clean_image", "return", "cargo_test"}
    /\ \A s \in Stage : Rank[s] \in Nat
    /\ \A s, t \in Stage : Rank[s] = Rank[t] => s = t
    /\ Rank["validate"] = 1 /\ Rank["network"] = 2 /\ Rank["container"] = 3
    /\ Rank["ready"] = 4 /\ Rank["database"] = 5 /\ Rank["image"] = 6
    /\ Rank["dataset"] = 7 /\ Rank["snapshot"] = 8 /\ Rank["set"] = 9
    /\ Rank["measure"] = 10 /\ Rank["restore"] = 11 /\ Rank["clean_dataset"] = 12
    /\ Rank["clean_image"] = 13 /\ Rank["return"] = 14 /\ Rank["cargo_test"] = 15
<1>1. Stage = {"validate", "network", "container", "ready", "database", "image",
               "dataset", "snapshot", "set", "measure", "restore", "clean_dataset",
               "clean_image", "return", "cargo_test"}
  BY DEF Stage, Rank
<1>2. /\ Rank["validate"] = 1 /\ Rank["network"] = 2 /\ Rank["container"] = 3
      /\ Rank["ready"] = 4 /\ Rank["database"] = 5 /\ Rank["image"] = 6
      /\ Rank["dataset"] = 7 /\ Rank["snapshot"] = 8 /\ Rank["set"] = 9
      /\ Rank["measure"] = 10 /\ Rank["restore"] = 11 /\ Rank["clean_dataset"] = 12
      /\ Rank["clean_image"] = 13 /\ Rank["return"] = 14 /\ Rank["cargo_test"] = 15
  BY DEF Rank
<1> QED
  BY <1>1, <1>2

LEMMA Composed ==
    ASSUME NEW s \in Seq(Stage), NEW t \in Seq(Stage)
    PROVE  /\ s \o t \in Seq(Stage)
           /\ ToSet(s \o t) = ToSet(s) \cup ToSet(t)
           /\ Increasing(s) /\ Increasing(t)
                /\ (\A a \in ToSet(s) : \A b \in ToSet(t) : Rank[a] < Rank[b])
                => Increasing(s \o t)
<1> DEFINE u == s \o t
<1>1. /\ u \in Seq(Stage) /\ Len(u) = Len(s) + Len(t) /\ Len(s) \in Nat /\ Len(t) \in Nat
      /\ \A i \in 1..Len(s) : u[i] = s[i]
      /\ \A i \in 1..Len(t) : u[Len(s) + i] = t[i]
  OBVIOUS
<1>2. \A i \in 1..Len(u) : i \in 1..Len(s) \/ i - Len(s) \in 1..Len(t)
  BY <1>1
<1>3. /\ DOMAIN s = 1..Len(s) /\ DOMAIN t = 1..Len(t) /\ DOMAIN u = 1..Len(u)
  BY <1>1
<1>4. \A i \in 1..Len(t) : Len(s) + i \in 1..Len(u)
  BY <1>1
<1>5. \A i \in 1..Len(s) : i \in 1..Len(u)
  BY <1>1
<1>6. \A i \in 1..Len(u) : i - Len(s) \in 1..Len(t) => u[i] = t[i - Len(s)]
  BY <1>1
<1> HIDE DEF u
<1>7. ToSet(u) = ToSet(s) \cup ToSet(t)
  <2>1. ToSet(u) \subseteq ToSet(s) \cup ToSet(t)
    BY <1>1, <1>2, <1>3, <1>6 DEF ToSet
  <2>2. ToSet(s) \subseteq ToSet(u)
    BY <1>1, <1>3, <1>5 DEF ToSet
  <2>3. ToSet(t) \subseteq ToSet(u)
    BY <1>1, <1>3, <1>4 DEF ToSet
  <2> QED
    BY <2>1, <2>2, <2>3
<1>8. ASSUME Increasing(s), Increasing(t), \A a \in ToSet(s) : \A b \in ToSet(t) : Rank[a] < Rank[b]
      PROVE  Increasing(u)
  <2> SUFFICES ASSUME NEW i \in 1..Len(u), NEW j \in 1..Len(u), i < j
               PROVE  Rank[u[i]] < Rank[u[j]]
    BY DEF Increasing
  <2>1. CASE i \in 1..Len(s) /\ j \in 1..Len(s)
    BY <1>1, <1>8, <2>1 DEF Increasing
  <2>2. CASE i \in 1..Len(s) /\ j - Len(s) \in 1..Len(t)
    <3>1. u[i] \in ToSet(s) /\ u[j] \in ToSet(t)
      BY <1>1, <1>3, <1>6, <2>2 DEF ToSet
    <3> QED
      BY <1>8, <3>1
  <2>3. CASE i - Len(s) \in 1..Len(t) /\ j - Len(s) \in 1..Len(t)
    <3>1. i - Len(s) < j - Len(s)
      BY <1>1
    <3>2. Rank[t[i - Len(s)]] < Rank[t[j - Len(s)]]
      BY <1>8, <2>3, <3>1 DEF Increasing
    <3> QED
      BY <1>6, <2>3, <3>2
  <2> QED
    BY <1>1, <1>2, <2>1, <2>2, <2>3
<1> QED
  BY <1>1, <1>7, <1>8 DEF u

\* What each command has to do, in the order of the ranks.
StagesOf == [test |-> {"container", "ready", "database", "cargo_test"},
             baseline |-> {"container", "ready", "database", "dataset", "measure",
                           "clean_dataset", "return"},
             arrow_odbc |-> {"network", "container", "ready", "database", "image", "dataset",
                             "measure", "clean_dataset", "clean_image", "return"},
             compare |-> Stage \ {"cargo_test"}]

Ordered(plan, stagesOf) == plan \in Seq(Stage) /\ Increasing(plan) /\ ToSet(plan) = stagesOf

LEMMA Follows ==
    ASSUME NEW s, NEW S, NEW t, NEW T, Ordered(s, S), Ordered(t, T),
           \A a \in S : \A b \in T : Rank[a] < Rank[b]
    PROVE  Ordered(s \o t, S \cup T)
  BY Composed DEF Ordered

LEMMA OrderedParts ==
    /\ Ordered(Serve, {"container", "ready", "database"})
    /\ Ordered(<<"cargo_test">>, {"cargo_test"})
    /\ Ordered(<<"network">>, {"network"})
    /\ Ordered(<<"validate", "network">>, {"validate", "network"})
    /\ Ordered(<<"dataset", "measure", "clean_dataset", "return">>,
               {"dataset", "measure", "clean_dataset", "return"})
    /\ Ordered(<<"image", "dataset", "measure", "clean_dataset", "clean_image", "return">>,
               {"image", "dataset", "measure", "clean_dataset", "clean_image", "return"})
    /\ Ordered(<<"image", "dataset", "snapshot", "set", "measure", "restore",
                 "clean_dataset", "clean_image", "return">>,
               {"image", "dataset", "snapshot", "set", "measure", "restore",
                "clean_dataset", "clean_image", "return"})
<1> USE Ranks DEF Ordered, Increasing, ToSet
<1>1. Ordered(Serve, {"container", "ready", "database"})
  BY DEF Serve
<1>2. Ordered(<<"cargo_test">>, {"cargo_test"}) /\ Ordered(<<"network">>, {"network"})
  OBVIOUS
<1>3. Ordered(<<"validate", "network">>, {"validate", "network"})
  OBVIOUS
<1>4. Ordered(<<"dataset", "measure", "clean_dataset", "return">>,
              {"dataset", "measure", "clean_dataset", "return"})
  OBVIOUS
<1>5. Ordered(<<"image", "dataset", "measure", "clean_dataset", "clean_image", "return">>,
              {"image", "dataset", "measure", "clean_dataset", "clean_image", "return"})
  OBVIOUS
<1>6. Ordered(<<"image", "dataset", "snapshot", "set", "measure", "restore",
                "clean_dataset", "clean_image", "return">>,
              {"image", "dataset", "snapshot", "set", "measure", "restore",
               "clean_dataset", "clean_image", "return"})
  OBVIOUS
<1> QED
  BY <1>1, <1>2, <1>3, <1>4, <1>5, <1>6

LEMMA Plans ==
    /\ DOMAIN Plan = {"test", "baseline", "arrow_odbc", "compare"}
    /\ \A c \in DOMAIN Plan : Ordered(Plan[c], StagesOf[c])
<1>1. Ordered(Plan["test"], StagesOf["test"])
  BY Ranks, OrderedParts, Follows DEF Plan, TestPlan, StagesOf
<1>2. Ordered(Plan["baseline"], StagesOf["baseline"])
  BY Ranks, OrderedParts, Follows DEF Plan, BaselinePlan, StagesOf
<1>3. Ordered(Plan["arrow_odbc"], StagesOf["arrow_odbc"])
  <2>1. Ordered(<<"network">> \o Serve, {"network"} \cup {"container", "ready", "database"})
    BY Ranks, OrderedParts, Follows
  <2>2. Ordered(ArrowOdbcPlan, ({"network"} \cup {"container", "ready", "database"}) \cup
                 {"image", "dataset", "measure", "clean_dataset", "clean_image", "return"})
    BY <2>1, Ranks, OrderedParts, Follows DEF ArrowOdbcPlan
  <2>3. StagesOf["arrow_odbc"] = ({"network"} \cup {"container", "ready", "database"}) \cup
                 {"image", "dataset", "measure", "clean_dataset", "clean_image", "return"}
    BY DEF StagesOf
  <2> QED
    BY <2>2, <2>3 DEF Plan
<1>4. Ordered(Plan["compare"], StagesOf["compare"])
  <2>1. Ordered(<<"validate", "network">> \o Serve,
                {"validate", "network"} \cup {"container", "ready", "database"})
    BY Ranks, OrderedParts, Follows
  <2>2. Ordered(ComparePlan, ({"validate", "network"} \cup {"container", "ready", "database"}) \cup
                 {"image", "dataset", "snapshot", "set", "measure", "restore",
                  "clean_dataset", "clean_image", "return"})
    BY <2>1, Ranks, OrderedParts, Follows DEF ComparePlan
  <2>3. StagesOf["compare"] = ({"validate", "network"} \cup {"container", "ready", "database"}) \cup
                 {"image", "dataset", "snapshot", "set", "measure", "restore",
                  "clean_dataset", "clean_image", "return"}
    BY Ranks DEF StagesOf
  <2> QED
    BY <2>2, <2>3 DEF Plan
<1> QED
  BY <1>1, <1>2, <1>3, <1>4 DEF Plan

-----------------------------------------------------------------------------
(* The stages ahead *)

Ahead == ToSet(stages)
Running == stages # <<>>
Mine == StagesOf[cmd]

OptionsInv ==
    /\ cmd \in DOMAIN Plan
    /\ opts.backends \in Seq(Tiberius \cup Odbc)
    /\ cmd # "compare" => ~opts.setRecovery
    /\ UsesOdbc => cmd \in {"arrow_odbc", "compare"}

LEMMA MineIs ==
    ASSUME OptionsInv
    PROVE  /\ cmd \in {"test", "baseline", "arrow_odbc", "compare"}
           /\ Mine \subseteq Stage
           /\ \A s \in {"container", "ready", "database"} : s \in Mine
           /\ \A s \in {"dataset", "measure", "clean_dataset", "return"} :
                 s \in Mine <=> cmd # "test"
           /\ \A s \in {"network", "image", "clean_image"} :
                 s \in Mine <=> cmd \in {"arrow_odbc", "compare"}
           /\ \A s \in {"validate", "snapshot", "set", "restore"} :
                 s \in Mine <=> cmd = "compare"
           /\ "cargo_test" \in Mine <=> cmd = "test"
<1>1. cmd \in {"test", "baseline", "arrow_odbc", "compare"}
  BY Plans DEF OptionsInv
<1>2. CASE cmd = "test"
  <2>1. Mine = {"container", "ready", "database", "cargo_test"}
    BY <1>2 DEF Mine, StagesOf
  <2> QED
    BY <1>2, <2>1, Ranks
<1>3. CASE cmd = "baseline"
  <2>1. Mine = {"container", "ready", "database", "dataset", "measure", "clean_dataset", "return"}
    BY <1>3 DEF Mine, StagesOf
  <2> QED
    BY <1>3, <2>1, Ranks
<1>4. CASE cmd = "arrow_odbc"
  <2>1. Mine = {"network", "container", "ready", "database", "image", "dataset", "measure",
                "clean_dataset", "clean_image", "return"}
    BY <1>4 DEF Mine, StagesOf
  <2> QED
    BY <1>4, <2>1, Ranks
<1>5. CASE cmd = "compare"
  <2>1. Mine = Stage \ {"cargo_test"}
    BY <1>5 DEF Mine, StagesOf
  <2> QED
    BY <1>5, <2>1, Ranks
<1> QED
  BY <1>1, <1>2, <1>3, <1>4, <1>5

StagesInv ==
    /\ stages \in Seq(Stage) /\ Increasing(stages)
    /\ Ahead \subseteq Mine
    /\ \A s \in Mine \ Ahead : \A t \in Ahead : Rank[s] < Rank[t]

LEMMA HeadIsFirst ==
    ASSUME StagesInv, Running
    PROVE  /\ Head(stages) \in Ahead /\ Tail(stages) \in Seq(Stage)
           /\ Increasing(Tail(stages))
           /\ ToSet(Tail(stages)) = Ahead \ {Head(stages)}
           /\ \A t \in Ahead : t = Head(stages) \/ Rank[Head(stages)] < Rank[t]
<1> DEFINE n == Len(stages)
           T == Tail(stages)
<1>1. /\ stages \in Seq(Stage) /\ n \in Nat \ {0} /\ Head(stages) = stages[1]
      /\ T \in Seq(Stage) /\ Len(T) = n - 1
      /\ \A i \in 1..(n - 1) : T[i] = stages[i + 1]
      /\ DOMAIN stages = 1..n /\ DOMAIN T = 1..(n - 1)
  BY DEF StagesInv, Running
<1>2. \A i, j \in 1..n : i < j => Rank[stages[i]] < Rank[stages[j]]
  BY DEF StagesInv, Increasing
<1>3. \A i \in 1..(n - 1) : i + 1 \in 1..n
  BY <1>1
<1>4. \A i \in 1..n : i = 1 \/ (i - 1 \in 1..(n - 1) /\ 1 < i)
  BY <1>1
<1> HIDE DEF n, T
<1>5. \A i \in 1..n : stages[i] \in Stage
  BY <1>1
<1>6. \A t \in Ahead : t = Head(stages) \/ Rank[Head(stages)] < Rank[t]
  BY <1>1, <1>2, <1>4 DEF Ahead, ToSet
<1>7. Increasing(T)
  BY <1>1, <1>2, <1>3 DEF Increasing
<1>8. Head(stages) \in Ahead
  BY <1>1 DEF Ahead, ToSet
<1>9. \A i \in 1..(n - 1) : T[i] # Head(stages)
  <2> SUFFICES ASSUME NEW i \in 1..(n - 1) PROVE T[i] # Head(stages)
    OBVIOUS
  <2>1. Rank[stages[1]] < Rank[stages[i + 1]]
    BY <1>1, <1>2, <1>3
  <2>2. Rank[stages[1]] \in Nat
    <3>1. 1 \in 1..n
      BY <1>1
    <3> QED
      BY <1>5, <3>1, Ranks
  <2> QED
    BY <1>1, <2>1, <2>2
<1>10. \A i \in 1..n : stages[i] = Head(stages) \/ stages[i] \in ToSet(T)
  <2> SUFFICES ASSUME NEW i \in 1..n, i # 1 PROVE stages[i] \in ToSet(T)
    BY <1>1
  <2>1. i - 1 \in 1..(n - 1) /\ i = (i - 1) + 1
    BY <1>4
  <2>2. T[i - 1] = stages[i]
    BY <1>1, <2>1
  <2> QED
    BY <1>1, <2>1, <2>2 DEF ToSet
<1>11. ToSet(T) \subseteq Ahead
  BY <1>1, <1>3 DEF Ahead, ToSet
<1>12. ToSet(T) = Ahead \ {Head(stages)}
  <2>1. Head(stages) \notin ToSet(T)
    BY <1>1, <1>9 DEF ToSet
  <2>2. Ahead \subseteq ToSet(T) \cup {Head(stages)}
    BY <1>1, <1>10 DEF Ahead, ToSet
  <2> QED
    BY <1>11, <2>1, <2>2
<1> QED
  BY <1>1, <1>6, <1>7, <1>8, <1>12 DEF T

LEMMA NothingAhead ==
    ASSUME stages \in Seq(Stage)
    PROVE  Running <=> Ahead # {}
<1>1. CASE stages = <<>>
  BY <1>1 DEF Running, Ahead, ToSet
<1>2. CASE stages # <<>>
  <2>1. 1 \in DOMAIN stages
    BY <1>2
  <2> QED
    BY <1>2, <2>1 DEF Running, Ahead, ToSet
<1> QED
  BY <1>1, <1>2

\* Where the command is, in terms of what is ahead of it.
LEMMA AtStage ==
    ASSUME OptionsInv, StagesInv, NEW s, At(s)
    PROVE  /\ Running /\ s \in Stage /\ s \in Ahead /\ s \in Mine /\ s = Head(stages)
           /\ Mine \subseteq Stage
           /\ \A t \in Mine : t \in Ahead <=> Rank[s] <= Rank[t]
<1>1. Running /\ s = Head(stages) /\ s \in Ahead
  BY HeadIsFirst DEF At, Running
<1>2. Mine \subseteq Stage
  BY Ranks DEF OptionsInv, Plan, Mine, StagesOf
<1>3. \A t \in Ahead : t = s \/ Rank[s] < Rank[t]
  BY <1>1, HeadIsFirst
<1>4. \A t \in Mine \ Ahead : Rank[t] < Rank[s]
  BY <1>1 DEF StagesInv
<1>5. s \in Mine /\ s \in Stage
  BY <1>1, <1>2 DEF StagesInv
<1>6. \A t \in Stage : Rank[t] \in Nat
  BY Ranks
<1> QED
  BY <1>1, <1>2, <1>3, <1>4, <1>5, <1>6

LEMMA Advanced ==
    ASSUME StagesInv, NEW s, At(s), Advance, cmd' = cmd
    PROVE  StagesInv' /\ Ahead' = Ahead \ {s} /\ (Running' <=> Ahead' # {})
<1>1. Running /\ s = Head(stages) /\ stages' = Tail(stages)
  BY DEF At, Running, Advance
<1>2. /\ s \in Ahead /\ stages' \in Seq(Stage) /\ Increasing(stages')
      /\ Ahead' = Ahead \ {s}
      /\ \A t \in Ahead : t = s \/ Rank[s] < Rank[t]
  BY <1>1, HeadIsFirst DEF Ahead
<1>3. Mine' = Mine
  BY DEF Mine
<1>4. StagesInv'
  <2>1. \A t \in Mine \ Ahead' : \A r \in Ahead' : Rank[t] < Rank[r]
    BY <1>2 DEF StagesInv
  <2> QED
    BY <1>2, <1>3, <2>1 DEF StagesInv
<1>5. Running' <=> Ahead' # {}
  BY <1>2 DEF Running, Ahead, ToSet
<1> QED
  BY <1>2, <1>4, <1>5

LEMMA Left ==
    ASSUME stages' = <<>>
    PROVE  StagesInv' /\ Ahead' = {} /\ ~Running'
<1>1. Ahead' = {}
  BY DEF Ahead, ToSet
<1> QED
  BY <1>1 DEF StagesInv, Running, Increasing

LEMMA Stayed ==
    ASSUME UNCHANGED <<cmd, opts, stages>>
    PROVE  /\ OptionsInv' <=> OptionsInv
           /\ StagesInv' <=> StagesInv
           /\ Ahead' = Ahead /\ (Running' <=> Running) /\ Mine' = Mine
           /\ UsesOdbc' <=> UsesOdbc
<1>1. Ahead' = Ahead /\ (Running' <=> Running) /\ Mine' = Mine
  BY DEF Ahead, Running, Mine
<1>2. UsesOdbc' <=> UsesOdbc
  BY DEF UsesOdbc
<1> QED
  BY <1>1, <1>2 DEF OptionsInv, StagesInv

-----------------------------------------------------------------------------
(* Steps by what they change *)

\* Steps of the loop over the backends: they move no stage.
MeasureStep ==
    \/ ConnectFails \/ RepeatSetup \/ RepeatWrite \/ RepeatValidate
    \/ RepeatCleanup \/ BackendMeasured \/ RunRunner \/ AllMeasured

\* Steps of a stage: they touch neither the backends nor their table.
StageStep ==
    \/ Skip \/ Validate \/ CreateNetwork \/ StartContainer \/ BuildImage
    \/ WriteDataset \/ WaitUntilReady \/ InitializeDatabase \/ CargoTest
    \/ SnapshotRecovery \/ SetRecovery \/ MeasureReturns \/ RestoreRecovery
    \/ CleanDataset \/ CleanImage \/ Return

LEMMA Steps == Next <=> MeasureStep \/ StageStep \/ DropGuard \/ ServerStarts \/ Exit
  BY DEF Next, Step, MeasureStep, StageStep

LEMMA MeasureStepKeeps ==
    ASSUME MeasureStep
    PROVE  UNCHANGED <<cmd, opts, stages, guards, world, recovery, ready, result>>
  BY DEF MeasureStep, ConnectFails, RepeatSetup, RepeatWrite, RepeatValidate,
         RepeatCleanup, BackendMeasured, RunRunner, AllMeasured, dbVars, measureVars

\* A stage is skipped, passed, waited for or fails.
LEMMA StageStepMoves ==
    ASSUME StageStep
    PROVE  /\ UNCHANGED <<cmd, opts, measureVars, table, ready>>
           /\ \/ \E s : At(s) /\ Advance
              \/ stages # <<>> /\ stages' = <<>>
              \/ UNCHANGED <<stages, guards, world, recovery, outcome, result, lost>>
<1> USE DEF Do, dbVars
<1>1. CASE Skip
  BY <1>1 DEF Skip, At
<1>2. CASE Validate
  BY <1>2 DEF Validate, Fail, At
<1>3. CASE CreateNetwork \/ StartContainer \/ BuildImage \/ WriteDataset
  BY <1>3 DEF CreateNetwork, StartContainer, BuildImage, WriteDataset, Create, Fail, At
<1>4. CASE WaitUntilReady
  BY <1>4 DEF WaitUntilReady, Fail, At
<1>5. CASE InitializeDatabase \/ CargoTest
  BY <1>5 DEF InitializeDatabase, CargoTest, Attempt, Fail, At
<1>6. CASE SnapshotRecovery
  BY <1>6 DEF SnapshotRecovery, FailWithDataset, At
<1>7. CASE SetRecovery
  BY <1>7 DEF SetRecovery, FailWithDataset, At
<1>8. CASE MeasureReturns
  BY <1>8 DEF MeasureReturns
<1>9. CASE RestoreRecovery \/ CleanDataset
  BY <1>9 DEF RestoreRecovery, CleanDataset
<1>10. CASE CleanImage
  BY <1>10 DEF CleanImage, Fail, At
<1>11. CASE Return
  BY <1>11 DEF Return
<1> QED
  BY <1>1, <1>2, <1>3, <1>4, <1>5, <1>6, <1>7, <1>8, <1>9, <1>10, <1>11 DEF StageStep

LEMMA OthersKeep ==
    /\ DropGuard => /\ UNCHANGED <<cmd, opts, stages, polls, measureVars, outcome, result>>
                    /\ ~Running
    /\ ServerStarts => UNCHANGED <<cmd, opts, stages, guards, world, dbVars, polls, measureVars,
                                   outcome, result, lost>>
    /\ Exit => UNCHANGED vars
  BY DEF DropGuard, ServerStarts, Exit, Running

LEMMA StagesKept == ASSUME OptionsInv, StagesInv, [Next]_vars PROVE OptionsInv' /\ StagesInv'
<1>1. CASE MeasureStep
  BY <1>1, MeasureStepKeeps, Stayed
<1>2. CASE StageStep
  <2>1. UNCHANGED <<cmd, opts>>
    BY <1>2, StageStepMoves
  <2>2. OptionsInv'
    BY <2>1 DEF OptionsInv, UsesOdbc
  <2>3. StagesInv'
    BY <1>2, <2>1, StageStepMoves, Advanced, Left, Stayed
  <2> QED
    BY <2>2, <2>3
<1>3. CASE DropGuard \/ ServerStarts \/ Exit \/ UNCHANGED vars
  BY <1>3, OthersKeep, Stayed DEF vars
<1> QED
  BY <1>1, <1>2, <1>3, Steps

-----------------------------------------------------------------------------
(* What is there while the command runs *)

ServerInv ==
    Running =>
        /\ opts.existing \/ "ready" \notin Ahead => ready
        /\ "container" \notin Ahead => opts.existing \/ "container" \in world
        /\ "network" \notin Ahead /\ UsesOdbc => opts.existing \/ "network" \in world

\* Between making and removing them, the image and the dataset are there.
FilesInv ==
    Running =>
        /\ "image" \notin Ahead /\ "clean_image" \in Ahead /\ UsesOdbc => "image" \in world
        /\ "dataset" \notin Ahead /\ "clean_dataset" \in Ahead => "dataset" \in world
        /\ "dataset" \in Ahead => "dataset" \notin world

LEMMA CreateEffect ==
    ASSUME NEW s, NEW guard, Create(s, guard), StagesInv, Running'
    PROVE  /\ At(s) /\ ~Skipped(s) /\ Advance /\ cmd' = cmd /\ opts' = opts
           /\ world' = world \cup {s} /\ ready' = ready
<1>1. At(s) /\ ~Skipped(s) /\ cmd' = cmd /\ opts' = opts /\ ready' = ready
  BY DEF Create, Do
<1>2. stages' # <<>>
  BY DEF Running
<1> QED
  BY <1>1, <1>2 DEF Create, Fail

\* A step of a stage that leaves the command running: what it adds to the
\* world and takes from it.
LEMMA RunningOn ==
    ASSUME OptionsInv, StagesInv, StageStep, Running'
    PROVE  /\ UNCHANGED <<cmd, opts, ready>>
           /\ \/ UNCHANGED <<stages, world>>
              \/ \E s \in Stage : At(s) /\ Advance /\
                   \/ Skipped(s) /\ world' = world
                   \/ ~Skipped(s) /\ s \in {"network", "container", "image", "dataset"}
                        /\ world' = world \cup {s}
                   \/ s = "ready" /\ ready /\ world' = world
                   \/ s \in {"validate", "database", "cargo_test", "snapshot", "set",
                             "measure", "restore", "return"} /\ world' = world
                   \/ s = "clean_dataset" /\ (world' = world \/ world' = world \ {"dataset"})
                   \/ s = "clean_image" /\ (world' = world \/ world' = world \ {"image"})
<1> USE Ranks DEF Do, dbVars
<1> UNCHANGED <<cmd, opts, ready>>
  BY StageStepMoves
<1>0. stages' # <<>>
  BY DEF Running
<1>1. CASE Skip
  <2>1. At(Head(stages)) /\ Skipped(Head(stages)) /\ Advance /\ world' = world
    BY <1>1 DEF Skip, At
  <2> QED
    BY <2>1, AtStage
<1>2. CASE Validate
  BY <1>0, <1>2 DEF Validate, Fail
<1>3. CASE CreateNetwork \/ StartContainer \/ BuildImage \/ WriteDataset
  BY <1>3, CreateEffect DEF CreateNetwork, StartContainer, BuildImage, WriteDataset
<1>4. CASE WaitUntilReady
  BY <1>0, <1>4 DEF WaitUntilReady, Fail
<1>5. CASE InitializeDatabase \/ CargoTest
  BY <1>0, <1>5 DEF InitializeDatabase, CargoTest, Attempt, Fail
<1>6. CASE SnapshotRecovery
  BY <1>0, <1>6 DEF SnapshotRecovery, FailWithDataset
<1>7. CASE SetRecovery
  BY <1>0, <1>7 DEF SetRecovery, FailWithDataset
<1>8. CASE MeasureReturns
  BY <1>8 DEF MeasureReturns
<1>9. CASE RestoreRecovery \/ CleanDataset
  BY <1>9 DEF RestoreRecovery, CleanDataset
<1>10. CASE CleanImage
  BY <1>0, <1>10 DEF CleanImage, Fail
<1>11. CASE Return
  BY <1>11 DEF Return
<1> QED
  BY <1>1, <1>2, <1>3, <1>4, <1>5, <1>6, <1>7, <1>8, <1>9, <1>10, <1>11 DEF StageStep

LEMMA WorldKept ==
    ASSUME OptionsInv, StagesInv, ServerInv, FilesInv, [Next]_vars
    PROVE  ServerInv' /\ FilesInv'
<1> SUFFICES ASSUME Running' PROVE ServerInv' /\ FilesInv'
  BY DEF ServerInv, FilesInv
<1>1. CASE UNCHANGED <<cmd, opts, stages, world>> /\ (ready => ready')
  BY <1>1, Stayed DEF ServerInv, FilesInv
<1>2. CASE StageStep
  <2>1. CASE UNCHANGED <<stages, world>>
    BY <1>1, <1>2, <2>1, RunningOn
  <2>2. ASSUME NEW s \in Stage, At(s), Advance, UNCHANGED <<cmd, opts, ready>>,
               \/ Skipped(s) /\ world' = world
               \/ ~Skipped(s) /\ s \in {"network", "container", "image", "dataset"}
                    /\ world' = world \cup {s}
               \/ s = "ready" /\ ready /\ world' = world
               \/ s \in {"validate", "database", "cargo_test", "snapshot", "set",
                         "measure", "restore", "return"} /\ world' = world
               \/ s = "clean_dataset" /\ (world' = world \/ world' = world \ {"dataset"})
               \/ s = "clean_image" /\ (world' = world \/ world' = world \ {"image"})
        PROVE  ServerInv' /\ FilesInv'
    <3>1. Ahead' = Ahead \ {s} /\ Running /\ s \in Ahead
      BY <2>2, Advanced, AtStage
    <3>2. UsesOdbc' <=> UsesOdbc
      BY <2>2 DEF UsesOdbc
    <3>3. ServerInv'
      BY <2>2, <3>1, <3>2 DEF ServerInv, Skipped
    <3>4. Mine \subseteq Stage /\ \A t \in Mine : t \in Ahead <=> Rank[s] <= Rank[t]
      BY <2>2, AtStage
    <3>5. Ahead \subseteq Mine
      BY DEF StagesInv
    <3>6. "dataset" \in Mine <=> "clean_dataset" \in Mine
      BY MineIs
    <3>8. "clean_image" \in Mine => "image" \in Mine
      BY MineIs
    <3>9. "image" \notin Ahead' /\ "clean_image" \in Ahead' /\ UsesOdbc => "image" \in world'
      BY <2>2, <3>1, <3>2, <3>4, <3>5, <3>8, Ranks DEF FilesInv, Skipped
    <3>10. /\ "dataset" \notin Ahead' /\ "clean_dataset" \in Ahead' => "dataset" \in world'
           /\ "dataset" \in Ahead' => "dataset" \notin world'
      BY <2>2, <3>1, <3>4, <3>5, <3>6, Ranks DEF FilesInv, Skipped
    <3> QED
      BY <3>2, <3>3, <3>9, <3>10 DEF FilesInv
  <2> QED
    BY <1>2, <2>1, <2>2, RunningOn
<1>3. CASE DropGuard
  BY <1>3, OthersKeep DEF Running
<1>4. CASE ServerStarts
  BY <1>1, <1>4 DEF ServerStarts
<1>5. CASE MeasureStep
  BY <1>1, <1>5, MeasureStepKeeps
<1>6. CASE Exit \/ UNCHANGED vars
  BY <1>1, <1>6 DEF Exit, vars
<1> QED
  BY <1>2, <1>3, <1>4, <1>5, <1>6, Steps

-----------------------------------------------------------------------------
(* Guards, and what outlives the command *)

Guarded == {"network", "container", "image"}

\* The guards were made in the order of the stages, and all before what is ahead.
GuardsInv ==
    /\ guards \in Seq(Guarded) /\ Increasing(guards)
    /\ \A g \in ToSet(guards) : \A s \in Ahead : Rank[g] < Rank[s]

Blamed(r) == {<<"create", r>>, <<"remove", r>>} \cap lost # {}

\* What is there is guarded, or an operation on it failed, or it is to stay.
HeldInv ==
    /\ \A r \in Guarded : r \in world => r \in ToSet(guards) \/ Blamed(r) \/ KeptOnDrop(r)
    /\ "dataset" \in world => "clean_dataset" \in Ahead \/ Blamed("dataset")
    /\ world \subseteq Guarded \cup {"server", "dataset"}

LEMMA DropsNewest ==
    ASSUME guards \in Seq(Guarded), guards # <<>>
    PROVE  /\ Head(DropOrder) = guards[Len(guards)]
           /\ Reverse(Tail(DropOrder)) \in Seq(Guarded)
           /\ Len(guards) \in Nat \ {0}
           /\ Len(Reverse(Tail(DropOrder))) = Len(guards) - 1
           /\ \A i \in 1..(Len(guards) - 1) : Reverse(Tail(DropOrder))[i] = guards[i]
<1> DEFINE n == Len(guards)
           R == DropOrder
           T == Tail(R)
<1>1. n \in Nat \ {0} /\ DOMAIN guards = 1..n /\ \A i \in 1..n : guards[i] \in Guarded
  BY DEF n
<1>2. R = [i \in 1..n |-> guards[(n - i) + 1]]
  BY DEF DropOrder, Reverse
<1>3. \A i \in 1..n : (n - i) + 1 \in 1..n
  BY <1>1
<1>4. R \in Seq(Guarded) /\ Len(R) = n /\ \A i \in 1..n : R[i] = guards[(n - i) + 1]
  BY <1>1, <1>2, <1>3
<1> HIDE DEF n, R
<1>5. Head(R) = guards[n]
  BY <1>1, <1>4
<1>6. T \in Seq(Guarded) /\ Len(T) = n - 1 /\ \A i \in 1..(n - 1) : T[i] = R[i + 1]
  BY <1>1, <1>4
<1> HIDE DEF T
<1>7. Reverse(T) = [i \in 1..(n - 1) |-> T[((n - 1) - i) + 1]]
  BY <1>6 DEF Reverse
<1>8. \A i \in 1..(n - 1) : ((n - 1) - i) + 1 \in 1..(n - 1)
  BY <1>1
<1>9. Reverse(T) \in Seq(Guarded) /\ Len(Reverse(T)) = n - 1
  BY <1>1, <1>6, <1>7, <1>8
<1>10. ASSUME NEW i \in 1..(n - 1) PROVE Reverse(T)[i] = guards[i]
  <2>1. Reverse(T)[i] = T[((n - 1) - i) + 1]
    BY <1>7
  <2>2. T[((n - 1) - i) + 1] = R[(((n - 1) - i) + 1) + 1]
    BY <1>6, <1>8
  <2>3. (((n - 1) - i) + 1) + 1 \in 1..n /\ (n - ((((n - 1) - i) + 1) + 1)) + 1 = i
    BY <1>1
  <2> QED
    BY <1>4, <2>1, <2>2, <2>3
<1> QED
  BY <1>1, <1>5, <1>9, <1>10 DEF T, R, n

LEMMA Dropped ==
    ASSUME GuardsInv, guards # <<>>, guards' = Reverse(Tail(DropOrder))
    PROVE  /\ Head(DropOrder) \in ToSet(guards)
           /\ guards' \in Seq(Guarded) /\ Increasing(guards')
           /\ ToSet(guards') = ToSet(guards) \ {Head(DropOrder)}
           /\ \A g \in ToSet(guards) : g = Head(DropOrder) \/ Rank[g] < Rank[Head(DropOrder)]
<1> DEFINE n == Len(guards)
           G == guards'
           last == Head(DropOrder)
<1>1. /\ n \in Nat \ {0} /\ DOMAIN guards = 1..n /\ last = guards[n]
      /\ G \in Seq(Guarded) /\ Len(G) = n - 1 /\ DOMAIN G = 1..(n - 1)
      /\ \A i \in 1..(n - 1) : G[i] = guards[i]
      /\ \A i \in 1..n : guards[i] \in Stage
  <2>1. guards \in Seq(Guarded)
    BY DEF GuardsInv
  <2>2. Guarded \subseteq Stage
    BY Ranks DEF Guarded
  <2> QED
    BY <2>1, <2>2, DropsNewest
<1>2. \A i, j \in 1..n : i < j => Rank[guards[i]] < Rank[guards[j]]
  BY DEF GuardsInv, Increasing
<1>0. n \in Nat \ {0}
  BY <1>1
<1> HIDE DEF n, G, last
<1>3. \A i \in 1..n : i = n \/ (i \in 1..(n - 1) /\ i < n)
  BY <1>0
<1>4. n \in 1..n /\ \A i \in 1..(n - 1) : i \in 1..n /\ i < n
  BY <1>0
<1>5. \A g \in ToSet(guards) : g = last \/ Rank[g] < Rank[last]
  BY <1>1, <1>2, <1>3, <1>4 DEF ToSet
<1>6. Increasing(G)
  BY <1>1, <1>2, <1>4 DEF Increasing
<1>7. last \in ToSet(guards)
  BY <1>1, <1>4 DEF ToSet
<1>8. ToSet(G) = ToSet(guards) \ {last}
  <2>1. ToSet(G) \subseteq ToSet(guards)
    BY <1>1, <1>4 DEF ToSet
  <2>2. ToSet(guards) \subseteq ToSet(G) \cup {last}
    BY <1>1, <1>3 DEF ToSet
  <2>3. last \notin ToSet(G)
    <3> SUFFICES ASSUME NEW i \in 1..(n - 1) PROVE G[i] # last
      BY <1>1 DEF ToSet
    <3>1. Rank[guards[i]] < Rank[guards[n]]
      BY <1>2, <1>4
    <3>2. Rank[guards[n]] \in Nat
      BY <1>1, <1>4, Ranks
    <3> QED
      BY <1>1, <3>1, <3>2
  <2> QED
    BY <2>1, <2>2, <2>3
<1> QED
  BY <1>1, <1>5, <1>6, <1>7, <1>8 DEF G, last

\* A stage that makes something with a guard.
LEMMA GuardAdded ==
    ASSUME GuardsInv, StagesInv, OptionsInv, NEW g \in Guarded, At(g), Advance, cmd' = cmd,
           guards' = guards \o <<g>>
    PROVE  GuardsInv' /\ ToSet(guards') = ToSet(guards) \cup {g}
<1>1. /\ guards \in Seq(Guarded) /\ Increasing(guards) /\ Guarded \subseteq Stage
      /\ guards \in Seq(Stage) /\ <<g>> \in Seq(Stage)
  BY Ranks DEF GuardsInv, Guarded
<1>2. Increasing(<<g>>) /\ ToSet(<<g>>) = {g}
  BY DEF Increasing, ToSet
<1>3. \A a \in ToSet(guards) : Rank[a] < Rank[g]
  BY AtStage DEF GuardsInv
<1>4. ToSet(guards') = ToSet(guards) \cup {g} /\ Increasing(guards')
  BY <1>1, <1>2, <1>3, Composed
<1>5. guards' \in Seq(Guarded)
  BY <1>1
<1>6. Ahead' = Ahead \ {g} /\ g \in Ahead
  BY Advanced, AtStage
<1>7. \A t \in Ahead : t = g \/ Rank[g] < Rank[t]
  BY AtStage, HeadIsFirst
<1> QED
  BY <1>4, <1>5, <1>6, <1>7 DEF GuardsInv

LEMMA AheadShrinks == ASSUME OptionsInv, StagesInv, [Next]_vars PROVE Ahead' \subseteq Ahead
<1>1. CASE StageStep
  BY <1>1, StageStepMoves, Advanced, Left, Stayed
<1>2. CASE ~StageStep
  BY <1>2, Steps, MeasureStepKeeps, OthersKeep, Stayed DEF vars
<1> QED
  BY <1>1, <1>2

\* The steps of a stage change the guards only by adding one.
LEMMA GuardsOfStage ==
    ASSUME StageStep, guards \in Seq(Guarded)
    PROVE  \/ guards' = guards
           \/ \E g \in Guarded : /\ At(g) /\ Advance /\ cmd' = cmd
                                 /\ guards' = guards \o <<g>> /\ world' = world \cup {g}
<1>1. CASE Create("network", <<"network">>) \/ Create("container", <<"container">>)
             \/ Create("image", <<"image">>)
  BY <1>1 DEF Create, Do, Guarded
<1>2. CASE WriteDataset
  <2>1. guards' = guards \o <<>> \/ guards' = guards
    BY <1>2 DEF WriteDataset, Create
  <2> QED
    BY <2>1
<1>3. CASE ~(\/ CreateNetwork \/ StartContainer \/ BuildImage \/ WriteDataset)
  BY <1>3 DEF StageStep, Skip, Validate, WaitUntilReady, InitializeDatabase, CargoTest, Attempt,
       SnapshotRecovery, SetRecovery, MeasureReturns, RestoreRecovery, CleanDataset, CleanImage,
       Return
<1> QED
  BY <1>1, <1>2, <1>3 DEF CreateNetwork, StartContainer, BuildImage

LEMMA GuardsKept ==
    ASSUME OptionsInv, StagesInv, GuardsInv, [Next]_vars
    PROVE  GuardsInv'
<1>1. CASE guards' = guards
  BY <1>1, AheadShrinks DEF GuardsInv
<1>2. CASE StageStep
  <2>1. guards \in Seq(Guarded)
    BY DEF GuardsInv
  <2> QED
    BY <1>1, <1>2, <2>1, GuardsOfStage, GuardAdded
<1>3. CASE DropGuard
  <2>1. guards # <<>> /\ guards' = Reverse(Tail(DropOrder)) /\ UNCHANGED <<cmd, opts, stages>>
    BY <1>3 DEF DropGuard
  <2>2. Ahead' = Ahead
    BY <2>1, Stayed
  <2> QED
    BY <2>1, <2>2, Dropped DEF GuardsInv
<1>4. CASE MeasureStep \/ ServerStarts \/ Exit \/ UNCHANGED vars
  BY <1>1, <1>4, MeasureStepKeeps, OthersKeep DEF vars
<1> QED
  BY <1>2, <1>3, <1>4, Steps

-----------------------------------------------------------------------------
(* What a step does to the world *)

LEMMA LostKept == [Next]_vars => lost \subseteq lost'
<1> SUFFICES ASSUME [Next]_vars PROVE lost \subseteq lost'
  OBVIOUS
<1>1. CASE MeasureStep
  BY <1>1 DEF MeasureStep, ConnectFails, RepeatSetup, RepeatWrite, RepeatValidate,
       RepeatCleanup, BackendMeasured, RunRunner, AllMeasured
<1>2. CASE StageStep
  <2>1. CASE CreateNetwork \/ StartContainer \/ BuildImage \/ WriteDataset
    BY <2>1 DEF CreateNetwork, StartContainer, BuildImage, WriteDataset, Create
  <2>2. CASE SnapshotRecovery \/ SetRecovery
    BY <2>2 DEF SnapshotRecovery, SetRecovery, FailWithDataset
  <2>3. CASE ~(\/ CreateNetwork \/ StartContainer \/ BuildImage \/ WriteDataset
               \/ SnapshotRecovery \/ SetRecovery)
    BY <1>2, <2>3 DEF StageStep, Skip, Validate, WaitUntilReady, InitializeDatabase, CargoTest,
         Attempt, MeasureReturns, RestoreRecovery, CleanDataset, CleanImage, Return
  <2> QED
    BY <2>1, <2>2, <2>3
<1>3. CASE DropGuard
  BY <1>3 DEF DropGuard
<1>4. CASE ServerStarts \/ Exit \/ UNCHANGED vars
  BY <1>4, OthersKeep DEF vars
<1> QED
  BY <1>1, <1>2, <1>3, <1>4, Steps

LEMMA BlameKept == ASSUME [Next]_vars, NEW r PROVE Blamed(r) => Blamed(r)'
  BY LostKept DEF Blamed

\* Nothing is left by a step that keeps the guards, takes from the world only
\* and does not pass the removal of a dataset that is there.
LEMMA HeldByShrinking ==
    ASSUME OptionsInv, StagesInv, HeldInv, [Next]_vars,
           ToSet(guards) \subseteq ToSet(guards'), world' \subseteq world,
           "dataset" \in world' /\ "clean_dataset" \in Ahead =>
               "clean_dataset" \in Ahead' \/ Blamed("dataset")'
    PROVE  HeldInv'
<1>1. UNCHANGED <<cmd, opts>>
  BY Steps, MeasureStepKeeps, StageStepMoves, OthersKeep DEF vars
<1>2. \A r : KeptOnDrop(r)' = KeptOnDrop(r)
  BY <1>1 DEF KeptOnDrop
<1> QED
  BY <1>2, BlameKept DEF HeldInv

\* Before the dataset is written it is not there.
LEMMA NoDatasetYet ==
    ASSUME OptionsInv, StagesInv, FilesInv, NEW s, At(s), Rank[s] <= Rank["dataset"],
           "clean_dataset" \in Ahead
    PROVE  "dataset" \notin world
<1>1. "clean_dataset" \in Mine
  BY DEF StagesInv
<1>2. "dataset" \in Mine
  BY <1>1, MineIs
<1>3. "dataset" \in Ahead /\ Running
  BY <1>2, AtStage
<1> QED
  BY <1>3 DEF FilesInv

LEMMA HeldByCreate ==
    ASSUME OptionsInv, StagesInv, FilesInv, GuardsInv, HeldInv,
           NEW g \in Guarded, Create(g, <<g>>), Next
    PROVE  HeldInv'
<1>1. At(g) /\ UNCHANGED <<cmd, opts>>
  BY DEF Create, Do
<1>2. \A r : KeptOnDrop(r)' = KeptOnDrop(r)
  BY <1>1 DEF KeptOnDrop
<1>3. Rank[g] <= Rank["dataset"] /\ g # "clean_dataset" /\ g # "dataset"
  BY Ranks DEF Guarded
<1>4. \A r : Blamed(r) => Blamed(r)'
  BY BlameKept
<1>5. CASE world' = world \cup {g} /\ guards' = guards \o <<g>> /\ Advance
  <2>1. ToSet(guards') = ToSet(guards) \cup {g}
    BY <1>1, <1>5, GuardAdded
  <2>2. Ahead' = Ahead \ {g}
    BY <1>1, <1>5, Advanced
  <2> QED
    BY <1>2, <1>3, <1>4, <1>5, <2>1, <2>2 DEF HeldInv
<1>6. CASE guards' = guards /\ (world' = world \/ (world' = world \cup {g} /\ <<"create", g>> \in lost'))
  <2>1. world' # world => Blamed(g)'
    BY <1>6 DEF Blamed
  <2>2. "dataset" \in world' => Blamed("dataset")'
    <3>1. "dataset" \in world' => "dataset" \in world
      BY <1>3, <1>6
    <3> QED
      BY <1>1, <1>3, <1>4, <3>1, NoDatasetYet DEF HeldInv
  <2>3. world' \subseteq world \cup {g}
    BY <1>6
  <2> QED
    BY <1>2, <1>3, <1>4, <1>6, <2>1, <2>2, <2>3 DEF HeldInv
<1>7. \/ world' = world \cup {g} /\ guards' = guards \o <<g>> /\ Advance
      \/ guards' = guards /\ world' = world
      \/ guards' = guards /\ world' = world \cup {g} /\ <<"create", g>> \in lost'
  BY DEF Create
<1> QED
  BY <1>5, <1>6, <1>7

LEMMA HeldKept ==
    ASSUME OptionsInv, StagesInv, FilesInv, GuardsInv, HeldInv, [Next]_vars
    PROVE  HeldInv'
<1> USE Ranks
<1>1. ASSUME NEW s \in Stage, At(s), Advance, s # "clean_dataset", cmd' = cmd,
             guards' = guards, world' \subseteq world
      PROVE  HeldInv'
  BY <1>1, Advanced, HeldByShrinking
<1>2. ASSUME NEW s, At(s), Rank[s] <= Rank["dataset"] \/ Rank[s] > Rank["clean_dataset"],
             guards' = guards, world' = world
      PROVE  HeldInv'
  <2>1. "clean_dataset" \in Ahead => Rank[s] <= Rank["clean_dataset"]
    BY <1>2, AtStage DEF StagesInv
  <2>2. s \in Stage
    BY <1>2, AtStage
  <2>3. "clean_dataset" \in Ahead => Rank[s] <= Rank["dataset"]
    BY <1>2, <2>1, <2>2
  <2>4. "clean_dataset" \in Ahead => "dataset" \notin world
    BY <1>2, <2>3, NoDatasetYet
  <2> QED
    BY <1>2, <2>4, HeldByShrinking
<1>3. CASE CreateNetwork \/ StartContainer \/ BuildImage
  BY <1>3, HeldByCreate DEF CreateNetwork, StartContainer, BuildImage, Guarded, Next, Step
<1>4. CASE WriteDataset
  <2>1. At("dataset") /\ UNCHANGED <<cmd, opts>>
    BY <1>4 DEF WriteDataset, Create, Do
  <2>2. \A r : KeptOnDrop(r)' = KeptOnDrop(r)
    BY <2>1 DEF KeptOnDrop
  <2>3. guards' = guards \o <<>> \/ guards' = guards
    BY <1>4 DEF WriteDataset, Create
  <2>4. guards' = guards
    BY <2>3 DEF GuardsInv
  <2>5. CASE world' = world \cup {"dataset"} /\ Advance
    <3>1. "clean_dataset" \in Mine
      BY <2>1, AtStage, MineIs
    <3>2. "clean_dataset" \in Ahead'
      BY <2>1, <2>5, <3>1, AtStage, Advanced
    <3> QED
      BY <2>2, <2>4, <2>5, <3>2, BlameKept DEF HeldInv, Guarded
  <2>6. CASE world' = world
    BY <1>2, <2>1, <2>4, <2>6
  <2>7. CASE world' = world \cup {"dataset"} /\ <<"create", "dataset">> \in lost'
    <3>1. Blamed("dataset")'
      BY <2>7 DEF Blamed
    <3> QED
      BY <2>2, <2>4, <2>7, <3>1, BlameKept DEF HeldInv, Guarded
  <2> QED
    BY <1>4, <2>5, <2>6, <2>7 DEF WriteDataset, Create
<1>5. CASE Skip
  <2>1. At(Head(stages)) /\ Advance /\ Head(stages) # "clean_dataset"
    BY <1>5 DEF Skip, At, Skipped
  <2>2. Head(stages) \in Stage
    BY <2>1, AtStage
  <2> QED
    BY <1>1, <1>5, <2>1, <2>2 DEF Skip
<1>6. CASE Validate
  BY <1>1, <1>2, <1>6 DEF Validate, Do, Fail
<1>7. CASE WaitUntilReady
  <2>1. At("ready") /\ UNCHANGED <<cmd, guards, world>>
    BY <1>7 DEF WaitUntilReady, Do
  <2> QED
    BY <1>2, <2>1
<1>8. CASE InitializeDatabase \/ CargoTest
  <2>1. (At("database") \/ At("cargo_test")) /\ UNCHANGED <<cmd, guards, world>>
    BY <1>8 DEF InitializeDatabase, CargoTest, Attempt, Do
  <2> QED
    BY <1>2, <2>1
<1>9. CASE SnapshotRecovery \/ SetRecovery
  <2>1. /\ guards' = guards /\ cmd' = cmd /\ world' \subseteq world
        /\ At("snapshot") \/ At("set")
        /\ \/ Advance
           \/ "dataset" \notin world'
           \/ <<"remove", "dataset">> \in lost'
    BY <1>9 DEF SnapshotRecovery, SetRecovery, FailWithDataset, Do
  <2>2. <<"remove", "dataset">> \in lost' => Blamed("dataset")'
    BY DEF Blamed
  <2> QED
    BY <1>1, <2>1, <2>2, HeldByShrinking
<1>10. CASE MeasureReturns \/ RestoreRecovery \/ Return
  BY <1>1, <1>10 DEF MeasureReturns, RestoreRecovery, Return, Do
<1>11. CASE CleanDataset
  <2>1. /\ guards' = guards /\ world' \subseteq world
        /\ "dataset" \notin world' \/ <<"remove", "dataset">> \in lost'
    BY <1>11 DEF CleanDataset
  <2>2. <<"remove", "dataset">> \in lost' => Blamed("dataset")'
    BY DEF Blamed
  <2> QED
    BY <2>1, <2>2, HeldByShrinking
<1>12. CASE CleanImage
  <2>1. /\ At("clean_image") /\ guards' = guards /\ world' \subseteq world
    BY <1>12 DEF CleanImage, Do
  <2>2. "clean_dataset" \notin Ahead
    BY <2>1, AtStage DEF StagesInv
  <2> QED
    BY <2>1, <2>2, HeldByShrinking
<1>13. CASE DropGuard
  <2>0. PICK g : g = Head(DropOrder)
    OBVIOUS
  <2>1. /\ guards # <<>> /\ guards' = Reverse(Tail(DropOrder))
        /\ UNCHANGED <<cmd, opts, stages>> /\ world' \subseteq world
        /\ \/ KeptOnDrop(g)
           \/ g \notin world'
           \/ <<"remove", g>> \in lost'
    BY <1>13, <2>0 DEF DropGuard
  <2>2. ToSet(guards') = ToSet(guards) \ {g}
    BY <2>0, <2>1, Dropped
  <2>3. \A r : KeptOnDrop(r)' = KeptOnDrop(r)
    BY <2>1 DEF KeptOnDrop
  <2>4. <<"remove", g>> \in lost' => Blamed(g)'
    BY DEF Blamed
  <2>5. Ahead' = Ahead
    BY <2>1, Stayed
  <2> QED
    BY <2>1, <2>2, <2>3, <2>4, <2>5, BlameKept DEF HeldInv
<1>14. CASE MeasureStep
  BY <1>14, MeasureStepKeeps, Stayed, HeldByShrinking
<1>15. CASE ServerStarts \/ Exit \/ UNCHANGED vars
  BY <1>15, OthersKeep, Stayed, HeldByShrinking DEF vars
<1> QED
  BY <1>3, <1>4, <1>5, <1>6, <1>7, <1>8, <1>9, <1>10, <1>11, <1>12, <1>13, <1>14, <1>15,
     Steps DEF StageStep

-----------------------------------------------------------------------------
(* The recovery model *)

\* It is changed only by set, and only while the restore is ahead, unless an
\* answer was lost or the restore failed.
RecoveryInv ==
    /\ recovery # "original" => opts.setRecovery
    /\ recovery # "original" => \/ "restore" \in Ahead /\ "set" \notin Ahead
                                \/ \E op \in {"set", "restore"} : <<op, "recovery">> \in lost

LEMMA RecoveryKept ==
    ASSUME OptionsInv, StagesInv, RecoveryInv, [Next]_vars
    PROVE  RecoveryInv'
<1> USE Ranks
<1>1. opts' = opts /\ cmd' = cmd
  BY Steps, MeasureStepKeeps, StageStepMoves, OthersKeep DEF vars
<1>2. ASSUME recovery' = recovery,
             "restore" \in Ahead /\ "set" \notin Ahead => "restore" \in Ahead'
      PROVE  RecoveryInv'
  BY <1>1, <1>2, LostKept, AheadShrinks DEF RecoveryInv
\* A stage that fails comes before the recovery model is set or after its restore.
<1>3. ASSUME NEW s \in Stage, At(s), recovery' = recovery,
             \/ Rank[s] <= Rank["set"]
             \/ Rank[s] > Rank["restore"]
             \/ Advance /\ s # "restore"
      PROVE  RecoveryInv'
  <2>1. Advance => Ahead' = Ahead \ {s}
    BY <1>1, <1>3, Advanced
  <2>2. "restore" \in Ahead => "restore" \in Mine /\ "set" \in Mine
    BY MineIs DEF StagesInv
  <2>3. Rank[s] <= Rank["set"] /\ "restore" \in Ahead => "set" \in Ahead
    BY <1>3, <2>2, AtStage
  <2>4. Rank[s] > Rank["restore"] => "restore" \notin Ahead
    BY <1>3, <2>2, AtStage
  <2>5. "restore" \in Ahead /\ "set" \notin Ahead => "restore" \in Ahead'
    BY <1>3, <2>1, <2>3, <2>4
  <2> QED
    BY <1>2, <1>3, <2>5
<1>4. CASE Skip
  <2>1. At(Head(stages)) /\ Advance /\ UNCHANGED recovery /\ Skipped(Head(stages))
    BY <1>4 DEF Skip, At, dbVars
  <2>2. Head(stages) \in Stage
    BY <2>1, AtStage
  <2>3. CASE Head(stages) = "restore"
    <3>1. recovery = "original" \/ ~opts.setRecovery
      BY <2>1, <2>3 DEF Skipped
    <3> QED
      BY <1>1, <2>1, <3>1 DEF RecoveryInv
  <2> QED
    BY <1>3, <2>1, <2>2, <2>3
<1>5. CASE Validate
  BY <1>3, <1>5 DEF Validate, Do, dbVars
<1>6. CASE CreateNetwork \/ StartContainer \/ BuildImage \/ WriteDataset
  <2>1. /\ At("network") \/ At("container") \/ At("image") \/ At("dataset")
        /\ recovery' = recovery
    BY <1>6 DEF CreateNetwork, StartContainer, BuildImage, WriteDataset, Create, Do, dbVars
  <2> QED
    BY <1>3, <2>1
<1>7. CASE WaitUntilReady
  BY <1>3, <1>7 DEF WaitUntilReady, Do, dbVars
<1>8. CASE InitializeDatabase \/ CargoTest
  BY <1>3, <1>8 DEF InitializeDatabase, CargoTest, Attempt, Do, dbVars
<1>9. CASE SnapshotRecovery
  BY <1>3, <1>9 DEF SnapshotRecovery, Do, dbVars
<1>10. CASE SetRecovery
  <2>1. At("set") /\ ~Skipped("set")
    BY <1>10 DEF SetRecovery, Do
  <2>2. opts.setRecovery
    BY <2>1 DEF Skipped
  <2>3. CASE recovery' = "requested" /\ Advance
    <3>1. "restore" \in Ahead /\ Ahead' = Ahead \ {"set"}
      BY <1>1, <2>1, <2>3, AtStage, MineIs, Advanced
    <3> QED
      BY <1>1, <2>2, <3>1 DEF RecoveryInv
  <2>4. CASE recovery' = recovery
    BY <1>3, <2>1, <2>4
  <2>5. CASE lost' = lost \cup {<<"set", "recovery">>}
    BY <1>1, <2>2, <2>5 DEF RecoveryInv
  <2> QED
    BY <1>10, <2>3, <2>4, <2>5 DEF SetRecovery
<1>11. CASE MeasureReturns \/ CleanDataset \/ CleanImage \/ Return
  <2>1. /\ \/ At("measure") /\ Advance
           \/ At("clean_dataset") \/ At("clean_image") \/ At("return")
        /\ recovery' = recovery
    BY <1>11 DEF MeasureReturns, CleanDataset, CleanImage, Return, Do, dbVars
  <2> QED
    BY <1>3, <2>1
<1>12. CASE RestoreRecovery
  <2>1. CASE recovery' = "original"
    BY <2>1 DEF RecoveryInv
  <2>2. CASE lost' = lost \cup {<<"restore", "recovery">>} /\ recovery' = recovery
    BY <1>1, <2>2 DEF RecoveryInv
  <2> QED
    BY <1>12, <2>1, <2>2 DEF RestoreRecovery
<1>13. CASE DropGuard
  <2>1. recovery' = "original" \/ recovery' = recovery
    BY <1>13 DEF DropGuard, dbVars
  <2>2. UNCHANGED <<cmd, opts, stages>>
    BY <1>13, OthersKeep
  <2> QED
    BY <1>2, <2>1, <2>2, Stayed DEF RecoveryInv
<1>14. CASE MeasureStep \/ ServerStarts \/ Exit \/ UNCHANGED vars
  BY <1>2, <1>14, MeasureStepKeeps, OthersKeep, Stayed DEF vars, dbVars
<1> QED
  BY <1>4, <1>5, <1>6, <1>7, <1>8, <1>9, <1>10, <1>11, <1>12, <1>13, <1>14, Steps DEF StageStep

-----------------------------------------------------------------------------
(* Results kept for later *)

Keeping == {"measure", "restore", "clean_dataset", "clean_image"}

\* Only the result of the loop is kept before its stage is passed.
OutcomeInv ==
    /\ DOMAIN outcome \subseteq Keeping
    /\ \A s \in DOMAIN outcome : outcome[s] \in BOOLEAN
    /\ \A s \in DOMAIN outcome \cap Ahead : s = "measure" /\ At("measure")

LEMMA KeptIs ==
    ASSUME NEW s, NEW f, Kept(s, f)
    PROVE  /\ DOMAIN outcome' = DOMAIN outcome \cup {s}
           /\ outcome'[s] = f
           /\ \A t \in DOMAIN outcome : t # s => outcome'[t] = outcome[t]
  BY DEF Kept

LEMMA StageOutcome ==
    ASSUME StageStep
    PROVE  \/ outcome' = outcome
           \/ \E s \in {"restore", "clean_dataset", "clean_image"} : \E f \in BOOLEAN :
                 At(s) /\ Advance /\ Kept(s, f)
<1>1. CASE RestoreRecovery \/ CleanDataset
  BY <1>1 DEF RestoreRecovery, CleanDataset, Do
<1>2. CASE CleanImage
  BY <1>2 DEF CleanImage, Do
<1>3. CASE ~(RestoreRecovery \/ CleanDataset \/ CleanImage)
  BY <1>3 DEF StageStep, Skip, Validate, CreateNetwork, StartContainer, BuildImage,
       WriteDataset, Create, WaitUntilReady, InitializeDatabase, CargoTest, Attempt,
       SnapshotRecovery, SetRecovery, MeasureReturns, Return
<1> QED
  BY <1>1, <1>2, <1>3

LEMMA OutcomeKept ==
    ASSUME OptionsInv, StagesInv, OutcomeInv, [Next]_vars,
           current.step # "idle" => At("measure")
    PROVE  OutcomeInv'
<1>1. CASE UNCHANGED <<cmd, opts, stages, outcome>>
  BY <1>1, Stayed DEF OutcomeInv, At
<1>2. CASE MeasureStep
  <2>1. outcome' = outcome \/ \E f \in BOOLEAN : Kept("measure", f)
    BY <1>2 DEF MeasureStep, ConnectFails, RepeatSetup, RepeatWrite, RepeatValidate,
         RepeatCleanup, BackendMeasured, RunRunner, AllMeasured
  <2>2. CASE \E f \in BOOLEAN : Kept("measure", f)
    <3>1. At("measure")
      BY <1>2, <2>2 DEF MeasureStep, ConnectFails, RepeatSetup, RepeatWrite, RepeatValidate,
           RepeatCleanup, BackendMeasured, RunRunner, AllMeasured, Measuring, Do
    <3>2. UNCHANGED <<cmd, opts, stages>>
      BY <1>2, MeasureStepKeeps
    <3>3. At("measure")' /\ Ahead' = Ahead
      BY <3>1, <3>2, Stayed DEF At
    <3> QED
      BY <2>2, <3>3, KeptIs DEF OutcomeInv, Keeping
  <2> QED
    BY <1>1, <1>2, <2>1, <2>2, MeasureStepKeeps
<1>3. CASE StageStep
  <2>1. UNCHANGED <<cmd, opts>>
    BY <1>3, StageStepMoves
  <2>2. ASSUME outcome' = outcome, NEW s, At(s), Advance
        PROVE  OutcomeInv'
    <3>1. Ahead' = Ahead \ {s}
      BY <2>1, <2>2, Advanced
    <3>2. \A t \in DOMAIN outcome \cap Ahead : t = s
      BY <2>2 DEF OutcomeInv, At
    <3> QED
      BY <2>2, <3>1, <3>2 DEF OutcomeInv
  <2>3. ASSUME outcome' = outcome, stages' = <<>>
        PROVE  OutcomeInv'
    BY <2>3, Left DEF OutcomeInv
  <2>4. ASSUME NEW s \in {"restore", "clean_dataset", "clean_image"}, NEW f \in BOOLEAN,
               At(s), Advance, Kept(s, f)
        PROVE  OutcomeInv'
    <3>1. Ahead' = Ahead \ {s} /\ s \in Ahead
      BY <2>1, <2>4, Advanced, AtStage
    <3>2. \A t \in DOMAIN outcome \cap Ahead : FALSE
      BY <2>4 DEF OutcomeInv, At
    <3> QED
      BY <2>4, <3>1, <3>2, KeptIs DEF OutcomeInv, Keeping
  <2> QED
    BY <1>1, <1>3, <2>1, <2>2, <2>3, <2>4, StageOutcome, StageStepMoves
<1>4. CASE DropGuard \/ ServerStarts \/ Exit \/ UNCHANGED vars
  BY <1>1, <1>4, OthersKeep DEF vars
<1> QED
  BY <1>2, <1>3, <1>4, Steps

-----------------------------------------------------------------------------
(* Repeats, their table and the report *)

RepeatState == [step : {"idle", "open", "written", "checked", "failed"}, rows : {0, DatasetRows}]

\* Inside a repeat the loop is running for a Tiberius backend.  A table that is
\* there belongs to the repeat, or dropping it failed and the run with it.
LoopInv ==
    /\ current \in RepeatState
    /\ current.step # "idle" =>
          /\ Measuring /\ pending # <<>> /\ Head(pending) \in Tiberius /\ repeat < Repeats
    /\ current.step \in {"written", "checked"} => current.rows = DatasetRows
    /\ current.step = "checked" => table = DatasetRows
    /\ repeat \in 0..Repeats /\ acc = repeat * DatasetRows
    /\ table # NoBenchTable =>
          current.step # "idle" \/ (<<"remove", "table">> \in lost /\ Failed("measure"))

Reports == [backend : Tiberius \cup Odbc, rows : {Repeats * DatasetRows}]

\* The backends measured and those pending are the options' list.
ReportInv ==
    /\ pending \in Seq(Tiberius \cup Odbc) /\ report \in Seq(Reports)
    /\ Len(report) + Len(pending) = Len(opts.backends)
    /\ \A i \in 1..Len(pending) : pending[i] = opts.backends[Len(report) + i]
    /\ \A i \in 1..Len(report) : report[i].backend = opts.backends[i]
    /\ "measure" \in DOMAIN outcome /\ ~Failed("measure") => pending = <<>>

LEMMA FailedIs ==
    ASSUME NEW s, NEW f \in BOOLEAN, Kept(s, f)
    PROVE  /\ Failed(s)' <=> f
           /\ \A t : t # s => (Failed(t)' <=> Failed(t))
<1>1. Failed(s)' <=> f
  BY KeptIs DEF Failed
<1>2. ASSUME NEW t, t # s PROVE Failed(t)' <=> Failed(t)
  <2>1. t \in DOMAIN outcome' <=> t \in DOMAIN outcome
    BY <1>2, KeptIs
  <2> QED
    BY <1>2, <2>1, KeptIs, Zenon DEF Failed
<1> QED
  BY <1>1, <1>2

LEMMA FailedStays ==
    ASSUME OptionsInv, StagesInv, OutcomeInv, LoopInv, [Next]_vars, Failed("measure")
    PROVE  Failed("measure")' /\ ~MeasureStep
<1>1. ~MeasureStep
  BY DEF Failed, MeasureStep, ConnectFails, RepeatSetup, RepeatWrite, RepeatValidate,
       RepeatCleanup, BackendMeasured, RunRunner, AllMeasured, Measuring, LoopInv
<1>2. CASE outcome' = outcome
  BY <1>1, <1>2 DEF Failed
<1>3. ASSUME NEW s \in {"restore", "clean_dataset", "clean_image"}, NEW f \in BOOLEAN, Kept(s, f)
      PROVE  Failed("measure")'
  BY <1>3, FailedIs
<1>4. CASE StageStep
  BY <1>1, <1>2, <1>3, <1>4, StageOutcome
<1> QED
  BY <1>1, <1>2, <1>4, Steps, OthersKeep DEF vars

\* A stage is left only between repeats.
LEMMA StageIsIdle == ASSUME LoopInv, StageStep PROVE current.step = "idle"
<1> SUFFICES ASSUME Measuring, At("measure") PROVE FALSE
  BY DEF LoopInv, Measuring, Do
<1> USE DEF Do, At
<1>1. ~Skip
  BY DEF Skip, Skipped
<1>2. ~(CreateNetwork \/ StartContainer \/ BuildImage \/ WriteDataset)
  BY DEF CreateNetwork, StartContainer, BuildImage, WriteDataset, Create
<1>3. ~(Validate \/ WaitUntilReady \/ InitializeDatabase \/ CargoTest \/ SnapshotRecovery
        \/ SetRecovery)
  BY DEF Validate, WaitUntilReady, InitializeDatabase, CargoTest, Attempt, SnapshotRecovery,
         SetRecovery
<1>4. ~(MeasureReturns \/ RestoreRecovery \/ CleanDataset \/ CleanImage \/ Return)
  BY DEF Measuring, MeasureReturns, RestoreRecovery, CleanDataset, CleanImage, Return
<1> QED
  BY <1>1, <1>2, <1>3, <1>4 DEF StageStep

\* Failing drops and removals are what a table that stays is blamed on.
StrayTable == <<"remove", "table">> \in lost /\ Failed("measure")

LEMMA LoopKept ==
    ASSUME CommandAssumption, OptionsInv, StagesInv, OutcomeInv, LoopInv, [Next]_vars
    PROVE  LoopInv'
<1>0. Repeats \in Nat \ {0} /\ DatasetRows \in Nat \ {0}
  BY DEF CommandAssumption
<1>1. StrayTable => StrayTable' /\ ~MeasureStep
  BY FailedStays, LostKept DEF StrayTable
<1>2. table # NoBenchTable => current.step # "idle" \/ StrayTable
  BY DEF LoopInv, StrayTable
<1>3. repeat \in 0..Repeats /\ acc = repeat * DatasetRows
  BY DEF LoopInv
<1>4. ASSUME current.step = "idle", current' = current, UNCHANGED <<repeat, acc>>,
             table' \in {table, NoBenchTable}
      PROVE  LoopInv'
  BY <1>1, <1>2, <1>3, <1>4 DEF LoopInv, StrayTable
<1>5. CASE MeasureStep
  <2>0. UNCHANGED stages /\ ~StrayTable
    BY <1>1, <1>5, MeasureStepKeeps
  <2>1. ASSUME outcome' = outcome, pending' = pending PROVE Measuring' <=> Measuring
    BY <1>5, <2>0, <2>1, MeasureStepKeeps DEF Measuring, Do, At, Skipped
  <2>10. current \in RepeatState
    BY DEF LoopInv
  <2>2. CASE ConnectFails
    BY <1>4, <2>2 DEF ConnectFails, measureVars, dbVars
  <2>3. CASE RepeatSetup
    <3>1. /\ current'.step # "idle" /\ current'.step \notin {"written", "checked"}
          /\ current' \in RepeatState
      BY <2>3 DEF RepeatSetup, RepeatState
    <3>2. UNCHANGED <<outcome, pending, repeat, acc>> /\ Measuring /\ pending # <<>>
          /\ Head(pending) \in Tiberius /\ repeat < Repeats
      BY <2>3 DEF RepeatSetup
    <3> QED
      BY <1>3, <2>1, <3>1, <3>2 DEF LoopInv
  <2>4. CASE RepeatWrite
    <3>1. /\ current'.step # "idle" /\ current'.step # "checked"
          /\ current'.step = "written" => current'.rows = DatasetRows
          /\ current' \in RepeatState
      BY <2>4 DEF RepeatWrite, RepeatState
    <3>2. UNCHANGED <<outcome, pending, repeat, acc>> /\ current.step # "idle"
      BY <2>4 DEF RepeatWrite
    <3> QED
      BY <1>3, <2>1, <3>1, <3>2 DEF LoopInv
  <2>5. CASE RepeatValidate
    <3>1. /\ current'.step # "idle" /\ current'.step # "written"
          /\ current'.step = "checked" => current'.rows = DatasetRows /\ table' = DatasetRows
          /\ current' \in RepeatState
      BY <2>5, <2>10 DEF RepeatValidate, LoopInv, RepeatState, dbVars
    <3>2. UNCHANGED <<outcome, pending, repeat, acc>> /\ current.step # "idle"
      BY <2>5 DEF RepeatValidate
    <3> QED
      BY <1>3, <2>1, <3>1, <3>2 DEF LoopInv
  <2>6. CASE RepeatCleanup
    <3>1. /\ current'.step = "idle" /\ pending' = pending
          /\ current' \in RepeatState
      BY <2>6 DEF RepeatCleanup, RepeatState
    <3>2. CASE acc' = acc + current.rows /\ repeat' = repeat + 1 /\ table' = NoBenchTable
                 /\ current.step = "checked"
      <4>1. repeat < Repeats /\ current.rows = DatasetRows
        BY <3>2 DEF LoopInv
      <4>2. repeat' \in 0..Repeats /\ acc' = repeat' * DatasetRows
        BY <1>0, <1>3, <3>2, <4>1
      <4> QED
        BY <3>1, <3>2, <4>2 DEF LoopInv
    <3>3. CASE Kept("measure", TRUE) /\ UNCHANGED <<acc, repeat>>
                 /\ (table' = NoBenchTable \/ <<"remove", "table">> \in lost')
      <4>1. Failed("measure")'
        BY <3>3, FailedIs
      <4> QED
        BY <1>3, <3>1, <3>3, <4>1 DEF LoopInv
    <3> QED
      BY <2>6, <3>2, <3>3 DEF RepeatCleanup
  <2>7. CASE BackendMeasured
    <3>1. /\ current' = current /\ current.step = "idle" /\ table' = table
          /\ repeat' = 0 /\ acc' = 0
      BY <2>7 DEF BackendMeasured, NextBackend, dbVars
    <3>2. table = NoBenchTable
      BY <1>2, <2>0, <3>1
    <3> QED
      BY <1>0, <3>1, <3>2 DEF LoopInv
  <2>8. CASE RunRunner
    <3>1. /\ current' = current /\ table' = table
          /\ (repeat' = 0 /\ acc' = 0) \/ UNCHANGED <<repeat, acc>>
      BY <2>8 DEF RunRunner, NextBackend, dbVars
    <3>2. current.step = "idle"
      BY <2>8 DEF RunRunner, LoopInv, Tiberius, Direct, Odbc
    <3>3. table = NoBenchTable
      BY <1>2, <2>0, <3>2
    <3> QED
      BY <1>0, <1>3, <3>1, <3>2, <3>3 DEF LoopInv
  <2>9. CASE AllMeasured
    <3>1. current.step = "idle"
      BY <2>9 DEF AllMeasured, LoopInv
    <3> QED
      BY <1>4, <2>9, <3>1 DEF AllMeasured, measureVars, dbVars
  <2> QED
    BY <1>5, <2>2, <2>3, <2>4, <2>5, <2>6, <2>7, <2>8, <2>9 DEF MeasureStep
<1>6. CASE StageStep
  BY <1>4, <1>6, StageStepMoves, StageIsIdle DEF measureVars
<1>7. CASE DropGuard
  <2>1. table' = NoBenchTable \/ table' = table
    BY <1>7 DEF DropGuard, dbVars
  <2>2. current.step = "idle"
    BY <1>7 DEF DropGuard, LoopInv, Measuring, Do, At
  <2> QED
    BY <1>4, <1>7, <2>1, <2>2, OthersKeep DEF measureVars
<1>8. CASE ServerStarts \/ Exit \/ UNCHANGED vars
  <2>1. UNCHANGED <<stages, pending, repeat, acc, table, current, outcome, lost, opts>>
    BY <1>8, OthersKeep DEF vars, measureVars, dbVars
  <2> QED
    BY <2>1 DEF LoopInv, Measuring, Do, At, Skipped, UsesOdbc, Failed
<1> QED
  BY <1>5, <1>6, <1>7, <1>8, Steps

LEMMA OneMore ==
    ASSUME ReportInv, OptionsInv, pending # <<>>, "measure" \notin DOMAIN outcome,
           report' = Append(report, [backend |-> Head(pending), rows |-> Repeats * DatasetRows]),
           pending' = Tail(pending), UNCHANGED <<opts, outcome>>
    PROVE  ReportInv'
<1> DEFINE n == Len(pending)
           m == Len(report)
           b == opts.backends
           entry == [backend |-> Head(pending), rows |-> Repeats * DatasetRows]
<1>1. /\ pending \in Seq(Tiberius \cup Odbc) /\ report \in Seq(Reports)
      /\ m + n = Len(b) /\ b \in Seq(Tiberius \cup Odbc)
      /\ \A i \in 1..n : pending[i] = b[m + i]
      /\ \A i \in 1..m : report[i].backend = b[i]
  BY DEF ReportInv, OptionsInv
<1>2. /\ n \in Nat \ {0} /\ m \in Nat /\ Head(pending) = pending[1]
      /\ pending' \in Seq(Tiberius \cup Odbc) /\ Len(pending') = n - 1
      /\ \A i \in 1..(n - 1) : pending'[i] = pending[i + 1]
  BY <1>1
<1>3. entry \in Reports /\ entry.backend = Head(pending)
  BY <1>1, <1>2 DEF Reports
<1> HIDE DEF entry
<1>4. /\ report' \in Seq(Reports) /\ Len(report') = m + 1
      /\ report'[m + 1] = entry /\ \A i \in 1..m : report'[i] = report[i]
  BY <1>1, <1>3 DEF entry
<1> HIDE DEF n, m, b
<1>5. /\ \A i \in 1..(n - 1) : i + 1 \in 1..n /\ m + (i + 1) = (m + 1) + i
      /\ 1 \in 1..n /\ \A i \in 1..(m + 1) : i \in 1..m \/ i = m + 1
  BY <1>2
<1>6. \A i \in 1..(n - 1) : pending'[i] = b[(m + 1) + i]
  BY <1>1, <1>2, <1>5
<1>7. \A i \in 1..(m + 1) : report'[i].backend = b[i]
  BY <1>1, <1>2, <1>3, <1>4, <1>5
<1>8. (m + 1) + (n - 1) = Len(b) /\ b' = b
  BY <1>1, <1>2 DEF b
<1> QED
  BY <1>2, <1>4, <1>6, <1>7, <1>8 DEF ReportInv, b

LEMMA ReportKept ==
    ASSUME CommandAssumption, OptionsInv, StagesInv, LoopInv, ReportInv, [Next]_vars
    PROVE  ReportInv'
<1>1. ASSUME UNCHANGED <<opts, pending, report>>,
             \/ outcome' = outcome
             \/ Kept("measure", TRUE)
             \/ Kept("measure", FALSE) /\ pending = <<>>
             \/ \E s \in {"restore", "clean_dataset", "clean_image"} : \E f \in BOOLEAN : Kept(s, f)
      PROVE  ReportInv'
  <2>1. "measure" \in DOMAIN outcome' /\ ~Failed("measure")' => pending = <<>>
    <3>1. CASE outcome' = outcome
      BY <3>1 DEF ReportInv, Failed
    <3>2. CASE Kept("measure", TRUE)
      BY <3>2, FailedIs
    <3>3. ASSUME NEW s \in {"restore", "clean_dataset", "clean_image"}, NEW f \in BOOLEAN,
                 Kept(s, f)
          PROVE  "measure" \in DOMAIN outcome' /\ ~Failed("measure")' => pending = <<>>
      BY <3>3, FailedIs, KeptIs DEF ReportInv
    <3> QED
      BY <1>1, <3>1, <3>2, <3>3
  <2> QED
    BY <1>1, <2>1 DEF ReportInv
<1>2. CASE MeasureStep
  <2>1. CASE BackendMeasured
    <3>1. acc = Repeats * DatasetRows
      BY <2>1 DEF BackendMeasured, LoopInv
    <3> QED
      BY <2>1, <3>1, OneMore DEF BackendMeasured, NextBackend, Measuring
  <2>2. CASE RunRunner
    <3>1. CASE Kept("measure", TRUE) /\ UNCHANGED <<pending, report>>
      BY <1>1, <2>2, <3>1 DEF RunRunner
    <3>2. CASE NextBackend /\ outcome' = outcome /\
               report' = Append(report, [backend |-> Head(pending), rows |-> Repeats * DatasetRows])
      BY <2>2, <3>2, OneMore DEF RunRunner, NextBackend, Measuring
    <3> QED
      BY <2>2, <3>1, <3>2 DEF RunRunner
  <2>3. CASE AllMeasured \/ ConnectFails
    BY <1>1, <2>3 DEF AllMeasured, ConnectFails, measureVars
  <2>4. CASE RepeatSetup \/ RepeatWrite \/ RepeatValidate \/ RepeatCleanup
    BY <1>1, <2>4 DEF RepeatSetup, RepeatWrite, RepeatValidate, RepeatCleanup
  <2> QED
    BY <1>2, <2>1, <2>2, <2>3, <2>4 DEF MeasureStep
<1>3. CASE StageStep
  BY <1>1, <1>3, StageStepMoves, StageOutcome DEF measureVars
<1>4. CASE DropGuard \/ ServerStarts \/ Exit \/ UNCHANGED vars
  BY <1>1, <1>4, OthersKeep DEF measureVars, vars
<1> QED
  BY <1>2, <1>3, <1>4, Steps

-----------------------------------------------------------------------------
(* What the returned Result says *)

\* The error of the loop is named by compare's.
NamedInv == ~Running /\ cmd = "compare" /\ Failed("measure") => "measure" \in result

\* While the command runs, and when it ends with Ok, every stage that keeps a
\* result and was passed has kept it; an Ok is no error kept.
DoneInv ==
    /\ Running => result = {}
    /\ result = {} => \A s \in {"measure", "restore", "clean_dataset"} \cap Mine :
          s \in Ahead \/ (s = "restore" /\ ~opts.setRecovery) \/ s \in DOMAIN outcome
    /\ ~Running /\ result = {} /\ "measure" \in Mine => Returned = {}

Succeeded(s) == s \in DOMAIN outcome /\ ~Failed(s)

\* A kept success is true to the world until the end.
ReleasedInv ==
    /\ Succeeded("clean_dataset") => "dataset" \notin world
    /\ Succeeded("restore") => recovery = "original"

\* The last stage of every command that measures is its return.
LEMMA LastStage ==
    ASSUME OptionsInv, StagesInv, NEW s, At(s), "measure" \in Mine, s # "return"
    PROVE  "return" \in Ahead
<1>1. "return" \in Mine /\ "cargo_test" \notin Mine
  BY MineIs
<1>2. s \in Stage /\ s \in Mine
  BY AtStage
<1>3. Rank[s] <= Rank["return"]
  BY <1>1, <1>2, Ranks
<1> QED
  BY <1>1, <1>3, AtStage

\* The steps of a stage by what they do to the kept and the returned result.
Passed(s) ==
    /\ At(s) /\ Advance /\ s # "return" /\ result' = result
    /\ DOMAIN outcome \subseteq DOMAIN outcome'
    /\ s \in {"measure", "restore", "clean_dataset"} =>
          s \in DOMAIN outcome' \/ (s = "restore" /\ ~opts.setRecovery)

GivesUp(s) ==
    /\ At(s) /\ stages' = <<>> /\ result' # {} /\ outcome' = outcome
    /\ Rank[s] < Rank["measure"] \/ cmd # "compare"

LEMMA StageResult ==
    ASSUME OptionsInv, StagesInv, StageStep
    PROVE  \/ UNCHANGED <<stages, result, outcome>>
           \/ \E s : Passed(s)
           \/ At("return") /\ Advance /\ result' = Returned /\ outcome' = outcome
           \/ \E s : GivesUp(s)
<1> USE Ranks DEF Do, Fail
<1>1. CASE Skip
  <2>1. At(Head(stages)) /\ Advance /\ Skipped(Head(stages)) /\ UNCHANGED <<result, outcome>>
    BY <1>1 DEF Skip, At
  <2> QED
    BY <2>1 DEF Passed, Skipped
<1>15. ASSUME NEW s \in Stage, At(s), outcome' = outcome,
              \/ Advance /\ result' = result
              \/ stages' = <<>> /\ result' # {},
              Rank[s] < Rank["measure"] \/ cmd # "compare",
              s \notin {"return", "measure", "restore", "clean_dataset"}
       PROVE  Passed(s) \/ GivesUp(s)
  <2>1. CASE Advance /\ result' = result
    BY <1>15, <2>1 DEF Passed
  <2>2. CASE stages' = <<>> /\ result' # {}
    BY <1>15, <2>2 DEF GivesUp
  <2> QED
    BY <1>15, <2>1, <2>2
<1>2. CASE Validate
  <2>1. At("validate") /\ UNCHANGED outcome
        /\ \/ Advance /\ result' = result
           \/ stages' = <<>> /\ result' # {}
    BY <1>2 DEF Validate
  <2>2. Passed("validate") \/ GivesUp("validate")
    BY <1>15, <2>1
  <2> QED
    BY <2>2
<1>3. ASSUME NEW s \in {"network", "container", "image", "dataset"}, NEW g, Create(s, g)
      PROVE  Passed(s) \/ GivesUp(s)
  <2>1. At(s) /\ UNCHANGED outcome
        /\ \/ Advance /\ result' = result
           \/ stages' = <<>> /\ result' # {}
    BY <1>3 DEF Create
  <2>2. s \in Stage /\ Rank[s] < Rank["measure"]
    OBVIOUS
  <2> QED
    BY <1>15, <2>1, <2>2
<1>4. CASE WaitUntilReady
  <2>1. At("ready") /\ UNCHANGED outcome
        /\ \/ UNCHANGED <<stages, result>>
           \/ Advance /\ result' = result
           \/ stages' = <<>> /\ result' # {}
    BY <1>4 DEF WaitUntilReady
  <2>2. UNCHANGED <<stages, result, outcome>> \/ Passed("ready") \/ GivesUp("ready")
    BY <1>15, <2>1
  <2> QED
    BY <2>2
<1>5. CASE InitializeDatabase
  <2>1. At("database") /\ UNCHANGED outcome
        /\ \/ Advance /\ result' = result
           \/ stages' = <<>> /\ result' # {}
    BY <1>5 DEF InitializeDatabase, Attempt
  <2>2. Passed("database") \/ GivesUp("database")
    BY <1>15, <2>1
  <2> QED
    BY <2>2
<1>6. CASE CargoTest
  <2>1. cmd # "compare"
    <3>1. "cargo_test" \in Mine
      BY <1>6, AtStage DEF CargoTest, Attempt
    <3> QED
      BY <3>1, MineIs
  <2>2. At("cargo_test") /\ UNCHANGED outcome
        /\ \/ Advance /\ result' = result
           \/ stages' = <<>> /\ result' # {}
    BY <1>6 DEF CargoTest, Attempt
  <2>3. "cargo_test" \in Stage
    OBVIOUS
  <2>4. Passed("cargo_test") \/ GivesUp("cargo_test")
    BY ONLY <1>15, <2>1, <2>2, <2>3
  <2> QED
    BY <2>4
<1>7. CASE SnapshotRecovery
  <2>1. At("snapshot") /\ UNCHANGED outcome
        /\ \/ Advance /\ result' = result
           \/ stages' = <<>> /\ result' # {}
    BY <1>7 DEF SnapshotRecovery, FailWithDataset
  <2>2. Passed("snapshot") \/ GivesUp("snapshot")
    BY <1>15, <2>1
  <2> QED
    BY <2>2
<1>8. CASE SetRecovery
  <2>1. At("set") /\ UNCHANGED outcome
        /\ \/ Advance /\ result' = result
           \/ stages' = <<>> /\ result' # {}
    BY <1>8 DEF SetRecovery, FailWithDataset
  <2>2. Passed("set") \/ GivesUp("set")
    BY <1>15, <2>1
  <2> QED
    BY <2>2
<1>9. CASE MeasureReturns
  BY <1>9 DEF MeasureReturns, Passed
<1>10. CASE RestoreRecovery
  <2>1. At("restore") /\ Advance /\ result' = result /\ \E f : Kept("restore", f)
    BY <1>10 DEF RestoreRecovery
  <2>2. DOMAIN outcome' = DOMAIN outcome \cup {"restore"}
    BY <2>1, KeptIs
  <2> QED
    BY <2>1, <2>2 DEF Passed
<1>11. CASE CleanDataset
  <2>1. At("clean_dataset") /\ Advance /\ result' = result /\ \E f : Kept("clean_dataset", f)
    BY <1>11 DEF CleanDataset
  <2>2. DOMAIN outcome' = DOMAIN outcome \cup {"clean_dataset"}
    BY <2>1, KeptIs
  <2> QED
    BY <2>1, <2>2 DEF Passed
<1>12. CASE CleanImage
  <2>1. At("clean_image")
    BY <1>12 DEF CleanImage
  <2>2. CASE Advance /\ result' = result /\ \E f : Kept("clean_image", f)
    <3>1. DOMAIN outcome' = DOMAIN outcome \cup {"clean_image"}
      BY <2>2, KeptIs
    <3> QED
      BY <2>1, <2>2, <3>1 DEF Passed
  <2>3. CASE Fail("clean_image") /\ UNCHANGED outcome /\ cmd = "arrow_odbc"
    BY <2>1, <2>3 DEF GivesUp
  <2> QED
    BY <1>12, <2>2, <2>3 DEF CleanImage
<1>13. CASE Return
  BY <1>13 DEF Return
<1>14. CASE CreateNetwork \/ StartContainer \/ BuildImage \/ WriteDataset
  BY <1>3, <1>14 DEF CreateNetwork, StartContainer, BuildImage, WriteDataset
<1>16. StageStep
  OBVIOUS
<1> QED
  BY ONLY <1>1, <1>2, <1>4, <1>5, <1>6, <1>7, <1>8, <1>9, <1>10, <1>11, <1>12, <1>13, <1>14,
          <1>16
     DEF StageStep

\* A command that measures goes on after any stage but its return.
LEMMA PassedIsRunning ==
    ASSUME OptionsInv, StagesInv, NEW s, Passed(s), cmd' = cmd, "measure" \in Mine
    PROVE  Running'
<1>1. Ahead' = Ahead \ {s} /\ (Running' <=> Ahead' # {})
  BY Advanced DEF Passed
<1>2. "return" \in Ahead
  BY LastStage DEF Passed
<1> QED
  BY <1>1, <1>2 DEF Passed

LEMMA NamedKept ==
    ASSUME OptionsInv, StagesInv, OutcomeInv, LoopInv, NamedInv, [Next]_vars
    PROVE  NamedInv'
<1>1. CASE UNCHANGED <<cmd, stages, outcome, result>>
  BY <1>1 DEF NamedInv, Running, Failed
<1>2. CASE StageStep
  <2> SUFFICES ASSUME ~Running', cmd' = "compare", Failed("measure")' PROVE "measure" \in result'
    BY DEF NamedInv
  <2>1. cmd' = cmd /\ opts' = opts
    BY <1>2, StageStepMoves
  <2>2. "measure" \in Mine
    BY <2>1, MineIs
  <2>3. CASE UNCHANGED <<stages, result, outcome>>
    BY <1>1, <2>1, <2>3 DEF NamedInv
  <2>4. ASSUME NEW s, Passed(s) PROVE FALSE
    BY <2>1, <2>2, <2>4, PassedIsRunning
  <2>5. CASE result' = Returned /\ outcome' = outcome
    BY <2>5 DEF Returned, Failed
  <2>6. ASSUME NEW s, GivesUp(s) PROVE FALSE
    <3>1. "measure" \in DOMAIN outcome
      BY <2>6, SMTT(20) DEF GivesUp, Failed
    <3>2. "measure" \in Ahead /\ s # "measure"
      BY <2>1, <2>2, <2>6, AtStage, Ranks DEF GivesUp
    <3>3. At("measure") /\ At(s)
      BY <2>6, <3>1, <3>2 DEF OutcomeInv, GivesUp
    <3> QED
      BY <3>2, <3>3 DEF At
  <2> QED
    BY <1>2, <2>3, <2>4, <2>5, <2>6, StageResult
<1>3. CASE MeasureStep
  <2>1. Running
    BY <1>3 DEF MeasureStep, ConnectFails, RepeatSetup, RepeatWrite, RepeatValidate,
       RepeatCleanup, BackendMeasured, RunRunner, AllMeasured, LoopInv, Measuring, Do, At, Running
  <2>2. Running'
    BY <1>3, <2>1, MeasureStepKeeps DEF Running
  <2> QED
    BY <2>2 DEF NamedInv
<1>4. CASE DropGuard \/ ServerStarts \/ Exit \/ UNCHANGED vars
  BY <1>1, <1>4, OthersKeep DEF vars
<1> QED
  BY <1>2, <1>3, <1>4, Steps

LEMMA DoneKept ==
    ASSUME OptionsInv, StagesInv, OutcomeInv, LoopInv, DoneInv, [Next]_vars
    PROVE  DoneInv'
<1>1. CASE UNCHANGED <<cmd, opts, stages, outcome, result>>
  BY <1>1, Stayed DEF DoneInv, Returned, Failed
<1>2. CASE StageStep
  <2>1. cmd' = cmd /\ opts' = opts /\ Mine' = Mine
    BY <1>2, StageStepMoves DEF Mine
  <2>2. CASE UNCHANGED <<stages, result, outcome>>
    BY <1>1, <2>1, <2>2
  <2>3. ASSUME NEW s, Passed(s) PROVE DoneInv'
    <3>1. Ahead' = Ahead \ {s} /\ Running
      BY <2>1, <2>3, Advanced, AtStage DEF Passed
    <3>2. result' = {}
      BY <2>3, <3>1 DEF DoneInv, Passed
    <3>3. "measure" \in Mine => Running'
      BY <2>1, <2>3, PassedIsRunning
    <3> QED
      BY <2>1, <2>3, <3>1, <3>2, <3>3 DEF DoneInv, Passed
  <2>4. CASE At("return") /\ Advance /\ result' = Returned /\ outcome' = outcome
    <3>1. Ahead' = Ahead \ {"return"} /\ Running /\ (Running' <=> Ahead' # {})
      BY <2>1, <2>4, Advanced, AtStage
    <3>2. Returned' = Returned
      BY <2>4 DEF Returned, Failed
    <3>3. ~Running'
      <4>1. "cargo_test" \notin Mine
        BY <2>4, AtStage, MineIs
      <4>2. \A t \in Ahead : t = "return"
              <5> SUFFICES ASSUME NEW t \in Ahead PROVE t = "return"
            OBVIOUS
          <5>1. t \in Mine /\ t \in Stage /\ t # "cargo_test"
            BY <2>4, <4>1, AtStage DEF StagesInv
          <5>2. Rank["return"] <= Rank[t]
            BY <2>4, <5>1, AtStage
          <5> QED
            BY <5>1, <5>2, Ranks
      <4> QED
        BY <3>1, <4>2
    <3> QED
      BY <2>1, <2>4, <3>1, <3>2, <3>3 DEF DoneInv
  <2>5. ASSUME NEW s, GivesUp(s) PROVE DoneInv'
    BY <2>5 DEF DoneInv, GivesUp, Running
  <2> QED
    BY <1>2, <2>2, <2>3, <2>4, <2>5, StageResult
<1>3. CASE MeasureStep
  <2>1. UNCHANGED <<cmd, opts, stages, result>> /\ DOMAIN outcome \subseteq DOMAIN outcome'
    BY <1>3, KeptIs, MeasureStepKeeps DEF MeasureStep, ConnectFails, RepeatSetup, RepeatWrite,
       RepeatValidate, RepeatCleanup, BackendMeasured, RunRunner, AllMeasured
  <2>2. Running
    BY <1>3 DEF MeasureStep, ConnectFails, RepeatSetup, RepeatWrite, RepeatValidate,
       RepeatCleanup, BackendMeasured, RunRunner, AllMeasured, LoopInv, Measuring, Do, At, Running
  <2> QED
    BY <2>1, <2>2, Stayed DEF DoneInv
<1>4. CASE DropGuard \/ ServerStarts \/ Exit \/ UNCHANGED vars
  BY <1>1, <1>4, OthersKeep DEF vars
<1> QED
  BY <1>2, <1>3, <1>4, Steps

LEMMA SucceededIs ==
    ASSUME NEW s, NEW f \in BOOLEAN, Kept(s, f), NEW k
    PROVE  Succeeded(k)' <=> IF k = s THEN ~f ELSE Succeeded(k)
<1>1. CASE k = s
  BY <1>1, KeptIs, FailedIs DEF Succeeded
<1>2. CASE k # s
  <2>1. k \in DOMAIN outcome' <=> k \in DOMAIN outcome
    BY <1>2, KeptIs
  <2>2. Failed(k)' <=> Failed(k)
    BY <1>2, FailedIs
  <2> QED
    BY <1>2, <2>1, <2>2 DEF Succeeded
<1> QED
  BY <1>1, <1>2

LEMMA ReleasedKept ==
    ASSUME OptionsInv, StagesInv, OutcomeInv, LoopInv, ReleasedInv, [Next]_vars
    PROVE  ReleasedInv'
<1>1. ASSUME outcome' = outcome, world' \subseteq world, recovery' \in {recovery, "original"}
      PROVE  ReleasedInv'
  BY <1>1 DEF ReleasedInv, Succeeded, Failed
\* Before a stage that keeps its result, nothing of it is kept.
<1>2. ASSUME NEW s \in Stage, At(s), NEW k \in {"clean_dataset", "restore"}, k \in Mine,
             Rank[s] <= Rank[k]
      PROVE  k \notin DOMAIN outcome
  BY <1>2, AtStage DEF OutcomeInv
<1>3. CASE MeasureStep
  <2>1. outcome' = outcome \/ \E f \in BOOLEAN : Kept("measure", f)
    BY <1>3 DEF MeasureStep, ConnectFails, RepeatSetup, RepeatWrite, RepeatValidate,
         RepeatCleanup, BackendMeasured, RunRunner, AllMeasured
  <2>2. ASSUME NEW f \in BOOLEAN, Kept("measure", f) PROVE ReleasedInv'
    BY <1>3, <2>2, SucceededIs, MeasureStepKeeps DEF ReleasedInv
  <2> QED
    BY <1>1, <1>3, <2>1, <2>2, MeasureStepKeeps
<1>4. CASE RestoreRecovery
  <2>1. PICK f \in BOOLEAN : Kept("restore", f) /\ (f \/ recovery' = "original")
    BY <1>4 DEF RestoreRecovery
  <2>2. world' = world
    BY <1>4 DEF RestoreRecovery
  <2> QED
    BY <2>1, <2>2, SucceededIs DEF ReleasedInv
<1>5. CASE CleanDataset
  <2>1. PICK f \in BOOLEAN : Kept("clean_dataset", f) /\ (f \/ "dataset" \notin world')
    BY <1>5 DEF CleanDataset
  <2>2. recovery' = recovery
    BY <1>5 DEF CleanDataset, dbVars
  <2> QED
    BY <2>1, <2>2, SucceededIs DEF ReleasedInv
<1>6. CASE CleanImage
  <2>1. /\ outcome' = outcome \/ \E f \in BOOLEAN : Kept("clean_image", f)
        /\ world' \subseteq world /\ recovery' = recovery
    BY <1>6 DEF CleanImage, dbVars
  <2>2. ASSUME NEW f \in BOOLEAN, Kept("clean_image", f) PROVE ReleasedInv'
    BY <2>1, <2>2, SucceededIs DEF ReleasedInv
  <2> QED
    BY <1>1, <2>1, <2>2
<1>7. CASE CreateNetwork \/ StartContainer \/ BuildImage
  <2>1. /\ outcome' = outcome /\ recovery' = recovery
        /\ "dataset" \in world' => "dataset" \in world
    BY <1>7 DEF CreateNetwork, StartContainer, BuildImage, Create, dbVars
  <2> QED
    BY <2>1 DEF ReleasedInv, Succeeded, Failed
<1>8. CASE WriteDataset
  <2>1. At("dataset") /\ outcome' = outcome /\ recovery' = recovery
    BY <1>8 DEF WriteDataset, Create, Do, dbVars
  <2>2. "clean_dataset" \notin DOMAIN outcome
    BY <1>2, <2>1, AtStage, MineIs, Ranks
  <2> QED
    BY <2>1, <2>2 DEF ReleasedInv, Succeeded, Failed
<1>9. CASE SetRecovery
  <2>1. At("set") /\ outcome' = outcome /\ world' \subseteq world
    BY <1>9 DEF SetRecovery, FailWithDataset, Do
  <2>2. "restore" \notin DOMAIN outcome
    BY <1>2, <2>1, AtStage, MineIs, Ranks
  <2> QED
    BY <2>1, <2>2 DEF ReleasedInv, Succeeded, Failed
<1>10. CASE StageStep /\ ~(\/ RestoreRecovery \/ CleanDataset \/ CleanImage \/ CreateNetwork
                           \/ StartContainer \/ BuildImage \/ WriteDataset \/ SetRecovery)
  <2>1. outcome' = outcome /\ world' \subseteq world /\ recovery' = recovery
    BY <1>10 DEF StageStep, Skip, Validate, WaitUntilReady, InitializeDatabase, CargoTest, Attempt,
         SnapshotRecovery, FailWithDataset, MeasureReturns, Return, dbVars
  <2> QED
    BY <1>1, <2>1
<1>11. CASE DropGuard
  <2>1. outcome' = outcome /\ world' \subseteq world /\ recovery' \in {recovery, "original"}
    BY <1>11 DEF DropGuard, dbVars
  <2> QED
    BY <1>1, <2>1
<1>12. CASE ServerStarts \/ Exit \/ UNCHANGED vars
  BY <1>1, <1>12, OthersKeep DEF vars, dbVars
<1> QED
  BY <1>3, <1>4, <1>5, <1>6, <1>7, <1>8, <1>9, <1>10, <1>11, <1>12, Steps

-----------------------------------------------------------------------------
(* The inductive invariant *)

CommandInv ==
    /\ OptionsInv /\ StagesInv
    /\ ServerInv /\ FilesInv /\ GuardsInv /\ HeldInv /\ RecoveryInv
    /\ OutcomeInv /\ LoopInv /\ ReportInv
    /\ NamedInv /\ DoneInv /\ ReleasedInv

LEMMA InitOptions == CommandAssumption /\ Init => OptionsInv
<1> SUFFICES ASSUME CommandAssumption, Init PROVE OptionsInv
  OBVIOUS
<1>1. cmd \in Commands /\ cmd \in DOMAIN Plan /\ opts \in OptionsOf(cmd)
  BY DEF Init, CommandAssumption
<1>2. opts.backends \in BackendsOf(cmd) /\ (cmd # "compare" => ~opts.setRecovery)
  BY <1>1 DEF OptionsOf
<1>3. CASE cmd = "compare"
  BY <1>1, <1>2, <1>3 DEF BackendsOf, CommandAssumption, OptionsInv
<1>4. CASE cmd = "arrow_odbc"
  <2>1. opts.backends = <<"arrow-odbc">>
    BY <1>2, <1>4 DEF BackendsOf
  <2>2. "arrow-odbc" \in Tiberius \cup Odbc
    BY DEF Odbc
  <2> QED
    BY <1>1, <1>2, <1>4, <2>1, <2>2 DEF OptionsInv
<1>5. CASE cmd # "compare" /\ cmd # "arrow_odbc"
  <2>1. opts.backends = <<"baseline">>
    BY <1>2, <1>5 DEF BackendsOf
  <2>2. "baseline" \in Tiberius \cup Odbc /\ "baseline" \notin Odbc
    BY DEF Tiberius, Odbc
  <2>3. ~UsesOdbc
    BY <2>1, <2>2 DEF UsesOdbc, Contains
  <2> QED
    BY <1>1, <1>2, <1>5, <2>1, <2>2, <2>3 DEF OptionsInv
<1> QED
  BY <1>3, <1>4, <1>5

LEMMA Initially == CommandAssumption /\ Init => CommandInv
<1> SUFFICES ASSUME CommandAssumption, Init PROVE CommandInv
  OBVIOUS
<1>1. OptionsInv
  BY InitOptions
<1>2. stages = Plan[cmd] /\ Ordered(stages, Mine)
  BY <1>1, Plans DEF Init, OptionsInv, Mine
<1>3. stages \in Seq(Stage) /\ Increasing(stages) /\ Ahead = Mine
  BY <1>2 DEF Ordered, Ahead
<1>4. StagesInv
  BY <1>3 DEF StagesInv
<1>5. Running
  BY <1>1, <1>3, MineIs, NothingAhead
<1>6. world \subseteq {"server"} /\ guards = <<>> /\ lost = {} /\ recovery = "original"
      /\ DOMAIN outcome = {} /\ result = {} /\ ready = opts.existing
  BY DEF Init
<1>7. ServerInv
  BY <1>1, <1>3, <1>6, MineIs DEF ServerInv, OptionsInv
<1>8. FilesInv
  BY <1>1, <1>3, <1>6, MineIs DEF FilesInv, OptionsInv
<1>9. GuardsInv
  BY <1>6 DEF GuardsInv, Increasing, ToSet
<1>10. HeldInv
  BY <1>6 DEF HeldInv, Guarded
<1>11. RecoveryInv /\ OutcomeInv /\ NamedInv /\ ReleasedInv
  BY <1>5, <1>6 DEF RecoveryInv, OutcomeInv, NamedInv, ReleasedInv, Succeeded
<1>12. DoneInv
  BY <1>3, <1>5, <1>6 DEF DoneInv
<1>13. LoopInv
  <2>1. Repeats \in Nat \ {0} /\ DatasetRows \in Nat \ {0}
    BY DEF CommandAssumption
  <2>2. /\ current = [step |-> "idle", rows |-> 0] /\ repeat = 0 /\ acc = 0
        /\ table = NoBenchTable
    BY DEF Init
  <2> QED
    BY <2>1, <2>2 DEF LoopInv, RepeatState
<1>14. ReportInv
  <2>1. pending = opts.backends /\ report = <<>> /\ opts.backends \in Seq(Tiberius \cup Odbc)
    BY <1>1 DEF Init, OptionsInv
  <2> QED
    BY <1>6, <2>1 DEF ReportInv
<1> QED
  BY <1>1, <1>4, <1>7, <1>8, <1>9, <1>10, <1>11, <1>12, <1>13, <1>14 DEF CommandInv

LEMMA Inductive ==
    ASSUME CommandAssumption, CommandInv, [Next]_vars PROVE CommandInv'
<1>1. current.step # "idle" => At("measure")
  BY DEF CommandInv, LoopInv, Measuring, Do
<1> QED
  BY <1>1, StagesKept, WorldKept, GuardsKept, HeldKept, RecoveryKept, OutcomeKept, LoopKept,
     ReportKept, NamedKept, DoneKept, ReleasedKept DEF CommandInv

-----------------------------------------------------------------------------
(* What the invariant says when the command has ended, and while it runs *)

LEMMA WhenExited ==
    ASSUME CommandInv, Exited
    PROVE  Ahead = {} /\ ~Running /\ ToSet(guards) = {} /\ current.step = "idle"
<1>1. stages = <<>> /\ guards = <<>>
  BY DEF Exited
<1>2. Ahead = {} /\ ToSet(guards) = {}
  BY <1>1 DEF Ahead, ToSet
<1>3. current.step = "idle"
  BY <1>1 DEF CommandInv, LoopInv, Measuring, Do, At
<1> QED
  BY <1>1, <1>2, <1>3 DEF Running

LEMMA CleansUp ==
    ASSUME CommandInv
    PROVE  NothingIsLeft /\ RecoveryModelIsRestored /\ NoTableIsLeft
<1>1. NothingIsLeft
  BY WhenExited DEF CommandInv, HeldInv, NothingIsLeft, Blamed, Guarded
<1>2. RecoveryModelIsRestored
  BY WhenExited DEF CommandInv, RecoveryInv, RecoveryModelIsRestored
<1>3. NoTableIsLeft
  BY WhenExited DEF CommandInv, LoopInv, NoTableIsLeft
<1> QED
  BY <1>1, <1>2, <1>3

LEMMA UsersFind == ASSUME CommandInv PROVE UsersFindWhatTheyUse
<1> USE DEF CommandInv
<1>1. ASSUME NEW s \in {"cargo_test", "measure", "snapshot", "restore"}, At(s)
      PROVE  /\ Running /\ ready /\ (opts.existing \/ "container" \in world)
             /\ UsesOdbc => opts.existing \/ "network" \in world
  <2>1. Running /\ \A t \in {"ready", "container"} : t \in Mine /\ t \notin Ahead
    BY <1>1, AtStage, MineIs, Ranks
  <2>2. "network" \notin Ahead
    <3>1. "network" \in Ahead => "network" \in Mine
      BY DEF StagesInv
    <3> QED
      BY <1>1, <3>1, AtStage, Ranks
  <2> QED
    BY <2>1, <2>2 DEF ServerInv
<1>2. ASSUME At("measure") PROVE "dataset" \in world
  <2>1. Running /\ "dataset" \notin Ahead /\ "clean_dataset" \in Ahead
    BY <1>2, AtStage, MineIs, Ranks
  <2> QED
    BY <2>1 DEF FilesInv
<1>3. ASSUME pending # <<>>, Head(pending) \in Odbc PROVE UsesOdbc
  <2> DEFINE n == Len(report)
             b == opts.backends
  <2>1. /\ n \in Nat /\ Len(pending) \in Nat \ {0} /\ n + Len(pending) = Len(b)
        /\ Head(pending) = pending[1] /\ b \in Seq(Tiberius \cup Odbc)
        /\ \A i \in 1..Len(pending) : pending[i] = b[n + i]
    BY <1>3 DEF ReportInv, OptionsInv
  <2> HIDE DEF n, b
  <2>2. n + 1 \in 1..Len(b) /\ 1 \in 1..Len(pending)
    BY <2>1
  <2>3. b[n + 1] \in Odbc
    BY <1>3, <2>1, <2>2
  <2> QED
    BY <2>2, <2>3 DEF b, UsesOdbc, Contains
<1>4. ASSUME At("measure"), UsesOdbc PROVE "image" \in world
  <2>1. Running /\ "image" \notin Ahead /\ "clean_image" \in Ahead
    BY <1>4, AtStage, MineIs, Ranks DEF OptionsInv
  <2> QED
    BY <1>4, <2>1 DEF FilesInv
<1> QED
  BY <1>1, <1>2, <1>3, <1>4 DEF UsersFindWhatTheyUse, Do, Measuring

LEMMA NothingFailed ==
    ASSUME Returned = {}
    PROVE  ~Failed("measure") /\ ~Failed("restore") /\ ~Failed("clean_dataset")
<1>1. ~Failed("measure") /\ ~Failed("restore")
  <2>1. ASSUME NEW s \in {"measure", "restore"}, Failed(s) PROVE FALSE
    <3>1. Returned = {t \in {"measure", "restore"} : Failed(t)}
      BY <2>1 DEF Returned
    <3> QED
      BY <2>1, <3>1
  <2> QED
    BY <2>1
<1> QED
  BY <1>1 DEF Returned

LEMMA SuccessMeans == ASSUME CommandInv PROVE SuccessIsComplete
<1> USE DEF CommandInv
<1> SUFFICES ASSUME Exited, result = {}, "measure" \in ToSet(Plan[cmd])
             PROVE  /\ [i \in DOMAIN report |-> report[i].backend] = opts.backends
                    /\ \A i \in DOMAIN report : report[i].rows = Repeats * DatasetRows
                    /\ recovery = "original" /\ table = NoBenchTable /\ "dataset" \notin world
  BY DEF SuccessIsComplete
<1>1. "measure" \in Mine
  BY Plans DEF OptionsInv, Ordered, Mine
<1>2. Ahead = {} /\ ~Running /\ current.step = "idle"
  BY WhenExited
<1>3. Returned = {}
  BY <1>1, <1>2 DEF DoneInv
<1>4. /\ "measure" \in DOMAIN outcome /\ "clean_dataset" \in DOMAIN outcome
      /\ "restore" \in Mine /\ opts.setRecovery => "restore" \in DOMAIN outcome
  BY <1>1, <1>2, MineIs DEF DoneInv
<1>5. ~Failed("measure") /\ ~Failed("restore") /\ ~Failed("clean_dataset")
  BY <1>3, NothingFailed
<1>6. pending = <<>>
  BY <1>4, <1>5 DEF ReportInv
<1>7. [i \in DOMAIN report |-> report[i].backend] = opts.backends
  <2>1. /\ report \in Seq(Reports) /\ opts.backends \in Seq(Tiberius \cup Odbc)
        /\ Len(report) = Len(opts.backends)
        /\ \A i \in 1..Len(report) : report[i].backend = opts.backends[i]
    BY <1>6 DEF ReportInv, OptionsInv
  <2>2. DOMAIN report = 1..Len(report) /\ DOMAIN opts.backends = 1..Len(report)
    BY <2>1
  <2>3. opts.backends = [i \in 1..Len(report) |-> opts.backends[i]]
    BY <2>1
  <2> QED
    BY <2>1, <2>2, <2>3
<1>8. \A i \in DOMAIN report : report[i].rows = Repeats * DatasetRows
  <2>1. report \in Seq(Reports)
    BY DEF ReportInv
  <2>2. \A i \in DOMAIN report : report[i] \in Reports
    BY <2>1
  <2>3. \A r \in Reports : r.rows = Repeats * DatasetRows
    BY DEF Reports
  <2> QED
    BY <2>2, <2>3
<1>9. recovery = "original"
  <2>1. CASE opts.setRecovery
    <3>1. Succeeded("restore")
      BY <1>4, <1>5, <2>1, MineIs DEF OptionsInv, Succeeded
    <3> QED
      BY <3>1 DEF ReleasedInv
  <2> QED
    BY <2>1 DEF RecoveryInv
<1>10. table = NoBenchTable
  BY <1>2, <1>5 DEF LoopInv
<1>11. "dataset" \notin world
  BY <1>4, <1>5 DEF ReleasedInv, Succeeded
<1> QED
  BY <1>7, <1>8, <1>9, <1>10, <1>11

LEMMA ErrorNamed == ASSUME CommandInv PROVE BenchmarkErrorIsNamed
  BY WhenExited DEF CommandInv, NamedInv, BenchmarkErrorIsNamed

-----------------------------------------------------------------------------
(* What a step may not do *)

LEMMA NetworkIsLast == ASSUME CommandInv, [Next]_vars PROVE NetworkOutlivesContainer
<1> USE DEF CommandInv
<1> SUFFICES ASSUME Contains(guards, "network"), ~Contains(guards', "network")
             PROVE  \/ "container" \notin world
                    \/ opts.keep
                    \/ \E op \in {"create", "remove"} : <<op, "container">> \in lost
  BY DEF NetworkOutlivesContainer
<1>1. guards \in Seq(Guarded)
  BY DEF GuardsInv
<1>2. guards' # guards
  OBVIOUS
<1>3. CASE StageStep
  <2>1. PICK g \in Guarded : guards' = guards \o <<g>>
    BY <1>1, <1>2, <1>3, GuardsOfStage
  <2>2. PICK i \in 1..Len(guards) : guards[i] = "network"
    BY DEF Contains
  <2>3. i \in 1..Len(guards') /\ guards'[i] = "network"
    BY <1>1, <2>1, <2>2
  <2> QED
    BY <2>3 DEF Contains
<1>4. CASE DropGuard
  <2>1. guards # <<>> /\ guards' = Reverse(Tail(DropOrder))
    BY <1>4 DEF DropGuard
  <2>2. /\ guards' \in Seq(Guarded)
        /\ ToSet(guards') = ToSet(guards) \ {Head(DropOrder)}
        /\ \A g \in ToSet(guards) : g = Head(DropOrder) \/ Rank[g] < Rank[Head(DropOrder)]
    BY <2>1, Dropped
  <2>3. "network" \in ToSet(guards) /\ "network" \notin ToSet(guards')
    BY <1>1, <2>2 DEF Contains, ToSet
  <2>4. Head(DropOrder) = "network"
    BY <2>2, <2>3
  <2>5. "container" \notin ToSet(guards)
    <3>1. Rank["container"] = 3 /\ Rank["network"] = 2
      BY Ranks
    <3>2. \A g \in ToSet(guards) : g = "network" \/ Rank[g] < 2
      BY <2>2, <2>4, <3>1
    <3> QED
      BY <3>1, <3>2
  <2> QED
    BY <2>5 DEF HeldInv, Blamed, Guarded, KeptOnDrop
<1>5. CASE MeasureStep \/ ServerStarts \/ Exit \/ UNCHANGED vars
  BY <1>2, <1>5, MeasureStepKeeps, OthersKeep DEF vars
<1> QED
  BY <1>3, <1>4, <1>5, Steps

LEMMA RowsWereStored ==
    ASSUME CommandAssumption, CommandInv, [Next]_vars PROVE ReportedRowsWereStored
<1> USE DEF CommandInv
<1> SUFFICES ASSUME acc' > acc PROVE acc' = acc + table
  BY DEF ReportedRowsWereStored
<1>1. acc \in Nat
  <2>1. Repeats \in Nat /\ DatasetRows \in Nat
    BY DEF CommandAssumption
  <2> QED
    BY <2>1 DEF LoopInv
<1>2. acc' # acc /\ acc' # 0
  BY <1>1
<1>3. CASE RepeatCleanup
  <2>1. acc' = acc + current.rows /\ current.step = "checked"
    BY <1>2, <1>3 DEF RepeatCleanup
  <2> QED
    BY <2>1 DEF LoopInv
<1>4. CASE MeasureStep /\ ~RepeatCleanup
  BY <1>2, <1>4 DEF MeasureStep, ConnectFails, RepeatSetup, RepeatWrite, RepeatValidate,
       BackendMeasured, RunRunner, AllMeasured, NextBackend, measureVars
<1>5. CASE StageStep \/ DropGuard \/ ServerStarts \/ Exit \/ UNCHANGED vars
  BY <1>2, <1>5, StageStepMoves, OthersKeep DEF vars, measureVars
<1> QED
  BY <1>3, <1>4, <1>5, Steps

-----------------------------------------------------------------------------
(* The theorems *)

LEMMA Invariance == CommandAssumption => (Spec => []CommandInv)
<1> SUFFICES ASSUME CommandAssumption PROVE Spec => []CommandInv
  OBVIOUS
<1>1. Init => CommandInv
  BY Initially
<1>2. CommandInv /\ [Next]_vars => CommandInv'
  BY Inductive
<1> QED
  BY <1>1, <1>2, PTL DEF Spec

\* Whatever fails and wherever the command is left, no network, container, image,
\* dataset, changed recovery model or benchmark table outlives it but what it was
\* told to keep and what a failed operation made or did not remove; and until then
\* whatever is used is there.
THEOREM CommandsCleanUp ==
    CommandAssumption => (Spec => [](/\ NothingIsLeft /\ RecoveryModelIsRestored
                                     /\ NoTableIsLeft /\ UsersFindWhatTheyUse))
<1> SUFFICES ASSUME CommandAssumption
             PROVE  Spec => [](/\ NothingIsLeft /\ RecoveryModelIsRestored
                               /\ NoTableIsLeft /\ UsersFindWhatTheyUse)
  OBVIOUS
<1>1. CommandInv => /\ NothingIsLeft /\ RecoveryModelIsRestored
                    /\ NoTableIsLeft /\ UsersFindWhatTheyUse
  BY CleansUp, UsersFind
<1>2. Spec => []CommandInv
  BY Invariance
<1> QED
  BY <1>1, <1>2, PTL

\* An Ok stands for the whole measurement, and no cleanup's error hides the
\* benchmark's.
THEOREM ResultsAreTheRun ==
    CommandAssumption => (Spec => [](SuccessIsComplete /\ BenchmarkErrorIsNamed))
<1> SUFFICES ASSUME CommandAssumption
             PROVE  Spec => [](SuccessIsComplete /\ BenchmarkErrorIsNamed)
  OBVIOUS
<1>1. CommandInv => SuccessIsComplete /\ BenchmarkErrorIsNamed
  BY SuccessMeans, ErrorNamed
<1>2. Spec => []CommandInv
  BY Invariance
<1> QED
  BY <1>1, <1>2, PTL

\* No step removes the network before the container in it, or reports rows a table
\* was not seen to hold.
THEOREM CommandStepsAreOrdered ==
    CommandAssumption => (Spec => [][NetworkOutlivesContainer /\ ReportedRowsWereStored]_vars)
<1> SUFFICES ASSUME CommandAssumption
             PROVE  Spec => [][NetworkOutlivesContainer /\ ReportedRowsWereStored]_vars
  OBVIOUS
<1>1. CommandInv /\ [Next]_vars => [NetworkOutlivesContainer /\ ReportedRowsWereStored]_vars
  BY NetworkIsLast, RowsWereStored
<1>2. Spec => []CommandInv
  BY Invariance
<1> QED
  BY <1>1, <1>2, PTL DEF Spec
=============================================================================
