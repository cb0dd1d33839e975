-------------------------- MODULE ProfiledServer --------------------------
(***************************************************************************)
(* The counters of SQL Server that a profile reads: those of the session   *)
(* of the measured writer, of the files of the database and of the         *)
(* writer's connection.  They grow by what the writer does, and the files  *)
(* by what others do, at any time; nothing here belongs to the repository. *)
(***************************************************************************)
EXTENDS ProfileDeltas

CONSTANTS Waits,       \* wait types the writer may meet
          Files,       \* files of the database
          MaxGrowth    \* bound: steps of the counters

GrowthAssumption == MaxGrowth \in Nat

VARIABLE server  \* the counters: a reading

NoReading == [waits |-> <<>>, files |-> <<>>, reads |-> 0]

Growth ==
    FoldSet(LAMBDA w, n : n + server.waits[w].tasks + server.waits[w].ms, 0,
            DOMAIN server.waits)
      + MapThenSumSet(LAMBDA f : server.files[f], DOMAIN server.files)
      + server.reads

WithWait(w, wait) ==
    [server EXCEPT !.waits = [v \in DOMAIN @ \cup {w} |-> IF v = w THEN wait ELSE @[v]]]

WaitBegins(w) ==
    LET wait == At(server.waits, w, NoWait) IN
    server' = WithWait(w, [wait EXCEPT !.tasks = @ + 1])

\* The time of a wait is counted when it ends.
WaitEnds(w) ==
    /\ w \in DOMAIN server.waits
    /\ server.waits[w].ms < server.waits[w].tasks
    /\ server' = WithWait(w, [server.waits[w] EXCEPT !.ms = @ + 1])

FileGrows(f) ==
    server' = [server EXCEPT !.files =
                 [g \in DOMAIN @ \cup {f} |-> At(@, g, 0) + (IF g = f THEN 1 ELSE 0)]]

PacketRead == server' = [server EXCEPT !.reads = @ + 1]

ServerCounts ==
    /\ Growth < MaxGrowth
    /\ \/ \E w \in Waits : WaitBegins(w) \/ WaitEnds(w)
       \/ \E f \in Files : FileGrows(f)
       \/ PacketRead

ServerInit == server = NoReading
=============================================================================
