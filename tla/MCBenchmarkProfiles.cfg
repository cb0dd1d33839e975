SPECIFICATION Spec
CONSTANTS
    Repeats = 2
    MaxGrowth = 2
    MaxSamples = 1
    Null = Null
\* The command of a direct backend just ends.
CHECK_DEADLOCK FALSE
INVARIANTS
    ServerProfileIsTheWrites
    RunnerProfileIsTheRun
    DirectProfileIsTheRun
PROPERTIES
    ProfiledRunEnds
