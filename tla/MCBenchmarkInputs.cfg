SPECIFICATION SpecInputs
\* A reader stops at the end of its input or at its first error.
CHECK_DEADLOCK FALSE
CONSTANTS
    Null = Null
    RowCounts = {1, 7, 60}
    BatchSizes = {1, 7, 25, 60, 64}
    InRowLimit = 8060
    MaxI128 = 127
    MillisPerSecond = 4
    SecondsPerDay = 8
    ChronoDays <- MCChronoDays
    ServerDays <- MCServerDays
INVARIANTS
    CopiedCellsAreTheColumn
    ScenariosAreWhatTheySay
    CommandsRunAsGiven
    RunnersRunTheBenchmark
