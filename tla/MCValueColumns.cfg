SPECIFICATION Spec
CONSTANTS
    Base = 4
    MilliScale = 1
    MicroScale = 2
    TickScale = 3
    NanoScale = 4
    SecondsPerMinute = 2
    MinutesPerHour = 2
    SecondsPerDay = 4
    EpochDays = 2
    MaxDays = 2
    DateTimeEpochDays = 1
    DateTimeMinDays = 0
    DateTimeMaxDays = 1
    FragmentsPerSecond = 3
    MaxOffsetMinutes = 1
    ShortTimeScale = 1
    MiddleTimeScale = 2
    FieldBytes = 4
    NamedOffsetSeconds <- NamedOffset
    NamedSeconds <- KnownSeconds
    Mappings <- EveryMapping
    TemporalColumns <- InstantColumns
    TemporalPolicies <- NanosecondPolicies
    Roundings <- DateTimeRoundings
    NumberBytes = 2
    Ten = 10
    MaxPrecision = 4
    ScaleLimit = 4
    UInt64Digits = 3
    ShortDigits = 1
    MiddleDigits = 2
    LongDigits = 3
    NumericFields <- EveryNumericField
    NumericPolicies <- EveryNumericPolicy
    NumericColumns <- BoundaryColumns
    TextBytes = 3
    MaxBinary = 3
    TextFields <- EveryTextField
    TextPolicies <- EveryTextPolicy
    TextColumns <- ShortColumns
\* A column ends with its last cell or its first error.
CHECK_DEADLOCK FALSE
INVARIANTS
    InstantsAreKept
    NumbersAreExact
    LimitCountsUnits
    PathsAgree
    CellsDecodeToTokens
