CONSTANTS
    Batches <- MCBatches
    MaxPayload = 5
    MaxU64 = 9
    MaxAttempts = 3
SPECIFICATION FairTelemetrySpec
INVARIANTS
    WireIsAttemptsInOrder
    RejectedBatchLeavesNoRows
    StatsCountAcceptedRows
    FinishReportsPublishedRows
    LogTellsTheWriter
    RawDetailFollowsTheWire
PROPERTIES
    ImplementsBulkLoad
    CallsReturn
