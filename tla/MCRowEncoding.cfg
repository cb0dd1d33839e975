CONSTANTS
    NULL = NULL
    Plans <- MCPlans
    MaxRows = 3
SPECIFICATION Spec
INVARIANTS
    PayloadIsRows
    TokensAreRowStarts
    MeasuredRangeEncodes
