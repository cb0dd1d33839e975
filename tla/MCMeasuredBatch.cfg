CONSTANTS
    MaxRows = 5
    MaxColumns = 2
    CellLengths <- MCCellLengths
    Caps <- MCCaps
    UsizeMax = 14
SPECIFICATION Spec
INVARIANTS
    SplitNeverOverflows
    ReturnsRangePlan
