SPECIFICATION SpecPrograms
CONSTANTS
    Null = Null
    Garbage = Garbage
    x = x
    y = y
    Columns <- TwoColumns
    Units <- TwoUnits
    Datasets <- ThreeDatasets
    FileRows = {0, 2, 3}
    RowOptions = {2, 3}
    BatchSizes = {1, 2}
    Repeats = 2
    NoTable = NoTable
INVARIANTS
    RunIsAtomic
    ErrorsAreReported
    CommandCleansUp
    ResultIsTheRun
    BulkCopyIsTheDataset
PROPERTIES
    RunsAreOrdered
    ProgramsEnd
