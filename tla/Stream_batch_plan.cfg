SPECIFICATION Spec
CONSTANTS
    Nothing = Nothing
    Foreign <- MCForeign
    NumDocuments = 3
    ChunksPerDocument = 3
    BatchSize = 2
    BatchSizes = {1, 2, 3}
    Limits = {1, 2, 3}
    MaxRecords = {5, 9}
    MaxWindow = 4
INVARIANTS
    RotationCovers
    ExportIsPlanned
PROPERTY ContinuesItsStream
CHECK_DEADLOCK FALSE
