\* Two columns, batches of two rows, two and a half batches.
SPECIFICATION Spec
CONSTANTS
    Columns = 2
    Batch = 2
    Strict = TRUE
    MaxRows = 5
    MaxTruncated = 1
    MaxFaults = 1
INVARIANT TypeOK
INVARIANT RowsSurvive
INVARIANT ValuesStayInPlace
INVARIANT TruncationCounted
CHECK_DEADLOCK FALSE
