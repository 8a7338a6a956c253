\* Two columns, and a third row that has the place of the first.
SPECIFICATION Spec
CONSTANTS
    Columns = 2
    Batch = 2
    Strict = TRUE
    MaxRows = 3
    MaxTruncated = 0
    MaxFaults = 0
INVARIANT OnlyFilledRows
CHECK_DEADLOCK FALSE
