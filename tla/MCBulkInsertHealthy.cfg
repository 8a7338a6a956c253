\* A cluster that answers every command; three PMs, batches of two rows.
SPECIFICATION FairSpec
CONSTANTS
    NumPM = 3
    Batch = 2
    MaxRows = 9
    MaxEnds = 2
    Faults = {}
    MaxFaults = 0
INVARIANT CommittedOnce
INVARIANT Balanced
PROPERTY ImplementsTransaction
\* The application may stop calling, and a deleted object does nothing.
CHECK_DEADLOCK FALSE
