\* Two PMs and batches of two rows; up to three refused commands, broken
\* connections and connections that libuv refuses to open, and three calls
\* that end the transaction: enough to fail in
\* a commit, fail in its repetition and then roll back.
SPECIFICATION FairSpec
CONSTANTS
    NumPM = 2
    Batch = 2
    MaxRows = 5
    MaxEnds = 3
    Faults = {"refuse", "drop", "open"}
    MaxFaults = 3
INVARIANT TypeOK
INVARIANT IInv
INVARIANT LockHeldWhileOpen
INVARIANT ClosedIsClean
INVARIANT GoneIsClean
INVARIANT NoRowLost
INVARIANT RollbackErases
INVARIANT RowsInBounds
PROPERTY ReleaseIsLast
PROPERTY CommitCoversAllPMs
PROPERTY CallsEnd
\* The application may stop calling, and a dead object does nothing.
CHECK_DEADLOCK FALSE
