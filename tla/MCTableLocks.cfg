\* Two bulk inserts on two PMs, and two who clear locks. One command fails, or one lock
\* is cleared of a live owner or with an old TableLockInfo.
SPECIFICATION Spec
CONSTANTS
    Sessions = {s1, s2}
    Cleaners = {c1, c2}
    NumPM = 2
    MaxFaults = 1
    None = None
SYMMETRY Symmetry
INVARIANT TypeOK
INVARIANT ResidueIsLocked
PROPERTY WritesUnderLock
PROPERTY CommittedRowsStay
PROPERTY ClearErases
PROPERTY LossHasACause
\* All objects may be closed.
CHECK_DEADLOCK FALSE
