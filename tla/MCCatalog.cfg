\* Two threads with one driver and one table that is created, altered and dropped.
SPECIFICATION Spec
CONSTANTS
    Threads = {t1, t2}
    Names = {n1}
    Layouts = {y1, y2}
    MaxOid = 2
    MaxLock = 3
    MaxChanges = 2
    Nobody = Nobody
SYMMETRY Symmetry
INVARIANT TypeOK
INVARIANT TableAlive
INVARIANT OneView
PROPERTY ClearsWhatItSaw
\* The driver may be deleted.
CHECK_DEADLOCK FALSE
