\* One bulk insert on two PMs that may die, one who clears its lock, no faults.
SPECIFICATION Spec
CONSTANTS
    Sessions = {s1}
    Cleaners = {c1}
    NumPM = 2
    MaxFaults = 0
    None = None
PROPERTY CommitIsAtomic
CHECK_DEADLOCK FALSE
