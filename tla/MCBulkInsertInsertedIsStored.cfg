\* One refused command.
SPECIFICATION FairSpec
CONSTANTS
    NumPM = 2
    Batch = 2
    MaxRows = 3
    MaxEnds = 2
    Faults = {"refuse"}
    MaxFaults = 1
INVARIANT InsertedIsStored
CHECK_DEADLOCK FALSE
