SPECIFICATION Spec
CONSTANTS
    Server = {n1, n2}
    Candidates = {n1, n2}
    Command = {c1}
    Nobody = Nobody
    MaxTerm = 5
    MaxLogIndex = 2
    MaxSnapshotIndex = 0
    MaxInFlight = 1
SYMMETRY Symmetry
VIEW View
CHECK_DEADLOCK FALSE
INVARIANT NextIndexInRange
