SPECIFICATION RestartSpec
CONSTANTS
    Server = {n1, n2, n3}
    Candidates = {n1, n2, n3}
    Command = {c1}
    Nobody = Nobody
    MaxTerm = 1
    MaxLogIndex = 0
    MaxSnapshotIndex = 0
    MaxInFlight = 2
SYMMETRY Symmetry
VIEW View
CHECK_DEADLOCK FALSE
INVARIANT ElectionSafety
