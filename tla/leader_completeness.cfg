SPECIFICATION Spec
CONSTANTS
    Server = {n1, n2, n3}
    Candidates = {n1, n2, n3}
    Command = {c1}
    Nobody = Nobody
    MaxTerm = 3
    MaxLogIndex = 3
    MaxSnapshotIndex = 0
    MaxInFlight = 1
SYMMETRY Symmetry
VIEW View
CHECK_DEADLOCK FALSE
INVARIANT LeaderCompleteness
