SPECIFICATION Spec
CONSTANTS
    Server = {n1, n2}
    Candidates = {n1, n2}
    Command = {c1}
    Nobody = Nobody
    MaxTerm = 1
    MaxLogIndex = 1
    MaxSnapshotIndex = 1
    MaxInFlight = 2
SYMMETRY Symmetry
VIEW View
CHECK_DEADLOCK FALSE
INVARIANT OldPrevIsRejected
