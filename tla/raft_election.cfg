SPECIFICATION Spec
CONSTANTS
    Server = {n1, n2, n3}
    Candidates = {n1, n2, n3}
    Command = {c1}
    Nobody = Nobody
    MaxTerm = 2
    MaxLogIndex = 0
    MaxSnapshotIndex = 0
    MaxInFlight = 3
SYMMETRY Symmetry
CHECK_DEADLOCK FALSE
INVARIANT ElectionInv ElectionSafety NoSecondLeadership
PROPERTY VoteStable ImplementsVoting
