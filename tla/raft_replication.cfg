SPECIFICATION Spec
CONSTANTS
    Server = {n1, n2, n3, n4}
    Candidates = {n1, n2}
    Command = {c1, c2}
    Nobody = Nobody
    MaxTerm = 2
    MaxLogIndex = 1
    MaxSnapshotIndex = 0
    MaxInFlight = 2
SYMMETRY Symmetry
VIEW View
CONSTRAINT LastTermInTurn
CHECK_DEADLOCK FALSE
INVARIANT PromisesSaved EntryIdentity CommitOnMajority MatchIndexTrue
