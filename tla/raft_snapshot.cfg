SPECIFICATION Spec
CONSTANTS
    Server = {n1, n2}
    Candidates = {n1, n2}
    Command = {c1}
    Nobody = Nobody
    MaxTerm = 5
    MaxLogIndex = 2
    MaxSnapshotIndex = 1
    MaxInFlight = 2
SYMMETRY Symmetry
VIEW View
CONSTRAINT FewCallsInLateTerms
CHECK_DEADLOCK FALSE
INVARIANT TypeOK MatchIndexTrue IndexOrder RequestsWithinLog AppliedWithoutGap
PROPERTY LeaderAppendOnly
