SPECIFICATION Spec
CONSTANTS
    heartBeat = heartBeat
    snapshot = snapshot
    vote = vote
    Thread = {heartBeat, vote}
    MethodOf <- MCMethodOf
    TermOf <- MCTermOf
    MaxConns = 1
    MaxFaults = 0
    MaxCuts = 0
    Garbage = {9}
CHECK_DEADLOCK FALSE
INVARIANT VoteWasGranted
