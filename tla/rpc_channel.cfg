SPECIFICATION Spec
CONSTANTS
    heartBeat = heartBeat
    snapshot = snapshot
    vote = vote
    Thread = {heartBeat, snapshot, vote}
    MethodOf <- MCTwoKinds
    TermOf <- MCTermOf
    MaxConns = 2
    MaxFaults = 1
    MaxCuts = 1
    Garbage = {9}
CHECK_DEADLOCK FALSE
INVARIANT TypeOK OwnReplyWhenAlone TermIsReal
PROPERTY LoneCallReturns
