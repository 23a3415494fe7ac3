SPECIFICATION Spec
CONSTANTS
    c1 = c1
    c2 = c2
    Client = {c1, c2}
    Setups <- OneLeader
    NumServers = 2
    MaxRequests = 2
CHECK_DEADLOCK FALSE
INVARIANT IdempotentWrites
