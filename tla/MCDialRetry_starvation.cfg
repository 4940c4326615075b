\* Three loops on the same handler: the others' picks can starve one loop.
CONSTANTS
    c1 = c1
    c2 = c2
    c3 = c3
    Conns <- ThreeConns
    NumServers = 3
    ReachableChoices <- NoneOrLastUp
    MaxAttempts = 5

SPECIFICATION Spec
INVARIANT NoGiveUpWhileReachable
CHECK_DEADLOCK FALSE
