SPECIFICATION Spec
CONSTANTS
    Probers = {p1, p2}
    Outbounds = {o1, o2}
    Results = {r1, r2}
    NoHolder = NoHolder
    c1 = c1
    c2 = c2
INVARIANT NoPanicOnSend
CHECK_DEADLOCK FALSE
