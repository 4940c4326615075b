SPECIFICATION Spec
INVARIANT RejectedNotDispatched
CHECK_DEADLOCK FALSE
