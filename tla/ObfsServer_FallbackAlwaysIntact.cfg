SPECIFICATION Spec
INVARIANT FallbackAlwaysIntact
CHECK_DEADLOCK FALSE
