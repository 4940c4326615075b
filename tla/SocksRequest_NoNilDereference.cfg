SPECIFICATION Spec
INVARIANT NoNilDereference
CHECK_DEADLOCK FALSE
