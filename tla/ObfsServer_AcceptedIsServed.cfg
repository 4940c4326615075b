SPECIFICATION Spec
INVARIANT AcceptedIsServed
CHECK_DEADLOCK FALSE
