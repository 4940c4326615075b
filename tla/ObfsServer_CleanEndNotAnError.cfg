SPECIFICATION Spec
INVARIANT CleanEndNotAnError
\* Process returns and the model stops.
CHECK_DEADLOCK FALSE
