SPECIFICATION Spec
PROPERTY ProcessReturns
\* Process returns and the model stops.
CHECK_DEADLOCK FALSE
