SPECIFICATION Spec
INVARIANTS
    TypeOK
    RelayMatchesRequest
\* Process returns or starts a relay, and the model stops there.
CHECK_DEADLOCK FALSE
