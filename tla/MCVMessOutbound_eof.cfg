CONSTANTS
    Securities <- MCSecurities
    EnablePadding = FALSE
    MaxChunks = 2
    IdleTimeout = 3
    DownlinkOnly = 1
    UplinkOnly = 2
SPECIFICATION Spec
\* Process returns and the model stops.
CHECK_DEADLOCK FALSE
INVARIANT ClientEOFIsNotAnError
