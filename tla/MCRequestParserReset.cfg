CONSTANTS
    Connections <- ReusedParser

SPECIFICATION Spec

\* A connection ends after its last request.
CHECK_DEADLOCK FALSE

INVARIANT HeadersReachRequest
