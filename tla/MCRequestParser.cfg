CONSTANTS
    Connections <- AllConnections

SPECIFICATION Spec

\* A connection ends after its request: nothing follows the last step.
CHECK_DEADLOCK FALSE

INVARIANT AcceptsWellFormed
INVARIANT HeadersReachRequest
