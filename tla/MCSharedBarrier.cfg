CONSTANTS
    q1 = q1
    q2 = q2
    q3 = q3
    p1 = p1
    p2 = p2
    Writer = Writer
    NONE = NONE
    Queries <- MCQueries
    Procs <- MCProcs
    ProcOf <- MCProcOf
    MaxUpdates = 2
    hello = hello
    locate = locate
    nearest = nearest
    timestamp = timestamp
    viaroute = viaroute
    unknown = unknown
    Descriptors <- MCDescriptors
    Services <- MCServices
    Requests <- MCRequests
    MaxCrashes = 1

SPECIFICATION FairSpec

\* A process that dies holding a named mutex leaves every other thread
\* blocked for good; QueriesKeepReturning covers every other way to
\* get stuck.
CHECK_DEADLOCK FALSE

INVARIANT TypeOK
INVARIANT HandlerReadsPublishedData

PROPERTY WriterEventuallyPublishes
PROPERTY QueriesKeepReturning
