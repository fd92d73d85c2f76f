CONSTANTS
    Procs = {"loader", "server"}
    Ids = {"region"}
    Shmids = {s1, s2, s3}
    NoShmid = NoShmid
    CallsOf <- MCCallsOf
    MapMayFail = TRUE
    MaxObjects = 2

SPECIFICATION Spec

INVARIANT TypeOK

PROPERTY SegmentLeavesKeyOnlyByRemoval
PROPERTY WriteableGetIsFresh
