CONSTANTS
    Files <- MCFiles
    BZ_MAX_UNUSED = 2
    Lens = {1, 2}

SPECIFICATION Spec

\* The reader stops for good when fopen fails, after closeBz2Stream, or
\* after exit(-1).
CHECK_DEADLOCK FALSE

INVARIANT TypeOK
INVARIANT ReadsOnlyOpenStream
INVARIANT EndOfInputOnlyAtEnd
INVARIANT ExitOnlyAtChunkBoundary
