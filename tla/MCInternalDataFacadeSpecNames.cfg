CONSTANTS
    NoFile = NoFile
    UINT_MAX = UINT_MAX
    PathChoices <- MCPathChoices
    HsgrFiles <- MCHsgrFiles
    TimestampFiles <- MCTimestampFiles
    NameLists <- MCNameLists
    OutOfBoundsValues <- MCOutOfBoundsValues
    WriterEndOffset = FALSE

SPECIFICATION Spec

\* The constructor may end by throwing, aborting or in undefined behaviour,
\* and leaves no facade to call.
CHECK_DEADLOCK FALSE

INVARIANT NamesRoundTrip
