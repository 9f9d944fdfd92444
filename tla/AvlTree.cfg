\* Every AVL tree of up to twelve nodes over eight keys, two of which may be there
\* up to three times: deep enough for a deletion that rotates at two levels.  In
\* the smaller trees one call may return -1: a deletion of an absent key, or an
\* insertion without memory.
SPECIFICATION Spec
CONSTANTS
    Keys = {1, 2, 3, 4, 5, 6, 7, 8}
    Repeated = {3, 6}
    MaxNodes = 12
    MaxCopies = 3
    Misses = TRUE
    AllocFails = TRUE
    MaxFailed = 1
    FailNodes = 7
INVARIANTS
    Contents
    Verified
    Walks
    KeyLookups
    IndexLookups
    SavedNextSurvives
    TwoKeysSpan
