\* Every short text, and those that may become JSON; two calls.
\* The program stops when it has crashed.
SPECIFICATION Spec
CONSTANTS
    NULL = NULL
    Not_Value = Not_Value
    INT_MAX = 2147483647
    NestingLimit = 2
    Levels = 4
    NumberSize = 3
    Pieces <- MCPieces
    StringPieces <- MCStringPieces
    MaxPieces = 6
    MaxString = 6
    MaxCalls = 2
    Plenty = 100
INVARIANTS
    ParseBalances
    AcceptsJson
    RoundTrip
    PrintsAlike
    PrintBalances
    MinifyKeeps
    NamesFound
    LeavesTheSame
PROPERTIES
    StoresTheData
    SaysWhatWasMeant
CHECK_DEADLOCK FALSE
