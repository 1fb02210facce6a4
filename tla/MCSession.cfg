\* The start-up and the loop, with messages at any point; the
\* requests of the cycles make up for what the start-up lost.
\* The program exits when it cannot connect.
SPECIFICATION FairSpec
CONSTANTS
    NULL = NULL
    Not_Value = Not_Value
    Published <- MCPublished
    Data = {0, 1}
INVARIANTS
    TypeOK
    HeardWhenRunning
PROPERTIES
    CatchesUp
CHECK_DEADLOCK FALSE
