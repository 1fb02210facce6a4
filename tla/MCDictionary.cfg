\* Every sequence of calls.
SPECIFICATION Spec
CONSTANTS
    NULL = NULL
    Keys = {k1, k2, k3, k4}
    Values = {v1, v2}
INVARIANTS
    KeysUnique
PROPERTIES
    CallsDoWhatTheySay
    MapWhileFirstStays
