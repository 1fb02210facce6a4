\* What the subscription loop makes the MQTT thread drop.
\* The program exits when it cannot connect.
SPECIFICATION Spec
CONSTANTS
    NULL = NULL
    Not_Value = Not_Value
    Published <- MCPublished
    Data = {0, 1}
PROPERTIES
    DroppedWhenUnknown
CHECK_DEADLOCK FALSE
