\* The threads implement the atomic cycle when no message arrives during it.
SPECIFICATION HSpec
CONSTANTS
    NaN = NaN
    PosInf = PosInf
    NegInf = NegInf
    Meters = {0, 3}
    MeterReadings <- MCMeterReadings
    Readings <- MCReadings
    Presets <- MCPresets
    Reported = {}
    MaxReports = 1
    MayLose = FALSE
    Quiet = TRUE
PROPERTIES
    RefinesControlCycle
