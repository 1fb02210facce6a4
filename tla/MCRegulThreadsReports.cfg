\* Reports of set-points come back while the cycle runs.
SPECIFICATION Spec
CONSTANTS
    NaN = NaN
    PosInf = PosInf
    NegInf = NegInf
    Meters = {0, 3}
    MeterReadings <- MCMeterReadings
    Readings <- FewReadings
    Presets <- MCPresets
    Reported = {"Charger_allowed"}
    MaxReports = 1
    MayLose = FALSE
    Quiet = FALSE
INVARIANTS
    ModeMatchesState
