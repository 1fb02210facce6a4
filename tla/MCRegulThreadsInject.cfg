\* The injection limits change at any point of the cycle, and the gateway
\* reports the injection current the inverter holds.
SPECIFICATION Spec
CONSTANTS
    NaN = NaN
    PosInf = PosInf
    NegInf = NegInf
    Meters = {0, 3}
    MeterReadings <- MCMeterReadings
    Readings <- InjectReadings
    Presets <- MCPresets
    Reported = {"Max_Grid_Feeding_current"}
    MaxReports = 1
    MayLose = FALSE
    Quiet = FALSE
INVARIANTS
    CeilingsHold
