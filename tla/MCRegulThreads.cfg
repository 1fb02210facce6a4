\* Messages arrive at any point of the cycle and the connection may be lost; the
\* main thread goes on.
SPECIFICATION FairSpec
CONSTANTS
    NaN = NaN
    PosInf = PosInf
    NegInf = NegInf
    Meters = {0, 3}
    MeterReadings <- MCMeterReadings
    Readings <- ChargeReadings
    Presets <- MCPresets
    Reported = {}
    MaxReports = 1
    MayLose = TRUE
    Quiet = FALSE
INVARIANTS
    TypeOK
    ModeMatchesState
    CeilingsHold
    BatteryProtected
    InjectsDeficitOnly
PROPERTIES
    AlarmServed
    OverlapCloses
    PlantFollows
    InjectionNeverStartsWhileCharging
