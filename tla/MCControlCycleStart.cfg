\* The first cycles, before the battery answered.
SPECIFICATION Spec
CONSTANTS
    NaN = NaN
    PosInf = PosInf
    NegInf = NegInf
    Meters = {0, 3}
    MeterReadings <- MCMeterReadings
    Readings <- MCReadings
    Presets <- MCPresets
INVARIANTS
    ChargeCurrentForBreakers
