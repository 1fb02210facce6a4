\* The battery recommends a charge current smaller than its limit.
SPECIFICATION Spec
CONSTANTS
    NaN = NaN
    PosInf = PosInf
    NegInf = NegInf
    Meters = {0, 3}
    MeterReadings <- MCMeterReadings
    Readings <- RecommendedReadings
    Presets <- MCPresets
PROPERTIES
    ChargeBelowRecommended
