\* Every property of the atomic control cycle, with surpluses and deficits
\* below and above the power the grid may exchange.
SPECIFICATION Spec
CONSTANTS
    NaN = NaN
    PosInf = PosInf
    NegInf = NegInf
    Meters = {0, 3}
    MeterReadings <- MCMeterReadings
    Readings <- MCReadings
    Presets <- MCPresets
INVARIANTS
    TypeOK
    ModeMatchesState
    NoInjectionWhenEmpty
    NoChargeWhenFull
    DeficitChargeOnlyNearEmpty
    BreakersHold
    PowerBalance
PROPERTIES
    InjectionWithinDischargeLimit
    ChargeWithinLimit
