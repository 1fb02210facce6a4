----------------------------- MODULE Regulation -----------------------------
(***************************************************************************)
(* The energy-management algorithm as operators: what Calculs_p_k, Algo    *)
(* and State_management compute from one snapshot of the readings.         *)
(***************************************************************************)
EXTENDS Params

SOCmin == 100           (* 10.0 %: the battery is empty      *)
SOCmax == 950           (* 95.0 %: the battery is full       *)
Prmax  == 8000          (* W exchanged with the grid at most *)

AcLimit        == 34    (* A on the AC-IN side               *)
BreakerLimit   == 200   (* A, the breakers of the batteries  *)
BreakerCurrent == 190   (* A asked when that is exceeded     *)

DischargeState == 1
ChargeStates   == 2..5

CapAt(x, limit) == IF Ge(x, limit) THEN limit ELSE x

(* AC current that stands for the battery's discharge limit. *)
InjectionCap(v) ==
    FDiv(v["i_Battery_Current_Discharge_limit"] * v["i_Battery_Voltage"],
         v["i_Input_voltage_AC_IN"])

(* Seeded fault: the discharge limit is not applied. *)
FeedingDemandUnlimited(Ps, v) == FDiv(Abs(Ps), v["i_Input_voltage_AC_IN"])

(* The current that brings Ps to the grid, within what the battery gives. *)
FeedingDemand(Ps, v) ==
    CapAt(FDiv(Abs(Ps), v["i_Input_voltage_AC_IN"]), InjectionCap(v))

GridFeedingCurrent(Ps, v) == CapAt(FeedingDemand(Ps, v), AcLimit)

AcInputCurrent(v) == CapAt(FDiv(8000, v["i_Input_voltage_AC_IN"]), AcLimit)

(* Seeded fault: the limit of the other direction. *)
WithinDischargeLimit(x, v) ==
    IF Gt(x, v["i_Battery_Current_Discharge_limit"])
    THEN v["i_Battery_Current_Discharge_limit"] ELSE x

WithinChargeLimit(x, v) ==
    IF Gt(x, v["i_Battery_Current_Charge_limit"])
    THEN v["i_Battery_Current_Charge_limit"] ELSE x

(* The current that brings Ps to the battery, within what it accepts. *)
ChargeDemand(Ps, v) == WithinChargeLimit(FDiv(Abs(Ps), v["i_Battery_Voltage"]), v)

(* Seeded fault: the threshold of the breakers is too high. *)
WithinHigherBreakers(x) == IF Gt(x, BreakerLimit + 50) THEN BreakerCurrent ELSE x

WithinBreakers(x) == IF Gt(x, BreakerLimit) THEN BreakerCurrent ELSE x

ChargeCurrent(Ps, v) == WithinBreakers(ChargeDemand(Ps, v))

(* case 1: the battery supplies the house and the surplus goes to the grid. *)
DischargeFlags(v) ==
    [p \in Param |->
        IF p \in {"Inverter_Allowed", "Smart_boost_allowed", "Force_floating",
                  "Grid_Feeding_allowed", "Transfer_relay_allowed"} THEN 1
        ELSE IF p = "Charger_allowed" THEN 0
        ELSE IF p = "Floating_voltage" THEN v["i_Battery_Voltage_Discharge_limit"]
        ELSE v[p]]

Discharge(v, Ps) ==
    [DischargeFlags(v) EXCEPT
        !["Max_Grid_Feeding_current"] = GridFeedingCurrent(Ps, v),
        !["MAX_current_of_AC_IN"]     = AcInputCurrent(v)]

(* cases 2 to 5: the battery is charged, or kept. *)
(* Seeded fault: charging does not block the grid feeding. *)
ChargeFlagsKeepingFeeding(v) ==
    [p \in Param |->
        IF p \in {"Inverter_Allowed", "Charger_allowed", "Smart_boost_allowed",
                  "Force_floating"} THEN 1
        ELSE IF p = "Floating_voltage" THEN v["i_Battery_Voltage_Charge_limit"]
        ELSE v[p]]

ChargeFlags(v) ==
    [p \in Param |->
        IF p \in {"Inverter_Allowed", "Charger_allowed", "Smart_boost_allowed",
                  "Force_floating"} THEN 1
        ELSE IF p = "Grid_Feeding_allowed" THEN 0
        ELSE IF p = "Floating_voltage" THEN v["i_Battery_Voltage_Charge_limit"]
        ELSE v[p]]

Charge(v, Ps) ==
    [ChargeFlags(v) EXCEPT
        !["Battery_Charge_current_DC"] = ChargeCurrent(Ps, v),
        !["MAX_current_of_AC_IN"]      = AcInputCurrent(v)]

(* The switch has no default: state 0, the one before any decision, leaves *)
(* every set-point as it is.                                               *)
State_management(state, v, Ps) ==
    IF state = DischargeState THEN Discharge(v, Ps)
    ELSE IF state \in ChargeStates THEN Charge(v, Ps)
    ELSE v

Full(soc)        == soc >= SOCmax
NearlyFull(soc)  == 100 * soc >= 97 * SOCmax
Empty(soc)       == SOCmin >= soc
NearlyEmpty(soc) == 103 * SOCmin >= 100 * soc

Decision(state, Ps, Pr) == [state |-> state, Ps |-> Ps, Pr |-> Pr]

(* Seeded faults: the numbering skips a state; a full battery is asked to    *)
(* store; the empty battery is not told from the nearly empty one; with a     *)
(* deficit only an empty battery changes the state.                          *)
DecideRenumbered(Eb, Pb, soc, state) ==
    IF Eb >= 0
    THEN IF Full(soc) THEN Decision(6, 0, Pb) ELSE Decision(4, Pb, 0)
    ELSE IF NearlyEmpty(soc) THEN Decision(2, 50, Pb)
         ELSE Decision(DischargeState, Pb, 0)

DecideStoringWhenFull(Eb, Pb, soc, state) ==
    IF Eb >= 0
    THEN Decision(IF NearlyFull(soc) THEN 4 ELSE 3, Pb, 0)
    ELSE IF NearlyEmpty(soc) THEN Decision(2, 50, Pb)
         ELSE Decision(DischargeState, Pb, 0)

DecideWithoutEmpty(Eb, Pb, soc, state) ==
    IF Eb >= 0
    THEN IF Full(soc) THEN Decision(5, 0, Pb) ELSE Decision(3, Pb, 0)
    ELSE IF NearlyEmpty(soc) THEN Decision(state, Pb, 0)
         ELSE Decision(DischargeState, Pb, 0)

DecideKeepingState(Eb, Pb, soc, state) ==
    IF Eb >= 0
    THEN IF Full(soc) THEN Decision(5, 0, Pb) ELSE Decision(3, Pb, 0)
    ELSE IF Empty(soc) THEN Decision(2, 50, Pb) ELSE Decision(state, Pb, 0)

(* The decision tree of Algo.  With a deficit and a battery between Empty   *)
(* and NearlyEmpty no branch assigns State: it keeps the former state.      *)
Decide(Eb, Pb, soc, state) ==
    IF Eb >= 0
    THEN IF NearlyFull(soc)
         THEN IF Full(soc) THEN Decision(5, 0, Pb) ELSE Decision(4, Pb, 0)
         ELSE Decision(3, Pb, 0)
    ELSE IF NearlyEmpty(soc)
         THEN IF Empty(soc) THEN Decision(2, 50, Pb) ELSE Decision(state, Pb, 0)
         ELSE Decision(DischargeState, Pb, 0)

(* Seeded fault: the saturated power loses its sign. *)
SaturateUnsigned(Eb, Pr) == IF Abs(Pr) < Prmax THEN Pr ELSE Prmax

Saturate(Eb, Pr) == IF Abs(Pr) < Prmax THEN Pr
                    ELSE IF Eb >= 0 THEN Prmax ELSE -Prmax
=============================================================================
