--------------------------- MODULE MCControlCycle ---------------------------
(* ControlCycle with a handful of readings on each side of its thresholds. *)
EXTENDS ControlCycle

MCMeterReadings == [i \in Meters |-> {3000, 12000}]

MCReadings ==
    [p \in Measures |->
        CASE p = "i_Input_voltage_AC_IN"             -> {230}
          [] p = "i_Battery_Voltage"                 -> {50}
          [] p = "i_soc_value_battery"               -> {80, 102, 500, 930, 950}
          [] p = "i_Battery_Current_Charge_limit"    -> {250}
          [] p = "i_Battery_Current_Discharge_limit" -> {40}
          [] OTHER                                   -> {}]

(* The battery also recommends a charge current, under the limit it gives. *)
RecommendedReadings ==
    [MCReadings EXCEPT !["i_Battery_Current_Charge_recommanded"] = {100}]

(* An inverter that the former run of the program left charging. *)
MCPresets ==
    {[p \in Written |-> CASE p = "Battery_Charge_current_DC" -> 20
                          [] p = "Grid_Feeding_allowed"      -> 0
                          [] OTHER                           -> InitialValue(p)]}
=============================================================================
