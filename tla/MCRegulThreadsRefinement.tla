---------------------- MODULE MCRegulThreadsRefinement ----------------------
(* RegulThreadsRefinement with readings for both modes. *)
EXTENDS RegulThreadsRefinement

MCMeterReadings == [i \in Meters |-> IF i = 0 THEN {0, 12000} ELSE {9000}]

(* Every state of Algo; each limit is reached before or after its reading arrives. *)
MCReadings ==
    [p \in Measures |->
        CASE p = "i_Battery_Voltage"                 -> {50}
          [] p = "i_Input_voltage_AC_IN"             -> {230}
          [] p = "i_soc_value_battery"               -> {102, 930, 950}
          [] p = "i_Battery_Current_Charge_limit"    -> {250}
          [] p = "i_Battery_Current_Discharge_limit" -> {200}
          [] OTHER                                   -> {}]

(* An inverter that the former run of the program left charging. *)
MCPresets ==
    {[p \in Written |-> CASE p = "Battery_Charge_current_DC" -> 20
                          [] p = "Grid_Feeding_allowed"      -> 0
                          [] OTHER                           -> InitialValue(p)]}
=============================================================================
