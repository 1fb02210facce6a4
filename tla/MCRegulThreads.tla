--------------------------- MODULE MCRegulThreads ---------------------------
(* RegulThreads with few readings, so that messages may arrive anywhere.  A *)
(* measure without a reading keeps the value it has before the gateway      *)
(* answers.                                                                 *)
EXTENDS RegulThreads

(* Meter 0 is a solar panel, meter 3 the loads of the house. *)
MCMeterReadings == [i \in Meters |-> IF i = 0 THEN {0, 12000} ELSE {9000}]

(* The charge side: the battery's voltage, its charge and its charge limit. *)
ChargeReadings ==
    [p \in Measures |->
        CASE p = "i_Battery_Voltage"              -> {50}
          [] p = "i_soc_value_battery"            -> {102, 500, 950}
          [] p = "i_Battery_Current_Charge_limit" -> {250}
          [] OTHER                                -> {}]

(* The injection side: the mains voltage and the discharge limit. *)
InjectReadings ==
    [p \in Measures |->
        CASE p = "i_Battery_Voltage"                 -> {50}
          [] p = "i_soc_value_battery"               -> {500}
          [] p = "i_Input_voltage_AC_IN"             -> {230}
          [] p = "i_Battery_Current_Discharge_limit" -> {40, 200}
          [] OTHER                                   -> {}]

(* Enough for every state: the battery is empty (0), nearly empty or full. *)
FewReadings ==
    [p \in Measures |->
        CASE p = "i_Battery_Voltage"              -> {50}
          [] p = "i_soc_value_battery"            -> {102, 950}
          [] OTHER                                -> {}]

(* An inverter that the former run of the program left charging. *)
MCPresets ==
    {[p \in Written |-> CASE p = "Battery_Charge_current_DC" -> 20
                          [] p = "Grid_Feeding_allowed"      -> 0
                          [] OTHER                           -> InitialValue(p)]}
=============================================================================
