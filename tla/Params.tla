------------------------------- MODULE Params -------------------------------
(***************************************************************************)
(* The parameters of the Xtender inverter/charger and of its battery that  *)
(* the regulation reads or commands: the t_param globals, named as in the  *)
(* code, without the ones that are only printed.  A Value function maps    *)
(* each parameter to the Value field of its t_param.                       *)
(***************************************************************************)
EXTENDS CFloat

(* Readings: what the gateway reports and the algorithm only reads. *)
Measures ==
    {"i_Input_voltage_AC_IN", "i_Battery_Voltage", "i_soc_value_battery",
     "i_Battery_Voltage_Charge_limit", "i_Battery_Voltage_Discharge_limit",
     "i_Battery_Current_Charge_limit", "i_Battery_Current_Discharge_limit",
     "i_Battery_Current_Charge_recommanded"}

(* Set-points Write_p sends to the inverter. *)
Written ==
    {"Batt_priority_source", "Charger_allowed", "Grid_Feeding_allowed",
     "Inverter_Allowed", "MAX_current_of_AC_IN", "Max_Grid_Feeding_current",
     "Battery_Charge_current_DC", "Smart_boost_allowed", "Force_floating",
     "Floating_voltage"}

(* The ones whose Format is BOOL_F: Write sends true for 1, false otherwise. *)
Switches ==
    {"Batt_priority_source", "Charger_allowed", "Grid_Feeding_allowed",
     "Inverter_Allowed", "Smart_boost_allowed"}

(* What Write puts in the message that sets p to x. *)
Command(p, x) == IF p \notin Switches THEN x ELSE IF x = 1 THEN 1 ELSE 0

(* State_management also sets one set-point that Write_p never sends. *)
Setpoints == Written \cup {"Transfer_relay_allowed"}

Param == Measures \cup Setpoints

Not_Value == -10   (* the marker of an Xtender reading not received yet *)

InitialValue(p) ==
    IF p \in {"Charger_allowed", "Inverter_Allowed", "Smart_boost_allowed",
              "Transfer_relay_allowed", "Grid_Feeding_allowed"} THEN 1
    ELSE IF p = "MAX_current_of_AC_IN" THEN 35
    ELSE IF p = "Max_Grid_Feeding_current" THEN 30
    ELSE IF p = "Floating_voltage" THEN 61
    ELSE IF p = "i_Input_voltage_AC_IN" THEN Not_Value
    ELSE 0
=============================================================================
