---------------------------- MODULE ControlCycle ----------------------------
(***************************************************************************)
(* The regulator seen one whole control cycle at a time: messages of the   *)
(* gateway and of the energy meters arrive between cycles, and a cycle     *)
(* reads them, decides the state of the plant and commands the inverter in *)
(* one step.  RegulThreads gives the same program at the grain of its      *)
(* threads.                                                                *)
(***************************************************************************)
EXTENDS Regulation

CONSTANTS
    Meters,         (* the energy meters that report                         *)
    MeterReadings,  (* for each meter, the powers it reports, in W           *)
    Readings,       (* for each measure, the values the gateway reports      *)
    Presets         (* the set-points the inverter may hold when the program *)
                    (* starts                                                *)

(* The indices of meters[] whose topic sub_energ_counter subscribes to: its *)
(* loop stops before SKIN_RECEP, meters[9].                                 *)
SubscribedMeters == (0..8) \cup {10}

ASSUME InputAssumption ==
    /\ Meters \subseteq SubscribedMeters
    /\ MeterReadings \in [Meters -> SUBSET Int]
    /\ Readings \in [Measures -> SUBSET Int]
    /\ Presets \subseteq [Written -> Int]

VARIABLES
    Value,     (* the Value fields of the parameters                          *)
    meters,    (* meters[0..10], the last power of each meter                 *)
    Ppv, Pl,   (* production and consumption, the sums over meters            *)
    State,     (* STATE (a reserved word here); 0 until the first decision     *)
    Eb, Pb,    (* the balance Ppv - Pl, which Calculs_p_k computes twice      *)
    SOC,       (* the state of charge the last cycle decided on               *)
    Ps, Pr,    (* the powers asked from the battery and from the grid         *)
    inverter   (* the set-points the inverter holds                           *)

vars == <<Value, meters, Ppv, Pl, State, Eb, Pb, SOC, Ps, Pr, inverter>>

Production(m)  == m[0] + m[1] + m[2]
Consumption(m) == m[3] + m[4] + m[5] + m[6] + m[7] + m[8] + m[9]

Init ==
    /\ Value  = [p \in Param |-> InitialValue(p)]
    /\ meters = [i \in 0..10 |-> 0]
    /\ Ppv = 0 /\ Pl = 0
    /\ State = 0
    /\ Eb = 0 /\ Pb = 0 /\ SOC = 0 /\ Ps = 0 /\ Pr = 0
    /\ inverter \in Presets

(* msgarrvd on the topic of energy meter i. *)
MeterArrives(i, power) ==
    /\ meters' = [meters EXCEPT ![i] = power]
    /\ Ppv' = Production(meters')
    /\ Pl'  = Consumption(meters')
    /\ UNCHANGED <<Value, State, Eb, Pb, SOC, Ps, Pr, inverter>>

(* msgarrvd on the /Res topic of parameter p. *)
ParamArrives(p, data) ==
    /\ Value' = [Value EXCEPT ![p] = data]
    /\ UNCHANGED <<meters, Ppv, Pl, State, Eb, Pb, SOC, Ps, Pr, inverter>>

(* The gateway reports a set-point the inverter holds.  The topics of the   *)
(* set-points are subscribed too, and their data goes to the same Value     *)
(* that Algo computes and Write_p sends.                                    *)
SetpointReported(p) == inverter[p] \in Int /\ ParamArrives(p, inverter[p])

(* Write_p: Force_floating is sent when it is 1 only, and then cleared. *)
Sent(v) == [p \in Written |-> IF p = "Force_floating" /\ v[p] # 1
                              THEN inverter[p] ELSE Command(p, v[p])]

AfterWrite(v) == [v EXCEPT !["Force_floating"] = IF @ = 1 THEN 0 ELSE @]

(* The body of the main loop: Read_p (which only sends requests), Algo and  *)
(* Write_p.  Algo first applies the state of the former cycle to the new    *)
(* balance, then decides and applies the new state.                         *)
Cycle ==
    LET balance  == Ppv - Pl
        soc      == Value["i_soc_value_battery"]
        decision == Decide(balance, balance, soc, State)
        former   == State_management(State, Value, balance)
        values   == State_management(decision.state, former, decision.Ps)
    IN  /\ Eb' = balance
        /\ Pb' = balance
        /\ SOC' = soc
        /\ State' = decision.state
        /\ Ps' = decision.Ps
        /\ Pr' = Saturate(balance, decision.Pr)
        /\ inverter' = Sent(values)
        /\ Value' = AfterWrite(values)
        /\ UNCHANGED <<meters, Ppv, Pl>>

Next ==
    \/ \E i \in Meters : \E power \in MeterReadings[i] : MeterArrives(i, power)
    \/ \E p \in Measures : \E data \in Readings[p] : ParamArrives(p, data)
    \/ \E p \in Written : SetpointReported(p)
    \/ Cycle

Spec == Init /\ [][Next]_vars

-----------------------------------------------------------------------------
(* The state of the plant is one of the five of Algo, or 0 before the first *)
(* decision; readings, balances and powers are finite, set-points may be    *)
(* any float.                                                               *)
TypeOK ==
    /\ Value \in [Param -> Float]
    /\ \A p \in Measures : Value[p] \in Int
    /\ meters \in [0..10 -> Int]
    /\ Ppv \in Int /\ Pl \in Int
    /\ State \in 0..5
    /\ Eb \in Int /\ Pb \in Int /\ SOC \in Int /\ Ps \in Int /\ Pr \in Int
    /\ inverter \in [Written -> Float]

Charging  == inverter["Charger_allowed"] = 1
Injecting == inverter["Grid_Feeding_allowed"] = 1

(* Once a decision has been taken the inverter either charges the battery  *)
(* or feeds the grid from it, never both, and does what State says - even  *)
(* if reports of older set-points arrived since (State_management).        *)
ModeMatchesState ==
    /\ State = DischargeState  => Injecting /\ ~Charging
    /\ State \in ChargeStates  => Charging /\ ~Injecting

(* The grid is never fed from a battery that was empty when the cycle       *)
(* decided, through every path of Algo that keeps or changes the state.     *)
NoInjectionWhenEmpty == State # 0 /\ Injecting => ~Empty(SOC)

(* A battery that was full when the cycle decided is never charged: with a  *)
(* surplus state 5 asks for no current, with a deficit state 1 blocks the   *)
(* charger.                                                                 *)
NoChargeWhenFull ==
    State # 0 /\ Full(SOC) /\ Charging =>
        ~Gt(inverter["Battery_Charge_current_DC"], 0)

(* Charging while the house consumes more than it produces takes the power *)
(* from the grid.  It happens only with a battery that is nearly empty.     *)
DeficitChargeOnlyNearEmpty ==
    State # 0 /\ Eb < 0 /\ Charging => NearlyEmpty(SOC)

(* In the charge states the current asked from the charger never exceeds   *)
(* what the breakers of the battery stand, whatever limit the battery       *)
(* management system announced.                                             *)
BreakersHold ==
    State \in ChargeStates =>
        ~Gt(inverter["Battery_Charge_current_DC"], BreakerLimit)

(* What is asked from the battery and from the grid makes up the balance   *)
(* (state 2 adds the 50 W the battery itself consumes), unless the grid     *)
(* power is cut at Prmax; and the grid is never asked the opposite of what  *)
(* the balance needs.                                                       *)
PowerBalance ==
    /\ Abs(Pr) <= Prmax
    /\ \/ Abs(Pr) = Prmax
       \/ Ps + Pr = Pb
       \/ State = 2 /\ Ps + Pr = Pb + 50
    /\ Pr > 0 => Pb > 0
    /\ Pr < 0 => Pb < 0

(* A cycle that lets the battery feed the grid never asks for more than    *)
(* the discharge current the battery announces, seen from the AC side.      *)
InjectionWithinDischargeLimit ==
    [][Cycle /\ State' = DischargeState =>
        ~Gt(inverter'["Max_Grid_Feeding_current"], InjectionCap(Value))]_vars

(* A cycle that charges never asks for more than the charge current the     *)
(* battery announces.                                                       *)
ChargeWithinLimit ==
    [][Cycle /\ State' \in ChargeStates =>
        ~Gt(inverter'["Battery_Charge_current_DC"],
            Value["i_Battery_Current_Charge_limit"])]_vars

(* The note above the parameters (Main_test_v2.0.c:111, Write_read_v20.h:90) *)
(* says charge {1138} [Adc] < {7065} [Adc]: the charge current that is sent  *)
(* stays under the one the battery recommends.                               *)
ChargeBelowRecommended ==
    [][Cycle /\ State' \in ChargeStates =>
        ~Gt(inverter'["Battery_Charge_current_DC"],
            Value["i_Battery_Current_Charge_recommanded"])]_vars

(* "limit des disjoncteur des batteries" (Main_test_v2.0.c:285): the charge   *)
(* current sent in the charge states is a number, and one the breakers of    *)
(* the battery stand.                                                        *)
ChargeCurrentForBreakers ==
    State \in ChargeStates => Ge(BreakerLimit, inverter["Battery_Charge_current_DC"])
=============================================================================
