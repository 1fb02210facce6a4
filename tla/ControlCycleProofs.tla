------------------------- MODULE ControlCycleProofs -------------------------
(***************************************************************************)
(* What the atomic control cycle guarantees for every set of readings:     *)
(* type correctness, then the safety invariants: each follows from the     *)
(* type invariant and from what the lemmas say of one cycle.               *)
(***************************************************************************)
EXTENDS ControlCycle, RegulationProofs

-----------------------------------------------------------------------------
(* Type correctness. *)

LEMMA InitTypeOK == Init => TypeOK
<1> SUFFICES ASSUME Init PROVE TypeOK
  OBVIOUS
<1>1. Value \in [Param -> Float] /\ \A p \in Measures : Value[p] \in Int
  BY InitialValueType DEF Init, Float, Param
<1>2. inverter \in [Written -> Float]
  BY InputAssumption DEF Init, Float
<1> QED
  BY <1>1, <1>2 DEF Init, TypeOK

(* What one cycle computes from well-typed parameters is well-typed. *)
LEMMA CycleType ==
    ASSUME TypeOK, Cycle
    PROVE  TypeOK'
<1> DEFINE B        == Ppv - Pl
           soc      == Value["i_soc_value_battery"]
           decision == Decide(B, B, soc, State)
           former   == State_management(State, Value, B)
           values   == State_management(decision.state, former, decision.Ps)
<1>1. B \in Int /\ soc \in Int /\ State \in 0..5 /\ ValueOK(Value)
  BY DEF TypeOK, ValueOK, Measures
<1> HIDE DEF B, soc
<1>2. decision.state \in 0..5 /\ decision.Ps \in Int /\ decision.Pr \in Int
  BY <1>1, DecideType
<1> HIDE DEF decision
<1>3. ValueOK(former)
  BY <1>1, StateManagementType
<1> HIDE DEF former
<1>4. ValueOK(values)
  BY <1>2, <1>3, StateManagementType
<1> HIDE DEF values
<1>5. /\ Eb' = B /\ Pb' = B /\ SOC' = soc
      /\ State' = decision.state /\ Ps' = decision.Ps
      /\ Pr' = Saturate(B, decision.Pr)
      /\ inverter' = Sent(values) /\ Value' = AfterWrite(values)
      /\ UNCHANGED <<meters, Ppv, Pl>>
  BY DEF Cycle, B, soc, decision, former, values
<1>6. Saturate(B, decision.Pr) \in Int
  BY <1>1, <1>2 DEF Saturate, Prmax
<1>7. Sent(values) \in [Written -> Float]
  BY <1>4 DEF Sent, ValueOK, TypeOK, Command, Param, Setpoints, Float
<1>8. ValueOK(AfterWrite(values))
  <2>1. "Force_floating" \in Param
    BY DEF Param, Setpoints, Written
  <2> QED
    BY <1>4, <2>1 DEF AfterWrite, ValueOK, Float, Measures, Param
<1> QED
  BY <1>1, <1>2, <1>5, <1>6, <1>7, <1>8 DEF TypeOK, ValueOK

LEMMA NextTypeOK == TypeOK /\ [Next]_vars => TypeOK'
<1> SUFFICES ASSUME TypeOK, [Next]_vars PROVE TypeOK'
  OBVIOUS
<1>1. CASE \E i \in Meters : \E power \in MeterReadings[i] : MeterArrives(i, power)
  <2> PICK i \in Meters : \E power \in MeterReadings[i] : MeterArrives(i, power)
    BY <1>1
  <2> PICK power \in MeterReadings[i] : MeterArrives(i, power)
    OBVIOUS
  <2>1. i \in 0..10 /\ power \in Int
    BY InputAssumption DEF SubscribedMeters
  <2>2. meters' \in [0..10 -> Int]
    BY <2>1 DEF MeterArrives, TypeOK
  <2>3. Ppv' \in Int /\ Pl' \in Int
    BY <2>2 DEF MeterArrives, Production, Consumption
  <2> QED
    BY <2>2, <2>3 DEF MeterArrives, TypeOK
<1>2. CASE \E p \in Measures : \E data \in Readings[p] : ParamArrives(p, data)
  <2> PICK p \in Measures : \E data \in Readings[p] : ParamArrives(p, data)
    BY <1>2
  <2> PICK data \in Readings[p] : ParamArrives(p, data)
    OBVIOUS
  <2>1. data \in Int
    BY InputAssumption
  <2> QED
    BY <2>1 DEF ParamArrives, TypeOK, Float, Param
<1>3. CASE \E p \in Written : SetpointReported(p)
  <2> PICK p \in Written : SetpointReported(p)
    BY <1>3
  <2> QED
    BY DEF SetpointReported, ParamArrives, TypeOK, Float, Param
<1>4. CASE Cycle
  BY <1>4, CycleType
<1>5. CASE UNCHANGED vars
  BY <1>5 DEF vars, TypeOK
<1> QED
  BY <1>1, <1>2, <1>3, <1>4, <1>5 DEF Next

(* Algo never leaves its five states, and no reading, missing or late,      *)
(* makes a parameter anything but a float.                                  *)
THEOREM TypeCorrect == Spec => []TypeOK
BY InitTypeOK, NextTypeOK, PTL DEF Spec

-----------------------------------------------------------------------------
(* The safety invariants.  Only Cycle changes State, the inverter and the   *)
(* powers; the lemmas say what it leaves them with.                        *)

(* What the steps that only store a message leave alone. *)
LEMMA OtherSteps ==
    ASSUME [Next]_vars, ~Cycle
    PROVE  UNCHANGED <<State, Eb, Pb, SOC, Ps, Pr, inverter>>
BY DEF Next, MeterArrives, ParamArrives, SetpointReported, vars

(* The balance and the state of charge a cycle decides on, and what its      *)
(* writes leave in the inverter.                                            *)
Outcome(state, P, r, B) == State' = state /\ Ps' = P /\ Pr' = Saturate(B, r)

LEMMA CycleOutcome ==
    ASSUME TypeOK, Cycle
    PROVE  \E former, B, soc :
             /\ ValueOK(former) /\ B \in Int /\ soc \in Int
             /\ \A p \in Measures : former[p] = Value[p]
             /\ Eb' = B /\ Pb' = B /\ SOC' = soc
             /\ State' \in 0..5
             /\ inverter' = Sent(State_management(State', former, Ps'))
             /\ \/ B >= 0 /\ Full(soc) /\ Outcome(5, 0, B, B)
                \/ B >= 0 /\ ~Full(soc) /\ NearlyFull(soc) /\ Outcome(4, B, 0, B)
                \/ B >= 0 /\ ~NearlyFull(soc) /\ ~Full(soc) /\ Outcome(3, B, 0, B)
                \/ B < 0 /\ Empty(soc) /\ NearlyEmpty(soc) /\ Outcome(2, 50, B, B)
                \/ B < 0 /\ ~Empty(soc) /\ NearlyEmpty(soc) /\ Outcome(State, B, 0, B)
                \/ B < 0 /\ ~NearlyEmpty(soc) /\ ~Empty(soc) /\ Outcome(1, B, 0, B)
<1> DEFINE B      == Ppv - Pl
           soc    == Value["i_soc_value_battery"]
           former == State_management(State, Value, B)
           d      == Decide(B, B, soc, State)
<1>1. B \in Int /\ soc \in Int /\ State \in 0..5 /\ ValueOK(Value)
  BY DEF TypeOK, ValueOK, Measures
<1>2. ValueOK(former) /\ \A p \in Measures : former[p] = Value[p]
  BY <1>1, StateManagementType
<1>3. Eb' = B /\ Pb' = B /\ SOC' = soc
  BY DEF Cycle
<1>4. /\ Outcome(d.state, d.Ps, d.Pr, B)
      /\ inverter' = Sent(State_management(State', former, Ps'))
  BY DEF Cycle, Outcome
<1>5. State' \in 0..5
  BY CycleType DEF TypeOK
<1> HIDE DEF B, soc, former
<1>6. \/ B >= 0 /\ Full(soc) /\ d = Decision(5, 0, B)
      \/ B >= 0 /\ ~Full(soc) /\ NearlyFull(soc) /\ d = Decision(4, B, 0)
      \/ B >= 0 /\ ~NearlyFull(soc) /\ ~Full(soc) /\ d = Decision(3, B, 0)
      \/ B < 0 /\ Empty(soc) /\ NearlyEmpty(soc) /\ d = Decision(2, 50, B)
      \/ B < 0 /\ ~Empty(soc) /\ NearlyEmpty(soc) /\ d = Decision(State, B, 0)
      \/ B < 0 /\ ~NearlyEmpty(soc) /\ ~Empty(soc) /\ d = Decision(1, B, 0)
  BY <1>1, DecideCases
<1> HIDE DEF d
<1>7. \A state, P, r : d = Decision(state, P, r) => Outcome(state, P, r, B)
  BY <1>4 DEF Decision
<1>8. \/ B >= 0 /\ Full(soc) /\ Outcome(5, 0, B, B)
      \/ B >= 0 /\ ~Full(soc) /\ NearlyFull(soc) /\ Outcome(4, B, 0, B)
      \/ B >= 0 /\ ~NearlyFull(soc) /\ ~Full(soc) /\ Outcome(3, B, 0, B)
      \/ B < 0 /\ Empty(soc) /\ NearlyEmpty(soc) /\ Outcome(2, 50, B, B)
      \/ B < 0 /\ ~Empty(soc) /\ NearlyEmpty(soc) /\ Outcome(State, B, 0, B)
      \/ B < 0 /\ ~NearlyEmpty(soc) /\ ~Empty(soc) /\ Outcome(1, B, 0, B)
  BY <1>6, <1>7
<1> QED
  BY <1>1, <1>2, <1>3, <1>4, <1>5, <1>8

(* The switches the two modes of State_management send. *)
LEMMA SentSwitches ==
    ASSUME NEW v, NEW P
    PROVE  /\ Sent(Discharge(v, P))["Charger_allowed"] = 0
           /\ Sent(Discharge(v, P))["Grid_Feeding_allowed"] = 1
           /\ Sent(Charge(v, P))["Charger_allowed"] = 1
           /\ Sent(Charge(v, P))["Grid_Feeding_allowed"] = 0
<1>1. "Charger_allowed" \in Written \cap Param \cap Switches
      /\ "Grid_Feeding_allowed" \in Written \cap Param \cap Switches
  BY DEF Written, Param, Setpoints, Switches
<1>2. \A w : \A p \in {"Charger_allowed", "Grid_Feeding_allowed"} :
        Sent(w)[p] = IF w[p] = 1 THEN 1 ELSE 0
  BY <1>1 DEF Sent, Command
<1>3. Discharge(v, P)["Charger_allowed"] = 0
      /\ Discharge(v, P)["Grid_Feeding_allowed"] = 1
  BY <1>1 DEF Discharge, DischargeFlags
<1>4. Charge(v, P)["Charger_allowed"] = 1
      /\ Charge(v, P)["Grid_Feeding_allowed"] = 0
  BY <1>1 DEF Charge, ChargeFlags
<1> QED
  BY <1>2, <1>3, <1>4

(* The currents that are sent. *)
LEMMA SentCurrent ==
    ASSUME NEW v, NEW P
    PROVE  /\ Sent(Charge(v, P))["Battery_Charge_current_DC"]
                  = ChargeCurrent(P, v)
           /\ Sent(Discharge(v, P))["Max_Grid_Feeding_current"]
                  = GridFeedingCurrent(P, v)
<1>1. /\ {"Battery_Charge_current_DC", "Max_Grid_Feeding_current"}
            \subseteq Written \cap Param
      /\ "Battery_Charge_current_DC" \notin Switches
      /\ "Max_Grid_Feeding_current" \notin Switches
  BY DEF Written, Param, Setpoints, Switches
<1>2. Charge(v, P)["Battery_Charge_current_DC"] = ChargeCurrent(P, v)
  BY <1>1 DEF Charge, ChargeFlags
<1>3. Discharge(v, P)["Max_Grid_Feeding_current"] = GridFeedingCurrent(P, v)
  BY <1>1 DEF Discharge, DischargeFlags
<1> QED
  BY <1>1, <1>2, <1>3 DEF Sent, Command

(* A cycle ends with the inverter in the mode of the state it chose. *)
LEMMA CycleMode == ASSUME TypeOK, Cycle PROVE ModeMatchesState'
<1> PICK former : inverter' = Sent(State_management(State', former, Ps'))
  BY CycleOutcome
<1>1. CASE State' = DischargeState
  BY <1>1, SentSwitches
  DEF ModeMatchesState, Charging, Injecting, State_management, ChargeStates,
      DischargeState
<1>2. CASE State' \in ChargeStates
  BY <1>2, SentSwitches
  DEF ModeMatchesState, Charging, Injecting, State_management, ChargeStates,
      DischargeState
<1> QED
  BY <1>1, <1>2 DEF ModeMatchesState

(* State_management and Write_p leave the inverter in one mode only, the one *)
(* of STATE, whatever reports of set-points overwrite the parameters between *)
(* two cycles.                                                              *)
THEOREM Mode == Spec => []ModeMatchesState
<1>1. Init => ModeMatchesState
  BY DEF Init, ModeMatchesState, DischargeState, ChargeStates
<1>2. TypeOK /\ ModeMatchesState /\ [Next]_vars => ModeMatchesState'
  <2> SUFFICES ASSUME TypeOK, ModeMatchesState, [Next]_vars PROVE ModeMatchesState'
    OBVIOUS
  <2>1. CASE Cycle
    BY <2>1, CycleMode
  <2>2. CASE ~Cycle
    BY <2>2, OtherSteps DEF ModeMatchesState, Charging, Injecting
  <2> QED
    BY <2>1, <2>2
<1> QED
  BY <1>1, <1>2, TypeCorrect, PTL DEF Spec

(* The mode a cycle ends in, as a consequence of its decision: with a deficit *)
(* only a battery that is nearly empty is charged, and only one that is not   *)
(* empty injects.                                                            *)
LEMMA CycleGuards ==
    ASSUME TypeOK, Cycle
    PROVE  NoInjectionWhenEmpty' /\ DeficitChargeOnlyNearEmpty'
<1> PICK former, B, soc :
      /\ ValueOK(former) /\ B \in Int /\ soc \in Int
      /\ Eb' = B /\ Pb' = B /\ SOC' = soc
      /\ State' \in 0..5
      /\ inverter' = Sent(State_management(State', former, Ps'))
      /\ \/ B >= 0 /\ Full(soc) /\ Outcome(5, 0, B, B)
         \/ B >= 0 /\ ~Full(soc) /\ NearlyFull(soc) /\ Outcome(4, B, 0, B)
         \/ B >= 0 /\ ~NearlyFull(soc) /\ ~Full(soc) /\ Outcome(3, B, 0, B)
         \/ B < 0 /\ Empty(soc) /\ NearlyEmpty(soc) /\ Outcome(2, 50, B, B)
         \/ B < 0 /\ ~Empty(soc) /\ NearlyEmpty(soc) /\ Outcome(State, B, 0, B)
         \/ B < 0 /\ ~NearlyEmpty(soc) /\ ~Empty(soc) /\ Outcome(1, B, 0, B)
  BY CycleOutcome
<1>2. /\ State' = DischargeState => Injecting' /\ ~Charging'
      /\ State' \in ChargeStates => Charging' /\ ~Injecting'
  BY CycleMode DEF ModeMatchesState
<1>3. State' = 0 \/ State' = DischargeState \/ State' \in ChargeStates
  BY DEF DischargeState, ChargeStates
<1>4. State' = DischargeState => ~Empty(soc)
  BY DEF Outcome, DischargeState
<1>5. State' \in ChargeStates /\ B < 0 => NearlyEmpty(soc)
  BY DEF Outcome, ChargeStates
<1> QED
  BY <1>2, <1>3, <1>4, <1>5
  DEF NoInjectionWhenEmpty, DeficitChargeOnlyNearEmpty

(* No path of Algo, the one that keeps the former state included, lets an     *)
(* empty battery feed the grid.                                              *)
THEOREM EmptyBatteryKept == Spec => []NoInjectionWhenEmpty
<1>1. Init => NoInjectionWhenEmpty
  BY DEF Init, NoInjectionWhenEmpty
<1>2. TypeOK /\ NoInjectionWhenEmpty /\ [Next]_vars => NoInjectionWhenEmpty'
  <2> SUFFICES ASSUME TypeOK, NoInjectionWhenEmpty, [Next]_vars PROVE NoInjectionWhenEmpty'
    OBVIOUS
  <2>1. CASE Cycle
    BY <2>1, CycleGuards
  <2>2. CASE ~Cycle
    BY <2>2, OtherSteps DEF NoInjectionWhenEmpty, Injecting
  <2> QED
    BY <2>1, <2>2
<1> QED
  BY <1>1, <1>2, TypeCorrect, PTL DEF Spec

(* No path of Algo charges from the grid a battery that is not nearly empty. *)
THEOREM DeficitChargesLast == Spec => []DeficitChargeOnlyNearEmpty
<1>1. Init => DeficitChargeOnlyNearEmpty
  BY DEF Init, DeficitChargeOnlyNearEmpty
<1>2. TypeOK /\ DeficitChargeOnlyNearEmpty /\ [Next]_vars => DeficitChargeOnlyNearEmpty'
  <2> SUFFICES ASSUME TypeOK, DeficitChargeOnlyNearEmpty, [Next]_vars PROVE DeficitChargeOnlyNearEmpty'
    OBVIOUS
  <2>1. CASE Cycle
    BY <2>1, CycleGuards
  <2>2. CASE ~Cycle
    BY <2>2, OtherSteps DEF DeficitChargeOnlyNearEmpty, Charging
  <2> QED
    BY <2>1, <2>2
<1> QED
  BY <1>1, <1>2, TypeCorrect, PTL DEF Spec

LEMMA CycleFull == ASSUME TypeOK, Cycle PROVE NoChargeWhenFull'
<1> SUFFICES ASSUME State' # 0, Full(SOC'), Charging'
             PROVE  ~Gt(inverter'["Battery_Charge_current_DC"], 0)
  BY DEF NoChargeWhenFull
<1> PICK former, B, soc :
      /\ ValueOK(former) /\ B \in Int /\ soc \in Int
      /\ Eb' = B /\ Pb' = B /\ SOC' = soc
      /\ State' \in 0..5
      /\ inverter' = Sent(State_management(State', former, Ps'))
      /\ \/ B >= 0 /\ Full(soc) /\ Outcome(5, 0, B, B)
         \/ B >= 0 /\ ~Full(soc) /\ NearlyFull(soc) /\ Outcome(4, B, 0, B)
         \/ B >= 0 /\ ~NearlyFull(soc) /\ ~Full(soc) /\ Outcome(3, B, 0, B)
         \/ B < 0 /\ Empty(soc) /\ NearlyEmpty(soc) /\ Outcome(2, 50, B, B)
         \/ B < 0 /\ ~Empty(soc) /\ NearlyEmpty(soc) /\ Outcome(State, B, 0, B)
         \/ B < 0 /\ ~NearlyEmpty(soc) /\ ~Empty(soc) /\ Outcome(1, B, 0, B)
  BY CycleOutcome
<1>1. State' # DischargeState
  BY CycleMode DEF ModeMatchesState
<1>2. Full(soc)
  BY DEF Full
<1>3. ~NearlyEmpty(soc) /\ ~Empty(soc)
  BY <1>2 DEF Full, NearlyEmpty, Empty, SOCmin, SOCmax
<1>4. State' = 5 /\ Ps' = 0
  BY <1>1, <1>2, <1>3 DEF Outcome, DischargeState
<1>5. inverter' = Sent(Charge(former, 0))
  BY <1>4 DEF State_management, ChargeStates, DischargeState
<1> QED
  BY <1>5, SentCurrent, NoPowerNoCurrent

(* A full battery is asked no charge current, in state 5 by a null power and  *)
(* in state 1 by a blocked charger.                                          *)
THEOREM FullBatteryNotCharged == Spec => []NoChargeWhenFull
<1>1. Init => NoChargeWhenFull
  BY DEF Init, NoChargeWhenFull
<1>2. TypeOK /\ NoChargeWhenFull /\ [Next]_vars => NoChargeWhenFull'
  <2> SUFFICES ASSUME TypeOK, NoChargeWhenFull, [Next]_vars PROVE NoChargeWhenFull'
    OBVIOUS
  <2>1. CASE Cycle
    BY <2>1, CycleFull
  <2>2. CASE ~Cycle
    BY <2>2, OtherSteps DEF NoChargeWhenFull, Charging
  <2> QED
    BY <2>1, <2>2
<1> QED
  BY <1>1, <1>2, TypeCorrect, PTL DEF Spec

LEMMA CycleBreakers == ASSUME TypeOK, Cycle PROVE BreakersHold'
<1> SUFFICES ASSUME State' \in ChargeStates
             PROVE  ~Gt(inverter'["Battery_Charge_current_DC"], BreakerLimit)
  BY DEF BreakersHold
<1> PICK former : inverter' = Sent(State_management(State', former, Ps'))
  BY CycleOutcome
<1>1. inverter'["Battery_Charge_current_DC"] = ChargeCurrent(Ps', former)
  BY SentCurrent DEF State_management, ChargeStates, DischargeState
<1>2. \A x : ~Gt(WithinBreakers(x), BreakerLimit)
  BY FloatAssumption DEF WithinBreakers, BreakerLimit, BreakerCurrent, Gt, Ge
<1> QED
  BY <1>1, <1>2 DEF ChargeCurrent

(* Whatever charge limit the battery announces, a charge current above the    *)
(* breakers' is never sent.                                                  *)
THEOREM BreakersProtected == Spec => []BreakersHold
<1>1. Init => BreakersHold
  BY DEF Init, BreakersHold, ChargeStates
<1>2. TypeOK /\ BreakersHold /\ [Next]_vars => BreakersHold'
  <2> SUFFICES ASSUME TypeOK, BreakersHold, [Next]_vars PROVE BreakersHold'
    OBVIOUS
  <2>1. CASE Cycle
    BY <2>1, CycleBreakers
  <2>2. CASE ~Cycle
    BY <2>2, OtherSteps DEF BreakersHold, ChargeStates
  <2> QED
    BY <2>1, <2>2
<1> QED
  BY <1>1, <1>2, TypeCorrect, PTL DEF Spec

(* Cutting the power of the grid keeps its direction. *)
LEMMA SaturateBounds ==
    ASSUME NEW E \in Int, NEW r \in Int, r = 0 \/ r = E
    PROVE  /\ Abs(Saturate(E, r)) <= Prmax
           /\ Saturate(E, r) = r \/ Abs(Saturate(E, r)) = Prmax
           /\ Saturate(E, r) > 0 => E > 0
           /\ Saturate(E, r) < 0 => E < 0
<1>1. CASE Abs(r) < Prmax
  BY <1>1 DEF Saturate, Abs, Prmax
<1>2. CASE ~(Abs(r) < Prmax)
  <2>1. r # 0
    BY <1>2 DEF Abs, Prmax
  <2>2. Saturate(E, r) = IF E >= 0 THEN 8000 ELSE -8000
    BY <1>2 DEF Saturate, Prmax
  <2>3. \A x \in Int : x > 0 => Abs(x) = x /\ Abs(-x) = x
    BY DEF Abs
  <2> QED
    BY <2>1, <2>2, <2>3 DEF Prmax
<1> QED
  BY <1>1, <1>2

LEMMA CyclePowers == ASSUME TypeOK, Cycle PROVE PowerBalance'
<1> PICK former, B, soc :
      /\ ValueOK(former) /\ B \in Int /\ soc \in Int
      /\ Eb' = B /\ Pb' = B /\ SOC' = soc
      /\ State' \in 0..5
      /\ inverter' = Sent(State_management(State', former, Ps'))
      /\ \/ B >= 0 /\ Full(soc) /\ Outcome(5, 0, B, B)
         \/ B >= 0 /\ ~Full(soc) /\ NearlyFull(soc) /\ Outcome(4, B, 0, B)
         \/ B >= 0 /\ ~NearlyFull(soc) /\ ~Full(soc) /\ Outcome(3, B, 0, B)
         \/ B < 0 /\ Empty(soc) /\ NearlyEmpty(soc) /\ Outcome(2, 50, B, B)
         \/ B < 0 /\ ~Empty(soc) /\ NearlyEmpty(soc) /\ Outcome(State, B, 0, B)
         \/ B < 0 /\ ~NearlyEmpty(soc) /\ ~Empty(soc) /\ Outcome(1, B, 0, B)
  BY CycleOutcome
<1> PICK r : /\ Pr' = Saturate(B, r)
            /\ \/ r = 0 /\ Ps' = B
               \/ r = B /\ Ps' = 0
               \/ r = B /\ Ps' = 50 /\ State' = 2
  BY DEF Outcome
<1>1. r \in Int /\ (r = 0 \/ r = B)
  OBVIOUS
<1>2. /\ Abs(Pr') <= Prmax
      /\ Pr' = r \/ Abs(Pr') = Prmax
      /\ Pr' > 0 => B > 0
      /\ Pr' < 0 => B < 0
  BY <1>1, SaturateBounds
<1> QED
  BY <1>2 DEF PowerBalance

(* Storage and grid make up the balance of the house in every state, up to the *)
(* power at which the exchange with the grid saturates.                      *)
THEOREM PowersBalanced == Spec => []PowerBalance
<1>1. Init => PowerBalance
  BY DEF Init, PowerBalance, Abs, Prmax
<1>2. TypeOK /\ PowerBalance /\ [Next]_vars => PowerBalance'
  <2> SUFFICES ASSUME TypeOK, PowerBalance, [Next]_vars PROVE PowerBalance'
    OBVIOUS
  <2>1. CASE Cycle
    BY <2>1, CyclePowers
  <2>2. CASE ~Cycle
    BY <2>2, OtherSteps DEF PowerBalance
  <2> QED
    BY <2>1, <2>2
<1> QED
  BY <1>1, <1>2, TypeCorrect, PTL DEF Spec

-----------------------------------------------------------------------------
(* The action properties. *)

(* Capping a float, however the comparison with NaN comes out, leaves nothing *)
(* above the cap, also when a second, lower cap follows.                     *)
LEMMA CappedTwice ==
    ASSUME NEW x \in Float, NEW limit \in Float
    PROVE  ~Gt(CapAt(CapAt(x, limit), AcLimit), limit)
<1>1. CASE Ge(x, limit)
  <2>1. CapAt(x, limit) = limit
    BY <1>1 DEF CapAt
  <2>2. Ge(limit, 34) => ~Gt(34, limit)
    BY FloatAssumption DEF Gt, Ge, Float
  <2>3. ~Gt(limit, limit)
    BY DEF Gt
  <2> QED
    BY <2>1, <2>2, <2>3 DEF CapAt, AcLimit
<1>2. CASE ~Ge(x, limit)
  <2>1. CapAt(x, limit) = x
    BY <1>2 DEF CapAt
  <2>2. Ge(x, 34) => ~Gt(34, limit)
    BY <1>2, FloatAssumption DEF Gt, Ge, Float
  <2>3. ~Gt(x, limit)
    BY <1>2 DEF Gt
  <2> QED
    BY <2>1, <2>2, <2>3 DEF CapAt, AcLimit
<1> QED
  BY <1>1, <1>2

(* The charge current stays under the announced limit when the breakers cut   *)
(* it further.                                                               *)
LEMMA CutTwice ==
    ASSUME NEW x \in Float, NEW v, ValueOK(v)
    PROVE  ~Gt(WithinBreakers(WithinChargeLimit(x, v)),
               v["i_Battery_Current_Charge_limit"])
<1> DEFINE limit == v["i_Battery_Current_Charge_limit"]
<1>1. limit \in Int
  BY DEF ValueOK, Measures
<1> HIDE DEF limit
<1>2. WithinChargeLimit(x, v) = IF Gt(x, limit) THEN limit ELSE x
  BY DEF WithinChargeLimit, limit
<1>3. ~Gt(limit, limit)
  BY DEF Gt
<1>4. ~Gt(x, limit) /\ Gt(x, 200) => ~Gt(190, limit)
  BY <1>1, FloatAssumption DEF Gt, Ge, Float
<1>5. Gt(limit, 200) => ~Gt(190, limit)
  BY <1>1, FloatAssumption DEF Gt, Ge
<1> QED
  BY <1>2, <1>3, <1>4, <1>5 DEF WithinBreakers, BreakerLimit, BreakerCurrent, limit

(* No reading makes a cycle ask for more injection than the battery gives.   *)
THEOREM FeedingWithinLimit == Spec => InjectionWithinDischargeLimit
<1>1. TypeOK /\ Cycle /\ State' = DischargeState => 
        ~Gt(inverter'["Max_Grid_Feeding_current"], InjectionCap(Value))
  <2> SUFFICES ASSUME TypeOK, Cycle, State' = DischargeState
               PROVE  ~Gt(inverter'["Max_Grid_Feeding_current"], InjectionCap(Value))
    OBVIOUS
  <2> PICK former :
        /\ ValueOK(former)
        /\ \A p \in Measures : former[p] = Value[p]
        /\ inverter' = Sent(State_management(State', former, Ps'))
    BY CycleOutcome
  <2> DEFINE ac == former["i_Input_voltage_AC_IN"]
             power == former["i_Battery_Current_Discharge_limit"]
                        * former["i_Battery_Voltage"]
  <2>1. ac \in Int /\ power \in Int /\ Abs(Ps') \in Int
    BY CycleType DEF ValueOK, Measures, TypeOK, Abs
  <2>2. InjectionCap(Value) = FDiv(power, ac)
    BY DEF InjectionCap, Measures
  <2>3. inverter'["Max_Grid_Feeding_current"]
          = CapAt(CapAt(FDiv(Abs(Ps'), ac), FDiv(power, ac)), AcLimit)
    BY SentCurrent
    DEF State_management, GridFeedingCurrent, FeedingDemand, InjectionCap
  <2> HIDE DEF ac, power
  <2>4. FDiv(Abs(Ps'), ac) \in Float /\ FDiv(power, ac) \in Float
    BY <2>1, FDivType
  <2> QED
    BY <2>2, <2>3, <2>4, CappedTwice
<1> QED
  BY <1>1, TypeCorrect, PTL DEF Spec, InjectionWithinDischargeLimit

(* No reading makes a cycle ask for more charge current than the battery      *)
(* accepts.                                                                  *)
THEOREM ChargingWithinLimit == Spec => ChargeWithinLimit
<1>1. TypeOK /\ Cycle /\ State' \in ChargeStates => 
        ~Gt(inverter'["Battery_Charge_current_DC"],
            Value["i_Battery_Current_Charge_limit"])
  <2> SUFFICES ASSUME TypeOK, Cycle, State' \in ChargeStates
               PROVE  ~Gt(inverter'["Battery_Charge_current_DC"],
                          Value["i_Battery_Current_Charge_limit"])
    OBVIOUS
  <2> PICK former :
        /\ ValueOK(former)
        /\ \A p \in Measures : former[p] = Value[p]
        /\ inverter' = Sent(State_management(State', former, Ps'))
    BY CycleOutcome
  <2> DEFINE demand == FDiv(Abs(Ps'), former["i_Battery_Voltage"])
  <2>1. demand \in Float
    <3>1. former["i_Battery_Voltage"] \in Int /\ Abs(Ps') \in Int
      BY CycleType DEF ValueOK, Measures, TypeOK, Abs
    <3> QED
      BY <3>1, FDivType
  <2>2. former["i_Battery_Current_Charge_limit"]
          = Value["i_Battery_Current_Charge_limit"]
    BY DEF Measures
  <2>3. inverter'["Battery_Charge_current_DC"]
          = WithinBreakers(WithinChargeLimit(demand, former))
    BY SentCurrent
    DEF State_management, ChargeStates, DischargeState, ChargeCurrent, ChargeDemand
  <2> HIDE DEF demand
  <2> QED
    BY <2>1, <2>2, <2>3, CutTwice
<1> QED
  BY <1>1, TypeCorrect, PTL DEF Spec, ChargeWithinLimit

=============================================================================
