------------------------- MODULE RegulThreadsProofs -------------------------
(***************************************************************************)
(* What the threads guarantee for every set of readings, at every           *)
(* interleaving.  The invariants say at which program points the parameters  *)
(* and the inverter can be trusted, and which of them each thread may have   *)
(* changed meanwhile.  Last, when no message arrives while a cycle runs, the  *)
(* accesses of the main thread add up to the cycle of ControlCycle.          *)
(***************************************************************************)
EXTENDS RegulThreadsRefinement, RegulationProofs

-----------------------------------------------------------------------------
(* Type correctness: TypeOK, with the reports as a sequence. *)
Types ==
    /\ ValueOK(Value)
    /\ meters \in [0..10 -> Int]
    /\ Ppv \in Int /\ Pl \in Int
    /\ State \in 0..5
    /\ Eb \in Int /\ Pb \in Int /\ SOC \in Int /\ Ps \in Int /\ Pr \in Int
    /\ inverter \in [Written -> Float]
    /\ algo_on \in {0, 1} /\ connected \in BOOLEAN /\ second \in BOOLEAN
    /\ reports \in Seq(Written \X Int)
    /\ Len(reports) <= MaxReports
    /\ pc \in {"poll", "begin", "calculs", "flags", "currents", "ceiling",
              "decide", "write", "force", "release"}
    /\ next \in 1..10

LEMMA ElementType ==
    ASSUME NEW S, NEW s \in Seq(S), NEW i \in 1..Len(s) PROVE s[i] \in S
OBVIOUS

LEMMA OneMore ==
    ASSUME NEW S, NEW s \in Seq(S), NEW x \in S
    PROVE  Append(s, x) \in Seq(S) /\ Len(Append(s, x)) = Len(s) + 1
OBVIOUS

LEMMA OneLess ==
    ASSUME NEW S, NEW s \in Seq(S), s # <<>>
    PROVE  Head(s) \in S /\ Tail(s) \in Seq(S) /\ Len(Tail(s)) = Len(s) - 1
OBVIOUS

LEMMA OrderLength == Len(WriteOrder) = 10
BY DEF WriteOrder

LEMMA TypesImplyTypeOK == Types => TypeOK
<1> SUFFICES ASSUME Types PROVE TypeOK
  OBVIOUS
<1>1. Atomic!TypeOK
  BY DEF Types, ValueOK, Atomic!TypeOK, Atomic!Param, Atomic!Measures, Atomic!Float,
         Atomic!Written, Atomic!Setpoints, Param, Measures, Float, Written, Setpoints
<1>2. \A i \in 1..Len(reports) : reports[i] \in Written \X Int
  BY ElementType DEF Types
<1> QED
  BY <1>1, <1>2, OrderLength DEF Types, TypeOK

LEMMA InitTypes == Init => Types
<1> SUFFICES ASSUME Init PROVE Types
  OBVIOUS
<1>1. Value = [p \in Param |-> InitialValue(p)]
  BY DEF Init, Atomic!Init, Atomic!Param, Atomic!Measures, Atomic!Written,
         Atomic!Setpoints, Param, Measures, Written, Setpoints, Atomic!InitialValue,
         InitialValue, Atomic!Not_Value, Not_Value
<1>2. ValueOK(Value)
  BY <1>1, InitialValueType DEF ValueOK, Float, Param
<1>3. inverter \in [Written -> Float]
  BY ThreadAssumption DEF Init, Atomic!Init, Float
<1>4. reports \in Seq(Written \X Int) /\ Len(reports) <= MaxReports
  <2>1. reports = <<>>
    BY DEF Init
  <2>2. \A S : <<>> \in Seq(S)
    OBVIOUS
  <2>3. Len(<<>>) = 0 /\ 0 <= MaxReports
    BY ThreadAssumption
  <2> QED
    BY <2>1, <2>2, <2>3
<1>5. /\ meters = [i \in 0..10 |-> 0]
      /\ Ppv = 0 /\ Pl = 0 /\ State = 0
      /\ Eb = 0 /\ Pb = 0 /\ SOC = 0 /\ Ps = 0 /\ Pr = 0
      /\ algo_on = 1 /\ connected = TRUE /\ pc = "poll" /\ second = FALSE /\ next = 1
  BY DEF Init, Atomic!Init
<1>6. /\ meters \in [0..10 -> Int]
      /\ Ppv \in Int /\ Pl \in Int /\ State \in 0..5 /\ next \in 1..10
      /\ Eb \in Int /\ Pb \in Int /\ SOC \in Int /\ Ps \in Int /\ Pr \in Int
  BY <1>5
<1> QED
  BY <1>2, <1>3, <1>4, <1>5, <1>6 DEF Types

(* The steps of the MQTT thread, of the gateway and of the timer. *)
LEMMA OutsideTypes ==
    ASSUME Types,
           \/ \E i \in Meters : \E power \in MeterReadings[i] : MeterArrives(i, power)
           \/ \E p \in Measures : \E data \in Readings[p] : ParamArrives(p, data)
           \/ \E p \in Reported : ReportSetpoint(p)
           \/ ReportArrives \/ ConnLost \/ Alarm
    PROVE  Types'
<1>1. CASE \E i \in Meters : \E power \in MeterReadings[i] : MeterArrives(i, power)
  <2> PICK i \in Meters : \E power \in MeterReadings[i] : MeterArrives(i, power)
    BY <1>1
  <2> PICK power \in MeterReadings[i] : MeterArrives(i, power)
    OBVIOUS
  <2>1. i \in 0..10 /\ power \in Int
    BY ThreadAssumption DEF Atomic!SubscribedMeters
  <2>2. meters' \in [0..10 -> Int]
    BY <2>1 DEF MeterArrives, Types
  <2>3. Ppv' \in Int /\ Pl' \in Int
    BY <2>2 DEF MeterArrives, Atomic!Production, Atomic!Consumption
  <2> QED
    BY <2>2, <2>3 DEF MeterArrives, Types, balance
<1>2. CASE \E p \in Measures : \E data \in Readings[p] : ParamArrives(p, data)
  <2> PICK p \in Measures : \E data \in Readings[p] : ParamArrives(p, data)
    BY <1>2
  <2> PICK data \in Readings[p] : ParamArrives(p, data)
    OBVIOUS
  <2>1. data \in Int
    BY ThreadAssumption
  <2>2. ValueOK(Value')
    BY <2>1 DEF ParamArrives, Store, Types, ValueOK, Float, Param
  <2> QED
    BY <2>2 DEF ParamArrives, Store, Types, balance
<1>3. CASE \E p \in Reported : ReportSetpoint(p)
  <2> PICK p \in Reported : ReportSetpoint(p)
    BY <1>3
  <2>1. <<p, inverter[p]>> \in Written \X Int
    BY ThreadAssumption DEF ReportSetpoint
  <2>2. /\ reports' \in Seq(Written \X Int)
        /\ Len(reports') = Len(reports) + 1 /\ Len(reports) < MaxReports
    BY <2>1, OneMore DEF ReportSetpoint, Types
  <2>3. Len(reports) \in Nat /\ MaxReports \in Nat
    BY ThreadAssumption DEF Types
  <2>4. Len(reports') <= MaxReports
    BY <2>2, <2>3
  <2> QED
    BY <2>2, <2>4 DEF ReportSetpoint, Types, balance
<1>4. CASE ReportArrives
  <2>1. Head(reports) \in Written \X Int /\ reports' \in Seq(Written \X Int)
        /\ Len(reports') = Len(reports) - 1
    BY <1>4, OneLess DEF ReportArrives, Types
  <2>2. Len(reports) \in Nat /\ Len(reports) <= MaxReports /\ MaxReports \in Nat
    BY ThreadAssumption DEF Types
  <2>3. Len(reports') <= MaxReports
    BY <2>1, <2>2
  <2>4. Head(reports)[1] \in Written /\ Head(reports)[2] \in Int
    BY <2>1
  <2>5. ValueOK(Value')
    BY <1>4, <2>4 DEF ReportArrives, Store, Types, ValueOK, Float, Param, Setpoints
  <2> QED
    BY <1>4, <2>1, <2>3, <2>5 DEF ReportArrives, Store, Types, balance
<1>5. CASE ConnLost
  BY <1>5 DEF ConnLost, Types, balance
<1>6. CASE Alarm
  BY <1>6 DEF Alarm, Types, balance, inputs
<1> QED
  BY <1>1, <1>2, <1>3, <1>4, <1>5, <1>6

(* A set-point may hold any float. *)
LEMMA SetpointStored ==
    ASSUME NEW v, ValueOK(v), NEW p \in Param \ Measures, NEW x \in Float
    PROVE  ValueOK([v EXCEPT ![p] = x])
BY DEF ValueOK

(* What State_management does to the parameters, step by step. *)
LEMMA FlagsType ==
    ASSUME NEW v, ValueOK(v)
    PROVE  ValueOK(DischargeFlags(v)) /\ ValueOK(ChargeFlags(v))
<1>1. 0 \in Float /\ 1 \in Float
  BY DEF Float
<1>2. v["i_Battery_Voltage_Discharge_limit"] \in Float
      /\ v["i_Battery_Voltage_Charge_limit"] \in Float
  BY DEF ValueOK, Measures, Float
<1> QED
  BY <1>1, <1>2 DEF ValueOK, DischargeFlags, ChargeFlags, Measures, Param

LEMMA CeilingTypes ==
    ASSUME NEW x \in Float PROVE CapAt(x, AcLimit) \in Float /\ WithinBreakers(x) \in Float
BY DEF CapAt, WithinBreakers, AcLimit, BreakerCurrent, Float

LEMMA CurrentWritten ==
    /\ Current \in {"Max_Grid_Feeding_current", "Battery_Charge_current_DC"}
    /\ Current \in Param /\ Current \in Written /\ Current \notin Measures
    /\ "MAX_current_of_AC_IN" \in Param /\ "MAX_current_of_AC_IN" \notin Measures
    /\ "Force_floating" \in Param /\ "Force_floating" \notin Measures
BY DEF Current, Param, Measures, Written, Setpoints

LEMMA ManagedPlace == Managed \in {"write", "decide"}
BY DEF Managed

(* Sending a set-point and going on to the next one. *)
LEMMA SendType ==
    ASSUME Types, NEW p \in Written, Send(p) PROVE inverter' \in [Written -> Float]
<1>1. Command(p, Value[p]) \in Float
  BY DEF Types, ValueOK, Command, Param, Setpoints, Float
<1> QED
  BY <1>1 DEF Send, Types

LEMMA OrderWritten == \A n \in 1..10 : WriteOrder[n] \in Written
BY DEF WriteOrder, Written

LEMMA AdvanceCases ==
    ASSUME Advance("write")
    PROVE  \/ next < 10 /\ pc' = "write" /\ next' = next + 1 /\ second' = second
           \/ next = 10 /\ pc' = "poll" /\ next' = 1 /\ second' = FALSE
BY OrderLength DEF Advance

LEMMA AdvanceType ==
    ASSUME Types, Advance("write")
    PROVE  /\ pc' \in {"poll", "write"} /\ next' \in 1..10 /\ second' \in BOOLEAN
<1>1. next \in 1..10 /\ second \in BOOLEAN
  BY DEF Types
<1>2. \/ next < 10 /\ pc' = "write" /\ next' = next + 1 /\ second' = second
      \/ next = 10 /\ pc' = "poll" /\ next' = 1 /\ second' = FALSE
  BY AdvanceCases
<1>3. next' \in 1..10
  BY <1>1, <1>2
<1> QED
  BY <1>1, <1>2, <1>3

LEMMA MainTypes == ASSUME Types, Main PROVE Types'
<1>1. CASE Poll
  BY <1>1 DEF Poll, Goto, Types, balance, inputs
<1>2. CASE Begin
  BY <1>2 DEF Begin, Goto, Types, balance, inputs
<1>3. CASE Calculs_p_k
  <2>1. Ppv - Pl \in Int /\ Value["i_soc_value_battery"] \in Int
    BY DEF Types, ValueOK, Measures
  <2> QED
    BY <1>3, <2>1 DEF Calculs_p_k, Goto, Types, inputs
<1>4. CASE SetFlags
  BY <1>4, FlagsType, ManagedPlace DEF SetFlags, Goto, Types, balance, inputs
<1>5. CASE SetCurrents
  <2>1. /\ FeedingDemand(Ps, Value) \in Float /\ ChargeDemand(Ps, Value) \in Float
        /\ AcInputCurrent(Value) \in Float
    BY CurrentTypes DEF Types
  <2> DEFINE demand == IF State = DischargeState THEN FeedingDemand(Ps, Value)
                       ELSE ChargeDemand(Ps, Value)
             former == [Value EXCEPT ![Current] = demand]
  <2>2. demand \in Float
    BY <2>1
  <2>3. Value' = [former EXCEPT !["MAX_current_of_AC_IN"] = AcInputCurrent(Value)]
    BY <1>5, CurrentWritten DEF SetCurrents, Types, ValueOK
  <2> HIDE DEF demand
  <2>4. ValueOK(former)
    BY <2>2, SetpointStored, CurrentWritten DEF Types
  <2> HIDE DEF former
  <2>5. ValueOK(Value')
    BY <2>1, <2>3, <2>4, SetpointStored, CurrentWritten
  <2> QED
    BY <1>5, <2>5 DEF SetCurrents, Goto, Types, balance, inputs
<1>6. CASE CutToCeiling
  <2>1. Value[Current] \in Float
    BY CurrentWritten DEF Types, ValueOK
  <2> DEFINE cut == IF State = DischargeState THEN CapAt(Value[Current], AcLimit)
                    ELSE WithinBreakers(Value[Current])
  <2>2. cut \in Float
    BY <2>1, CeilingTypes
  <2>3. Value' = [Value EXCEPT ![Current] = cut]
    BY <1>6 DEF CutToCeiling
  <2> HIDE DEF cut
  <2>4. ValueOK(Value')
    BY <2>2, <2>3, SetpointStored, CurrentWritten DEF Types
  <2> QED
    BY <1>6, <2>4, ManagedPlace DEF CutToCeiling, Goto, Types, balance, inputs
<1>7. CASE TakeDecision
  <2> DEFINE d == Decide(Eb, Pb, SOC, State)
  <2>1. d.state \in 0..5 /\ d.Ps \in Int /\ d.Pr \in Int
    BY DecideType DEF Types
  <2>2. State' = d.state /\ Ps' = d.Ps /\ Pr' = Saturate(Eb, d.Pr)
    BY <1>7 DEF TakeDecision
  <2> HIDE DEF d
  <2>3. Saturate(Eb, d.Pr) \in Int
    BY <2>1 DEF Saturate, Prmax
  <2> QED
    BY <1>7, <2>1, <2>2, <2>3 DEF TakeDecision, Goto, Types, inputs
<1>8. CASE Write
  <2>1. inverter' \in [Written -> Float]
    BY <1>8, SendType, OrderWritten DEF Write, Types
  <2> QED
    BY <1>8, <2>1, AdvanceType DEF Write, Types, balance, inputs
<1>9. CASE TestForce
  BY <1>9, AdvanceType DEF TestForce, Types, balance, inputs
<1>10. CASE SendForce
  <2>1. "Force_floating" \in Written
    BY DEF Written
  <2>2. inverter' \in [Written -> Float]
    BY <1>10, <2>1, SendType DEF SendForce
  <2> QED
    BY <1>10, <2>2 DEF SendForce, Goto, Types, balance, inputs
<1>11. CASE ClearForce
  <2>1. ValueOK(Value')
    BY <1>11, CurrentWritten DEF ClearForce, Types, ValueOK, Float
  <2> QED
    BY <1>11, <2>1, AdvanceType DEF ClearForce, Types, balance, inputs
<1> QED
  BY <1>1, <1>2, <1>3, <1>4, <1>5, <1>6, <1>7, <1>8, <1>9, <1>10, <1>11 DEF Main

LEMMA NextTypes == Types /\ [Next]_vars => Types'
<1> SUFFICES ASSUME Types, [Next]_vars PROVE Types'
  OBVIOUS
<1>1. CASE Main
  BY <1>1, MainTypes
<1>2. CASE UNCHANGED vars
  BY <1>2 DEF vars, inputs, balance, Types
<1>3. CASE Next /\ ~Main
  BY <1>3, OutsideTypes DEF Next
<1> QED
  BY <1>1, <1>2, <1>3

(* Whatever interleaves with whatever, no global is ever anything but what    *)
(* the algorithm expects to find in it.                                      *)
THEOREM TypeCorrect == Spec => []TypeOK
<1>1. Spec => []Types
  BY InitTypes, NextTypes, PTL DEF Spec
<1> QED
  BY <1>1, TypesImplyTypeOK, PTL

-----------------------------------------------------------------------------
(* The ceilings.  A Value may be above its ceiling only between the step that *)
(* computes it and the one that cuts it; the inverter, and so what it          *)
(* reports, never is.                                                        *)
Bounded(v) ==
    /\ ~Gt(v["Battery_Charge_current_DC"], BreakerLimit)
    /\ ~Gt(v["Max_Grid_Feeding_current"], AcLimit)

BoundedReports ==
    {r \in Written \X Int :
        /\ r[1] = "Battery_Charge_current_DC" => ~Gt(r[2], BreakerLimit)
        /\ r[1] = "Max_Grid_Feeding_current" => ~Gt(r[2], AcLimit)}

CeilingInv ==
    /\ Bounded(inverter)
    /\ reports \in Seq(BoundedReports)
    /\ \/ ~Gt(Value["Battery_Charge_current_DC"], BreakerLimit)
       \/ pc = "ceiling" /\ Current = "Battery_Charge_current_DC"
    /\ \/ ~Gt(Value["Max_Grid_Feeding_current"], AcLimit)
       \/ pc = "ceiling" /\ Current = "Max_Grid_Feeding_current"

LEMMA CurrentsAreSetpoints ==
    /\ "Battery_Charge_current_DC" \in Written /\ "Battery_Charge_current_DC" \in Param
    /\ "Max_Grid_Feeding_current" \in Written /\ "Max_Grid_Feeding_current" \in Param
    /\ "Battery_Charge_current_DC" \notin Measures
    /\ "Max_Grid_Feeding_current" \notin Measures
    /\ "Battery_Charge_current_DC" \notin Switches
    /\ "Max_Grid_Feeding_current" \notin Switches
BY DEF Written, Param, Setpoints, Measures, Switches

(* Cutting a current leaves it within its ceiling, not a number included. *)
LEMMA CutIsBounded ==
    ASSUME NEW x PROVE ~Gt(CapAt(x, AcLimit), AcLimit) /\ ~Gt(WithinBreakers(x), BreakerLimit)
BY FloatAssumption DEF CapAt, WithinBreakers, AcLimit, BreakerLimit, BreakerCurrent, Gt, Ge

LEMMA InitCeilings ==
    ASSUME \A v \in Presets : Bounded(v), Init PROVE CeilingInv
<1>1. Bounded(inverter)
  BY DEF Init, Atomic!Init
<1>2. reports \in Seq(BoundedReports)
  <2>1. reports = <<>>
    BY DEF Init
  <2>2. \A S : <<>> \in Seq(S)
    OBVIOUS
  <2> QED
    BY <2>1, <2>2
<1>3. /\ Value["Battery_Charge_current_DC"] = 0
      /\ Value["Max_Grid_Feeding_current"] = 30
  BY DEF Init, Atomic!Init, Atomic!Param, Atomic!Measures, Atomic!Written,
         Atomic!Setpoints, Atomic!InitialValue
<1>4. Bounded(Value)
  BY <1>3, FloatAssumption DEF Bounded, Gt, Ge, BreakerLimit, AcLimit
<1> QED
  BY <1>1, <1>2, <1>4 DEF CeilingInv, Bounded

LEMMA OutsideCeilings ==
    ASSUME Types, CeilingInv,
           \/ \E i \in Meters : \E power \in MeterReadings[i] : MeterArrives(i, power)
           \/ \E p \in Measures : \E data \in Readings[p] : ParamArrives(p, data)
           \/ \E p \in Reported : ReportSetpoint(p)
           \/ ReportArrives \/ ConnLost \/ Alarm
    PROVE  CeilingInv'
<1>1. CASE \E i \in Meters : \E power \in MeterReadings[i] : MeterArrives(i, power)
  BY <1>1 DEF MeterArrives, CeilingInv, Bounded, Current
<1>2. CASE \E p \in Measures : \E data \in Readings[p] : ParamArrives(p, data)
  <2> PICK p \in Measures : \E data \in Readings[p] : ParamArrives(p, data)
    BY <1>2
  <2>1. Value'["Battery_Charge_current_DC"] = Value["Battery_Charge_current_DC"]
        /\ Value'["Max_Grid_Feeding_current"] = Value["Max_Grid_Feeding_current"]
    BY CurrentsAreSetpoints DEF ParamArrives, Store, Types, ValueOK
  <2>2. UNCHANGED <<inverter, reports, pc, State>>
    BY DEF ParamArrives, Store
  <2> QED
    BY <2>1, <2>2 DEF CeilingInv, Bounded, Current
<1>3. CASE \E p \in Reported : ReportSetpoint(p)
  <2> PICK p \in Reported : ReportSetpoint(p)
    BY <1>3
  <2>1. <<p, inverter[p]>> \in BoundedReports
    BY ThreadAssumption DEF ReportSetpoint, CeilingInv, Bounded, BoundedReports
  <2>2. reports' \in Seq(BoundedReports)
    BY <2>1, OneMore DEF ReportSetpoint, CeilingInv
  <2> QED
    BY <2>2 DEF ReportSetpoint, CeilingInv, Bounded, Current
<1>4. CASE ReportArrives
  <2> DEFINE p == Head(reports)[1]
             data == Head(reports)[2]
  <2>1. Head(reports) \in BoundedReports /\ reports' \in Seq(BoundedReports)
    BY <1>4, OneLess DEF ReportArrives, CeilingInv
  <2>2. /\ p \in Written
        /\ p = "Battery_Charge_current_DC" => ~Gt(data, BreakerLimit)
        /\ p = "Max_Grid_Feeding_current" => ~Gt(data, AcLimit)
    BY <2>1 DEF BoundedReports
  <2>3. Value' = [Value EXCEPT ![p] = data] /\ UNCHANGED <<inverter, pc, State>>
    BY <1>4 DEF ReportArrives, Store
  <2> HIDE DEF p, data
  <2>4. /\ ~Gt(Value["Battery_Charge_current_DC"], BreakerLimit)
             => ~Gt(Value'["Battery_Charge_current_DC"], BreakerLimit)
        /\ ~Gt(Value["Max_Grid_Feeding_current"], AcLimit)
             => ~Gt(Value'["Max_Grid_Feeding_current"], AcLimit)
    BY <2>2, <2>3, CurrentsAreSetpoints DEF Types, ValueOK
  <2> QED
    BY <2>1, <2>3, <2>4 DEF CeilingInv, Bounded, Current
<1>5. CASE ConnLost
  BY <1>5 DEF ConnLost, CeilingInv, Bounded, Current
<1>6. CASE Alarm
  BY <1>6 DEF Alarm, inputs, CeilingInv, Bounded, Current
<1> QED
  BY <1>1, <1>2, <1>3, <1>4, <1>5, <1>6

(* A set-point is sent from a Value within its ceiling. *)
LEMMA SendCeilings ==
    ASSUME Types, CeilingInv, pc # "ceiling", NEW p \in Written, Send(p)
    PROVE  Bounded(inverter')
<1>1. Bounded(Value) /\ Bounded(inverter)
  BY DEF CeilingInv, Bounded
<1>2. \A c \in {"Battery_Charge_current_DC", "Max_Grid_Feeding_current"} :
        inverter'[c] = inverter[c] \/ inverter'[c] = Value[c]
  BY CurrentsAreSetpoints DEF Send, Command, Types
<1> QED
  BY <1>1, <1>2 DEF Bounded

LEMMA MainCeilings == ASSUME Types, CeilingInv, Main PROVE CeilingInv'
<1>1. CASE Poll \/ Begin \/ Calculs_p_k \/ TestForce
  BY <1>1 DEF Poll, Begin, Calculs_p_k, TestForce, Goto, balance, inputs, CeilingInv,
              Bounded, Current
<1>2. CASE SetFlags
  <2>1. /\ Value'["Battery_Charge_current_DC"] = Value["Battery_Charge_current_DC"]
        /\ Value'["Max_Grid_Feeding_current"] = Value["Max_Grid_Feeding_current"]
    BY <1>2, CurrentsAreSetpoints DEF SetFlags, DischargeFlags, ChargeFlags
  <2> QED
    BY <1>2, <2>1 DEF SetFlags, Goto, balance, inputs, CeilingInv, Bounded, Current
<1>3. CASE SetCurrents
  <2>1. \A c \in {"Battery_Charge_current_DC", "Max_Grid_Feeding_current"} :
          c # Current => Value'[c] = Value[c]
    BY <1>3, CurrentsAreSetpoints DEF SetCurrents, Types, ValueOK
  <2>2. pc = "currents" /\ pc' = "ceiling" /\ UNCHANGED <<inverter, reports, State>>
    BY <1>3 DEF SetCurrents, Goto, inputs
  <2> QED
    BY <2>1, <2>2, CurrentWritten DEF CeilingInv, Bounded, Current
<1>4. CASE CutToCeiling
  <2>1. \A c \in {"Battery_Charge_current_DC", "Max_Grid_Feeding_current"} :
          c # Current => Value'[c] = Value[c]
    BY <1>4, CurrentsAreSetpoints DEF CutToCeiling, Types, ValueOK
  <2>2. Value'[Current] = IF State = DischargeState THEN CapAt(Value[Current], AcLimit)
                          ELSE WithinBreakers(Value[Current])
    BY <1>4, CurrentWritten DEF CutToCeiling, Types, ValueOK
  <2>3. /\ Current = "Battery_Charge_current_DC"
             => ~Gt(Value'["Battery_Charge_current_DC"], BreakerLimit)
        /\ Current = "Max_Grid_Feeding_current"
             => ~Gt(Value'["Max_Grid_Feeding_current"], AcLimit)
    BY <2>2, CutIsBounded DEF Current
  <2>4. pc = "ceiling" /\ UNCHANGED <<inverter, reports, State>>
    BY <1>4 DEF CutToCeiling, Goto, inputs
  <2> QED
    BY <2>1, <2>3, <2>4 DEF CeilingInv, Bounded
<1>5. CASE TakeDecision
  BY <1>5 DEF TakeDecision, Goto, inputs, CeilingInv, Bounded
<1>6. CASE Write
  <2>1. Bounded(inverter')
    BY <1>6, SendCeilings, OrderWritten DEF Write, Types
  <2> QED
    BY <1>6, <2>1 DEF Write, balance, inputs, CeilingInv
<1>7. CASE SendForce
  <2>1. "Force_floating" \in Written
    BY DEF Written
  <2>2. Bounded(inverter')
    BY <1>7, <2>1, SendCeilings DEF SendForce, Goto
  <2> QED
    BY <1>7, <2>2 DEF SendForce, Goto, balance, inputs, CeilingInv
<1>8. CASE ClearForce
  <2>1. /\ Value'["Battery_Charge_current_DC"] = Value["Battery_Charge_current_DC"]
        /\ Value'["Max_Grid_Feeding_current"] = Value["Max_Grid_Feeding_current"]
    BY <1>8 DEF ClearForce, Types, ValueOK
  <2> QED
    BY <1>8, <2>1 DEF ClearForce, balance, inputs, CeilingInv, Bounded
<1> QED
  BY <1>1, <1>2, <1>3, <1>4, <1>5, <1>6, <1>7, <1>8 DEF Main

(* The reports of the gateway and the readings, arriving at any point of the  *)
(* cycle, never bring a current above its ceiling to the inverter.            *)
THEOREM Ceilings ==
    ASSUME \A v \in Presets : Bounded(v) PROVE Spec => []CeilingsHold
<1>1. Init => CeilingInv
  BY InitCeilings
<1>2. Types /\ CeilingInv /\ [Next]_vars => CeilingInv'
  <2> SUFFICES ASSUME Types, CeilingInv, [Next]_vars PROVE CeilingInv'
    OBVIOUS
  <2>1. CASE Main
    BY <2>1, MainCeilings
  <2>2. CASE UNCHANGED vars
    BY <2>2 DEF vars, inputs, CeilingInv, Bounded, Current
  <2>3. CASE Next /\ ~Main
    BY <2>3, OutsideCeilings DEF Next
  <2> QED
    BY <2>1, <2>2, <2>3
<1>3. CeilingInv => CeilingsHold
  BY DEF CeilingInv, Bounded, CeilingsHold
<1>4. Spec => []Types
  BY InitTypes, NextTypes, PTL DEF Spec
<1> QED
  BY <1>1, <1>2, <1>3, <1>4, PTL DEF Spec

-----------------------------------------------------------------------------
(* What Algo has decided, from its decision to the next balance: Eb and Pb    *)
(* are the same, and the second call of State_management, which alone leads   *)
(* to the writes, works on that decision.                                    *)
Writing == pc \in {"write", "force", "release"}

Decided ==
    /\ State = DischargeState => Ps < 0 /\ ~Empty(SOC)
    /\ State \in ChargeStates /\ Full(SOC) => Ps = 0

DecisionInv ==
    /\ Eb = Pb
    /\ second => pc \in {"flags", "currents", "ceiling"} \/ Writing
    /\ Writing => second
    /\ second \/ Polling => Decided

LEMMA TakenDecision ==
    ASSUME Types, Eb = Pb, TakeDecision PROVE Decided'
<1> DEFINE d == Decide(Eb, Pb, SOC, State)
<1>1. State' = d.state /\ Ps' = d.Ps /\ UNCHANGED SOC
  BY DEF TakeDecision
<1>2. Eb \in Int /\ SOC \in Int /\ State \in 0..5
  BY DEF Types
<1>3. \/ Eb >= 0 /\ Full(SOC) /\ d = Decision(5, 0, Eb)
      \/ Eb >= 0 /\ ~Full(SOC) /\ NearlyFull(SOC) /\ d = Decision(4, Eb, 0)
      \/ Eb >= 0 /\ ~NearlyFull(SOC) /\ ~Full(SOC) /\ d = Decision(3, Eb, 0)
      \/ Eb < 0 /\ Empty(SOC) /\ NearlyEmpty(SOC) /\ d = Decision(2, 50, Eb)
      \/ Eb < 0 /\ ~Empty(SOC) /\ NearlyEmpty(SOC) /\ d = Decision(State, Eb, 0)
      \/ Eb < 0 /\ ~NearlyEmpty(SOC) /\ ~Empty(SOC) /\ d = Decision(1, Eb, 0)
  BY <1>2, DecideCases
<1>4. Full(SOC) => ~NearlyEmpty(SOC)
  BY <1>2 DEF Full, NearlyEmpty, SOCmin, SOCmax
<1> HIDE DEF d
<1>5. \A state, P, r : d = Decision(state, P, r) => State' = state /\ Ps' = P
  BY <1>1 DEF Decision
<1>6. \/ Full(SOC) /\ State' = 5 /\ Ps' = 0
      \/ ~Full(SOC) /\ State' \in {2, 3, 4}
      \/ Eb < 0 /\ ~Empty(SOC) /\ Ps' = Eb /\ (State' = 1 \/ ~Full(SOC))
  BY <1>3, <1>4, <1>5
<1> QED
  BY <1>1, <1>6 DEF Decided, DischargeState, ChargeStates

LEMMA NextDecision == Types /\ DecisionInv /\ [Next]_vars => DecisionInv'
<1> SUFFICES ASSUME Types, DecisionInv, [Next]_vars PROVE DecisionInv'
  OBVIOUS
<1> USE DEF DecisionInv, Writing, Polling, Decided
<1>1. CASE Poll \/ Begin
  BY <1>1 DEF Poll, Begin, Goto, balance
<1>2. CASE Calculs_p_k
  BY <1>2 DEF Calculs_p_k, Goto
<1>3. CASE SetFlags \/ SetCurrents \/ CutToCeiling
  <2>1. /\ pc \in {"flags", "currents", "ceiling"}
        /\ pc' \in {"currents", "ceiling", "decide", "write"}
        /\ pc' = "write" => second
        /\ pc' = "decide" => ~second
    BY <1>3 DEF SetFlags, SetCurrents, CutToCeiling, Goto, Managed
  <2>2. UNCHANGED <<Eb, Pb, second, State, Ps, SOC>>
    BY <1>3 DEF SetFlags, SetCurrents, CutToCeiling, balance
  <2> QED
    BY <2>1, <2>2
<1>4. CASE TakeDecision
  <2>1. Decided'
    BY <1>4, TakenDecision
  <2> QED
    BY <1>4, <2>1 DEF TakeDecision, Goto
<1>5. CASE Write \/ TestForce \/ SendForce \/ ClearForce
  <2>1. /\ Writing
        /\ \/ pc' \in {"write", "force", "release"} /\ second' = second
           \/ pc' = "poll" /\ second' = FALSE
    BY <1>5 DEF Write, TestForce, SendForce, ClearForce, Advance, Goto
  <2>2. UNCHANGED <<Eb, Pb, State, Ps, SOC>>
    BY <1>5 DEF Write, TestForce, SendForce, ClearForce, balance
  <2> QED
    BY <2>1, <2>2
<1>6. CASE UNCHANGED <<State, balance, pc, second>>
  BY <1>6 DEF balance
<1>7. CASE Next /\ ~Main
  BY <1>6, <1>7 DEF Next, MeterArrives, ParamArrives, ReportSetpoint, ReportArrives, Store,
               ConnLost, Alarm
<1> QED
  BY <1>1, <1>2, <1>3, <1>4, <1>5, <1>6, <1>7 DEF Main, vars

LEMMA InitDecision == Init => DecisionInv
BY DEF Init, Atomic!Init, DecisionInv, Writing, Polling, Decided, DischargeState, ChargeStates

LEMMA DecisionHolds == Spec => [](Types /\ DecisionInv)
BY InitTypes, NextTypes, InitDecision, NextDecision, PTL DEF Spec

(* No path of Algo, and no reading that arrives while it decides, makes the   *)
(* battery give away a surplus.                                              *)
THEOREM DeficitOnly == Spec => []InjectsDeficitOnly
<1>1. DecisionInv => InjectsDeficitOnly
  BY DEF DecisionInv, Decided, Writing, InjectsDeficitOnly
<1> QED
  BY <1>1, DecisionHolds, PTL

-----------------------------------------------------------------------------
(* The mode.  As long as the gateway does not report the switches, the Values *)
(* are in the mode of STATE from the switches that State_management sets to    *)
(* the last write; the inverter is from the writes of the two switches on, if *)
(* the connection has held.                                                  *)
ModeSwitches == {"Charger_allowed", "Grid_Feeding_allowed"}

ChargerInMode(v) ==
    /\ State = DischargeState => v["Charger_allowed"] = 0
    /\ State \in ChargeStates => v["Charger_allowed"] = 1

FeedingInMode(v) ==
    /\ State = DischargeState => v["Grid_Feeding_allowed"] = 1
    /\ State \in ChargeStates => v["Grid_Feeding_allowed"] = 0

InMode(v) == ChargerInMode(v) /\ FeedingInMode(v)

ModeInv ==
    /\ reports \in Seq((Written \ ModeSwitches) \X Int)
    /\ pc \in {"currents", "ceiling"} \/ Writing => InMode(Value)
    /\ ~Writing => next = 1
    /\ pc \in {"force", "release"} => next = 9
    /\ connected /\ Writing /\ next > 2 => ChargerInMode(inverter)
    /\ connected /\ Writing /\ next > 3 => FeedingInMode(inverter)
    /\ connected /\ Polling => InMode(inverter)

LEMMA InitMode == Init => ModeInv
<1> SUFFICES ASSUME Init PROVE ModeInv
  OBVIOUS
<1>1. reports \in Seq((Written \ ModeSwitches) \X Int)
  <2>1. reports = <<>>
    BY DEF Init
  <2>2. \A S : <<>> \in Seq(S)
    OBVIOUS
  <2> QED
    BY <2>1, <2>2
<1>2. State = 0 /\ pc = "poll" /\ next = 1
  BY DEF Init, Atomic!Init
<1> QED
  BY <1>1, <1>2
  DEF ModeInv, InMode, ChargerInMode, FeedingInMode, Writing, DischargeState, ChargeStates

(* What is sent at each place of the order. *)
LEMMA OrderOfModes ==
    /\ WriteOrder[2] = "Charger_allowed" /\ WriteOrder[3] = "Grid_Feeding_allowed"
    /\ WriteOrder[7] = "Battery_Charge_current_DC" /\ WriteOrder[9] = "Force_floating"
    /\ \A n \in 1..10 : /\ WriteOrder[n] = "Charger_allowed" => n = 2
                        /\ WriteOrder[n] = "Grid_Feeding_allowed" => n = 3
                        /\ WriteOrder[n] = "Battery_Charge_current_DC" => n = 7
                        /\ WriteOrder[n] = "Force_floating" => n = 9
BY DEF WriteOrder

LEMMA SwitchesAreSetpoints ==
    ModeSwitches \subseteq (Written \cap Switches \cap Param) \ Measures
BY DEF ModeSwitches, Written, Switches, Param, Setpoints, Measures

LEMMA OutsideMode ==
    ASSUME Types, ModeInv, Reported \cap ModeSwitches = {},
           \/ \E i \in Meters : \E power \in MeterReadings[i] : MeterArrives(i, power)
           \/ \E p \in Measures : \E data \in Readings[p] : ParamArrives(p, data)
           \/ \E p \in Reported : ReportSetpoint(p)
           \/ ReportArrives \/ ConnLost \/ Alarm
    PROVE  ModeInv'
<1> DEFINE S == (Written \ ModeSwitches) \X Int
<1>1. reports' \in Seq(S)
  <2>1. CASE \E p \in Reported : ReportSetpoint(p)
    <3> PICK p \in Reported : ReportSetpoint(p)
      BY <2>1
    <3>1. <<p, inverter[p]>> \in S
      BY ThreadAssumption DEF ReportSetpoint
    <3> QED
      BY <3>1, OneMore DEF ReportSetpoint, ModeInv
  <2>2. CASE ReportArrives
    BY <2>2, OneLess DEF ReportArrives, ModeInv
  <2>3. CASE UNCHANGED reports
    BY <2>3 DEF ModeInv
  <2> QED
    BY <2>1, <2>2, <2>3
    DEF MeterArrives, ParamArrives, ConnLost, Alarm, inputs
<1>2. \A p \in ModeSwitches : Value'[p] = Value[p]
  <2>1. CASE \E p \in Measures : \E data \in Readings[p] : ParamArrives(p, data)
    BY <2>1, SwitchesAreSetpoints DEF ParamArrives, Store, Types, ValueOK
  <2>2. CASE ReportArrives
    <3>1. Head(reports) \in S
      BY <2>2, OneLess DEF ReportArrives, ModeInv
    <3>2. Head(reports)[1] \notin ModeSwitches
      BY <3>1
    <3> QED
      BY <2>2, <3>2, SwitchesAreSetpoints DEF ReportArrives, Store, Types, ValueOK
  <2>3. CASE UNCHANGED Value
    BY <2>3
  <2> QED
    BY <2>1, <2>2, <2>3
    DEF MeterArrives, ReportSetpoint, ConnLost, Alarm
<1>3. UNCHANGED <<State, inverter, pc, next>>
  BY DEF MeterArrives, ParamArrives, ReportSetpoint, ReportArrives, Store, ConnLost, Alarm
<1>4. connected' => connected
  BY DEF MeterArrives, ParamArrives, ReportSetpoint, ReportArrives, Store, ConnLost,
         Alarm, inputs
<1> QED
  BY <1>1, <1>2, <1>3, <1>4
  DEF ModeInv, InMode, ChargerInMode, FeedingInMode, Writing, Polling, ModeSwitches

(* A write leaves a switch in its mode, or brings it there. *)
LEMMA SendMode ==
    ASSUME Types, InMode(Value), connected, NEW p \in Written, Send(p), UNCHANGED State
    PROVE  /\ p = "Charger_allowed" \/ ChargerInMode(inverter) => ChargerInMode(inverter)'
           /\ p = "Grid_Feeding_allowed" \/ FeedingInMode(inverter)
                => FeedingInMode(inverter)'
<1>1. \A q \in ModeSwitches :
        inverter'[q] = IF p = q THEN IF Value[q] = 1 THEN 1 ELSE 0 ELSE inverter[q]
  BY SwitchesAreSetpoints DEF Send, Command, Types
<1> QED
  BY <1>1 DEF InMode, ChargerInMode, FeedingInMode, ModeSwitches

LEMMA FlagsInMode ==
    ASSUME Types, SetFlags PROVE InMode(Value)'
<1>1. \A v : /\ DischargeFlags(v)["Charger_allowed"] = 0
             /\ DischargeFlags(v)["Grid_Feeding_allowed"] = 1
             /\ ChargeFlags(v)["Charger_allowed"] = 1
             /\ ChargeFlags(v)["Grid_Feeding_allowed"] = 0
  BY SwitchesAreSetpoints DEF DischargeFlags, ChargeFlags, ModeSwitches
<1> QED
  BY <1>1
  DEF SetFlags, InMode, ChargerInMode, FeedingInMode, DischargeState, ChargeStates

LEMMA MainMode == ASSUME Types, ModeInv, Main PROVE ModeInv'
<1> USE DEF Writing, Polling
<1>1. CASE Poll \/ Begin \/ Calculs_p_k \/ TakeDecision
  <2>1. UNCHANGED <<reports, next, connected, inverter>> /\ ~Writing /\ ~Writing'
    BY <1>1 DEF Poll, Begin, Calculs_p_k, TakeDecision, Goto, inputs
  <2>2. /\ pc' \in {"begin", "calculs", "flags"}
        /\ pc' = "begin" => pc = "poll" /\ UNCHANGED State
    BY <1>1 DEF Poll, Begin, Calculs_p_k, TakeDecision, Goto
  <2> QED
    BY <2>1, <2>2 DEF ModeInv, InMode, ChargerInMode, FeedingInMode
<1>2. CASE SetFlags
  <2>1. InMode(Value)'
    BY <1>2, FlagsInMode
  <2>2. UNCHANGED <<reports, next, connected, inverter>> /\ ~Writing
        /\ pc' \in {"currents", "write", "decide"}
    BY <1>2 DEF SetFlags, Goto, inputs, Managed
  <2> QED
    BY <2>1, <2>2 DEF ModeInv
<1>3. CASE SetCurrents \/ CutToCeiling
  <2>1. \A p \in ModeSwitches : Value'[p] = Value[p]
    BY <1>3, CurrentWritten, SwitchesAreSetpoints
    DEF SetCurrents, CutToCeiling, Types, ValueOK, ModeSwitches
  <2>2. /\ UNCHANGED <<reports, next, connected, inverter, State>> /\ ~Writing
        /\ pc \in {"currents", "ceiling"} /\ pc' \in {"ceiling", "write", "decide"}
    BY <1>3 DEF SetCurrents, CutToCeiling, Goto, inputs, Managed
  <2> QED
    BY <2>1, <2>2 DEF ModeInv, InMode, ChargerInMode, FeedingInMode, ModeSwitches
<1>4. CASE Write
  <2>1. next \in 1..10 /\ pc = "write" /\ WriteOrder[next] # "Force_floating"
        /\ UNCHANGED <<Value, State, reports, connected>>
    BY <1>4 DEF Write, inputs, Types
  <2>2. InMode(Value)
    BY <2>1 DEF ModeInv
  <2>3. connected => /\ next > 1 => ChargerInMode(inverter)'
                     /\ next > 2 => FeedingInMode(inverter)'
    <3> SUFFICES ASSUME connected
                 PROVE  /\ next > 1 => ChargerInMode(inverter)'
                        /\ next > 2 => FeedingInMode(inverter)'
      OBVIOUS
    <3>1. Send(WriteOrder[next]) /\ WriteOrder[next] \in Written
      BY <1>4, <2>1, OrderWritten DEF Write
    <3>2. /\ WriteOrder[next] = "Charger_allowed" \/ ChargerInMode(inverter)
                => ChargerInMode(inverter)'
          /\ WriteOrder[next] = "Grid_Feeding_allowed" \/ FeedingInMode(inverter)
                => FeedingInMode(inverter)'
      BY <2>1, <2>2, <3>1, SendMode
    <3>3. /\ next = 2 => WriteOrder[next] = "Charger_allowed"
          /\ next = 3 => WriteOrder[next] = "Grid_Feeding_allowed"
      BY OrderOfModes
    <3>4. /\ next > 2 => ChargerInMode(inverter)
          /\ next > 3 => FeedingInMode(inverter)
      BY <2>1 DEF ModeInv
    <3> QED
      BY <2>1, <3>2, <3>3, <3>4
  <2>4. \/ next < 10 /\ pc' = "write" /\ next' = next + 1
        \/ next = 10 /\ pc' = "poll" /\ next' = 1
    BY <1>4, AdvanceCases DEF Write
  <2>5. InMode(Value)'
    BY <2>1, <2>2 DEF InMode, ChargerInMode, FeedingInMode
  <2> QED
    BY <2>1, <2>3, <2>4, <2>5 DEF ModeInv, InMode
<1>5. CASE TestForce \/ SendForce \/ ClearForce
  <2>1. next = 9 /\ Writing /\ UNCHANGED <<State, reports, connected>>
    BY <1>5, OrderOfModes DEF TestForce, SendForce, ClearForce, Goto, inputs, ModeInv, Types
  <2>2. \A p \in ModeSwitches : Value'[p] = Value[p] /\ inverter'[p] = inverter[p]
    BY <1>5, SwitchesAreSetpoints
    DEF TestForce, SendForce, ClearForce, Send, Types, ValueOK, ModeSwitches
  <2>3. \/ pc' = "write" /\ next' = 10
        \/ pc' \in {"force", "release"} /\ next' = 9
    BY <1>5, <2>1, AdvanceCases DEF TestForce, SendForce, ClearForce, Goto
  <2> QED
    BY <2>1, <2>2, <2>3 DEF ModeInv, InMode, ChargerInMode, FeedingInMode, ModeSwitches
<1> QED
  BY <1>1, <1>2, <1>3, <1>4, <1>5 DEF Main

LEMMA NextMode ==
    ASSUME Types, ModeInv, Reported \cap ModeSwitches = {}, [Next]_vars PROVE ModeInv'
<1>1. CASE Main
  BY <1>1, MainMode
<1>2. CASE UNCHANGED vars
  BY <1>2
  DEF vars, inputs, ModeInv, InMode, ChargerInMode, FeedingInMode, Writing, Polling
<1>3. CASE Next /\ ~Main
  BY <1>3, OutsideMode DEF Next
<1> QED
  BY <1>1, <1>2, <1>3

(* Unless the gateway reports them, no interleaving with the messages sends a *)
(* switch that contradicts STATE: between two cycles the inverter is in one   *)
(* mode.                                                                     *)
THEOREM Mode ==
    ASSUME Reported \cap ModeSwitches = {} PROVE Spec => []ModeMatchesState
<1>1. Types /\ ModeInv /\ [Next]_vars => ModeInv'
  BY NextMode
<1>2. ModeInv => ModeMatchesState
  BY DEF ModeInv, InMode, ChargerInMode, FeedingInMode, ModeMatchesState, AtRest,
         Charging, Injecting
<1>3. Spec => []Types
  BY InitTypes, NextTypes, PTL DEF Spec
<1> QED
  BY <1>1, <1>2, <1>3, InitMode, PTL DEF Spec

(* The one step that lets the inverter feed the grid is the third write. *)
LEMMA FeedingIsThird ==
    ASSUME Types, [Next]_vars, ~Injecting, Injecting'
    PROVE  /\ pc = "write" /\ next = 3 /\ connected
           /\ Value["Grid_Feeding_allowed"] = 1
<1>1. inverter' # inverter
  BY DEF Injecting
<1>2. Write \/ SendForce
  BY <1>1 DEF Next, Main, MeterArrives, ParamArrives, ReportSetpoint, ReportArrives, Store,
              ConnLost, Alarm, Poll, Begin, Calculs_p_k, SetFlags, SetCurrents,
              CutToCeiling, TakeDecision, TestForce, ClearForce, vars
<1>3. "Force_floating" # "Grid_Feeding_allowed" /\ "Grid_Feeding_allowed" \in Written
      /\ "Grid_Feeding_allowed" \in Switches
  BY DEF Written, Switches
<1>4. ~SendForce
  BY <1>3 DEF SendForce, Send, Injecting, Types
<1>5. next \in 1..10 /\ Write
  BY <1>2, <1>4 DEF Types
<1>6. WriteOrder[next] = "Grid_Feeding_allowed" /\ connected
      /\ Value["Grid_Feeding_allowed"] = 1
  <2> DEFINE sent == WriteOrder[next]
  <2>1. connected /\ inverter' = [inverter EXCEPT ![sent] = Command(sent, Value[sent])]
    BY <1>1, <1>5 DEF Write, Send
  <2> HIDE DEF sent
  <2>2. inverter'["Grid_Feeding_allowed"] = 1 /\ inverter["Grid_Feeding_allowed"] # 1
    BY DEF Injecting
  <2>3. sent = "Grid_Feeding_allowed"
    BY <1>3, <2>1, <2>2 DEF Types
  <2>4. Command(sent, Value[sent]) = 1
    BY <1>3, <2>1, <2>2, <2>3 DEF Types
  <2> QED
    BY <1>3, <2>1, <2>3, <2>4 DEF Command, sent
<1> QED
  BY <1>5, <1>6, OrderOfModes DEF Write

(* Changing over from charging to injecting, the charger is off before the    *)
(* grid feeding is on, wherever a message or a loss of the connection falls.  *)
THEOREM ChargerOffFirst ==
    ASSUME Reported \cap ModeSwitches = {}
    PROVE  Spec => InjectionNeverStartsWhileCharging
<1>1. Types /\ ModeInv /\ [Next]_vars
        => [State # 0 /\ ~Injecting /\ Injecting' => ~Charging]_vars
  <2> SUFFICES ASSUME Types, ModeInv, [Next]_vars, State # 0, ~Injecting, Injecting'
               PROVE  ~Charging
    OBVIOUS
  <2>1. /\ pc = "write" /\ next = 3 /\ connected /\ Value["Grid_Feeding_allowed"] = 1
    BY FeedingIsThird
  <2>2. FeedingInMode(Value) /\ ChargerInMode(inverter)
    BY <2>1 DEF ModeInv, InMode, Writing
  <2>3. State = DischargeState \/ State \in ChargeStates
    BY DEF Types, DischargeState, ChargeStates
  <2>4. State = DischargeState
    BY <2>1, <2>2, <2>3 DEF FeedingInMode
  <2> QED
    BY <2>2, <2>4 DEF ChargerInMode, Charging
<1>2. Types /\ ModeInv /\ [Next]_vars => ModeInv'
  BY NextMode
<1>3. Spec => []Types
  BY InitTypes, NextTypes, PTL DEF Spec
<1> QED
  BY <1>1, <1>2, <1>3, InitMode, PTL DEF Spec, InjectionNeverStartsWhileCharging

-----------------------------------------------------------------------------
(* The battery.  A full one is asked for no power, so the current computed    *)
(* for it is none, whatever the battery's voltage and limit are by then, and  *)
(* neither the breakers nor the writes add to it.                            *)
Keeping == State \in ChargeStates /\ Full(SOC)

NoCurrent(v) == ~Gt(v["Battery_Charge_current_DC"], 0)

BatteryInv ==
    /\ reports \in Seq((Written \ {"Battery_Charge_current_DC"}) \X Int)
    /\ ~Writing => next = 1
    /\ pc \in {"force", "release"} => next = 9
    /\ Keeping /\ second /\ (pc = "ceiling" \/ Writing) => NoCurrent(Value)
    /\ Keeping /\ connected /\ Writing /\ next > 7 => NoCurrent(inverter)
    /\ Keeping /\ connected /\ Polling => NoCurrent(inverter)

LEMMA InitBattery == Init => BatteryInv
<1> SUFFICES ASSUME Init PROVE BatteryInv
  OBVIOUS
<1>1. reports \in Seq((Written \ {"Battery_Charge_current_DC"}) \X Int)
  <2>1. reports = <<>>
    BY DEF Init
  <2>2. \A S : <<>> \in Seq(S)
    OBVIOUS
  <2> QED
    BY <2>1, <2>2
<1>2. State = 0 /\ pc = "poll" /\ next = 1
  BY DEF Init, Atomic!Init
<1> QED
  BY <1>1, <1>2 DEF BatteryInv, Keeping, Writing, ChargeStates

LEMMA OutsideBattery ==
    ASSUME Types, BatteryInv, "Battery_Charge_current_DC" \notin Reported,
           \/ \E i \in Meters : \E power \in MeterReadings[i] : MeterArrives(i, power)
           \/ \E p \in Measures : \E data \in Readings[p] : ParamArrives(p, data)
           \/ \E p \in Reported : ReportSetpoint(p)
           \/ ReportArrives \/ ConnLost \/ Alarm
    PROVE  BatteryInv'
<1> DEFINE S == (Written \ {"Battery_Charge_current_DC"}) \X Int
<1>1. reports' \in Seq(S)
  <2>1. CASE \E p \in Reported : ReportSetpoint(p)
    <3> PICK p \in Reported : ReportSetpoint(p)
      BY <2>1
    <3>1. <<p, inverter[p]>> \in S
      BY ThreadAssumption DEF ReportSetpoint
    <3> QED
      BY <3>1, OneMore DEF ReportSetpoint, BatteryInv
  <2>2. CASE ReportArrives
    BY <2>2, OneLess DEF ReportArrives, BatteryInv
  <2>3. CASE UNCHANGED reports
    BY <2>3 DEF BatteryInv
  <2> QED
    BY <2>1, <2>2, <2>3 DEF MeterArrives, ParamArrives, ConnLost, Alarm, inputs
<1>2. Value'["Battery_Charge_current_DC"] = Value["Battery_Charge_current_DC"]
  <2>1. CASE \E p \in Measures : \E data \in Readings[p] : ParamArrives(p, data)
    BY <2>1, CurrentsAreSetpoints DEF ParamArrives, Store, Types, ValueOK
  <2>2. CASE ReportArrives
    <3>1. Head(reports) \in S
      BY <2>2, OneLess DEF ReportArrives, BatteryInv
    <3>2. Head(reports)[1] # "Battery_Charge_current_DC"
      BY <3>1
    <3> QED
      BY <2>2, <3>2, CurrentsAreSetpoints DEF ReportArrives, Store, Types, ValueOK
  <2>3. CASE UNCHANGED Value
    BY <2>3
  <2> QED
    BY <2>1, <2>2, <2>3 DEF MeterArrives, ReportSetpoint, ConnLost, Alarm
<1>3. UNCHANGED <<State, SOC, inverter, pc, next, second>>
  BY DEF MeterArrives, ParamArrives, ReportSetpoint, ReportArrives, Store, ConnLost,
         Alarm, balance
<1>4. connected' => connected
  BY DEF MeterArrives, ParamArrives, ReportSetpoint, ReportArrives, Store, ConnLost,
         Alarm, inputs
<1> QED
  BY <1>1, <1>2, <1>3, <1>4 DEF BatteryInv, Keeping, NoCurrent, Writing, Polling

LEMMA MainBattery == ASSUME Types, DecisionInv, BatteryInv, Main PROVE BatteryInv'
<1> USE DEF Writing, Polling
<1>1. CASE Poll \/ Begin \/ Calculs_p_k \/ SetFlags \/ TakeDecision
  <2>1. UNCHANGED <<reports, next, connected, inverter>> /\ ~Writing
    BY <1>1 DEF Poll, Begin, Calculs_p_k, SetFlags, TakeDecision, Goto, inputs
  <2>2. \/ pc' = "begin" /\ pc = "poll" /\ UNCHANGED <<State, SOC>>
        \/ pc' \in {"calculs", "flags", "currents", "decide"}
        \/ pc' = "write" /\ State' = 0
    BY <1>1, ManagedPlace
    DEF Poll, Begin, Calculs_p_k, SetFlags, TakeDecision, Goto, balance
  <2> QED
    BY <2>1, <2>2 DEF BatteryInv, Keeping, ChargeStates
<1>2. CASE SetCurrents
  <2>1. /\ UNCHANGED <<reports, next, connected, inverter, State, SOC, Ps, second>>
        /\ pc = "currents" /\ pc' = "ceiling"
    BY <1>2 DEF SetCurrents, Goto, inputs, balance
  <2>2. Keeping /\ second => NoCurrent(Value')
    <3> SUFFICES ASSUME Keeping, second PROVE NoCurrent(Value')
      OBVIOUS
    <3>1. Ps = 0 /\ State # DischargeState
      BY DEF DecisionInv, Decided, Keeping, ChargeStates, DischargeState
    <3>2. Value'["Battery_Charge_current_DC"] = ChargeDemand(0, Value)
      BY <1>2, <3>1, CurrentsAreSetpoints DEF SetCurrents, Current, Types, ValueOK
    <3> QED
      BY <3>2, NoPowerNoCurrent DEF NoCurrent, Types
  <2> QED
    BY <2>1, <2>2 DEF BatteryInv, Keeping
<1>3. CASE CutToCeiling
  <2>1. /\ UNCHANGED <<reports, next, connected, inverter, State, SOC, second>>
        /\ pc = "ceiling" /\ pc' \in {"write", "decide"}
    BY <1>3, ManagedPlace DEF CutToCeiling, Goto, inputs, balance
  <2>2. Keeping /\ NoCurrent(Value) => NoCurrent(Value')
    <3> SUFFICES ASSUME Keeping, NoCurrent(Value) PROVE NoCurrent(Value')
      OBVIOUS
    <3>1. State # DischargeState /\ Current = "Battery_Charge_current_DC"
      BY DEF Keeping, ChargeStates, DischargeState, Current
    <3>2. Value'["Battery_Charge_current_DC"]
            = WithinBreakers(Value["Battery_Charge_current_DC"])
      BY <1>3, <3>1, CurrentsAreSetpoints DEF CutToCeiling, Types, ValueOK
    <3>3. Value["Battery_Charge_current_DC"] \in Float
      BY CurrentsAreSetpoints DEF Types, ValueOK
    <3> QED
      BY <3>2, <3>3, NoDemandNoCurrent DEF NoCurrent
  <2>3. next = 1
    BY <2>1 DEF BatteryInv
  <2> QED
    BY <2>1, <2>2, <2>3 DEF BatteryInv, Keeping
<1>4. CASE Write
  <2>1. next \in 1..10 /\ pc = "write" /\ second
        /\ UNCHANGED <<Value, State, SOC, reports, connected>>
    BY <1>4 DEF Write, inputs, balance, Types, DecisionInv
  <2>2. Keeping /\ connected /\ next > 6 => NoCurrent(inverter')
    <3>1. Keeping => NoCurrent(Value)
      BY <2>1 DEF BatteryInv
    <3>2. connected => inverter'["Battery_Charge_current_DC"]
                          = IF next = 7 THEN Value["Battery_Charge_current_DC"]
                            ELSE inverter["Battery_Charge_current_DC"]
      BY <1>4, <2>1, OrderOfModes, CurrentsAreSetpoints, OrderWritten
      DEF Write, Send, Command, Types
    <3>3. Keeping /\ connected /\ next > 7 => NoCurrent(inverter)
      BY <2>1 DEF BatteryInv
    <3> QED
      BY <2>1, <3>1, <3>2, <3>3 DEF NoCurrent
  <2>3. \/ next < 10 /\ pc' = "write" /\ next' = next + 1
        \/ next = 10 /\ pc' = "poll" /\ next' = 1
    BY <1>4, AdvanceCases DEF Write
  <2>4. Keeping => NoCurrent(Value)
    BY <2>1 DEF BatteryInv
  <2> QED
    BY <2>1, <2>2, <2>3, <2>4 DEF BatteryInv, Keeping
<1>5. CASE TestForce \/ SendForce \/ ClearForce
  <2>1. next = 9 /\ Writing /\ second /\ UNCHANGED <<State, SOC, reports, connected>>
    BY <1>5, OrderOfModes
    DEF TestForce, SendForce, ClearForce, Goto, inputs, balance, BatteryInv, Types,
        DecisionInv
  <2>2. /\ Value'["Battery_Charge_current_DC"] = Value["Battery_Charge_current_DC"]
        /\ inverter'["Battery_Charge_current_DC"] = inverter["Battery_Charge_current_DC"]
    BY <1>5, CurrentsAreSetpoints
    DEF TestForce, SendForce, ClearForce, Send, Types, ValueOK
  <2>3. \/ pc' = "write" /\ next' = 10
        \/ pc' \in {"force", "release"} /\ next' = 9
    <3>1. CASE SendForce
      BY <2>1, <3>1 DEF SendForce, Goto
    <3>2. CASE UNCHANGED next /\ pc' = "force"
      BY <2>1, <3>2
    <3>3. CASE Advance("write")
      BY <2>1, <3>3, AdvanceCases
    <3> QED
      BY <1>5, <3>1, <3>2, <3>3 DEF TestForce, ClearForce
  <2> QED
    BY <2>1, <2>2, <2>3 DEF BatteryInv, Keeping, NoCurrent
<1> QED
  BY <1>1, <1>2, <1>3, <1>4, <1>5 DEF Main

(* Whatever the state of charge and the balance become while a cycle runs, it *)
(* ends with an inverter that spares the battery the cycle has read.          *)
THEOREM BatterySpared ==
    ASSUME Reported \cap ModeSwitches = {}, "Battery_Charge_current_DC" \notin Reported
    PROVE  Spec => []BatteryProtected
<1>1. Types /\ DecisionInv /\ BatteryInv /\ [Next]_vars => BatteryInv'
  <2> SUFFICES ASSUME Types, DecisionInv, BatteryInv, [Next]_vars PROVE BatteryInv'
    OBVIOUS
  <2>1. CASE Main
    BY <2>1, MainBattery
  <2>2. CASE UNCHANGED vars
    BY <2>2
    DEF vars, inputs, balance, BatteryInv, Keeping, NoCurrent, Writing, Polling
  <2>3. CASE Next /\ ~Main
    BY <2>3, OutsideBattery DEF Next
  <2> QED
    BY <2>1, <2>2, <2>3
<1>2. Types /\ DecisionInv /\ BatteryInv /\ ModeMatchesState => BatteryProtected
  <2> SUFFICES ASSUME Types, DecisionInv, BatteryInv, ModeMatchesState, AtRest, State # 0
               PROVE  /\ Injecting => ~Empty(SOC)
                      /\ Charging /\ Full(SOC) =>
                            ~Gt(inverter["Battery_Charge_current_DC"], 0)
    BY DEF BatteryProtected
  <2>1. State = DischargeState \/ State \in ChargeStates
    BY DEF Types, DischargeState, ChargeStates
  <2>2. Polling /\ connected
    BY DEF AtRest
  <2> QED
    BY <2>1, <2>2
    DEF DecisionInv, Decided, BatteryInv, Keeping, NoCurrent, ModeMatchesState, AtRest
<1> QED
  BY <1>1, <1>2, InitBattery, DecisionHolds, Mode, PTL DEF Spec

-----------------------------------------------------------------------------
(* The refinement, for any readings and presets. *)

(* State_management in the three steps of RegulThreads. *)
Flagged(state, v) ==
    IF state = DischargeState THEN DischargeFlags(v) ELSE ChargeFlags(v)

CurrentOf(state) ==
    IF state = DischargeState THEN "Max_Grid_Feeding_current"
    ELSE "Battery_Charge_current_DC"

DemandOf(state, v, P) ==
    IF state = DischargeState THEN FeedingDemand(P, v) ELSE ChargeDemand(P, v)

CutOf(state, x) ==
    IF state = DischargeState THEN CapAt(x, AcLimit) ELSE WithinBreakers(x)

Demanded(state, v, P) ==
    [Flagged(state, v) EXCEPT
        ![CurrentOf(state)] = DemandOf(state, v, P),
        !["MAX_current_of_AC_IN"] = AcInputCurrent(v)]

Cut(state, v) == [v EXCEPT ![CurrentOf(state)] = CutOf(state, @)]

LEMMA FlagsKeepMeasures ==
    ASSUME NEW state, NEW v
    PROVE  \A p \in Measures : Flagged(state, v)[p] = v[p]
BY DEF Flagged, DischargeFlags, ChargeFlags, Param, Measures

LEMMA DemandOfMeasures ==
    ASSUME NEW state, NEW P, NEW v, NEW w, \A p \in Measures : v[p] = w[p]
    PROVE  DemandOf(state, v, P) = DemandOf(state, w, P)
           /\ AcInputCurrent(v) = AcInputCurrent(w)
<1>1. /\ v["i_Battery_Current_Discharge_limit"] = w["i_Battery_Current_Discharge_limit"]
      /\ v["i_Battery_Current_Charge_limit"] = w["i_Battery_Current_Charge_limit"]
      /\ v["i_Battery_Voltage"] = w["i_Battery_Voltage"]
      /\ v["i_Input_voltage_AC_IN"] = w["i_Input_voltage_AC_IN"]
  BY DEF Measures
<1> QED
  BY <1>1 DEF DemandOf, FeedingDemand, ChargeDemand, InjectionCap, WithinChargeLimit,
              AcInputCurrent

LEMMA ManagedInSteps ==
    ASSUME NEW state \in 1..5, NEW v, NEW P
    PROVE  State_management(state, v, P) = Cut(state, Demanded(state, v, P))
<1> DEFINE m == State_management(state, v, P)
           d == Demanded(state, v, P)
           f == Flagged(state, v)
<1>1. CurrentOf(state) \in Param /\ "MAX_current_of_AC_IN" \in Param
      /\ CurrentOf(state) # "MAX_current_of_AC_IN"
  BY DEF CurrentOf, Param, Setpoints, Written
<1>2. f = [p \in Param |-> f[p]]
  BY DEF Flagged, DischargeFlags, ChargeFlags
<1>3. m = [f EXCEPT ![CurrentOf(state)] = CutOf(state, DemandOf(state, v, P)),
                    !["MAX_current_of_AC_IN"] = AcInputCurrent(v)]
  <2>1. CASE state = DischargeState
    BY <2>1 DEF State_management, Discharge, Flagged, CurrentOf, CutOf, DemandOf,
                GridFeedingCurrent
  <2>2. CASE state \in ChargeStates /\ state # DischargeState
    BY <2>2 DEF State_management, Charge, Flagged, CurrentOf, CutOf, DemandOf,
                ChargeCurrent
  <2> QED
    BY <2>1, <2>2 DEF DischargeState, ChargeStates
<1>4. d[CurrentOf(state)] = DemandOf(state, v, P)
  BY <1>1, <1>2 DEF Demanded
<1> HIDE DEF m, f
<1>5. d = [f EXCEPT ![CurrentOf(state)] = DemandOf(state, v, P),
                    !["MAX_current_of_AC_IN"] = AcInputCurrent(v)]
  BY DEF Demanded, f
<1> HIDE DEF d
<1>6. DOMAIN m = Param /\ m = [p \in Param |-> m[p]]
  BY <1>2, <1>3
<1>7. DOMAIN d = Param /\ d = [p \in Param |-> d[p]]
  BY <1>2, <1>5
<1>8. \A p \in Param :
         m[p] = IF p = CurrentOf(state) THEN CutOf(state, d[p]) ELSE d[p]
  BY <1>1, <1>2, <1>3, <1>4, <1>5
<1>9. Cut(state, d) = [p \in Param |-> IF p = CurrentOf(state) THEN CutOf(state, d[p])
                                                              ELSE d[p]]
  BY <1>1, <1>7 DEF Cut
<1> QED
  BY <1>6, <1>8, <1>9 DEF m, d

(* The three steps of the main thread are these operators. *)
LEMMA StepsAreThese ==
    ASSUME Types
    PROVE  /\ SetFlags => \/ State = 0 /\ pc' = Managed /\ UNCHANGED Value
                          \/ State # 0 /\ pc' = "currents" /\ Value' = Flagged(State, Value)
           /\ CutToCeiling => pc' = Managed /\ Value' = Cut(State, Value)
           /\ \A v : SetCurrents /\ Value = Flagged(State, v)
                        => pc' = "ceiling" /\ Value' = Demanded(State, v, Ps)
<1>1. State \in 0..5
  BY DEF Types
<1>2. SetFlags => \/ State = 0 /\ pc' = Managed /\ UNCHANGED Value
                  \/ State # 0 /\ pc' = "currents" /\ Value' = Flagged(State, Value)
  BY <1>1 DEF SetFlags, Goto, Flagged, DischargeState, ChargeStates
<1>3. CutToCeiling => pc' = Managed /\ Value' = Cut(State, Value)
  BY DEF CutToCeiling, Goto, Cut, CutOf, CurrentOf, Current
<1>4. ASSUME NEW v, SetCurrents, Value = Flagged(State, v)
      PROVE  pc' = "ceiling" /\ Value' = Demanded(State, v, Ps)
  <2>1. DemandOf(State, Value, Ps) = DemandOf(State, v, Ps)
        /\ AcInputCurrent(Value) = AcInputCurrent(v)
    BY <1>4, FlagsKeepMeasures, DemandOfMeasures
  <2>2. Value' = [Value EXCEPT ![CurrentOf(State)] = DemandOf(State, Value, Ps),
                               !["MAX_current_of_AC_IN"] = AcInputCurrent(Value)]
    BY <1>4 DEF SetCurrents, CurrentOf, Current, DemandOf
  <2> QED
    BY <1>4, <2>1, <2>2 DEF SetCurrents, Goto, Demanded
<1> QED
  BY <1>2, <1>3, <1>4

-----------------------------------------------------------------------------
(* What a running cycle has computed, from what it started with. *)
Balance == Ppv - Pl
Level   == start.Value["i_soc_value_battery"]
Choice  == Decide(Balance, Balance, Level, start.State)
Former  == State_management(start.State, start.Value, Balance)
Source  == IF second THEN Former ELSE start.Value
Outcome == State_management(State, Source, Ps)

AfterForce(v) == [v EXCEPT !["Force_floating"] = IF @ = 1 THEN 0 ELSE @]

SentOf(p) == IF p = "Force_floating" /\ Outcome[p] # 1 THEN start.inverter[p]
             ELSE Command(p, Outcome[p])

(* The writes that have been made. *)
Done(n) == n < next \/ (pc = "release" /\ n = 9)

Started ==
    /\ ValueOK(start.Value)
    /\ start.State \in 0..5
    /\ start.inverter \in [Written -> Float]

Balanced ==
    /\ Eb = Balance /\ Pb = Balance /\ SOC = Level
    /\ second => State = Choice.state /\ Ps = Choice.Ps
                 /\ Pr = Saturate(Balance, Choice.Pr)
    /\ ~second => State = start.State /\ Ps = Balance

Managing ==
    /\ pc = "flags" => Value = Source
    /\ pc = "currents" => State # 0 /\ Value = Flagged(State, Source)
    /\ pc = "ceiling" => State # 0 /\ Value = Demanded(State, Source, Ps)
    /\ pc = "decide" => ~second /\ Value = Outcome
    /\ Writing => Value = IF next < 10 THEN Outcome ELSE AfterForce(Outcome)
    /\ pc \in {"force", "release"} => Value["Force_floating"] = 1

Sending ==
    /\ ~Polling /\ ~Writing => inverter = start.inverter
    /\ Writing => \A n \in 1..10 :
          inverter[WriteOrder[n]] = IF Done(n) THEN SentOf(WriteOrder[n])
                                    ELSE start.inverter[WriteOrder[n]]

CycleInv ==
    /\ connected /\ reports = <<>>
    /\ ~Polling => Started
    /\ pc = "calculs" => start = Here
    /\ ~Polling /\ pc # "calculs" => Balanced
    /\ Managing
    /\ Sending

(* What the invariant is about stays while its sources do. *)
LEMMA Unmoved ==
    ASSUME UNCHANGED <<State, Ps, second, Ppv, Pl, start>>
    PROVE  /\ UNCHANGED <<Balance, Level, Choice, Former, Source, Outcome>>
           /\ \A p : SentOf(p)' = SentOf(p)
BY DEF Balance, Level, Choice, Former, Source, Outcome, SentOf

LEMMA HereFields ==
    /\ Here.Value = Value /\ Here.State = State /\ Here.Eb = Eb /\ Here.Pb = Pb
    /\ Here.SOC = SOC /\ Here.Ps = Ps /\ Here.Pr = Pr /\ Here.inverter = inverter
BY DEF Here

LEMMA Orders ==
    /\ \A p \in Written : \E n \in 1..10 : WriteOrder[n] = p
    /\ \A m, n \in 1..10 : WriteOrder[m] = WriteOrder[n] => m = n
BY DEF WriteOrder, Written

(* Nothing but the timer happens while a quiet cycle runs. *)
LEMMA OutsideQuiet ==
    ASSUME Types, CycleInv, Quiet, Reported = {}, ~MayLose,
           \/ \E i \in Meters : \E power \in MeterReadings[i] : MeterArrives(i, power)
           \/ \E p \in Measures : \E data \in Readings[p] : ParamArrives(p, data)
           \/ \E p \in Reported : ReportSetpoint(p)
           \/ ReportArrives \/ ConnLost \/ Alarm
    PROVE  \/ /\ Polling
              /\ \/ \E i \in Meters : \E power \in MeterReadings[i] : MeterArrives(i, power)
                 \/ \E p \in Measures : \E data \in Readings[p] : ParamArrives(p, data)
           \/ Alarm
BY DEF MeterArrives, ParamArrives, ReportSetpoint, ReportArrives, Store, ConnLost,
       MayArrive, CycleInv

LEMMA QuietKeepsCycle ==
    ASSUME CycleInv, UNCHANGED <<connected, reports, pc>>, UNCHANGED start,
           Polling \/ UNCHANGED <<Value, State, balance, inverter, Ppv, Pl, second, next>>
    PROVE  CycleInv'
<1>1. CASE Polling
  BY <1>1 DEF Polling, CycleInv, Managing, Sending, Writing
<1>2. CASE UNCHANGED <<Value, State, balance, inverter, Ppv, Pl, second, next>>
  <2>1. /\ UNCHANGED <<Balance, Level, Choice, Former, Source, Outcome>>
        /\ \A p : SentOf(p)' = SentOf(p)
    BY <1>2, Unmoved DEF balance
  <2>2. UNCHANGED Here
    BY <1>2 DEF Here, balance
  <2>3. Started' <=> Started
    BY DEF Started
  <2>4. Balanced' <=> Balanced
    BY <1>2, <2>1 DEF Balanced, balance
  <2>5. Managing' <=> Managing
    BY <1>2, <2>1 DEF Managing, Writing, balance
  <2>6. Sending' <=> Sending
    BY <1>2, <2>1 DEF Sending, Writing, Polling, Done
  <2> QED
    BY <1>2, <2>2, <2>3, <2>4, <2>5, <2>6 DEF CycleInv, Polling
<1> QED
  BY <1>1, <1>2

LEMMA PollCycle ==
    ASSUME CycleInv, UNCHANGED <<connected, reports>>, Polling' PROVE CycleInv'
BY DEF CycleInv, Managing, Sending, Writing, Polling

LEMMA BeginCycle ==
    ASSUME Types, CycleInv, Begin, start' = Here PROVE CycleInv'
<1>1. /\ UNCHANGED <<connected, reports, Value, State, inverter, Here>> /\ pc' = "calculs"
  BY DEF Begin, Goto, inputs, balance, Here
<1>2. Started'
  BY <1>1, HereFields DEF Started, Types
<1>3. Sending'
  BY <1>1, HereFields DEF Sending, Writing
<1> QED
  BY <1>1, <1>2, <1>3 DEF CycleInv, Managing, Writing

(* A step within the cycle, before its writes. *)
LEMMA ReckonCycle ==
    ASSUME Types, DecisionInv, ModeInv, CycleInv, UNCHANGED start,
           Calculs_p_k \/ SetFlags \/ SetCurrents \/ CutToCeiling \/ TakeDecision
    PROVE  CycleInv'
<1>1. /\ ~Polling /\ ~Writing /\ next = 1 /\ ~Polling'
      /\ UNCHANGED <<connected, reports, inverter, Ppv, Pl, next>>
  BY ManagedPlace
  DEF Calculs_p_k, SetFlags, SetCurrents, CutToCeiling, TakeDecision, Goto, Polling,
      Writing, ModeInv, inputs, balance
<1>2. pc' \notin {"calculs", "force", "release"}
  BY ManagedPlace DEF Calculs_p_k, SetFlags, SetCurrents, CutToCeiling, TakeDecision, Goto
<1>3. Sending'
  <2>1. inverter' = start'.inverter
    BY <1>1 DEF CycleInv, Sending
  <2>2. \A n \in 1..10 : ~Done(n)'
    BY <1>1, <1>2 DEF Done
  <2> QED
    BY <2>1, <2>2 DEF Sending
<1>4. Started'
  BY <1>1 DEF CycleInv, Started
<1>5. Balanced' /\ Managing'
  <2>1. CASE Calculs_p_k
    <3>1. /\ ~second /\ start = Here /\ pc' = "flags"
          /\ UNCHANGED <<Value, State, second, Ppv, Pl>>
          /\ Eb' = Ppv - Pl /\ Pb' = Ppv - Pl /\ Ps' = Ppv - Pl
          /\ SOC' = Value["i_soc_value_battery"]
      BY <2>1 DEF Calculs_p_k, Goto, DecisionInv, Writing, CycleInv, inputs
    <3>2. Balanced'
      BY <3>1, HereFields DEF Balanced, Balance, Level
    <3>3. Managing'
      BY <3>1, HereFields DEF Managing, Source, Writing
    <3> QED
      BY <3>2, <3>3
  <2>2. CASE SetFlags \/ SetCurrents \/ CutToCeiling
    <3>1. UNCHANGED <<State, balance, second, Ppv, Pl>> /\ pc # "calculs"
      BY <2>2 DEF SetFlags, SetCurrents, CutToCeiling, Goto, inputs
    <3>2. UNCHANGED <<Balance, Level, Choice, Former, Source, Outcome>>
      BY <3>1, Unmoved DEF balance
    <3>3. Balanced'
      BY <1>1, <3>1, <3>2 DEF Balanced, CycleInv, balance
    <3>4. Managing'
      <4>1. CASE SetFlags
        <5>1. pc = "flags" /\ Value = Source
          BY <4>1 DEF SetFlags, Goto, CycleInv, Managing
        <5>2. CASE State = 0 /\ pc' = Managed /\ UNCHANGED Value
          <6>1. Outcome = Source
            BY <5>2 DEF Outcome, State_management, DischargeState, ChargeStates
          <6>2. second \in BOOLEAN
            BY DEF Types
          <6> QED
            BY <1>1, <1>2, <3>1, <3>2, <5>1, <5>2, <6>1, <6>2
            DEF Managing, Managed, Writing
        <5>3. CASE State # 0 /\ pc' = "currents" /\ Value' = Flagged(State, Value)
          BY <3>1, <3>2, <5>1, <5>3 DEF Managing, Writing
        <5> QED
          BY <4>1, <5>2, <5>3, StepsAreThese
      <4>2. CASE SetCurrents
        <5>1. pc = "currents" /\ State # 0 /\ Value = Flagged(State, Source)
          BY <4>2 DEF SetCurrents, Goto, CycleInv, Managing
        <5>2. pc' = "ceiling" /\ Value' = Demanded(State, Source, Ps)
          BY <4>2, <5>1, StepsAreThese
        <5> QED
          BY <3>1, <3>2, <5>1, <5>2 DEF Managing, Writing, balance
      <4>3. CASE CutToCeiling
        <5>1. State # 0 /\ Value = Demanded(State, Source, Ps)
          BY <4>3 DEF CutToCeiling, Goto, CycleInv, Managing
        <5>2. pc' = Managed /\ Value' = Cut(State, Value)
          BY <4>3, StepsAreThese
        <5>3. State \in 1..5 /\ second \in BOOLEAN
          BY <5>1 DEF Types
        <5>4. Value' = Outcome
          BY <5>1, <5>2, <5>3, ManagedInSteps DEF Outcome
        <5> QED
          BY <1>1, <1>2, <3>1, <3>2, <5>2, <5>3, <5>4 DEF Managing, Managed, Writing
      <4> QED
        BY <2>2, <4>1, <4>2, <4>3
    <3> QED
      BY <3>3, <3>4
  <2>3. CASE TakeDecision
    <3>1. pc = "decide" /\ pc' = "flags" /\ second' /\ ~second
          /\ UNCHANGED <<Value, Eb, Pb, SOC, Ppv, Pl>>
      BY <2>3 DEF TakeDecision, Goto, inputs, CycleInv, Managing
    <3>2. Eb = Balance /\ Pb = Balance /\ SOC = Level /\ State = start.State /\ Ps = Balance
      BY <1>1, <3>1 DEF CycleInv, Balanced
    <3>3. State' = Choice.state /\ Ps' = Choice.Ps /\ Pr' = Saturate(Balance, Choice.Pr)
      BY <2>3, <3>2 DEF TakeDecision, Choice
    <3>4. UNCHANGED <<Balance, Level, Choice, Former>>
      BY <3>1 DEF Balance, Level, Choice, Former
    <3>5. Value = Former
      BY <3>1, <3>2 DEF CycleInv, Managing, Outcome, Source, Former
    <3>6. Source' = Former'
      BY <3>1 DEF Source
    <3>7. Balanced'
      BY <3>1, <3>2, <3>3, <3>4 DEF Balanced
    <3>8. Managing'
      BY <3>1, <3>4, <3>5, <3>6 DEF Managing, Writing
    <3> QED
      BY <3>7, <3>8
  <2> QED
    BY <2>1, <2>2, <2>3
<1> QED
  BY <1>1, <1>2, <1>3, <1>4, <1>5 DEF CycleInv

(* What a write sends is what the cycle has computed. *)
LEMMA WrittenValue ==
    ASSUME Types, CycleInv, Writing, NEW p \in Written, p # "Force_floating"
    PROVE  Command(p, Value[p]) = SentOf(p)
<1>1. Value = Outcome \/ Value = AfterForce(Outcome)
  BY DEF CycleInv, Managing
<1>2. AfterForce(Outcome)[p] = Outcome[p]
  BY DEF AfterForce
<1> QED
  BY <1>1, <1>2 DEF SentOf

(* A write that is not the last one of the cycle. *)
LEMMA SendCycle ==
    ASSUME Types, DecisionInv, ModeInv, CycleInv, UNCHANGED start,
           Write \/ TestForce \/ SendForce \/ ClearForce, ~Polling'
    PROVE  CycleInv'
<1>1. /\ Writing /\ Writing' /\ ~Polling /\ second
      /\ UNCHANGED <<connected, reports, State, balance, Ppv, Pl, second>>
      /\ pc' # "calculs" /\ connected
  <2>1. Writing /\ second /\ ~Polling /\ connected
    BY DEF Write, TestForce, SendForce, ClearForce, Goto, Writing, Polling, DecisionInv,
           CycleInv
  <2>2. UNCHANGED <<connected, reports, State, balance, Ppv, Pl>>
    BY DEF Write, TestForce, SendForce, ClearForce, inputs
  <2>3. pc' \in {"write", "force", "release"}
    BY AdvanceCases DEF Write, TestForce, SendForce, ClearForce, Goto, Polling
  <2>4. second' = second
    <3>1. CASE Advance("write")
      BY <3>1, AdvanceCases DEF Polling
    <3>2. CASE UNCHANGED second
      BY <3>2
    <3> QED
      BY <3>1, <3>2 DEF Write, TestForce, SendForce, ClearForce
  <2> QED
    BY <2>1, <2>2, <2>3, <2>4 DEF Writing
<1>2. /\ UNCHANGED <<Balance, Level, Choice, Former, Source, Outcome>>
      /\ \A p : SentOf(p)' = SentOf(p)
  BY <1>1, Unmoved DEF balance
<1>3. Started' /\ Balanced'
  BY <1>1, <1>2 DEF CycleInv, Started, Balanced, Polling, Writing, balance
<1>4. next \in 1..10 /\ inverter \in [Written -> Float]
      /\ \A n \in 1..10 : WriteOrder[n] \in Written
  BY OrderWritten DEF Types
<1>5. Value = (IF next < 10 THEN Outcome ELSE AfterForce(Outcome))
      /\ \A n \in 1..10 :
            inverter[WriteOrder[n]] = IF Done(n) THEN SentOf(WriteOrder[n])
                                      ELSE start.inverter[WriteOrder[n]]
  BY <1>1 DEF CycleInv, Managing, Sending
<1>6. Managing' /\ Sending'
  <2>1. CASE Write
    <3>1. pc = "write" /\ pc' = "write" /\ next # 9 /\ next < 10 /\ next' = next + 1
          /\ next' < 10 /\ UNCHANGED Value
      <4>1. pc = "write" /\ next # 9 /\ UNCHANGED Value
        BY <2>1, OrderOfModes DEF Write
      <4>2. next < 10 /\ pc' = "write" /\ next' = next + 1
        BY <2>1, AdvanceCases DEF Write, Polling
      <4> QED
        BY <1>4, <4>1, <4>2
    <3>2. inverter' = [inverter EXCEPT
                ![WriteOrder[next]] = Command(WriteOrder[next], Value[WriteOrder[next]])]
      BY <1>1, <2>1 DEF Write, Send
    <3>3. Command(WriteOrder[next], Value[WriteOrder[next]]) = SentOf(WriteOrder[next])
      BY <1>1, <1>4, <2>1, WrittenValue DEF Write
    <3>4. Managing'
      BY <1>1, <1>2, <1>5, <3>1 DEF Managing
    <3>5. \A n \in 1..10 : Done(n)' <=> n <= next
      BY <1>4, <3>1 DEF Done
    <3>6. \A n \in 1..10 : Done(n) <=> n < next
      BY <3>1 DEF Done
    <3>7. ASSUME NEW n \in 1..10
          PROVE  inverter'[WriteOrder[n]] = IF n <= next THEN SentOf(WriteOrder[n])
                                            ELSE start.inverter[WriteOrder[n]]
      <4>1. CASE n = next
        BY <1>4, <3>2, <3>3, <4>1
      <4>2. CASE n # next
        <5>1. WriteOrder[n] # WriteOrder[next]
          BY <1>4, <4>2, Orders
        <5>2. inverter'[WriteOrder[n]] = inverter[WriteOrder[n]]
          BY <1>4, <3>2, <5>1
        <5>3. n <= next <=> n < next
          BY <1>4, <4>2
        <5> QED
          BY <1>5, <3>6, <5>2, <5>3
      <4> QED
        BY <4>1, <4>2
    <3>8. Sending'
      BY <1>1, <1>2, <3>5, <3>7 DEF Sending
    <3> QED
      BY <3>4, <3>8
  <2>2. CASE TestForce
    <3>1. next = 9 /\ pc = "write" /\ UNCHANGED <<Value, inverter>>
      BY <1>4, <2>2, OrderOfModes DEF TestForce
    <3>2. Value = Outcome
      BY <1>5, <3>1
    <3>3. CASE Value["Force_floating"] = 1
      <4>1. pc' = "force" /\ next' = 9
        BY <2>2, <3>1, <3>3 DEF TestForce
      <4>2. \A n \in 1..10 : Done(n)' <=> Done(n)
        BY <3>1, <4>1 DEF Done
      <4> QED
        BY <1>1, <1>2, <1>5, <3>1, <3>2, <3>3, <4>1, <4>2 DEF Managing, Sending
    <3>4. CASE Value["Force_floating"] # 1
      <4>1. pc' = "write" /\ next' = 10
        BY <2>2, <3>1, <3>4, AdvanceCases DEF TestForce
      <4>2. AfterForce(Outcome) = Outcome
        <5>1. Outcome = [p \in Param |-> Outcome[p]]
          BY <3>2 DEF Types, ValueOK
        <5> QED
          BY <3>2, <3>4, <5>1 DEF AfterForce
      <4>3. Managing'
        BY <1>1, <1>2, <3>1, <3>2, <4>1, <4>2 DEF Managing
      <4>4. \A n \in 1..10 : /\ Done(n)' <=> n <= 9
                             /\ Done(n) <=> n <= 8
        BY <3>1, <4>1 DEF Done
      <4>5. SentOf(WriteOrder[9]) = start.inverter[WriteOrder[9]]
        BY <3>2, <3>4, OrderOfModes DEF SentOf
      <4>6. Sending'
        <5> SUFFICES ASSUME NEW n \in 1..10
                     PROVE  inverter[WriteOrder[n]]
                              = IF n <= 9 THEN SentOf(WriteOrder[n])
                                ELSE start.inverter[WriteOrder[n]]
          BY <1>1, <1>2, <3>1, <4>4 DEF Sending
        <5>1. CASE n = 9
          BY <1>5, <4>4, <4>5, <5>1
        <5>2. CASE n # 9
          BY <1>5, <4>4, <5>2
        <5> QED
          BY <5>1, <5>2
      <4> QED
        BY <4>3, <4>6
    <3> QED
      BY <3>3, <3>4
  <2>3. CASE SendForce
    <3>1. pc = "force" /\ pc' = "release" /\ UNCHANGED <<Value, next>>
      BY <2>3 DEF SendForce, Goto
    <3>2. next = 9 /\ Value["Force_floating"] = 1 /\ Value = Outcome
      BY <1>5, <3>1 DEF ModeInv, CycleInv, Managing
    <3>3. inverter' = [inverter EXCEPT
                ![WriteOrder[9]] = Command(WriteOrder[9], Value[WriteOrder[9]])]
      BY <1>1, <2>3, OrderOfModes DEF SendForce, Send
    <3>4. Command(WriteOrder[9], Value[WriteOrder[9]]) = SentOf(WriteOrder[9])
      BY <3>2, OrderOfModes DEF SentOf
    <3>5. Managing'
      BY <1>1, <1>2, <3>1, <3>2 DEF Managing
    <3>6. \A n \in 1..10 : /\ Done(n)' <=> n <= 9
                           /\ Done(n) <=> n <= 8
      BY <3>1, <3>2 DEF Done
    <3>7. Sending'
      <4> SUFFICES ASSUME NEW n \in 1..10
                   PROVE  inverter'[WriteOrder[n]]
                            = IF n <= 9 THEN SentOf(WriteOrder[n])
                              ELSE start.inverter[WriteOrder[n]]
        BY <1>1, <1>2, <3>6 DEF Sending
      <4>1. CASE n = 9
        BY <1>4, <3>3, <3>4, <4>1
      <4>2. CASE n # 9
        <5>1. WriteOrder[n] # WriteOrder[9]
          BY <4>2, Orders
        <5> QED
          BY <1>4, <1>5, <3>3, <3>6, <4>2, <5>1
      <4> QED
        BY <4>1, <4>2
    <3> QED
      BY <3>5, <3>7
  <2>4. CASE ClearForce
    <3>1. pc = "release" /\ next = 9 /\ UNCHANGED inverter
          /\ Value' = [Value EXCEPT !["Force_floating"] = 0]
      BY <2>4 DEF ClearForce, ModeInv
    <3>2. pc' = "write" /\ next' = 10
      BY <2>4, <3>1, AdvanceCases DEF ClearForce
    <3>3. Value["Force_floating"] = 1 /\ Value = Outcome
      BY <1>5, <3>1 DEF CycleInv, Managing
    <3>4. Value' = AfterForce(Outcome)
      BY <3>1, <3>3 DEF AfterForce
    <3>5. Managing'
      BY <1>1, <1>2, <3>2, <3>4 DEF Managing
    <3>6. \A n \in 1..10 : Done(n)' <=> Done(n)
      BY <3>1, <3>2 DEF Done
    <3>7. Sending'
      BY <1>1, <1>2, <1>5, <3>1, <3>6 DEF Sending
    <3> QED
      BY <3>5, <3>7
  <2> QED
    BY <2>1, <2>2, <2>3, <2>4
<1> QED
  BY <1>1, <1>3, <1>6 DEF CycleInv, Writing, Polling

LEMMA NextCycle ==
    ASSUME Types, DecisionInv, ModeInv, CycleInv, Quiet, Reported = {}, ~MayLose,
           [HNext]_<<vars, start>>
    PROVE  CycleInv'
<1>1. CASE UNCHANGED <<vars, start>>
  <2>1. UNCHANGED <<connected, reports, pc, Value, State, balance, inverter, Ppv, Pl,
                    second, next, start>>
    BY <1>1 DEF vars, inputs
  <2> QED
    BY <2>1, QuietKeepsCycle
<1>2. CASE HNext /\ ~Main
  <2>1. \/ /\ Polling
           /\ \/ \E i \in Meters : \E power \in MeterReadings[i] : MeterArrives(i, power)
              \/ \E p \in Measures : \E data \in Readings[p] : ParamArrives(p, data)
        \/ Alarm
    BY <1>2, OutsideQuiet DEF HNext, Next
  <2>2. UNCHANGED <<connected, reports, pc>>
    BY <2>1 DEF MeterArrives, ParamArrives, Store, Alarm, inputs
  <2>3. UNCHANGED start
    BY <1>2, <2>2 DEF HNext, Starting
  <2>4. Polling \/ UNCHANGED <<Value, State, balance, inverter, Ppv, Pl, second, next>>
    BY <2>1 DEF Alarm, inputs
  <2> QED
    BY <2>2, <2>3, <2>4, QuietKeepsCycle
<1>3. CASE HNext /\ Main
  <2>1. CASE Begin
    BY <1>3, <2>1, BeginCycle DEF HNext, Starting, Begin, Goto
  <2>2. CASE ~Begin
    <3>1. pc = "begin" => pc' # "calculs"
      BY <1>3, <2>2 DEF Main, Poll, Calculs_p_k, SetFlags, SetCurrents, CutToCeiling,
        TakeDecision, Write, TestForce, SendForce, ClearForce, Goto
    <3>2. UNCHANGED start
      BY <1>3, <3>1 DEF HNext, Starting
    <3>3. CASE Poll
      BY <3>3, PollCycle DEF Poll, Goto, Polling, inputs
    <3>4. CASE Write \/ TestForce \/ SendForce \/ ClearForce
      <4>1. UNCHANGED <<connected, reports>>
        BY <3>4 DEF Write, TestForce, SendForce, ClearForce, inputs
      <4> QED
        BY <3>2, <3>4, <4>1, SendCycle, PollCycle
    <3> QED
      BY <1>3, <2>2, <3>2, <3>3, <3>4, ReckonCycle DEF Main
  <2> QED
    BY <2>1, <2>2
<1> QED
  BY <1>1, <1>2, <1>3

-----------------------------------------------------------------------------
(* The cycle of ControlCycle has the operators of RegulThreads. *)
LEMMA SameOperators ==
    /\ \A E, P, soc, state :
          Abstract!Decide(E, P, soc, state) = Decide(E, P, soc, state)
    /\ \A state, v, P : Abstract!State_management(state, v, P) = State_management(state, v, P)
    /\ \A E, P : Abstract!Saturate(E, P) = Saturate(E, P)
    /\ \A p, x : Abstract!Command(p, x) = Command(p, x)
    /\ Abstract!Written = Written /\ Abstract!Measures = Measures
<1>1. Abstract!Written = Written /\ Abstract!Measures = Measures
      /\ Abstract!Param = Param
      /\ \A p, x : Abstract!Command(p, x) = Command(p, x)
  BY DEF Abstract!Written, Written, Abstract!Measures, Measures, Abstract!Command, Command,
         Abstract!Switches, Switches, Abstract!Param, Param, Abstract!Setpoints, Setpoints
<1>2. \A E, P, soc, state :
         Abstract!Decide(E, P, soc, state) = Decide(E, P, soc, state)
  BY DEF Abstract!Decide, Decide, Abstract!NearlyFull, NearlyFull, Abstract!Full, Full,
         Abstract!NearlyEmpty, NearlyEmpty, Abstract!Empty, Empty, Abstract!Decision,
         Decision, Abstract!SOCmin, SOCmin, Abstract!SOCmax, SOCmax,
         Abstract!DischargeState, DischargeState
<1>3. \A E, P : Abstract!Saturate(E, P) = Saturate(E, P)
  BY DEF Abstract!Saturate, Saturate, Abstract!Abs, Abs, Abstract!Prmax, Prmax
<1>4. /\ \A x, y : Abstract!FDiv(x, y) = FDiv(x, y)
      /\ \A x : Abstract!Abs(x) = Abs(x)
  BY DEF Abstract!FDiv, FDiv, Abstract!Abs, Abs, Abstract!Truncated, Truncated
<1>5. \A x, y : Abstract!Ge(x, y) = Ge(x, y) /\ Abstract!Gt(x, y) = Gt(x, y)
  BY DEF Abstract!Ge, Ge, Abstract!Gt, Gt
<1>6. /\ \A x, y : Abstract!CapAt(x, y) = CapAt(x, y)
      /\ \A x : Abstract!WithinBreakers(x) = WithinBreakers(x)
      /\ Abstract!AcLimit = AcLimit
  BY <1>5 DEF Abstract!CapAt, CapAt, Abstract!WithinBreakers, WithinBreakers,
              Abstract!AcLimit, AcLimit, Abstract!BreakerLimit, BreakerLimit,
              Abstract!BreakerCurrent, BreakerCurrent
<1>7. \A P, v : /\ Abstract!GridFeedingCurrent(P, v) = GridFeedingCurrent(P, v)
               /\ Abstract!AcInputCurrent(v) = AcInputCurrent(v)
               /\ Abstract!ChargeCurrent(P, v) = ChargeCurrent(P, v)
  BY <1>4, <1>5, <1>6
  DEF Abstract!GridFeedingCurrent, GridFeedingCurrent, Abstract!FeedingDemand,
      FeedingDemand, Abstract!InjectionCap, InjectionCap, Abstract!AcInputCurrent,
      AcInputCurrent, Abstract!ChargeCurrent, ChargeCurrent, Abstract!ChargeDemand,
      ChargeDemand, Abstract!WithinChargeLimit, WithinChargeLimit
<1>8. \A v : /\ Abstract!DischargeFlags(v) = DischargeFlags(v)
            /\ Abstract!ChargeFlags(v) = ChargeFlags(v)
  BY <1>1 DEF Abstract!DischargeFlags, DischargeFlags, Abstract!ChargeFlags, ChargeFlags
<1>9. \A state, v, P : Abstract!State_management(state, v, P) = State_management(state, v, P)
  BY <1>7, <1>8
  DEF Abstract!State_management, State_management, Abstract!Discharge, Discharge,
      Abstract!Charge, Charge, Abstract!DischargeState, DischargeState,
      Abstract!ChargeStates, ChargeStates
<1> QED
  BY <1>1, <1>2, <1>3, <1>9

LEMMA SeenFields ==
    /\ Polling => Seen = Here
    /\ ~Polling => Seen = start
BY DEF Seen

(* The last write is the step of ControlCycle. *)
LEMMA LastWrite ==
    ASSUME Types, Types', DecisionInv, ModeInv, CycleInv, UNCHANGED start,
           Write \/ TestForce \/ ClearForce, Polling'
    PROVE  Abstract!Cycle
<1>1. /\ Writing /\ ~Polling /\ second /\ pc # "calculs" /\ connected
      /\ UNCHANGED <<meters, Ppv, Pl, State, Eb, Pb, SOC, Ps, Pr>>
  BY DEF Write, TestForce, ClearForce, Writing, Polling, DecisionInv, inputs, balance,
         CycleInv
<1>2. next = 10 /\ Write
  <2>1. next \in 1..10
    BY DEF Types
  <2>2. ~TestForce
    <3> SUFFICES ASSUME TestForce PROVE FALSE
      OBVIOUS
    <3>1. next = 9
      BY <2>1, OrderOfModes DEF TestForce
    <3> QED
      BY <3>1, AdvanceCases DEF TestForce, Polling
  <2>3. ~ClearForce
    <3> SUFFICES ASSUME ClearForce PROVE FALSE
      OBVIOUS
    <3>1. next = 9
      BY DEF ClearForce, ModeInv
    <3> QED
      BY <3>1, AdvanceCases DEF ClearForce, Polling
  <2>4. next = 10
    BY <2>2, <2>3, AdvanceCases DEF Write, Polling
  <2> QED
    BY <2>2, <2>3, <2>4
<1>3. Seen = start /\ Seen' = Here'
  <2>1. Seen = start
    BY <1>1, SeenFields
  <2>2. Seen' = Here'
    BY DEF Seen
  <2> QED
    BY <2>1, <2>2
<1>4. /\ Seen'.Value = Value' /\ Seen'.State = State' /\ Seen'.Eb = Eb' /\ Seen'.Pb = Pb'
      /\ Seen'.SOC = SOC' /\ Seen'.Ps = Ps' /\ Seen'.Pr = Pr'
      /\ Seen'.inverter = inverter'
  BY <1>3 DEF Here
<1>5. /\ Eb = Balance /\ Pb = Balance /\ SOC = Level
      /\ State = Choice.state /\ Ps = Choice.Ps /\ Pr = Saturate(Balance, Choice.Pr)
  BY <1>1 DEF CycleInv, Balanced
<1>6. Outcome = State_management(Choice.state, Former, Choice.Ps)
  BY <1>1, <1>5 DEF Outcome, Source
<1>7. Value' = AfterForce(Outcome)
  BY <1>1, <1>2 DEF CycleInv, Managing, Write
<1>8. inverter' = [p \in Written |-> SentOf(p)]
  <2>1. /\ inverter \in [Written -> Float] /\ inverter' \in [Written -> Float]
        /\ \A n \in 1..10 : WriteOrder[n] \in Written
    BY OrderWritten DEF Types
  <2>2. inverter' = [inverter EXCEPT
              ![WriteOrder[10]] = Command(WriteOrder[10], Value[WriteOrder[10]])]
    BY <1>1, <1>2 DEF Write, Send
  <2>3. Command(WriteOrder[10], Value[WriteOrder[10]]) = SentOf(WriteOrder[10])
    BY <1>1, <1>2, <2>1, WrittenValue DEF Write
  <2>4. ASSUME NEW n \in 1..10 PROVE inverter'[WriteOrder[n]] = SentOf(WriteOrder[n])
    <3>1. CASE n = 10
      BY <2>1, <2>2, <2>3, <3>1
    <3>2. CASE n # 10
      <4>1. WriteOrder[n] # WriteOrder[10]
        BY <3>2, Orders
      <4>2. Done(n)
        BY <1>2, <3>2 DEF Done
      <4>3. inverter[WriteOrder[n]] = SentOf(WriteOrder[n])
        BY <1>1, <4>2 DEF CycleInv, Sending
      <4> QED
        BY <2>1, <2>2, <4>1, <4>3
    <3> QED
      BY <3>1, <3>2
  <2>5. \A p \in Written : inverter'[p] = SentOf(p)
    BY <2>4, Orders
  <2> QED
    BY <2>1, <2>5
<1>9. Abstract!Sent(Outcome) = inverter'
  <2>1. \A p : Abstract!Command(p, Outcome[p]) = Command(p, Outcome[p])
    BY SameOperators
  <2>2. Abstract!Sent(Outcome)
          = [p \in Written |-> IF p = "Force_floating" /\ Outcome[p] # 1
                               THEN start.inverter[p] ELSE Command(p, Outcome[p])]
    BY <1>3, <2>1, SameOperators DEF Abstract!Sent
  <2> QED
    BY <1>8, <2>2 DEF SentOf
<1>10. Abstract!AfterWrite(Outcome) = Value'
  BY <1>7 DEF Abstract!AfterWrite, AfterForce
<1>11. Abstract!Decide(Ppv - Pl, Ppv - Pl, Seen.Value["i_soc_value_battery"], Seen.State)
         = Choice
  BY <1>3, SameOperators DEF Choice, Balance, Level
<1>12. Abstract!State_management(Seen.State, Seen.Value, Ppv - Pl) = Former
  BY <1>3, SameOperators DEF Former, Balance
<1>13. Abstract!State_management(Choice.state, Former, Choice.Ps) = Outcome
  BY <1>6, SameOperators
<1>14. Abstract!Saturate(Ppv - Pl, Choice.Pr) = Pr
  BY <1>5, SameOperators DEF Balance
<1> QED
  BY <1>1, <1>3, <1>4, <1>5, <1>9, <1>10, <1>11, <1>12, <1>13, <1>14
  DEF Abstract!Cycle, Balance, Level

(* A step that the atomic program does not see. *)
LEMMA Unseen ==
    ASSUME UNCHANGED <<meters, Ppv, Pl, Seen>> PROVE UNCHANGED Abstract!vars
BY DEF Abstract!vars

LEMMA StepMaps ==
    ASSUME Types, Types', DecisionInv, ModeInv, CycleInv,
           Quiet, Reported = {}, ~MayLose, [HNext]_<<vars, start>>
    PROVE  [Abstract!Next]_(Abstract!vars)
<1>1. CASE UNCHANGED <<vars, start>>
  <2>1. UNCHANGED <<meters, Ppv, Pl, Seen>>
    BY <1>1 DEF vars, inputs, balance, Seen, Here, Polling
  <2> QED
    BY <2>1, Unseen
<1>2. CASE HNext /\ ~Main
  <2>1. \/ /\ Polling
           /\ \/ \E i \in Meters : \E power \in MeterReadings[i] : MeterArrives(i, power)
              \/ \E p \in Measures : \E data \in Readings[p] : ParamArrives(p, data)
        \/ Alarm
    BY <1>2, OutsideQuiet DEF HNext, Next
  <2>2. UNCHANGED pc
    BY <2>1 DEF MeterArrives, ParamArrives, Store, Alarm, inputs
  <2>3. UNCHANGED start /\ (Polling <=> Polling')
    BY <1>2, <2>2 DEF HNext, Starting, Polling
  <2>4. CASE Alarm
    <3>1. UNCHANGED <<meters, Ppv, Pl, Seen>>
      BY <2>3, <2>4 DEF Alarm, inputs, balance, Seen, Here
    <3> QED
      BY <3>1, Unseen
  <2>5. ASSUME Polling, NEW i \in Meters, NEW power \in MeterReadings[i],
               MeterArrives(i, power)
        PROVE  Abstract!MeterArrives(i, power)
    <3>1. Seen = Here /\ Seen' = Here' /\ UNCHANGED Here
      BY <2>3, <2>5 DEF Seen, Here, MeterArrives, balance
    <3> QED
      BY <2>5, <3>1
      DEF MeterArrives, Abstract!MeterArrives, Atomic!Production, Abstract!Production,
          Atomic!Consumption, Abstract!Consumption
  <2>6. ASSUME Polling, NEW p \in Measures, NEW data \in Readings[p], ParamArrives(p, data)
        PROVE  Abstract!ParamArrives(p, data)
    <3>1. Seen = Here /\ Seen' = Here'
      BY <2>3, <2>6 DEF Seen
    <3>2. /\ Value' = [Value EXCEPT ![p] = data]
          /\ UNCHANGED <<meters, Ppv, Pl, State, Eb, Pb, SOC, Ps, Pr, inverter>>
      BY <2>6 DEF ParamArrives, Store, balance
    <3> QED
      BY <3>1, <3>2 DEF Abstract!ParamArrives, Here
  <2> QED
    BY <2>1, <2>4, <2>5, <2>6, SameOperators DEF Abstract!Next
<1>3. CASE HNext /\ Main
  <2>1. CASE Begin
    <3>1. /\ Polling /\ ~Polling' /\ start' = Here
          /\ UNCHANGED <<meters, Ppv, Pl>>
      BY <1>3, <2>1 DEF Begin, Goto, Polling, HNext, Starting, inputs
    <3>2. Seen' = Seen
      BY <3>1 DEF Seen
    <3> QED
      BY <3>1, <3>2, Unseen
  <2>2. CASE Poll
    <3>1. UNCHANGED <<meters, Ppv, Pl, Here>> /\ Polling /\ Polling'
      BY <2>2 DEF Poll, Goto, Polling, inputs, balance, Here
    <3>2. Seen' = Seen
      BY <3>1 DEF Seen
    <3> QED
      BY <3>1, <3>2, Unseen
  <2>3. CASE ~Begin /\ ~Poll
    <3>1. ~Polling /\ UNCHANGED <<meters, Ppv, Pl>>
      BY <1>3, <2>3 DEF Main, Calculs_p_k, SetFlags, SetCurrents, CutToCeiling,
        TakeDecision, Write, TestForce, SendForce, ClearForce, Goto, Polling, inputs
    <3>2. UNCHANGED start
      BY <1>3, <3>1 DEF HNext, Starting, Polling
    <3>3. CASE ~Polling'
      <4>1. Seen' = Seen
        BY <3>1, <3>2, <3>3 DEF Seen
      <4> QED
        BY <3>1, <4>1, Unseen
    <3>4. CASE Polling'
      <4>1. Write \/ TestForce \/ ClearForce
        BY <1>3, <2>3, <3>4, ManagedPlace
        DEF Main, Calculs_p_k, SetFlags, SetCurrents, CutToCeiling, TakeDecision,
            SendForce, Goto, Polling
      <4> QED
        BY <3>2, <3>4, <4>1, LastWrite DEF Abstract!Next
    <3> QED
      BY <3>3, <3>4
  <2> QED
    BY <2>1, <2>2, <2>3
<1> QED
  BY <1>1, <1>2, <1>3

LEMMA InitMaps == HInit => CycleInv /\ Abstract!Init
<1> SUFFICES ASSUME HInit PROVE CycleInv /\ Abstract!Init
  OBVIOUS
<1>1. /\ Atomic!Init /\ Polling /\ connected /\ reports = <<>> /\ pc = "poll"
  BY DEF HInit, Init, Polling
<1>2. CycleInv
  BY <1>1 DEF CycleInv, Managing, Sending, Writing, Polling
<1>3. Seen = Here
  BY <1>1 DEF Seen
<1>4. Abstract!Init
  BY <1>1, <1>3
  DEF Abstract!Init, Atomic!Init, Here, Abstract!Param, Atomic!Param, Abstract!Measures,
      Atomic!Measures, Abstract!Written, Atomic!Written, Abstract!Setpoints,
      Atomic!Setpoints, Abstract!InitialValue, Atomic!InitialValue, Abstract!Not_Value,
      Atomic!Not_Value
<1> QED
  BY <1>2, <1>4

(* If messages come between cycles only, no report of a set-point comes and   *)
(* the connection holds, the program of the threads is that of ControlCycle:  *)
(* what its theorems say of whole cycles holds of the accesses too.           *)
THEOREM Refinement ==
    ASSUME Quiet, Reported = {}, ~MayLose PROVE HSpec => RefinesControlCycle
<1>1. HSpec => Spec
  <2>1. HInit => Init
    BY DEF HInit
  <2>2. [HNext]_<<vars, start>> => [Next]_vars
    BY DEF HNext
  <2> QED
    BY <2>1, <2>2, PTL DEF HSpec, Spec
<1>2. Spec => [](Types /\ DecisionInv)
  BY DecisionHolds
<1>3. Spec => []ModeInv
  <2>1. Types /\ ModeInv /\ [Next]_vars => ModeInv'
    <3>1. Reported \cap ModeSwitches = {}
      OBVIOUS
    <3> QED
      BY <3>1, NextMode
  <2> QED
    BY <2>1, <1>2, InitMode, PTL DEF Spec
<1>4. Types /\ DecisionInv /\ ModeInv /\ CycleInv /\ [HNext]_<<vars, start>> => CycleInv'
  BY NextCycle
<1>5. Types /\ Types' /\ DecisionInv /\ ModeInv /\ CycleInv /\ [HNext]_<<vars, start>>
        => [Abstract!Next]_(Abstract!vars)
  BY StepMaps
<1>6. HInit => CycleInv /\ Abstract!Init
  BY InitMaps
<1> QED
  BY <1>1, <1>2, <1>3, <1>4, <1>5, <1>6, PTL DEF HSpec, RefinesControlCycle, Abstract!Spec
=============================================================================
