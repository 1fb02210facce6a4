-------------------------- MODULE RegulationProofs --------------------------
(***************************************************************************)
(* What the operators of Regulation return, for every reading: the lemmas    *)
(* that the proofs about the atomic cycle and about the threads rest on.     *)
(***************************************************************************)
EXTENDS Regulation, TLAPS

-----------------------------------------------------------------------------
(* Values of the parameters as Algo finds them: floats, finite measures.   *)
ValueOK(v) == v \in [Param -> Float] /\ \A p \in Measures : v[p] \in Int

(* Dividing two finite floats yields a float, whatever the divisor. *)
LEMMA FDivType == ASSUME NEW x \in Int, NEW y \in Int PROVE FDiv(x, y) \in Float
<1>1. CASE y = 0
  BY <1>1 DEF FDiv, Float
<1>2. CASE y # 0
  <2>1. Abs(x) \in Int /\ Abs(y) \in Int /\ Abs(y) > 0
    BY <1>2 DEF Abs
  <2>2. Abs(x) \div Abs(y) \in Int
    BY <2>1
  <2>3. -(Abs(x) \div Abs(y)) \in Int
    BY <2>2
  <2> QED
    BY <1>2, <2>2, <2>3 DEF FDiv, Float, Truncated
<1> QED
  BY <1>1, <1>2

LEMMA CapAtType ==
    ASSUME NEW x \in Float, NEW limit \in Float PROVE CapAt(x, limit) \in Float
BY DEF CapAt

(* The currents State_management computes are floats: a missing reading may *)
(* make them infinite or not a number, never anything else.                 *)
LEMMA CurrentTypes ==
    ASSUME NEW v, ValueOK(v), NEW P \in Int
    PROVE  /\ FeedingDemand(P, v) \in Float
           /\ GridFeedingCurrent(P, v) \in Float
           /\ AcInputCurrent(v) \in Float
           /\ ChargeDemand(P, v) \in Float
           /\ ChargeCurrent(P, v) \in Float
<1> DEFINE ac   == v["i_Input_voltage_AC_IN"]
           volt == v["i_Battery_Voltage"]
           dis  == v["i_Battery_Current_Discharge_limit"]
           chg  == v["i_Battery_Current_Charge_limit"]
<1>1. ac \in Int /\ volt \in Int /\ dis \in Int /\ chg \in Int
  BY DEF ValueOK, Measures
<1>2. Abs(P) \in Int /\ dis * volt \in Int
  BY <1>1 DEF Abs
<1>3. AcLimit \in Float /\ BreakerCurrent \in Float /\ chg \in Float
  BY <1>1 DEF AcLimit, BreakerCurrent, Float
<1>4. FDiv(Abs(P), ac) \in Float /\ FDiv(dis * volt, ac) \in Float
      /\ FDiv(8000, ac) \in Float /\ FDiv(Abs(P), volt) \in Float
  BY <1>1, <1>2, FDivType
<1> HIDE DEF ac, volt, dis, chg
<1>5. CapAt(FDiv(Abs(P), ac), FDiv(dis * volt, ac)) \in Float
  BY <1>4, CapAtType
<1>6. FeedingDemand(P, v) \in Float
  BY <1>5 DEF FeedingDemand, InjectionCap, ac, volt, dis
<1>7. GridFeedingCurrent(P, v) \in Float
  BY <1>3, <1>6, CapAtType DEF GridFeedingCurrent
<1>8. AcInputCurrent(v) \in Float
  BY <1>3, <1>4, CapAtType DEF AcInputCurrent, ac
<1>9. ChargeDemand(P, v) \in Float
  BY <1>3, <1>4 DEF ChargeDemand, WithinChargeLimit, volt, chg
<1>10. ChargeCurrent(P, v) \in Float
  BY <1>3, <1>9 DEF ChargeCurrent, WithinBreakers
<1> QED
  BY <1>6, <1>7, <1>8, <1>9, <1>10

(* State_management keeps the parameters well-typed, and the measures as   *)
(* they are: it only commands.                                             *)
LEMMA StateManagementType ==
    ASSUME NEW v, ValueOK(v), NEW P \in Int, NEW state \in 0..5
    PROVE  /\ ValueOK(State_management(state, v, P))
           /\ \A p \in Measures : State_management(state, v, P)[p] = v[p]
<1>1. /\ GridFeedingCurrent(P, v) \in Float
      /\ AcInputCurrent(v) \in Float
      /\ ChargeCurrent(P, v) \in Float
  BY CurrentTypes
<1>2. 0 \in Float /\ 1 \in Float
  BY DEF Float
<1>3. v["i_Battery_Voltage_Discharge_limit"] \in Float
      /\ v["i_Battery_Voltage_Charge_limit"] \in Float
  BY DEF ValueOK, Measures, Float
<1>4. ValueOK(Discharge(v, P)) /\ \A p \in Measures : Discharge(v, P)[p] = v[p]
  <2>1. ValueOK(DischargeFlags(v)) /\ \A p \in Measures : DischargeFlags(v)[p] = v[p]
    BY <1>2, <1>3 DEF ValueOK, DischargeFlags, Measures, Param
  <2> QED
    BY <2>1, <1>1 DEF ValueOK, Discharge, Measures, Param
<1>5. ValueOK(Charge(v, P)) /\ \A p \in Measures : Charge(v, P)[p] = v[p]
  <2>1. ValueOK(ChargeFlags(v)) /\ \A p \in Measures : ChargeFlags(v)[p] = v[p]
    BY <1>2, <1>3 DEF ValueOK, ChargeFlags, Measures, Param
  <2> QED
    BY <2>1, <1>1 DEF ValueOK, Charge, Measures, Param
<1>6. CASE state = DischargeState
  BY <1>4, <1>6 DEF State_management
<1>7. CASE state \in ChargeStates
  BY <1>5, <1>7 DEF State_management, ChargeStates, DischargeState
<1>8. CASE state = 0
  BY <1>8 DEF State_management, ChargeStates, DischargeState
<1> QED
  BY <1>6, <1>7, <1>8 DEF ChargeStates, DischargeState

(* The branches of Algo exclude each other and leave no case out. *)
LEMMA DecideCases ==
    ASSUME NEW E \in Int, NEW P \in Int, NEW soc \in Int, NEW state
    PROVE
      \/ E >= 0 /\ Full(soc) /\ Decide(E, P, soc, state) = Decision(5, 0, P)
      \/ E >= 0 /\ ~Full(soc) /\ NearlyFull(soc)
                /\ Decide(E, P, soc, state) = Decision(4, P, 0)
      \/ E >= 0 /\ ~NearlyFull(soc) /\ ~Full(soc)
                /\ Decide(E, P, soc, state) = Decision(3, P, 0)
      \/ E < 0 /\ Empty(soc) /\ NearlyEmpty(soc)
               /\ Decide(E, P, soc, state) = Decision(2, 50, P)
      \/ E < 0 /\ ~Empty(soc) /\ NearlyEmpty(soc)
               /\ Decide(E, P, soc, state) = Decision(state, P, 0)
      \/ E < 0 /\ ~NearlyEmpty(soc) /\ ~Empty(soc)
               /\ Decide(E, P, soc, state) = Decision(1, P, 0)
<1>1. Full(soc) => NearlyFull(soc)
  BY DEF Full, NearlyFull, SOCmax
<1>2. Empty(soc) => NearlyEmpty(soc)
  BY DEF Empty, NearlyEmpty, SOCmin
<1> QED
  BY <1>1, <1>2 DEF Decide, DischargeState

(* A decision is one of the five states, or the former one. *)
LEMMA DecideType ==
    ASSUME NEW E \in Int, NEW P \in Int, NEW soc \in Int, NEW state \in 0..5
    PROVE  /\ Decide(E, P, soc, state).state \in 0..5
           /\ Decide(E, P, soc, state).Ps \in Int
           /\ Decide(E, P, soc, state).Pr \in Int
BY DecideCases DEF Decision

LEMMA InitialValueType == \A p \in Param : InitialValue(p) \in Int
BY DEF InitialValue, Param, Measures, Setpoints, Written, Not_Value

(* Charging with no power asks for no current, whatever the battery's voltage *)
(* and limits are, missing ones included.                                    *)
LEMMA NoPowerNoDemand ==
    ASSUME NEW v, ValueOK(v)
    PROVE  ChargeDemand(0, v) = NaN \/ (ChargeDemand(0, v) \in Int /\ ChargeDemand(0, v) <= 0)
<1>1. v["i_Battery_Voltage"] \in Int /\ v["i_Battery_Current_Charge_limit"] \in Int
  BY DEF ValueOK, Measures
<1>2. CASE v["i_Battery_Voltage"] = 0
  <2>1. FDiv(Abs(0), v["i_Battery_Voltage"]) = NaN
    BY <1>2 DEF FDiv, Abs
  <2> QED
    BY <2>1 DEF ChargeDemand, WithinChargeLimit, Gt, Ge
<1>3. CASE v["i_Battery_Voltage"] # 0
  <2>1. FDiv(Abs(0), v["i_Battery_Voltage"]) = 0
    <3>1. Abs(0) = 0 /\ Abs(Abs(0)) = 0
      BY DEF Abs
    <3>2. Abs(v["i_Battery_Voltage"]) \in Int /\ Abs(v["i_Battery_Voltage"]) > 0
      BY <1>1, <1>3 DEF Abs
    <3>3. 0 \div Abs(v["i_Battery_Voltage"]) = 0
      BY <3>2
    <3> QED
      BY <1>3, <3>1, <3>3 DEF FDiv, Truncated
  <2> QED
    BY <1>1, <2>1, FloatAssumption DEF ChargeDemand, WithinChargeLimit, Gt, Ge
<1> QED
  BY <1>2, <1>3

(* The breakers add nothing to a current that is not above zero. *)
LEMMA NoDemandNoCurrent ==
    ASSUME NEW x \in Float, ~Gt(x, 0) PROVE ~Gt(WithinBreakers(x), 0)
BY FloatAssumption DEF WithinBreakers, BreakerLimit, Gt, Ge, Float

LEMMA NoPowerNoCurrent ==
    ASSUME NEW v, ValueOK(v)
    PROVE  ~Gt(ChargeDemand(0, v), 0) /\ ~Gt(ChargeCurrent(0, v), 0)
<1>1. ~Gt(ChargeDemand(0, v), 0)
  BY NoPowerNoDemand, FloatAssumption DEF Gt, Ge
<1>2. ChargeDemand(0, v) \in Float
  BY NoPowerNoDemand DEF Float
<1> QED
  BY <1>1, <1>2, NoDemandNoCurrent DEF ChargeCurrent
=============================================================================
