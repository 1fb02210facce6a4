---------------------------- MODULE RegulThreads ----------------------------
(***************************************************************************)
(* The regulator at the grain of its threads.  The main thread polls       *)
(* algo_on and runs the control cycle one access to shared memory at a     *)
(* time; the MQTT thread stores the messages it receives in the globals    *)
(* the cycle reads and writes; the SIGALRM handler raises algo_on.  Nothing *)
(* orders them: there is no lock in the program.                           *)
(*                                                                         *)
(* A step of the main thread accesses one global another thread writes, or *)
(* several globals when the messages that write them are independent and   *)
(* could as well have arrived in another order.  Between two calls the     *)
(* compiler (gcc -Og, see the Makefile) reads a global once and then keeps  *)
(* it in a register: Eb and Pb come from one reading of Ppv and Pl, and the *)
(* limit State_management stores is the one it compared.  Only the value   *)
(* that was stored under a condition is read back, before its ceiling.      *)
(***************************************************************************)
EXTENDS Regulation, Sequences

CONSTANTS
    Meters, MeterReadings, Readings, Presets,   (* as in ControlCycle *)
    Reported,     (* the set-points whose values the gateway reports         *)
    MaxReports,   (* bound: reports of set-points in flight at once          *)
    MayLose,      (* whether the connection to the broker may be lost        *)
    Quiet         (* TRUE: no message arrives while a cycle runs             *)

VARIABLES
    Value, meters, Ppv, Pl, State, Eb, Pb, SOC, Ps, Pr, inverter,
    algo_on,      (* raised by the alarm, polled and cleared by main         *)
    connected,    (* the connection to the broker                            *)
    reports,      (* reports of the gateway on their way: <<param, value>>   *)
    pc,           (* where the main thread is                                *)
    second,       (* whether State_management was called for the second time *)
    next          (* the index in WriteOrder of the next write               *)

balance == <<Eb, Pb, SOC, Ps, Pr>>
inputs  == <<meters, Ppv, Pl, reports, connected>>
vars    == <<Value, State, balance, inverter, inputs, algo_on, pc, second, next>>

Atomic == INSTANCE ControlCycle

(* Seeded faults: the grid feeding goes first; the charger's switch is not   *)
(* sent.                                                                     *)
WriteOrderFeedingFirst ==
    <<"Batt_priority_source", "Grid_Feeding_allowed", "Charger_allowed",
      "Inverter_Allowed", "MAX_current_of_AC_IN", "Max_Grid_Feeding_current",
      "Battery_Charge_current_DC", "Smart_boost_allowed", "Force_floating",
      "Floating_voltage">>

WriteOrderWithoutCharger ==
    <<"Batt_priority_source", "Grid_Feeding_allowed",
      "Inverter_Allowed", "MAX_current_of_AC_IN", "Max_Grid_Feeding_current",
      "Battery_Charge_current_DC", "Smart_boost_allowed", "Force_floating",
      "Floating_voltage">>

WriteOrder ==
    <<"Batt_priority_source", "Charger_allowed", "Grid_Feeding_allowed",
      "Inverter_Allowed", "MAX_current_of_AC_IN", "Max_Grid_Feeding_current",
      "Battery_Charge_current_DC", "Smart_boost_allowed", "Force_floating",
      "Floating_voltage">>

(* What ControlCycle assumes of the inputs, and the rest. *)
ASSUME ThreadAssumption ==
    /\ Meters \subseteq Atomic!SubscribedMeters
    /\ MeterReadings \in [Meters -> SUBSET Int]
    /\ Readings \in [Measures -> SUBSET Int]
    /\ Presets \subseteq [Written -> Int]
    /\ Reported \subseteq Written
    /\ MaxReports \in Nat
    /\ MayLose \in BOOLEAN
    /\ Quiet \in BOOLEAN

Init ==
    /\ Atomic!Init
    /\ algo_on = 1 /\ connected = TRUE /\ reports = <<>>
    /\ pc = "poll" /\ second = FALSE /\ next = 1

-----------------------------------------------------------------------------
(* The MQTT thread and the outside world.                                   *)

Polling == pc \in {"poll", "begin"}

MayArrive == connected /\ (Quiet => Polling)

MeterArrives(i, power) ==
    /\ MayArrive
    /\ meters' = [meters EXCEPT ![i] = power]
    /\ Ppv' = Atomic!Production(meters')
    /\ Pl'  = Atomic!Consumption(meters')
    /\ UNCHANGED <<Value, State, balance, inverter, reports, connected,
                   algo_on, pc, second, next>>

Store(p, data) ==
    /\ MayArrive
    /\ Value' = [Value EXCEPT ![p] = data]
    /\ UNCHANGED <<meters, Ppv, Pl, State, balance, inverter, connected,
                   algo_on, pc, second, next>>

ParamArrives(p, data) == Store(p, data) /\ UNCHANGED reports

(* The gateway tells what the inverter holds; the report takes its time. *)
ReportSetpoint(p) ==
    /\ connected /\ Len(reports) < MaxReports
    /\ inverter[p] \in Int
    /\ reports' = Append(reports, <<p, inverter[p]>>)
    /\ UNCHANGED <<Value, meters, Ppv, Pl, State, balance, inverter, connected,
                   algo_on, pc, second, next>>

ReportArrives ==
    /\ reports # <<>>
    /\ Store(Head(reports)[1], Head(reports)[2])
    /\ reports' = Tail(reports)

(* connlost only prints: nothing ever connects again. *)
ConnLost ==
    /\ MayLose /\ connected
    /\ connected' = FALSE
    /\ UNCHANGED <<Value, meters, Ppv, Pl, State, balance, inverter, reports,
                   algo_on, pc, second, next>>

(* catch_alarm, the handler of the timer that fires every 10 s. *)
Alarm ==
    /\ algo_on' = 1
    /\ UNCHANGED <<Value, State, balance, inverter, inputs, pc, second, next>>

-----------------------------------------------------------------------------
(* The main thread.                                                         *)

Goto(from, to) == pc = from /\ pc' = to

Poll ==
    /\ Goto("poll", "begin")
    /\ algo_on = 1
    /\ UNCHANGED <<Value, State, balance, inverter, inputs, algo_on, second, next>>

(* algo_on is cleared and Read_p asks for the readings. *)
Begin ==
    /\ Goto("begin", "calculs")
    /\ algo_on' = 0
    /\ UNCHANGED <<Value, State, balance, inverter, inputs, second, next>>

(* Calculs_p_k, and the power asked from the storage: the balance. *)
Calculs_p_k ==
    /\ Goto("calculs", "flags")
    /\ Eb' = Ppv - Pl
    /\ Pb' = Ppv - Pl
    /\ SOC' = Value["i_soc_value_battery"]
    /\ Ps' = Pb'
    /\ Pr' = 0
    /\ UNCHANGED <<Value, State, inverter, inputs, algo_on, second, next>>

(* State_management: the switches, then the currents, then the ceiling of   *)
(* the current of the state, which is read back from the Value that is sent. *)
Current == IF State = DischargeState THEN "Max_Grid_Feeding_current"
           ELSE "Battery_Charge_current_DC"

Managed == IF second THEN "write" ELSE "decide"

SetFlags ==
    /\ \/ /\ State = 0
          /\ Goto("flags", Managed)
          /\ UNCHANGED Value
       \/ /\ State = DischargeState
          /\ Goto("flags", "currents")
          /\ Value' = DischargeFlags(Value)
       \/ /\ State \in ChargeStates
          /\ Goto("flags", "currents")
          /\ Value' = ChargeFlags(Value)
    /\ UNCHANGED <<State, balance, inverter, inputs, algo_on, second, next>>

SetCurrents ==
    /\ Goto("currents", "ceiling")
    /\ Value' = [Value EXCEPT
                    ![Current] = IF State = DischargeState
                                 THEN FeedingDemand(Ps, Value)
                                 ELSE ChargeDemand(Ps, Value),
                    !["MAX_current_of_AC_IN"] = AcInputCurrent(Value)]
    /\ UNCHANGED <<State, balance, inverter, inputs, algo_on, second, next>>

(* Seeded faults: no ceiling; the ceilings of the two currents swapped. *)
CutToCeilingSkipped ==
    /\ Goto("ceiling", Managed)
    /\ UNCHANGED <<Value, State, balance, inverter, inputs, algo_on, second, next>>

CutToCeilingSwapped ==
    /\ Goto("ceiling", Managed)
    /\ Value' = [Value EXCEPT ![Current] =
                    IF State = DischargeState THEN WithinBreakers(@)
                    ELSE CapAt(@, AcLimit)]
    /\ UNCHANGED <<State, balance, inverter, inputs, algo_on, second, next>>

CutToCeiling ==
    /\ Goto("ceiling", Managed)
    /\ Value' = [Value EXCEPT ![Current] =
                    IF State = DischargeState THEN CapAt(@, AcLimit)
                    ELSE WithinBreakers(@)]
    /\ UNCHANGED <<State, balance, inverter, inputs, algo_on, second, next>>

(* Seeded faults: the decision computes the balance again; algo_on is        *)
(* cleared once more when the cycle has decided.                             *)
TakeDecisionOnNewBalance ==
    LET decision == Decide(Eb, Ppv - Pl, SOC, State)
    IN  /\ Goto("decide", "flags")
        /\ State' = decision.state
        /\ Ps' = decision.Ps
        /\ Pr' = Saturate(Eb, decision.Pr)
        /\ second' = TRUE
        /\ UNCHANGED <<Value, Eb, Pb, SOC, inverter, inputs, algo_on, next>>

TakeDecisionClearingAlarm ==
    LET decision == Decide(Eb, Pb, SOC, State)
    IN  /\ Goto("decide", "flags")
        /\ State' = decision.state
        /\ Ps' = decision.Ps
        /\ Pr' = Saturate(Eb, decision.Pr)
        /\ second' = TRUE
        /\ algo_on' = 0
        /\ UNCHANGED <<Value, Eb, Pb, SOC, inverter, inputs, next>>

(* Algo between its two calls of State_management, and its last test. *)
TakeDecision ==
    LET decision == Decide(Eb, Pb, SOC, State)
    IN  /\ Goto("decide", "flags")
        /\ State' = decision.state
        /\ Ps' = decision.Ps
        /\ Pr' = Saturate(Eb, decision.Pr)
        /\ second' = TRUE
        /\ UNCHANGED <<Value, Eb, Pb, SOC, inverter, inputs, algo_on, next>>

(* Write_p: one message after the other, each waited for up to 10 s.  A     *)
(* publication that fails is not noticed.                                   *)
Send(p) == inverter' = IF connected
                       THEN [inverter EXCEPT ![p] = Command(p, Value[p])]
                       ELSE inverter

(* Seeded fault: the index of the writes is not reset. *)
AdvanceWithoutReset(to) ==
    /\ pc' = IF next < Len(WriteOrder) THEN to ELSE "poll"
    /\ next' = next + 1
    /\ second' = (second /\ next < Len(WriteOrder))

Advance(to) ==
    \/ /\ next < Len(WriteOrder)
       /\ pc' = to
       /\ next' = next + 1
       /\ UNCHANGED second
    \/ /\ next = Len(WriteOrder)
       /\ pc' = "poll"
       /\ next' = 1
       /\ second' = FALSE

Write ==
    /\ pc = "write"
    /\ WriteOrder[next] # "Force_floating"
    /\ Send(WriteOrder[next])
    /\ Advance("write")
    /\ UNCHANGED <<Value, State, balance, inputs, algo_on>>

(* Force_floating is tested, sent and cleared in three accesses. *)
TestForce ==
    /\ pc = "write"
    /\ WriteOrder[next] = "Force_floating"
    /\ IF Value["Force_floating"] = 1
       THEN pc' = "force" /\ UNCHANGED <<next, second>>
       ELSE Advance("write")
    /\ UNCHANGED <<Value, State, balance, inverter, inputs, algo_on>>

SendForce ==
    /\ Goto("force", "release")
    /\ Send("Force_floating")
    /\ UNCHANGED <<Value, State, balance, inputs, algo_on, second, next>>

(* Seeded fault: Force_floating is sent but not cleared. *)
ClearForceForgotten ==
    /\ pc = "release"
    /\ Advance("write")
    /\ UNCHANGED <<Value, State, balance, inverter, inputs, algo_on>>

ClearForce ==
    /\ pc = "release"
    /\ Value' = [Value EXCEPT !["Force_floating"] = 0]
    /\ Advance("write")
    /\ UNCHANGED <<State, balance, inverter, inputs, algo_on>>

Main ==
    \/ Poll \/ Begin \/ Calculs_p_k
    \/ SetFlags \/ SetCurrents \/ CutToCeiling \/ TakeDecision
    \/ Write \/ TestForce \/ SendForce \/ ClearForce

Next ==
    \/ \E i \in Meters : \E power \in MeterReadings[i] : MeterArrives(i, power)
    \/ \E p \in Measures : \E data \in Readings[p] : ParamArrives(p, data)
    \/ \E p \in Reported : ReportSetpoint(p)
    \/ ReportArrives
    \/ ConnLost
    \/ Alarm
    \/ Main

Spec == Init /\ [][Next]_vars

(* The main thread is never blocked for good: each publication is waited    *)
(* for at most 10 s.  Nothing is assumed of the timer and of the messages.  *)
FairSpec == Spec /\ WF_vars(Main)

-----------------------------------------------------------------------------
(* The types of ControlCycle, the program points of the main thread, and     *)
(* the bounds of the write index and of the reports in flight.               *)
TypeOK ==
    /\ Atomic!TypeOK
    /\ algo_on \in {0, 1} /\ connected \in BOOLEAN /\ second \in BOOLEAN
    /\ Len(reports) <= MaxReports
    /\ \A i \in 1..Len(reports) : reports[i] \in Written \X Int
    /\ pc \in {"poll", "begin", "calculs", "flags", "currents", "ceiling",
              "decide", "write", "force", "release"}
    /\ next \in 1..Len(WriteOrder)

Charging  == inverter["Charger_allowed"] = 1
Injecting == inverter["Grid_Feeding_allowed"] = 1

(* The house and the battery, as a connected program sees them. *)
Surplus == connected /\ Ppv >= Pl
Deficit == connected /\ Ppv < Pl /\ ~NearlyEmpty(Value["i_soc_value_battery"])

(* Main waits for the next alarm and its writes reached the inverter. *)
AtRest == Polling /\ connected

(* Whatever messages arrived while the cycle ran, between two cycles the     *)
(* inverter is in the mode of STATE, charging or injecting and never both.   *)
ModeMatchesState ==
    AtRest => /\ State = DischargeState => Injecting /\ ~Charging
              /\ State \in ChargeStates => Charging /\ ~Injecting

(* Write_p sends the charger's switch before the one of the grid feeding:    *)
(* once the program has decided, no single write lets the battery feed the   *)
(* grid while the charger is still allowed, even if the connection is lost   *)
(* in the middle of the writes.                                              *)
InjectionNeverStartsWhileCharging ==
    [][State # 0 /\ ~Injecting /\ Injecting' => ~Charging]_vars

(* State_management leaves currents above their ceiling in the very Values   *)
(* that are sent, and the reports of the gateway overwrite them while it     *)
(* cuts them.  The inverter is never sent a charge current the breakers do   *)
(* not stand, nor told to feed more than the AC-IN side stands, all the same. *)
CeilingsHold ==
    /\ ~Gt(inverter["Battery_Charge_current_DC"], BreakerLimit)
    /\ ~Gt(inverter["Max_Grid_Feeding_current"], AcLimit)

(* Between two cycles the inverter does not inject from a battery that was   *)
(* empty, nor charge one that was full, when the cycle read it, even though  *)
(* the state of charge and the balance go on changing while it decides.      *)
BatteryProtected ==
    AtRest /\ State # 0 =>
        /\ Injecting => ~Empty(SOC)
        /\ Charging /\ Full(SOC) =>
              ~Gt(inverter["Battery_Charge_current_DC"], 0)

(* An alarm is never lost: wherever it interrupts the main thread, a cycle   *)
(* that starts afterwards takes a decision, even if no alarm follows.        *)
AlarmServed == (algo_on = 1) ~> (pc = "calculs")

(* Changing from injecting to charging goes through both; the writes that    *)
(* follow end it, unless the connection is lost in between.                  *)
OverlapCloses ==
    (State # 0 /\ Charging /\ Injecting)
        ~> (~(Charging /\ Injecting) \/ ~connected)

(* The plant follows its inputs: as long as the timer keeps firing, once the  *)
(* connection stays up and the house keeps producing enough, the inverter     *)
(* ends up charging for good; once it keeps consuming more, with a battery    *)
(* that is not nearly empty, it ends up injecting for good - whatever the     *)
(* cycle in progress had decided, and whatever limits and levels go on        *)
(* arriving meanwhile.                                                       *)
PlantFollows ==
    []<>(algo_on = 1) =>
        /\ <>[]Surplus => <>[](Charging /\ ~Injecting)
        /\ <>[]Deficit => <>[](Injecting /\ ~Charging)

(* "non on ne produit pas", says Algo of the branch that chooses state 1:    *)
(* when the switches and the current that go out are those of injection, the *)
(* battery is asked to cover a deficit, never to give away a surplus.        *)
InjectsDeficitOnly == pc = "write" /\ State = DischargeState => Ps < 0
=============================================================================
