------------------------------ MODULE Session ------------------------------
(***************************************************************************)
(* The session with the broker: main connects, subscribes to the topics of  *)
(* the dictionary and of the energy meters, then requests the readings once *)
(* per cycle; the MQTT thread looks the parameter of each message up in the *)
(* dictionary.  Parameter_dic, the global it looks up from, is also the     *)
(* cursor of the subscription loop.  A topic is named by its parameter.     *)
(***************************************************************************)
EXTENDS DictList, SequencesExt

CONSTANTS
    Published,    (* the parameters whose messages are followed              *)
    Data,         (* the values the gateway may hold for them                *)
    Not_Value     (* the Value of a parameter nothing was received for       *)

(* The parameters Read_p requests in each cycle. *)
Requested ==
    {"i_Battery_Voltage_Studer", "i_Input_voltage_AC_IN", "i_State_of_charge",
     "i_Battery_Charge_current", "i_Output_voltage_AC_OUT",
     "i_Output_power_AC_OUT", "i_Battery_cycle_phase", "i_Input_current_AC_IN",
     "i_Battery_Voltage", "i_Battery_Current", "i_soc_value_battery",
     "i_State_of_Health", "i_Battery_temp", "i_Battery_Voltage_Charge_limit",
     "i_Battery_Voltage_Discharge_limit", "i_Battery_Current_Charge_limit",
     "i_Battery_Current_Discharge_limit", "i_Battery_Current_Charge_recommanded",
     "i_Battery_Current_Discharge_recommanded"}

(* The order in which init_dic adds the parameters. *)
InitOrder ==
    <<"Charger_allowed", "Battery_Charge_current_DC", "Floating_voltage",
      "Force_floating", "Inverter_Allowed", "Batt_priority_source",
      "Smart_boost_allowed", "MAX_current_of_AC_IN", "Grid_Feeding_allowed",
      "Max_Grid_Feeding_current", "i_Battery_Voltage_Studer",
      "i_Battery_Charge_current", "i_State_of_charge", "i_Battery_cycle_phase",
      "i_Input_voltage_AC_IN", "i_Input_current_AC_IN",
      "i_Output_voltage_AC_OUT", "i_Output_power_AC_OUT", "i_Battery_Voltage",
      "i_Battery_Current", "i_soc_value_battery", "i_State_of_Health",
      "i_Battery_temp", "i_Battery_Voltage_Charge_limit",
      "i_Battery_Voltage_Discharge_limit", "i_Battery_Current_Charge_limit",
      "i_Battery_Current_Discharge_limit",
      "i_Battery_Current_Charge_recommanded",
      "i_Battery_Current_Discharge_recommanded", "Transfer_relay_allowed">>

(* The dictionary once the first n of them are added. *)
Added[n \in 0..Len(InitOrder)] ==
    IF n = 0 THEN <<>>
    ELSE dict_add(Added[n - 1], InitOrder[n], InitOrder[n])

init_dic == Added[Len(InitOrder)]

(* The indices in meters[] of the topics sub_energ_counter lists, in its    *)
(* order, and how many of them its loop reaches.                            *)
MeterOrder == <<0, 1, 2, 3, 4, 5, 10, 6, 7, 8, 9>>

(* Seeded fault: the loop is one turn shorter still. *)
MetersReachedShort == 9

MetersReached == 10

ASSUME SessionAssumption ==
    /\ Published \subseteq ToSet(InitOrder) /\ NULL \notin ToSet(InitOrder)
    /\ Not_Value \notin Data

VARIABLES
    Parameter_dic,   (* the dictionary, or what is left of it from the cursor *)
    Value,           (* the Value of the published parameters                *)
    subscribed,      (* the parameters whose topic is subscribed             *)
    metered,         (* how many energy meters are subscribed                *)
    connected,       (* the connection to the broker                         *)
    requests,        (* the requests of Read_p the gateway has not answered  *)
    flight,          (* messages on their way to the program, <<param, data>> *)
    actual,          (* what the gateway holds                               *)
    pc               (* where the main thread is                             *)

outside == <<requests, flight, actual>>
vars == <<Parameter_dic, Value, subscribed, metered, connected, outside, pc>>

Init ==
    /\ Parameter_dic = init_dic
    /\ Value = [p \in Published |-> Not_Value]
    /\ subscribed = {} /\ metered = 0
    /\ connected = FALSE
    /\ requests = {} /\ flight = <<>> /\ actual \in [Published -> Data]
    /\ pc = "connect"

-----------------------------------------------------------------------------
(* The main thread.                                                         *)

Goto(from, to) == pc = from /\ pc' = to

Connect ==
    /\ Goto("connect", "subscribe")
    /\ connected' = TRUE
    /\ UNCHANGED <<Parameter_dic, Value, subscribed, metered, outside>>

ConnectFails ==
    /\ Goto("connect", "exited")
    /\ UNCHANGED <<Parameter_dic, Value, subscribed, metered, connected, outside>>

(* Seeded fault: the loop stops on the head only, one entry later. *)
MoreEntriesOfHead == Parameter_dic # <<>>

(* The loop stops on the last entry, whose tail is NULL. *)
MoreEntries == Len(Parameter_dic) > 1

Subscribe ==
    /\ Goto("subscribe", "advance")
    /\ MoreEntries
    /\ subscribed' = IF connected
                     THEN subscribed \cup {Head(Parameter_dic).value}
                     ELSE subscribed
    /\ UNCHANGED <<Parameter_dic, Value, metered, connected, outside>>

Advance ==
    /\ Goto("advance", "subscribe")
    /\ Parameter_dic' = Tail(Parameter_dic)
    /\ UNCHANGED <<Value, subscribed, metered, connected, outside>>

(* Seeded fault: the cursor stays where the loop left it. *)
NotRestored ==
    /\ Goto("subscribe", "meters")
    /\ ~MoreEntries
    /\ UNCHANGED <<Parameter_dic, Value, subscribed, metered, connected, outside>>

Restore ==
    /\ Goto("subscribe", "meters")
    /\ ~MoreEntries
    /\ Parameter_dic' = init_dic
    /\ UNCHANGED <<Value, subscribed, metered, connected, outside>>

sub_energ_counter ==
    /\ Goto("meters", "run")
    /\ \/ connected /\ metered' = MetersReached
       \/ ~connected /\ metered' \in 0..MetersReached
    /\ UNCHANGED <<Parameter_dic, Value, subscribed, connected, outside>>

(* A cycle of the main loop starts: Read_p publishes its requests. *)
Read_p ==
    /\ pc = "run" /\ connected
    /\ requests' = Requested \cap Published
    /\ UNCHANGED <<Parameter_dic, Value, subscribed, metered, connected,
                   flight, actual, pc>>

Main ==
    \/ Connect \/ ConnectFails
    \/ Subscribe \/ Advance \/ Restore
    \/ sub_energ_counter
    \/ Read_p

-----------------------------------------------------------------------------
(* The gateway and the broker.                                              *)

(* The gateway's value of p changes, by itself or by a command. *)
Change(p, data) ==
    /\ actual' = [actual EXCEPT ![p] = data]
    /\ UNCHANGED <<Parameter_dic, Value, subscribed, metered, connected,
                   requests, flight, pc>>

(* Bound: one message of each topic on its way. *)
Transmit(p) ==
    /\ connected /\ p \in subscribed
    /\ \A i \in DOMAIN flight : flight[i][1] # p
    /\ flight' = Append(flight, <<p, actual[p]>>)
    /\ UNCHANGED <<Parameter_dic, Value, subscribed, metered, connected,
                   actual, pc>>

(* The gateway answers a request of this program, or tells a value because  *)
(* another client of the broker asked for it or set it.                      *)
Answer(p) == p \in requests /\ requests' = requests \ {p} /\ Transmit(p)

Announce(p) == Transmit(p) /\ UNCHANGED requests

(* The MQTT thread: msgarrvd, for a topic that is not of a meter.  The       *)
(* message of a parameter that is not found is dropped.                     *)
Target(p) == dict_get(Parameter_dic, p)

msgarrvd ==
    /\ flight # <<>>
    /\ flight' = Tail(flight)
    /\ LET p == Head(flight)[1]
       IN  Value' = IF Target(p) = NULL THEN Value
                    ELSE [Value EXCEPT ![Target(p)] = Head(flight)[2]]
    /\ UNCHANGED <<Parameter_dic, subscribed, metered, connected, requests,
                   actual, pc>>

connlost ==
    /\ connected
    /\ connected' = FALSE
    /\ UNCHANGED <<Parameter_dic, Value, subscribed, metered, outside, pc>>

Next ==
    \/ Main
    \/ \E p \in Published, data \in Data : Change(p, data)
    \/ \E p \in Published : Answer(p) \/ Announce(p)
    \/ msgarrvd
    \/ connlost

Spec == Init /\ [][Next]_vars

(* The main thread goes on, the client delivers what it received, and the    *)
(* gateway answers the requests; it need not tell anything unasked.          *)
FairSpec ==
    /\ Spec
    /\ WF_vars(Main)
    /\ WF_vars(msgarrvd)
    /\ \A p \in Published : WF_vars(Answer(p))

-----------------------------------------------------------------------------
(* The cursor of the subscription loop is always on an entry of the          *)
(* dictionary: the lookup of msgarrvd never starts from a NULL pointer.      *)
TypeOK ==
    /\ Parameter_dic # <<>>
    /\ \E n \in DOMAIN init_dic :
          Parameter_dic = SubSeq(init_dic, n, Len(init_dic))
    /\ Value \in [Published -> Data \cup {Not_Value}]
    /\ subscribed \subseteq ToSet(InitOrder) /\ metered \in 0..Len(MeterOrder)
    /\ connected \in BOOLEAN
    /\ requests \subseteq Requested \cap Published
    /\ actual \in [Published -> Data]
    /\ \A i \in DOMAIN flight : flight[i] \in Published \X Data
    /\ pc \in {"connect", "subscribe", "advance", "meters", "run", "exited"}

(* Though neither loop reaches the end of its list, a program that runs with *)
(* its connection up hears every reading it requests, and every meter but    *)
(* SKIN_RECEP, the one ControlCycle leaves out.                              *)
HeardWhenRunning ==
    pc = "run" /\ connected =>
        /\ Requested \subseteq subscribed
        /\ {MeterOrder[i] : i \in 1..metered} = (0..8) \cup {10}

(* The values lost while the subscription loop moves the cursor are made up  *)
(* for: once the connection stays up and the gateway's value of a requested  *)
(* parameter stays the same, the program ends up holding it.                 *)
CatchesUp ==
    \A p \in Published \cap Requested, data \in Data :
        <>[](pc = "run" /\ connected /\ actual[p] = data)
            => <>[](Value[p] = data)

(* "error can't find : %s, in the dictionary" (conversion.c:150): a message  *)
(* is dropped because its topic has no entry in the dictionary.              *)
DroppedWhenUnknown ==
    [][msgarrvd /\ Target(Head(flight)[1]) = NULL
        => ~dict_has(init_dic, Head(flight)[1])]_vars
=============================================================================
