----------------------- MODULE RegulThreadsRefinement -----------------------
(***************************************************************************)
(* When no message arrives while a cycle runs, the accesses of the main    *)
(* thread add up to the atomic cycle of ControlCycle: State_management cut  *)
(* in steps computes what its operators do, and the writes send what Algo  *)
(* decided.  The cycle of ControlCycle happens at the last write, so until  *)
(* then its variables keep the values they had when the cycle started; a   *)
(* history variable remembers them.                                        *)
(***************************************************************************)
EXTENDS RegulThreads

VARIABLE start   (* what the running cycle has changed since it started *)

Here == [Value |-> Value, State |-> State, Eb |-> Eb, Pb |-> Pb, SOC |-> SOC,
         Ps |-> Ps, Pr |-> Pr, inverter |-> inverter]

Starting == pc = "begin"

HInit == Init /\ start = Here

HNext ==
    /\ Next
    /\ start' = IF Starting /\ pc' = "calculs" THEN Here ELSE start

HSpec == HInit /\ [][HNext]_<<vars, start>>

Seen == IF Polling THEN Here ELSE start

Abstract == INSTANCE ControlCycle WITH
    Value <- Seen.Value, State <- Seen.State, Eb <- Seen.Eb, Pb <- Seen.Pb,
    SOC <- Seen.SOC, Ps <- Seen.Ps, Pr <- Seen.Pr, inverter <- Seen.inverter

(* Without messages during the cycles, RegulThreads implements ControlCycle. *)
RefinesControlCycle == Abstract!Spec
=============================================================================
