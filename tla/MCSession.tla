----------------------------- MODULE MCSession -----------------------------
(* Session with a set-point at the head of the dictionary, which no request *)
(* asks for, and a reading in its middle, which each cycle does.            *)
EXTENDS Session

MCPublished == {"Charger_allowed", "i_soc_value_battery"}
=============================================================================
