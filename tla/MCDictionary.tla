---------------------------- MODULE MCDictionary ----------------------------
(* Dictionary with enough keys for a first, a last and two middle nodes. *)
EXTENDS Dictionary

=============================================================================
