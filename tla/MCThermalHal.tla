---------------------------- MODULE MCThermalHal ----------------------------
(* The skin sensor of this device in steps of ten degrees, and the battery   *)
(* voltage sensor, which throttles when the reading is low.                *)
EXTENDS ThermalHal, TLC

CONSTANTS skin, vbat

MCConfig ==
    skin :> [type |-> "SKIN", hot |-> TRUE, sev |-> 3, throt |-> 5, shut |-> 9, hyst |-> 1] @@
    vbat :> [type |-> "BCL_VOLTAGE", hot |-> FALSE, sev |-> 3, throt |-> 4, shut |-> 2, hyst |-> 3]
=============================================================================
