------------------------------ MODULE MCLights ------------------------------
(* Two channels; dark, a static mixed colour, and two colours that blink,  *)
(* one of them with a period the code replaces.                            *)
EXTENDS Lights

MCLightStates ==
    {Off,
     [color |-> {1, 2}, flash |-> FALSE, ms |-> 0],
     [color |-> {1}, flash |-> TRUE, ms |-> 0],
     [color |-> {2}, flash |-> TRUE, ms |-> 60]}
=============================================================================
