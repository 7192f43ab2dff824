------------------------ MODULE MCInteractionHandler ------------------------
(* InteractionHandler with a negative duration among the requests, which a *)
(* configuration file cannot write.                                        *)
EXTENDS InteractionHandler

MCDurations == {-3, 0, 1, 2}

=============================================================================
