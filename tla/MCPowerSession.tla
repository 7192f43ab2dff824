--------------------------- MODULE MCPowerSession ---------------------------
(* Model checking of PowerSession with interchangeable sessions.           *)
EXTENDS PowerSession, TLC

SessionSymmetry == Permutations(Sessions)

=============================================================================
