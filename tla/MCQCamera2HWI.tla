--------------------------- MODULE MCQCamera2HWI ---------------------------
EXTENDS QCamera2HWI

\* One thread drives the camera, as the camera service does; it never sets
\* the recording hint itself (start_recording does) and leaves out two calls
\* that no state treats in a way of its own.
MCCallers == {"app"}
MCCallsOf == [app |-> DOMAIN First \ {"query", "prepare_preview"}]
MCSettings == {[zsl |-> z, hint |-> FALSE] : z \in BOOLEAN}
=============================================================================
