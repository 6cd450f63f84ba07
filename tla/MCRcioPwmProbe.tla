--------------------------- MODULE MCRcioPwmProbe ---------------------------
(***************************************************************************)
(* Small instances of RcioPwmProbe for TLC: one timer with one channel,    *)
(* which in the old way is on default_frequency.                           *)
(***************************************************************************)
EXTENDS RcioPwmProbe

CONSTANTS g1     \* the GPIO thread

NoMask    == {{}}
LowMask   == {{}, {0}}   \* the user ignores the channel, or not
NoThreads == {}
OneGpio   == {g1}
=============================================================================
