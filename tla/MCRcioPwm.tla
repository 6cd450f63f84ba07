------------------------------ MODULE MCRcioPwm ------------------------------
(***************************************************************************)
(* Small instances of RcioPwm for TLC.  The board has one or two timers    *)
(* with at most two channels: a control pin and one that follows it.       *)
(***************************************************************************)
EXTENDS RcioPwm

CONSTANTS g1     \* the GPIO thread

NoMask  == {{}}

NoThreads  == {}
OneGpio    == {g1}
=============================================================================
