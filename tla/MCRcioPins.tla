----------------------------- MODULE MCRcioPins -----------------------------
(***************************************************************************)
(* Small instances of RcioPins for TLC.  Two threads and two pins show     *)
(* what a callback on one pin does to another; a setting that asks for a   *)
(* wide mix of calls and faults keeps to one thread and one pin.           *)
(***************************************************************************)
EXTENDS RcioPins

CONSTANTS u1, u2

\* Two users request, set, turn to input and free two pins.
TwoUsers ==
  [users |-> {u1, u2}, pins |-> {0, 1}, pwm |-> {}, levels |-> {1},
   inputs |-> {TRUE}, motors |-> {FALSE}, masks |-> {}, resets |-> FALSE,
   faulty |-> FALSE, early |-> FALSE, left |-> {{}, {EN, V}}]

\* Every call of a user on a pin, also while the probe is under way.
AllCalls ==
  [users |-> {u1}, pins |-> {0}, pwm |-> {0}, levels |-> {0, 1},
   inputs |-> BOOLEAN, motors |-> BOOLEAN, masks |-> {{}, {0}},
   resets |-> TRUE, faulty |-> FALSE, early |-> TRUE, left |-> {{}}]

\* Every call and every fault of the link; no writes to pwmignore.
AllFaults == [AllCalls EXCEPT !.levels = {1}, !.inputs = {TRUE}, !.masks = {},
                                   !.faulty = TRUE, !.early = FALSE]

\* A GPIO user takes pins from their PWM users.
Taking ==
  [users |-> {u1}, pins |-> {0, 1}, pwm |-> {0, 1}, levels |-> {1},
   inputs |-> {}, motors |-> {FALSE}, masks |-> {}, resets |-> FALSE,
   faulty |-> FALSE, early |-> FALSE, left |-> {{}}]

MostSettings == {TwoUsers, AllCalls, AllFaults, Taking}
TakingOnly   == {Taking}
=============================================================================
