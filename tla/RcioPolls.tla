------------------------------ MODULE RcioPolls ------------------------------
(***************************************************************************)
(* The worker kthread of src/src/rcio_core.c and what it polls: the ADC,   *)
(* the RC input, the status page and the heartbeat (rcio_adc.c,            *)
(* rcio_rcin.c, rcio_status.c, rcio_safety.c), each behind a timeout in    *)
(* jiffies, and the arming of the PWM outputs, which hangs on a timeout    *)
(* too.                                                                    *)
(*                                                                         *)
(* jiffies is a counter of W values that wraps, and time_before compares   *)
(* two of its values by the sign of their difference.  A pass of the       *)
(* worker, its sleep included, takes at most MaxPass jiffies.  What the    *)
(* outputs and the pins do in a pass is in RcioPwm and RcioPins.           *)
(*                                                                         *)
(* watched, age and enabled are history: a behaviour watches one thing,    *)
(* and age says for how many jiffies it has been so; enabled says the same *)
(* of the last rcio_pwm_enable.  Both count up to one past the bound they  *)
(* are compared with.                                                      *)
(***************************************************************************)
EXTENDS Integers

CONSTANTS
  W,         \* values of an unsigned long
  MaxPass,   \* jiffies that a pass of the worker may take
  Period,    \* per poll: what an update adds to jiffies
  First,     \* per poll: what its probe adds
  ArmTicks,  \* HZ / 10
  Watches,   \* what a behaviour may watch (model only)
  Changes    \* per watch: what comes and goes meanwhile

Polls == {"adc", "rcin", "status", "safety"}

\* Passes and periods are short against the range of jiffies.  No probe sets
\* a timeout later than an update does (HZ / 50 there, HZ / 5 here).  The
\* channels are watched on a link that works.
ASSUME PollsAssumption ==
  /\ W \in Nat \ {0} /\ W % 2 = 0
  /\ MaxPass \in Nat \ {0} /\ 4 * MaxPass <= W
  /\ Period \in [Polls -> 1 .. (W \div 2) - 1]
  /\ First \in [Polls -> 1 .. (W \div 2) - 1]
  /\ \A p \in Polls : First[p] <= Period[p]
  /\ ArmTicks \in 1 .. (W \div 2) - 1
  /\ Watches \subseteq {"rc", "channels", "link", "beat", "config"}
  /\ Changes \in [Watches -> SUBSET {"rc", "link", "heartbeat", "config",
                                     "enable"}]
  /\ "channels" \in Watches => "link" \notin Changes["channels"]

VARIABLES
  jiffies,
  pass_ticks,         \* jiffies of the worker's pass so far
  wpc,                \* the worker's place in its pass
  timeout,            \* per poll
  armtimeout, armed,  \* rcio_pwm.c
  connected,          \* rcio_rcin.c
  measured,           \* rcio_rcin.c: some measurement is not zero
  alive,              \* rcio_status.c
  heartbeat_enabled,  \* rcio_safety.c
  rc_ok, link,        \* board: RC input is valid; board: it answers
  watched, age, enabled

timeVars  == <<jiffies, pass_ticks>>
pwmVars   == <<armtimeout, armed>>
rcVars    == <<connected, measured>>
boardVars == <<rc_ok, link>>
history   == <<watched, age, enabled>>
vars == <<timeVars, wpc, timeout, pwmVars, rcVars, alive, heartbeat_enabled,
          boardVars, history>>

\* From one poll of p to the next: its period, the rest of the pass that set
\* the timeout, the pass that just missed it and the one that did not.
Bound(p) == Period[p] + 3 * MaxPass - 1

\* From one look at armtimeout to the end of the next pass's.
Stale == 2 * MaxPass

\* From here on armtimeout seems to lie ahead of jiffies again.
RearmAge == ArmTicks + W \div 2

Later(n) == (jiffies + n) % W

(* The driver after its probe, before the worker's first pass. *)
Init ==
  /\ jiffies \in 0 .. (W - 1)
  /\ pass_ticks = 0
  /\ wpc = "pwm"
  /\ timeout = [p \in Polls |-> Later(First[p])]
  /\ armtimeout = 0 /\ armed = FALSE
  /\ connected = FALSE /\ measured = FALSE
  /\ alive = FALSE
  /\ heartbeat_enabled = TRUE
  /\ rc_ok \in BOOLEAN /\ link = TRUE
  /\ watched \in Watches /\ age = 0 /\ enabled = Stale + 1

-----------------------------------------------------------------------------
(* The worker                                                              *)

time_before(a, b) == (a - b) % W >= W \div 2

\* Mutant: times are compared as numbers.
DueByNumber(p) == jiffies >= timeout[p]

Due(p) == ~time_before(jiffies, timeout[p])

\* Mutant: the timeout is wider than jiffies.
RefreshWide(p) == timeout' = [timeout EXCEPT ![p] = jiffies + Period[p]]

Refresh(p) == timeout' = [timeout EXCEPT ![p] = Later(Period[p])]

Goto(from, to) == wpc = from /\ wpc' = to

\* Mutant: times are compared as numbers.
CheckArmedByNumber ==
  /\ Goto("pwm", "pwm_write")
  /\ armed' = (jiffies < armtimeout)
  /\ UNCHANGED <<timeVars, timeout, armtimeout, rcVars, alive,
                 heartbeat_enabled, boardVars, history>>

\* The first lines of rcio_pwm_update
CheckArmed ==
  /\ Goto("pwm", "pwm_write")
  /\ armed' = (time_before(jiffies, armtimeout) /\ armtimeout > 0)
  /\ UNCHANGED <<timeVars, timeout, armtimeout, rcVars, alive,
                 heartbeat_enabled, boardVars, history>>

\* The rest of it reads armed again, twice: up to here an enable or disable
\* decides whether this pass writes the outputs.  What it writes is in RcioPwm.
WriteIfArmed ==
  /\ Goto("pwm_write", "adc")
  /\ UNCHANGED <<timeVars, timeout, pwmVars, rcVars, alive,
                 heartbeat_enabled, boardVars, history>>

\* A poll that is not due
NotDue(p, next) ==
  /\ ~Due(p)
  /\ Goto(p, next)
  /\ UNCHANGED <<timeVars, timeout, pwmVars, rcVars, alive,
                 heartbeat_enabled, boardVars, history>>

AdcRead ==
  /\ Due("adc")
  /\ Goto("adc", "rcin")
  /\ IF link THEN Refresh("adc") ELSE UNCHANGED timeout
  /\ UNCHANGED <<timeVars, pwmVars, rcVars, alive, heartbeat_enabled,
                 boardVars, history>>

\* The first half of rcin_get_raw_values: is there anything to fetch?
FlagsSayInput == link /\ rc_ok

\* Mutant: an error leaves the last answer standing.
RcinIgnoreLoss ==
  /\ Due("rcin")
  /\ IF FlagsSayInput
     THEN Goto("rcin", "rcin_values") /\ UNCHANGED rcVars
     ELSE Goto("rcin", "status") /\ UNCHANGED rcVars
  /\ UNCHANGED <<timeVars, timeout, pwmVars, alive, heartbeat_enabled,
                 boardVars, history>>

\* The flags, then the values.  Only a success refreshes the timeout; only
\* -ENOTCONN clears the measurements.
RcinReadFlags ==
  /\ Due("rcin")
  /\ IF FlagsSayInput
     THEN Goto("rcin", "rcin_values") /\ UNCHANGED rcVars
     ELSE /\ Goto("rcin", "status")
          /\ connected' = FALSE
          /\ measured' = (measured /\ ~link)
  /\ UNCHANGED <<timeVars, timeout, pwmVars, alive, heartbeat_enabled,
                 boardVars, history>>

\* Values out of range are skipped.
RcinReadValues ==
  /\ Goto("rcin_values", "status")
  /\ connected' = link
  /\ \E valid \in BOOLEAN : measured' = (measured \/ (link /\ valid))
  /\ IF link THEN Refresh("rcin") ELSE UNCHANGED timeout
  /\ UNCHANGED <<timeVars, pwmVars, alive, heartbeat_enabled, boardVars, history>>

StatusRead ==
  /\ Due("status")
  /\ IF link THEN Goto("status", "status_crc") /\ UNCHANGED alive
             ELSE Goto("status", "safety") /\ alive' = FALSE
  /\ UNCHANGED <<timeVars, timeout, pwmVars, rcVars, heartbeat_enabled,
                 boardVars, history>>

\* The CRC is read again; whatever comes of it the board is alive.
StatusReadCrc ==
  /\ Goto("status_crc", "safety")
  /\ alive' = TRUE
  /\ Refresh("status")
  /\ UNCHANGED <<timeVars, pwmVars, rcVars, heartbeat_enabled, boardVars, history>>

\* The age of w starts again.
Restart(w) ==
  /\ age' = IF watched = w THEN 0 ELSE age
  /\ UNCHANGED <<watched, enabled>>

rcio_safety_do_heartbeat == IF link THEN Restart("beat") ELSE UNCHANGED history

Heartbeat ==
  /\ Due("safety")
  /\ Goto("safety", "sleep")
  /\ IF heartbeat_enabled THEN rcio_safety_do_heartbeat ELSE UNCHANGED history
  /\ Refresh("safety")
  /\ UNCHANGED <<timeVars, pwmVars, rcVars, alive, heartbeat_enabled,
                 boardVars>>

\* usleep_range ends, the next pass begins.
Sleep ==
  /\ Goto("sleep", "pwm")
  /\ pass_ticks' = 0
  /\ UNCHANGED <<jiffies, timeout, pwmVars, rcVars, alive, heartbeat_enabled,
                 boardVars, history>>

WorkerStep ==
  \/ CheckArmed \/ WriteIfArmed
  \/ NotDue("adc", "rcin") \/ AdcRead
  \/ NotDue("rcin", "status") \/ RcinReadFlags \/ RcinReadValues
  \/ NotDue("status", "safety") \/ StatusRead \/ StatusReadCrc
  \/ NotDue("safety", "sleep") \/ Heartbeat
  \/ Sleep

-----------------------------------------------------------------------------
(* The clock, the users and the board                                      *)

\* Watched is a receiver or board that is lost, a heartbeat that is due for
\* being enabled on a link that works, the last config of a channel.
Running ==
  CASE watched \in {"rc", "channels"} -> ~rc_ok
    [] watched = "link"   -> ~link
    [] watched = "beat"   -> heartbeat_enabled /\ link
    [] watched = "config" -> TRUE

AgeBound ==
  CASE watched \in {"rc", "channels"} -> Bound("rcin")
    [] watched = "link"   -> Bound("status")
    [] watched = "beat"   -> Bound("safety")
    [] watched = "config" -> RearmAge - 1

Tick ==
  /\ pass_ticks < MaxPass
  /\ pass_ticks' = pass_ticks + 1
  /\ jiffies' = Later(1)
  /\ age' = IF ~Running THEN 0 ELSE IF age > AgeBound THEN age ELSE age + 1
  /\ enabled' = IF enabled > Stale THEN enabled ELSE enabled + 1
  /\ UNCHANGED <<wpc, timeout, pwmVars, rcVars, alive, heartbeat_enabled,
                 boardVars, watched>>

Changing(what) == what \in Changes[watched]

\* rcio_pwm_config, as far as the clock is concerned
PwmConfig ==
  /\ Changing("config")
  /\ armtimeout' = Later(ArmTicks)
  /\ Restart("config")
  /\ UNCHANGED <<timeVars, wpc, timeout, armed, rcVars, alive,
                 heartbeat_enabled, boardVars>>

\* rcio_pwm_enable, which leaves armtimeout as it is
PwmEnable ==
  /\ Changing("enable")
  /\ armed' = TRUE
  /\ enabled' = 0
  /\ UNCHANGED <<timeVars, wpc, timeout, armtimeout, rcVars, alive,
                 heartbeat_enabled, boardVars, watched, age>>

\* rcio_pwm_disable, when it has silenced its channel (see RcioPwm).
PwmDisable ==
  /\ Changing("enable")
  /\ armed' = FALSE
  /\ UNCHANGED <<timeVars, wpc, timeout, armtimeout, rcVars, alive,
                 heartbeat_enabled, boardVars, history>>

HeartbeatEnabledStore(value) ==
  /\ Changing("heartbeat")
  /\ heartbeat_enabled' = value
  /\ Restart("beat")
  /\ UNCHANGED <<timeVars, wpc, timeout, pwmVars, rcVars, alive, boardVars>>

\* The receiver or the board is lost, or found again (external).
RcChange ==
  /\ Changing("rc")
  /\ rc_ok' = ~rc_ok
  /\ age' = IF watched \in {"rc", "channels"} THEN 0 ELSE age
  /\ UNCHANGED <<timeVars, wpc, timeout, pwmVars, rcVars, alive,
                 heartbeat_enabled, link, watched, enabled>>

LinkChange ==
  /\ Changing("link")
  /\ link' = ~link
  /\ age' = IF watched \in {"link", "beat"} THEN 0 ELSE age
  /\ UNCHANGED <<timeVars, wpc, timeout, pwmVars, rcVars, alive,
                 heartbeat_enabled, rc_ok, watched, enabled>>

Next ==
  \/ WorkerStep
  \/ Tick
  \/ PwmConfig \/ PwmEnable \/ PwmDisable
  \/ \E value \in BOOLEAN : HeartbeatEnabledStore(value)
  \/ RcChange \/ LinkChange

Spec == Init /\ [][Next]_vars

-----------------------------------------------------------------------------
(* Properties                                                              *)

Places == {"pwm", "pwm_write", "adc", "rcin", "rcin_values", "status",
           "status_crc", "safety", "sleep"}

(* The shape of the state; every timeout is a value of jiffies. *)
TypeOK ==
  /\ jiffies \in 0 .. (W - 1)
  /\ pass_ticks \in 0 .. MaxPass
  /\ wpc \in Places
  /\ timeout \in [Polls -> 0 .. (W - 1)]
  /\ armtimeout \in 0 .. (W - 1) /\ armed \in BOOLEAN
  /\ connected \in BOOLEAN /\ measured \in BOOLEAN
  /\ alive \in BOOLEAN
  /\ heartbeat_enabled \in BOOLEAN
  /\ rc_ok \in BOOLEAN /\ link \in BOOLEAN
  /\ watched \in Watches
  /\ age \in 0 .. (AgeBound + 1) /\ enabled \in 0 .. (Stale + 1)

(* A receiver that has been lost for longer than a poll and its passes take *)
(* is not reported as connected, wherever the loss fell between the two     *)
(* reads of rcin_get_raw_values, with or without a link, at any value of    *)
(* jiffies (rcio_rcin.c:94-121, 150-180).                                   *)
RcLossSeen == watched = "rc" /\ connected => age <= Bound("rcin")

(* The same for the board: alive is not left standing from a board that     *)
(* stopped answering (rcio_status.c:94-113).                                *)
BoardLossSeen == watched = "link" /\ alive => age <= Bound("status")

(* While the heartbeat is enabled and the link works the board gets one in  *)
(* time, however long either was off before (rcio_safety.c:64-78).          *)
HeartbeatInTime == watched = "beat" => age <= Bound("safety")

(* On a link that works the channels of a lost receiver read zero: no frame *)
(* stays behind as the last measurement (rcio_rcin.c:100-105).              *)
LostChannelsZero == watched = "channels" /\ measured => age <= Bound("rcin")

\* Jiffies for which armed may be out of date: until the worker looks again.
Room == IF wpc = "pwm" THEN Stale ELSE MaxPass

(* "timeout in 0.1s" (rcio_pwm.c:462): with the last config of a channel    *)
(* longer ago than that, and the pass over in which it ran out, armed is    *)
(* true only for a moment after rcio_pwm_enable (336), which sets it        *)
(* without a timeout: a pass that acts on armed (167, 213) acts on an       *)
(* enable of that same pass, and before the next pass has looked, of that   *)
(* one or the pass before.  This holds at any value of jiffies, until half  *)
(* their range has gone by and armtimeout, which nothing resets, lies ahead *)
(* of them again: 248 days on 32 bits at 100 Hz (160-165).                  *)
ArmedInTime ==
  watched = "config" /\ armed =>
    \/ age \notin ArmTicks + Room .. RearmAge - 1
    \/ enabled <= Room
=============================================================================
