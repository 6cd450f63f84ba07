------------------------------ MODULE RcioPins ------------------------------
(***************************************************************************)
(* The pins of the rail and who owns them: the GPIO chip of                *)
(* src/src/rcio_gpio.c and the request and free callbacks of               *)
(* src/src/rcio_pwm.c.                                                     *)
(*                                                                         *)
(* The driver keeps a table of pin words and a counter of updates to push; *)
(* the board keeps the pin words it drives and two masks that say which    *)
(* pins the Raspberry Pi has exported as GPIO and as PWM.  A callback is a *)
(* chain of register transactions with nothing held between them; the      *)
(* worker pushes the table when the counter says so.                       *)
(*                                                                         *)
(* A register word is the set of its bits that are one.  A register        *)
(* transaction is one step, as RegisterFile promises.                      *)
(***************************************************************************)
EXTENDS Integers

CONSTANTS
  Pins,        \* offsets on the rail, RCIO_PWM_MAX_CHANNELS of them
  Users,       \* threads inside the callbacks and the sysfs attributes
  MaxUpdates,  \* bound on pin_states_updated (model only)
  Settings     \* what may happen around the driver

\* protocol.h: the bits of a pin word.
V   == 0
DIR == 14
EN  == 15
PinBits == {V, DIR, EN}

(* A setting says who calls what, and what the link does:                  *)
(*   users, pins   the threads that call, the pins they call for           *)
(*   pwm           the pins the PWM core is asked for                      *)
(*   levels        what users set pins to                                  *)
(*   inputs        may a direction be input (TRUE), output (FALSE)?        *)
(*   motors        may an output run (TRUE), be at rest (FALSE)?           *)
(*   masks         what users store in pwmignore                           *)
(*   resets        do users write to the reset attribute?                  *)
(*   faulty        may a register transaction fail?                        *)
(*   early         do users call before the probe is through?              *)
(*   left          the pin words a driver bound before may have left       *)
AllSettings ==
  [users : SUBSET Users, pins : SUBSET Pins, pwm : SUBSET Pins,
   levels : SUBSET {0, 1}, inputs : SUBSET BOOLEAN, motors : SUBSET BOOLEAN,
   masks : SUBSET SUBSET Pins, resets : BOOLEAN, faulty : BOOLEAN,
   early : BOOLEAN, left : SUBSET SUBSET PinBits]

ASSUME PinsAssumption ==
  /\ Pins \subseteq Nat
  /\ MaxUpdates \in Nat \ {0}
  /\ Settings \subseteq AllSettings

\* Mutant: the mask is shifted the wrong way.
clear_bits_above(w, n) == {b \in w : b < n}

\* protocol.h: the macros on words
set_bit_m(w, n)   == w \cup {n}
clear_bit_m(w, n) == {b \in w : b > n}    \* (p) &= (~(1) << (n))

VARIABLES
  pin_states,                \* driver: the pin words
  pin_states_updated,        \* driver: pushes the worker still owes
  pwm_ignore_writings_mask,  \* driver: pins whose PWM calls are ignored
  dev_gpio,                  \* board: PX4IO_PAGE_GPIO
  gpio_exported,             \* board: PX4IO_PAGE_GPIO_EXPORTED
  pwm_exported,              \* board: PX4IO_PAGE_PWM_EXPORTED
  running,                   \* board: some PWM output is not zero
  loc,                       \* per user: place and locals of its callback
  wpc, wcount,               \* rcio_gpio_probe, then the worker's updates
  gpio_held, pwm_held,       \* the pins the kernel's cores handed out
  setting                    \* the setting, which never changes

drvVars  == <<pin_states, pin_states_updated, pwm_ignore_writings_mask>>
devVars  == <<dev_gpio, gpio_exported, pwm_exported>>
wrkVars  == <<wpc, wcount>>
heldVars == <<gpio_held, pwm_held>>
vars == <<drvVars, devVars, running, loc, wrkVars, heldVars, setting>>

AllOff == [p \in Pins |-> {}]
NoPin  == -1
AtRest == [pc |-> "idle", pin |-> NoPin, word |-> {}, count |-> 0]

(* In rcio_gpio_probe, when gpiochip_add has returned.  A driver that was   *)
(* bound before leaves its words here and on the board.                     *)
Init ==
  /\ setting \in Settings
  /\ \E w \in setting.left : /\ pin_states = [p \in Pins |-> w]
                            /\ dev_gpio = [p \in Pins |-> w]
  /\ pin_states_updated = 0
  /\ pwm_ignore_writings_mask = {}
  /\ gpio_exported \in {{}, setting.pins}
  /\ pwm_exported = {}
  /\ running = FALSE
  /\ loc = [u \in Users |-> AtRest]
  /\ wpc = "probe_clear"
  /\ wcount = 0
  /\ gpio_held = {}
  /\ pwm_held = {}

-----------------------------------------------------------------------------
(* Steps that callbacks share                                              *)

\* User u goes on to another place, with mask and n in its locals.
Move(u, from, to, mask, n) ==
  /\ loc[u].pc = from
  /\ loc' = [loc EXCEPT ![u] =
               IF to = "idle" THEN AtRest
               ELSE [@ EXCEPT !.pc = to, !.word = mask, !.count = n]]
Goto(u, from, to) == Move(u, from, to, loc[u].word, loc[u].count)
Drop(u, from, to) == Move(u, from, to, {}, 0)    \* no local is used again

\* A transaction reports success and acts; on a bad link it may do either
\* without the other.
Outcomes == IF setting.faulty THEN [ok : BOOLEAN, acts : BOOLEAN]
                              ELSE {[ok |-> TRUE, acts |-> TRUE]}

\* The kernel's cores let one callback at a time work on a pin, and the PWM
\* core one request or free at a time on all of them.
PwmSteps == {"p_running", "p_gpio", "p_pwm", "p_export", "q_read",
             "q_unexport"}
Busy(p)  == \E u \in Users : loc[u].pc \notin PwmSteps /\ loc[u].pin = p
PwmBusy  == \E u \in Users : loc[u].pc \in PwmSteps

Begin(u, p, first) ==
  /\ loc[u].pc = "idle"
  /\ loc' = [loc EXCEPT ![u].pc = first, ![u].pin = p]

\* rcio_gpio_force_update.  The result is a uint16_t, never negative: a push
\* that failed is not tried again.
Push(u, from, to) ==
  /\ Goto(u, from, to)
  /\ \E o \in Outcomes : dev_gpio' = IF o.acts THEN pin_states ELSE dev_gpio
  /\ UNCHANGED <<drvVars, gpio_exported, pwm_exported, running, 
                 wrkVars, heldVars>>

SetState(u, from, to, w) ==
  /\ Goto(u, from, to)
  /\ pin_states' = [pin_states EXCEPT ![loc[u].pin] = w]
  /\ UNCHANGED <<pin_states_updated, pwm_ignore_writings_mask, devVars,
                 running, wrkVars, heldVars>>

\* A mask is read into a local; an error ends the callback.
ReadMask(u, from, to, mask) ==
  /\ \E o \in Outcomes :
       Move(u, from, IF o.ok THEN to ELSE "idle", mask, 0)
  /\ UNCHANGED <<drvVars, devVars, running, wrkVars, heldVars>>

\* pwm_check_device_motors_running_count.  Motors that run are forced to
\* zero, which may not stop them (RcioPwm), and the callback goes on.
CheckRunning(u, from, to) ==
  /\ \E o \in Outcomes :
       /\ Goto(u, from, IF o.ok THEN to ELSE "idle")
       /\ running' \in IF o.ok THEN {running, FALSE} ELSE {running}
  /\ UNCHANGED <<drvVars, devVars, wrkVars, heldVars>>

\* update_enqueue, which is not atomic
EnqueueLoad(u, from, to) ==
  /\ pin_states_updated < MaxUpdates
  /\ Move(u, from, to, loc[u].word, pin_states_updated)
  /\ UNCHANGED <<drvVars, devVars, running, wrkVars, heldVars>>

\* Mutant: the update is not counted.
EnqueueNothing(u) ==
  /\ UNCHANGED <<pin_states_updated, pin_states, pwm_ignore_writings_mask,
                 devVars, running, wrkVars>>

Enqueue(u) ==
  /\ pin_states_updated' = loc[u].count + 1
  /\ UNCHANGED <<pin_states, pwm_ignore_writings_mask, devVars, running,
                 wrkVars>>

-----------------------------------------------------------------------------
(* gpio_chip_request                                                       *)

GpioRequest(u, p) ==
  /\ p \notin gpio_held /\ ~Busy(p)
  /\ Begin(u, p, "g_running")
  /\ UNCHANGED <<drvVars, devVars, running, wrkVars, heldVars>>

GpioCheckRunning(u) == CheckRunning(u, "g_running", "g_pwm")

\* Mutant: the mask of the other side is looked at.
GpioReadGpio(u) == ReadMask(u, "g_pwm", "g_owner", gpio_exported)

GpioReadPwm(u) == ReadMask(u, "g_pwm", "g_owner", pwm_exported)

GpioCheckOwner(u) ==
  /\ IF loc[u].pin \in loc[u].word THEN Goto(u, "g_owner", "g_take")
                                  ELSE Drop(u, "g_owner", "g_read")
  /\ UNCHANGED <<drvVars, devVars, running, wrkVars, heldVars>>

\* gpio_unexport_pwm_pin, then pwmignore_do_ignore_pin whatever came of it
GpioTakeFromPwm(u) ==
  /\ \E o \in Outcomes :
       /\ pwm_exported' = IF o.acts THEN loc[u].word \ {loc[u].pin} ELSE pwm_exported
       /\ Drop(u, "g_take", IF o.ok THEN "g_ignore" ELSE "g_ignore_fail")
  /\ UNCHANGED <<drvVars, dev_gpio, gpio_exported, running, wrkVars,
                 heldVars>>

GpioIgnorePwm(u) ==
  /\ \/ Goto(u, "g_ignore", "g_read")
     \/ Goto(u, "g_ignore_fail", "idle")
  /\ pwm_ignore_writings_mask' = set_bit_m(pwm_ignore_writings_mask, loc[u].pin)
  /\ UNCHANGED <<pin_states, pin_states_updated, devVars, running, 
                 wrkVars, heldVars>>

\* gpio_export_gpio_pin
GpioReadExported(u) == ReadMask(u, "g_read", "g_export", gpio_exported)

GpioExport(u) ==
  /\ \E o \in Outcomes :
       /\ gpio_exported' = IF o.acts THEN set_bit_m(loc[u].word, loc[u].pin)
                                     ELSE gpio_exported
       /\ Drop(u, "g_export", IF o.ok THEN "g_enable" ELSE "idle")
  /\ UNCHANGED <<drvVars, dev_gpio, pwm_exported, running, wrkVars,
                 heldVars>>

GpioEnable(u) == SetState(u, "g_enable", "g_push", set_bit_m({}, EN))
GpioPush(u)   == Push(u, "g_push", "g_low")
GpioLow(u)    == SetState(u, "g_low", "g_push_low",
                   clear_bit_m(clear_bit_m(pin_states[loc[u].pin], DIR), V))
GpioPushLow(u) == Push(u, "g_push_low", "g_load")
GpioLoad(u)    == EnqueueLoad(u, "g_load", "g_store")

GpioRequested(u) ==
  /\ Goto(u, "g_store", "idle")
  /\ Enqueue(u)
  /\ gpio_held' = gpio_held \cup {loc[u].pin}
  /\ UNCHANGED pwm_held

RequestStep(u) ==
  \/ GpioCheckRunning(u) \/ GpioReadPwm(u) \/ GpioCheckOwner(u)
  \/ GpioTakeFromPwm(u) \/ GpioIgnorePwm(u)
  \/ GpioReadExported(u) \/ GpioExport(u)
  \/ GpioEnable(u) \/ GpioPush(u) \/ GpioLow(u) \/ GpioPushLow(u)
  \/ GpioLoad(u) \/ GpioRequested(u)

-----------------------------------------------------------------------------
(* gpio_chip_free                                                          *)

GpioFree(u, p) ==
  /\ p \in gpio_held /\ ~Busy(p)
  /\ Begin(u, p, "f_running")
  /\ gpio_held' = gpio_held \ {p}
  /\ UNCHANGED <<drvVars, devVars, running, wrkVars, pwm_held>>

FreeCheckRunning(u) == CheckRunning(u, "f_running", "f_read")
FreeReadExported(u) == ReadMask(u, "f_read", "f_low", gpio_exported)
FreeLow(u)     == SetState(u, "f_low", "f_push_low",
                           clear_bit_m(pin_states[loc[u].pin], V))
FreePushLow(u) == Push(u, "f_push_low", "f_zero")

\* Mutant: the free only puts the pin low.
FreeLowAgain(u) == SetState(u, "f_zero", "f_push",
                            clear_bit_m(pin_states[loc[u].pin], V))

FreeZero(u)    == SetState(u, "f_zero", "f_push", {})
FreePush(u)    == Push(u, "f_push", "f_load")
FreeLoad(u)    == EnqueueLoad(u, "f_load", "f_store")

FreeEnqueue(u) ==
  /\ Move(u, "f_store", "f_unexport", loc[u].word, 0)
  /\ Enqueue(u)
  /\ UNCHANGED heldVars

\* gpio_unexport_gpio_pin, on the mask read at the top
FreeUnexport(u) ==
  /\ Drop(u, "f_unexport", "f_unignore")
  /\ \E o \in Outcomes :
       gpio_exported' = IF o.acts THEN clear_bit_m(loc[u].word, loc[u].pin)
                                  ELSE gpio_exported
  /\ UNCHANGED <<drvVars, dev_gpio, pwm_exported, running, wrkVars,
                 heldVars>>

FreeUnignore(u) ==
  /\ Goto(u, "f_unignore", "idle")
  /\ pwm_ignore_writings_mask' = clear_bit_m(pwm_ignore_writings_mask, loc[u].pin)
  /\ UNCHANGED <<pin_states, pin_states_updated, devVars, running, 
                 wrkVars, heldVars>>

FreeStep(u) ==
  \/ FreeCheckRunning(u) \/ FreeReadExported(u)
  \/ FreeLow(u) \/ FreePushLow(u) \/ FreeZero(u) \/ FreePush(u)
  \/ FreeLoad(u) \/ FreeEnqueue(u) \/ FreeUnexport(u) \/ FreeUnignore(u)

-----------------------------------------------------------------------------
(* gpio_chip_set, gpio_direction_input, gpio_direction_output              *)

UseBegin(u, p, first) ==
  /\ p \in gpio_held /\ ~Busy(p)
  /\ Begin(u, p, first)

GpioSet(u, p, value) ==
  /\ UseBegin(u, p, "s_load")
  /\ pin_states' = [pin_states EXCEPT ![p] =
                      IF value = 0 THEN clear_bit_m(set_bit_m(@, EN), V)
                                   ELSE set_bit_m(set_bit_m(@, EN), V)]
  /\ UNCHANGED <<pin_states_updated, pwm_ignore_writings_mask, devVars,
                 running, wrkVars, heldVars>>

GpioSetLoad(u) == EnqueueLoad(u, "s_load", "s_store")

GpioSetDone(u) ==
  /\ Goto(u, "s_store", "idle")
  /\ Enqueue(u)
  /\ UNCHANGED heldVars

\* The value given to gpio_direction_output is not used.
GpioDirection(u, p, input) ==
  /\ UseBegin(u, p, "d_push")
  /\ pin_states' = [pin_states EXCEPT ![p] =
                      IF input THEN set_bit_m(@, DIR) ELSE clear_bit_m(@, DIR)]
  /\ UNCHANGED <<pin_states_updated, pwm_ignore_writings_mask, devVars,
                 running, wrkVars, heldVars>>

DirectionPush(u) == Push(u, "d_push", "idle")

UseStep(u) == GpioSetLoad(u) \/ GpioSetDone(u) \/ DirectionPush(u)

-----------------------------------------------------------------------------
(* reset_store and pwmignore_store                                         *)

Reset(u) ==
  /\ setting.resets
  /\ Goto(u, "idle", "r_push")
  /\ pin_states' = [p \in Pins |-> IF EN \in pin_states[p]
                                   THEN clear_bit_m(pin_states[p], V)
                                   ELSE pin_states[p]]
  /\ UNCHANGED <<pin_states_updated, pwm_ignore_writings_mask, devVars,
                 running, wrkVars, heldVars>>

ResetPush(u) == Push(u, "r_push", "r_zero")

ResetZero(u) ==
  /\ Goto(u, "r_zero", "r_unexport")
  /\ pin_states' = AllOff
  /\ UNCHANGED <<pin_states_updated, pwm_ignore_writings_mask, devVars,
                 running, wrkVars, heldVars>>

ResetUnexport(u) ==
  /\ Goto(u, "r_unexport", "idle")
  /\ \E o \in Outcomes : gpio_exported' = IF o.acts THEN {} ELSE gpio_exported
  /\ UNCHANGED <<drvVars, dev_gpio, pwm_exported, running, wrkVars,
                 heldVars>>

ResetStep(u) == ResetPush(u) \/ ResetZero(u) \/ ResetUnexport(u)

PwmIgnoreStore(m) ==
  /\ pwm_ignore_writings_mask' = m
  /\ UNCHANGED <<pin_states, pin_states_updated, devVars, running, loc,
                 wrkVars, heldVars>>

-----------------------------------------------------------------------------
(* rcio_pwm_request and rcio_pwm_free                                      *)

PwmRequest(u, p) ==
  /\ p \notin pwm_held /\ ~PwmBusy
  /\ Begin(u, p, "p_running")
  /\ UNCHANGED <<drvVars, devVars, running, wrkVars, heldVars>>

PwmGranted(u) == pwm_held' = pwm_held \cup {loc[u].pin} /\ UNCHANGED gpio_held

\* The duties of the board are read first, the mask is looked at next.
PwmCheckRunning(u) ==
  /\ \E o \in Outcomes :
       IF loc[u].pin \in pwm_ignore_writings_mask
       THEN Goto(u, "p_running", "idle") /\ PwmGranted(u)
       ELSE /\ Goto(u, "p_running",
                    IF o.ok /\ ~running THEN "p_gpio" ELSE "idle")
            /\ UNCHANGED heldVars
  /\ UNCHANGED <<drvVars, devVars, running, wrkVars>>

PwmReadGpio(u) ==
  /\ \E o \in Outcomes :
       Goto(u, "p_gpio",
            IF o.ok /\ loc[u].pin \notin gpio_exported THEN "p_pwm" ELSE "idle")
  /\ UNCHANGED <<drvVars, devVars, running, wrkVars, heldVars>>

\* When this read fails the local it should fill is not initialised.
PwmReadPwm(u) ==
  /\ \E o \in Outcomes, junk \in SUBSET setting.pins :
       Move(u, "p_pwm", "p_export", IF o.ok THEN pwm_exported ELSE junk, 0)
  /\ UNCHANGED <<drvVars, devVars, running, wrkVars, heldVars>>

PwmExport(u) ==
  /\ Goto(u, "p_export", "idle")
  /\ \E o \in Outcomes :
       /\ pwm_exported' = IF o.acts THEN loc[u].word \cup {loc[u].pin}
                                    ELSE pwm_exported
       /\ IF o.ok THEN PwmGranted(u) ELSE UNCHANGED heldVars
  /\ UNCHANGED <<drvVars, dev_gpio, gpio_exported, running, wrkVars>>

PwmFree(u, p) ==
  /\ p \in pwm_held /\ ~PwmBusy
  /\ p \notin pwm_ignore_writings_mask
  /\ Begin(u, p, "q_read")
  /\ pwm_held' = pwm_held \ {p}
  /\ UNCHANGED <<drvVars, devVars, running, wrkVars, gpio_held>>

PwmFreeIgnored(p) ==
  /\ p \in pwm_held /\ ~PwmBusy
  /\ p \in pwm_ignore_writings_mask
  /\ pwm_held' = pwm_held \ {p}
  /\ UNCHANGED <<drvVars, devVars, running, loc, wrkVars, gpio_held>>

PwmFreeRead(u) == ReadMask(u, "q_read", "q_unexport", pwm_exported)

PwmUnexport(u) ==
  /\ Goto(u, "q_unexport", "idle")
  /\ \E o \in Outcomes :
       pwm_exported' = IF o.acts THEN loc[u].word \ {loc[u].pin} ELSE pwm_exported
  /\ UNCHANGED <<drvVars, dev_gpio, gpio_exported, running, wrkVars,
                 heldVars>>

PwmStep(u) ==
  \/ PwmCheckRunning(u) \/ PwmReadGpio(u) \/ PwmReadPwm(u) \/ PwmExport(u)
  \/ PwmFreeRead(u) \/ PwmUnexport(u)

-----------------------------------------------------------------------------
(* The end of rcio_gpio_probe: the chip and the attributes are there       *)
(* already, the worker is not.                                             *)

ProbeSteps == {"probe_clear", "probe_push", "probe_unexport"}

ProbeClear ==
  /\ wpc = "probe_clear" /\ wpc' = "probe_push"
  /\ pin_states' = AllOff
  /\ UNCHANGED <<pin_states_updated, pwm_ignore_writings_mask, devVars,
                 running, loc, wcount, heldVars>>

ProbePush ==
  /\ wpc = "probe_push" /\ wpc' = "probe_unexport"
  /\ \E o \in Outcomes : dev_gpio' = IF o.acts THEN pin_states ELSE dev_gpio
  /\ UNCHANGED <<drvVars, gpio_exported, pwm_exported, running, loc,
                 wcount, heldVars>>

\* A failure is returned as FALSE, which rcio_init takes for a success.
ProbeUnexport ==
  /\ wpc = "probe_unexport" /\ wpc' = "idle"
  /\ \E o \in Outcomes :
       /\ gpio_exported' = IF o.acts THEN {} ELSE gpio_exported
       /\ pin_states_updated' = IF o.ok THEN 1 ELSE pin_states_updated
  /\ UNCHANGED <<pin_states, pwm_ignore_writings_mask, dev_gpio, pwm_exported,
                 running, loc, wcount, heldVars>>

ProbeStep == ProbeClear \/ ProbePush \/ ProbeUnexport

-----------------------------------------------------------------------------
(* rcio_gpio_update, run by the worker for ever                            *)

\* Mutant: the counter is not tested.
WorkerNoTest ==
  /\ wpc = "idle" /\ wpc' = "load"
  /\ UNCHANGED <<drvVars, devVars, running, loc, wcount, heldVars>>

\* update_required, then update_dequeue: a test, a load and a store
WorkerTest ==
  /\ wpc = "idle" /\ pin_states_updated > 0
  /\ wpc' = "load"
  /\ UNCHANGED <<drvVars, devVars, running, loc, wcount, heldVars>>

WorkerLoad ==
  /\ wpc = "load" /\ wpc' = "store"
  /\ wcount' = pin_states_updated
  /\ UNCHANGED <<drvVars, devVars, running, loc, heldVars>>

WorkerStore ==
  /\ wpc = "store" /\ wpc' = "push"
  /\ pin_states_updated' = wcount - 1
  /\ wcount' = 0
  /\ UNCHANGED <<pin_states, pwm_ignore_writings_mask, devVars, running, loc,
                 heldVars>>

WorkerPush ==
  /\ wpc = "push" /\ wpc' = "idle"
  /\ \E o \in Outcomes : dev_gpio' = IF o.acts THEN pin_states ELSE dev_gpio
  /\ UNCHANGED <<drvVars, gpio_exported, pwm_exported, running, loc,
                 wcount, heldVars>>

WorkerStep == WorkerTest \/ WorkerLoad \/ WorkerStore \/ WorkerPush

\* The outputs start and stop with what RcioPwm sends.
MotorsChange ==
  /\ running' \in setting.motors
  /\ UNCHANGED <<drvVars, devVars, loc, wrkVars, heldVars>>

-----------------------------------------------------------------------------
UserStep(u) ==
  RequestStep(u) \/ FreeStep(u) \/ UseStep(u) \/ ResetStep(u) \/ PwmStep(u)

UserCall(u, p) ==
  \/ GpioRequest(u, p) \/ GpioFree(u, p)
  \/ \E value \in setting.levels : GpioSet(u, p, value)
  \/ \E input \in setting.inputs : GpioDirection(u, p, input)
  \/ p \in setting.pwm /\ PwmRequest(u, p)
  \/ PwmFree(u, p)

CallsNext ==
  /\ setting.early \/ wpc \notin ProbeSteps
  /\ \/ \E u \in setting.users :
          Reset(u) \/ \E p \in setting.pins : UserCall(u, p)
     \/ \E p \in setting.pins : PwmFreeIgnored(p)
     \/ \E m \in setting.masks : PwmIgnoreStore(m)

DriverNext == ProbeStep \/ WorkerStep

Next ==
  /\ \/ \E u \in Users : UserStep(u)
     \/ CallsNext
     \/ DriverNext
     \/ MotorsChange
  /\ UNCHANGED setting

Spec == Init /\ [][Next]_vars

\* The kernel schedules the probe, the worker and the threads inside a callback.
Fairness ==
  /\ WF_vars(DriverNext /\ UNCHANGED setting)
  /\ \A u \in Users : WF_vars(UserStep(u) /\ UNCHANGED setting)

FairSpec == Spec /\ Fairness

-----------------------------------------------------------------------------
(* Properties                                                              *)

RequestSteps == {"g_running", "g_pwm", "g_owner", "g_take", "g_ignore",
                 "g_ignore_fail", "g_read", "g_export", "g_enable", "g_push",
                 "g_low", "g_push_low", "g_load", "g_store"}
FreeSteps    == {"f_running", "f_read", "f_low", "f_push_low", "f_zero",
                 "f_push", "f_load", "f_store", "f_unexport", "f_unignore"}
UseSteps     == {"s_load", "s_store", "d_push"}
ResetSteps   == {"r_push", "r_zero", "r_unexport"}
UserSteps    == {"idle"} \cup RequestSteps \cup FreeSteps \cup UseSteps
                         \cup ResetSteps \cup PwmSteps

(* The shape of the state; the counter of owed pushes never gets below      *)
(* zero, for all its unsynchronised ++ and -- (rcio_gpio.c:37-39).          *)
TypeOK ==
  /\ pin_states \in [Pins -> SUBSET PinBits]
  /\ pin_states_updated \in Nat
  /\ pwm_ignore_writings_mask \in SUBSET Pins
  /\ dev_gpio \in [Pins -> SUBSET PinBits]
  /\ gpio_exported \in SUBSET Pins
  /\ pwm_exported \in SUBSET Pins
  /\ running \in BOOLEAN
  /\ loc \in [Users -> [pc : UserSteps, pin : Pins \cup {NoPin},
                        word : SUBSET Pins, count : Nat]]
  /\ wpc \in ProbeSteps \cup {"idle", "load", "store", "push"}
  /\ wcount \in Nat
  /\ gpio_held \in SUBSET Pins
  /\ pwm_held \in SUBSET Pins
  /\ setting \in Settings

Calm == ~setting.faulty /\ ~setting.resets /\ ~setting.early

(* The board drives a GPIO pin from the return of its request to its free,  *)
(* whichever tables the worker and the other callbacks push meanwhile       *)
(* (rcio_gpio.c:197-207, 234-239, 303-313).  Not if transactions fail, the   *)
(* table is reset, or the pin was requested before the probe cleared it.    *)
HeldPinDriven == Calm => \A p \in gpio_held : EN \in dev_gpio[p]

(* And it lets go of it when the free has returned: no push of an older     *)
(* table turns the pin back on, and what an earlier life of the driver left *)
(* on is gone when the probe is through (rcio_gpio.c:234-239, 351-353).      *)
FreedPinReleased ==
  Calm /\ wpc \notin ProbeSteps =>
    \A p \in Pins : p \notin gpio_held /\ ~Busy(p) => dev_gpio[p] = {}

(* The board's pin words are the driver's again and again: when the users   *)
(* are done for a while nothing they set is left behind.  The races on the  *)
(* update counter lose no update (rcio_gpio.c:37-39, 258, 308-311).         *)
BoardCatchesUp == Calm => []<>(dev_gpio = pin_states)

OneCaller == \E u \in Users : setting.users = {u}

(* A pin is never exported as GPIO and as PWM at once: each side unexports  *)
(* it from the other or gives up (rcio_gpio.c:179-194, rcio_pwm.c:534-560).  *)
(* The masks are tested and set in transactions of their own, so this holds *)
(* while callbacks do not overlap and transactions do not fail.             *)
OneOwner ==
  OneCaller /\ ~setting.faulty => gpio_exported \cap pwm_exported = {}

-----------------------------------------------------------------------------
(* What comments and messages of the code claim, and the code does not do  *)

Taken == gpio_held \cap pwm_held

(* "and ignoring it in rcio_dkms" (rcio_gpio.c:188): a pin that a GPIO user *)
(* took from its PWM user stays ignored while both hold it.                 *)
TakenStaysIgnored ==
  [][Taken \cap Taken' \cap pwm_ignore_writings_mask
       \subseteq pwm_ignore_writings_mask']_vars
=============================================================================
