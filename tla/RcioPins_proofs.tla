-------------------------- MODULE RcioPins_proofs ---------------------------
(***************************************************************************)
(* The shape of the state of RcioPins, for any pins, users and settings,   *)
(* and what its shared steps do to a thread's locals.                      *)
(***************************************************************************)
EXTENDS RcioPins, TLAPS

(* What is known of a setting. *)
LEMMA SettingShape ==
  ASSUME setting \in Settings
  PROVE  /\ setting.users \subseteq Users
         /\ setting.pins \subseteq Pins
         /\ \A m \in setting.masks : m \in SUBSET Pins
         /\ setting.motors \subseteq BOOLEAN
         /\ \A w \in setting.left : w \in SUBSET PinBits
BY PinsAssumption DEF AllSettings

(* The locals of a user's callback. *)
Locals == [pc : UserSteps, pin : Pins \cup {NoPin}, word : SUBSET Pins,
           count : Nat]

(* What a callback's move does to its thread's locals, and to nobody else's. *)
LEMMA MoveLocals ==
  ASSUME TypeOK, NEW u \in Users, NEW from, NEW to \in UserSteps,
         NEW mask \in SUBSET Pins, NEW n \in Nat,
         Move(u, from, to, mask, n)
  PROVE  /\ loc' \in [Users -> Locals]
         /\ loc[u].pc = from /\ loc'[u].pc = to
         /\ to = "idle" => loc'[u] = AtRest
         /\ to # "idle" => /\ loc'[u].pin = loc[u].pin
                           /\ loc'[u].word = mask /\ loc'[u].count = n
         /\ \A v \in Users \ {u} : loc'[v] = loc[v]
<1>1. AtRest \in Locals /\ AtRest.pc = "idle"
  BY DEF AtRest, Locals, UserSteps
<1>2. loc[u] \in Locals
  BY DEF TypeOK, Locals
<1>3. [loc[u] EXCEPT !.pc = to, !.word = mask, !.count = n] \in Locals
  BY <1>2 DEF Locals
<1> QED
  BY <1>1, <1>2, <1>3 DEF Move, TypeOK, Locals

(* The same for a callback that begins. *)
LEMMA BeginLocals ==
  ASSUME TypeOK, NEW u \in Users, NEW p \in Pins, NEW first \in UserSteps,
         Begin(u, p, first)
  PROVE  /\ loc' \in [Users -> Locals]
         /\ loc[u].pc = "idle" /\ loc'[u].pc = first /\ loc'[u].pin = p
         /\ \A v \in Users \ {u} : loc'[v] = loc[v]
<1>1. loc[u] \in Locals
  BY DEF TypeOK, Locals
<1>2. [loc[u] EXCEPT !.pc = first, !.pin = p] \in Locals
  BY <1>1 DEF Locals
<1> QED
  BY <1>1, <1>2 DEF Begin, TypeOK, Locals

(* The steps of callbacks that are about one pin. *)
PinSteps == RequestSteps \cup FreeSteps \cup UseSteps \cup PwmSteps

(* A thread inside a callback is there for a pin, unless it resets them all. *)
Somewhere ==
  \A u \in Users : IF loc[u].pc \in PinSteps THEN loc[u].pin \in Pins
                                             ELSE loc[u].pin = NoPin

LocalsOK == loc \in [Users -> Locals] /\ Somewhere

(* A move within a callback on a pin, or out of it. *)
LEMMA PinMove ==
  ASSUME TypeOK, Somewhere, NEW u \in Users, NEW from \in PinSteps,
         NEW to \in PinSteps \cup {"idle"},
         NEW mask \in SUBSET Pins, NEW n \in Nat,
         Move(u, from, to, mask, n)
  PROVE  LocalsOK'
<1>1. to \in UserSteps
  BY DEF UserSteps, PinSteps
<1>2. /\ loc' \in [Users -> Locals]
      /\ loc[u].pc = from /\ loc'[u].pc = to
      /\ to = "idle" => loc'[u] = AtRest
      /\ to # "idle" => loc'[u].pin = loc[u].pin
      /\ \A v \in Users \ {u} : loc'[v] = loc[v]
  BY <1>1, MoveLocals
<1>3. "idle" \notin PinSteps
  BY DEF PinSteps, RequestSteps, FreeSteps, UseSteps, PwmSteps
<1> QED
  BY <1>2, <1>3 DEF LocalsOK, Somewhere, AtRest

(* The same for moves that keep the locals, or drop them. *)
LEMMA PinGoto ==
  ASSUME TypeOK, Somewhere, NEW u \in Users, NEW from \in PinSteps,
         NEW to \in PinSteps \cup {"idle"},
         Goto(u, from, to) \/ Drop(u, from, to)
  PROVE  LocalsOK'
<1>1. loc[u].word \in SUBSET Pins /\ loc[u].count \in Nat
  BY DEF TypeOK
<1>2. CASE Goto(u, from, to)
  BY <1>1, <1>2, PinMove DEF Goto
<1>3. CASE Drop(u, from, to)
  BY <1>3, PinMove DEF Drop
<1> QED
  BY <1>2, <1>3

(* A link that delivers does what it reports. *)
LEMMA OutcomesCalm ==
  ASSUME ~setting.faulty, NEW o \in Outcomes
  PROVE  o.ok /\ o.acts
BY DEF Outcomes

(* The steps callbacks share keep the shape of the state. *)
LEMMA TypeReadMask ==
  ASSUME TypeOK, Somewhere, NEW u \in Users, NEW from \in PinSteps,
         NEW to \in PinSteps, NEW mask \in SUBSET Pins,
         ReadMask(u, from, to, mask), UNCHANGED setting
  PROVE  TypeOK' /\ Somewhere'
<1>1. PICK o \in Outcomes : Move(u, from, IF o.ok THEN to ELSE "idle", mask, 0)
  BY DEF ReadMask
<1>2. LocalsOK'
  BY <1>1, PinMove
<1> QED
  BY <1>2 DEF TypeOK, Locals, ReadMask, LocalsOK, drvVars, devVars, wrkVars,
      heldVars

LEMMA TypeCheckRunning ==
  ASSUME TypeOK, Somewhere, NEW u \in Users, NEW from \in PinSteps,
         NEW to \in PinSteps, CheckRunning(u, from, to), UNCHANGED setting
  PROVE  TypeOK' /\ Somewhere'
<1>1. PICK o \in Outcomes :
        /\ Goto(u, from, IF o.ok THEN to ELSE "idle")
        /\ running' \in IF o.ok THEN {running, FALSE} ELSE {running}
  BY DEF CheckRunning
<1>2. LocalsOK'
  BY <1>1, PinGoto
<1>3. running' \in BOOLEAN
  BY <1>1 DEF TypeOK
<1> QED
  BY <1>2, <1>3 DEF TypeOK, Locals, CheckRunning, LocalsOK, drvVars, devVars,
      wrkVars, heldVars

LEMMA TypePush ==
  ASSUME TypeOK, Somewhere, NEW u \in Users, NEW from \in PinSteps,
         NEW to \in PinSteps \cup {"idle"}, Push(u, from, to),
         UNCHANGED setting
  PROVE  TypeOK' /\ Somewhere'
<1>1. LocalsOK'
  BY PinGoto DEF Push
<1>2. dev_gpio' \in [Pins -> SUBSET PinBits]
  BY DEF TypeOK, Push
<1> QED
  BY <1>1, <1>2 DEF TypeOK, Locals, Push, LocalsOK, drvVars, devVars, wrkVars,
      heldVars

LEMMA TypeSetState ==
  ASSUME TypeOK, Somewhere, NEW u \in Users, NEW from \in PinSteps,
         NEW to \in PinSteps, NEW w \in SUBSET PinBits,
         SetState(u, from, to, w), UNCHANGED setting
  PROVE  TypeOK' /\ Somewhere'
<1>1. LocalsOK'
  BY PinGoto DEF SetState
<1>2. pin_states' \in [Pins -> SUBSET PinBits]
  BY DEF TypeOK, SetState
<1> QED
  BY <1>1, <1>2 DEF TypeOK, Locals, SetState, LocalsOK, drvVars, devVars,
      wrkVars, heldVars

LEMMA TypeEnqueueLoad ==
  ASSUME TypeOK, Somewhere, NEW u \in Users, NEW from \in PinSteps,
         NEW to \in PinSteps, EnqueueLoad(u, from, to), UNCHANGED setting
  PROVE  TypeOK' /\ Somewhere'
<1>1. loc[u].word \in SUBSET Pins /\ pin_states_updated \in Nat
  BY DEF TypeOK
<1>2. LocalsOK'
  BY <1>1, PinMove DEF EnqueueLoad
<1> QED
  BY <1>2 DEF TypeOK, Locals, EnqueueLoad, LocalsOK, drvVars, devVars, wrkVars,
      heldVars

(* The callbacks' steps keep the shape of the state. *)
LEMMA TypeRequest ==
  ASSUME TypeOK, Somewhere, NEW u \in Users, RequestStep(u), UNCHANGED setting
  PROVE  TypeOK' /\ Somewhere'
<1> USE DEF PinSteps, RequestSteps
<1>1. CASE GpioCheckRunning(u)
  BY <1>1, TypeCheckRunning DEF GpioCheckRunning
<1>2. CASE GpioReadPwm(u) \/ GpioReadExported(u)
  BY <1>2, TypeReadMask DEF GpioReadPwm, GpioReadExported, TypeOK
<1>3. CASE GpioCheckOwner(u)
  BY <1>3, PinGoto DEF GpioCheckOwner, TypeOK, Locals, LocalsOK, drvVars,
      devVars, wrkVars, heldVars
<1>4. CASE GpioTakeFromPwm(u)
  <2>1. LocalsOK'
    BY <1>4, PinGoto DEF GpioTakeFromPwm
  <2>2. pwm_exported' \in SUBSET Pins
    BY <1>4 DEF GpioTakeFromPwm, TypeOK
  <2> QED
    BY <1>4, <2>1, <2>2 DEF GpioTakeFromPwm, TypeOK, Locals, LocalsOK, drvVars,
        devVars, wrkVars, heldVars
<1>5. CASE GpioIgnorePwm(u)
  <2>1. LocalsOK'
    BY <1>5, PinGoto DEF GpioIgnorePwm
  <2>2. loc[u].pin \in Pins
    BY <1>5 DEF GpioIgnorePwm, Goto, Move, Somewhere
  <2>3. pwm_ignore_writings_mask' \in SUBSET Pins
    BY <1>5, <2>2 DEF GpioIgnorePwm, TypeOK, set_bit_m
  <2> QED
    BY <1>5, <2>1, <2>3 DEF GpioIgnorePwm, TypeOK, Locals, LocalsOK, drvVars,
        devVars, wrkVars, heldVars
<1>6. CASE GpioExport(u)
  <2>1. LocalsOK'
    BY <1>6, PinGoto DEF GpioExport
  <2>2. loc[u].pin \in Pins
    BY <1>6 DEF GpioExport, Drop, Move, Somewhere
  <2>3. gpio_exported' \in SUBSET Pins
    BY <1>6, <2>2 DEF GpioExport, TypeOK, set_bit_m
  <2> QED
    BY <1>6, <2>1, <2>3 DEF GpioExport, TypeOK, Locals, LocalsOK, drvVars,
        devVars, wrkVars, heldVars
<1>7. CASE GpioEnable(u)
  <2>1. set_bit_m({}, EN) \in SUBSET PinBits
    BY DEF set_bit_m, PinBits
  <2> QED
    BY <1>7, <2>1, TypeSetState DEF GpioEnable
<1>8. CASE GpioLow(u)
  <2>1. loc[u].pin \in Pins
    BY <1>8 DEF GpioLow, SetState, Goto, Move, Somewhere
  <2>2. clear_bit_m(clear_bit_m(pin_states[loc[u].pin], DIR), V)
          \in SUBSET PinBits
    BY <2>1 DEF clear_bit_m, TypeOK
  <2> QED
    BY <1>8, <2>2, TypeSetState DEF GpioLow
<1>9. CASE GpioPush(u) \/ GpioPushLow(u)
  BY <1>9, TypePush DEF GpioPush, GpioPushLow
<1>10. CASE GpioLoad(u)
  BY <1>10, TypeEnqueueLoad DEF GpioLoad
<1>11. CASE GpioRequested(u)
  <2>1. LocalsOK'
    BY <1>11, PinGoto DEF GpioRequested
  <2>2. loc[u].pin \in Pins
    BY <1>11 DEF GpioRequested, Goto, Move, Somewhere
  <2>3. gpio_held' \in SUBSET Pins /\ pin_states_updated' \in Nat
    BY <1>11, <2>2 DEF GpioRequested, Enqueue, TypeOK
  <2> QED
    BY <1>11, <2>1, <2>3 DEF GpioRequested, Enqueue, TypeOK, Locals, LocalsOK,
        drvVars, devVars, wrkVars, heldVars
<1> QED
  BY <1>1, <1>2, <1>3, <1>4, <1>5, <1>6, <1>7, <1>8, <1>9, <1>10, <1>11 DEF
      RequestStep

LEMMA TypeFree ==
  ASSUME TypeOK, Somewhere, NEW u \in Users, FreeStep(u), UNCHANGED setting
  PROVE  TypeOK' /\ Somewhere'
<1> USE DEF PinSteps, FreeSteps
<1>1. CASE FreeCheckRunning(u)
  BY <1>1, TypeCheckRunning DEF FreeCheckRunning
<1>2. CASE FreeReadExported(u)
  BY <1>2, TypeReadMask DEF FreeReadExported, TypeOK
<1>3. CASE FreeLow(u)
  <2>1. loc[u].pin \in Pins
    BY <1>3 DEF FreeLow, SetState, Goto, Move, Somewhere
  <2>2. clear_bit_m(pin_states[loc[u].pin], V) \in SUBSET PinBits
    BY <2>1 DEF clear_bit_m, TypeOK
  <2> QED
    BY <1>3, <2>2, TypeSetState DEF FreeLow
<1>4. CASE FreeZero(u)
  BY <1>4, TypeSetState DEF FreeZero
<1>5. CASE FreePushLow(u) \/ FreePush(u)
  BY <1>5, TypePush DEF FreePushLow, FreePush
<1>6. CASE FreeLoad(u)
  BY <1>6, TypeEnqueueLoad DEF FreeLoad
<1>7. CASE FreeEnqueue(u)
  <2>1. LocalsOK'
    BY <1>7, PinMove DEF FreeEnqueue, TypeOK
  <2>2. pin_states_updated' \in Nat
    BY <1>7 DEF FreeEnqueue, Enqueue, TypeOK
  <2> QED
    BY <1>7, <2>1, <2>2 DEF FreeEnqueue, Enqueue, TypeOK, Locals, LocalsOK,
        drvVars, devVars, wrkVars, heldVars
<1>8. CASE FreeUnexport(u)
  <2>1. LocalsOK'
    BY <1>8, PinGoto DEF FreeUnexport
  <2>2. gpio_exported' \in SUBSET Pins
    BY <1>8 DEF FreeUnexport, TypeOK, clear_bit_m
  <2> QED
    BY <1>8, <2>1, <2>2 DEF FreeUnexport, TypeOK, Locals, LocalsOK, drvVars,
        devVars, wrkVars, heldVars
<1>9. CASE FreeUnignore(u)
  <2>1. LocalsOK'
    BY <1>9, PinGoto DEF FreeUnignore
  <2>2. pwm_ignore_writings_mask' \in SUBSET Pins
    BY <1>9 DEF FreeUnignore, TypeOK, clear_bit_m
  <2> QED
    BY <1>9, <2>1, <2>2 DEF FreeUnignore, TypeOK, Locals, LocalsOK, drvVars,
        devVars, wrkVars, heldVars
<1> QED
  BY <1>1, <1>2, <1>3, <1>4, <1>5, <1>6, <1>7, <1>8, <1>9 DEF FreeStep

LEMMA TypePwm ==
  ASSUME TypeOK, Somewhere, NEW u \in Users, PwmStep(u), UNCHANGED setting
  PROVE  TypeOK' /\ Somewhere'
<1> USE DEF PinSteps, PwmSteps
<1>0. loc[u].pc \in PwmSteps => loc[u].pin \in Pins
  BY DEF Somewhere
<1>1. CASE PwmCheckRunning(u)
  <2>1. LocalsOK'
    BY <1>1, PinGoto DEF PwmCheckRunning
  <2>2. gpio_held' \in SUBSET Pins /\ pwm_held' \in SUBSET Pins
    BY <1>0, <1>1 DEF PwmCheckRunning, PwmGranted, Goto, Move, TypeOK, heldVars
  <2> QED
    BY <1>1, <2>1, <2>2 DEF PwmCheckRunning, TypeOK, Locals, LocalsOK, drvVars,
        devVars, wrkVars
<1>2. CASE PwmReadGpio(u)
  <2>1. LocalsOK'
    BY <1>2, PinGoto DEF PwmReadGpio
  <2> QED
    BY <1>2, <2>1 DEF PwmReadGpio, TypeOK, Locals, LocalsOK, drvVars, devVars,
        wrkVars, heldVars
<1>3. CASE PwmReadPwm(u)
  <2>1. PICK o \in Outcomes, junk \in SUBSET setting.pins :
          Move(u, "p_pwm", "p_export", IF o.ok THEN pwm_exported ELSE junk, 0)
    BY <1>3 DEF PwmReadPwm
  <2>2. (IF o.ok THEN pwm_exported ELSE junk) \in SUBSET Pins
    BY PinsAssumption DEF TypeOK, AllSettings
  <2>3. LocalsOK'
    BY <2>1, <2>2, PinMove
  <2> QED
    BY <1>3, <2>3 DEF PwmReadPwm, TypeOK, Locals, LocalsOK, drvVars, devVars,
        wrkVars, heldVars
<1>4. CASE PwmExport(u)
  <2>1. LocalsOK'
    BY <1>4, PinGoto DEF PwmExport
  <2>2. loc[u].pin \in Pins
    BY <1>0, <1>4 DEF PwmExport, Goto, Move
  <2>3. gpio_held' \in SUBSET Pins /\ pwm_held' \in SUBSET Pins
        /\ pwm_exported' \in SUBSET Pins
    BY <1>4, <2>2 DEF PwmExport, PwmGranted, TypeOK, heldVars
  <2> QED
    BY <1>4, <2>1, <2>3 DEF PwmExport, TypeOK, Locals, LocalsOK, drvVars,
        devVars, wrkVars
<1>5. CASE PwmFreeRead(u)
  BY <1>5, TypeReadMask DEF PwmFreeRead, TypeOK
<1>6. CASE PwmUnexport(u)
  <2>1. LocalsOK'
    BY <1>6, PinGoto DEF PwmUnexport
  <2>2. pwm_exported' \in SUBSET Pins
    BY <1>6 DEF PwmUnexport, TypeOK
  <2> QED
    BY <1>6, <2>1, <2>2 DEF PwmUnexport, TypeOK, Locals, LocalsOK, drvVars,
        devVars, wrkVars, heldVars
<1> QED
  BY <1>1, <1>2, <1>3, <1>4, <1>5, <1>6 DEF PwmStep

LEMMA TypeUse ==
  ASSUME TypeOK, Somewhere, NEW u \in Users, UseStep(u), UNCHANGED setting
  PROVE  TypeOK' /\ Somewhere'
<1> USE DEF PinSteps, UseSteps
<1>1. CASE GpioSetLoad(u)
  BY <1>1, TypeEnqueueLoad DEF GpioSetLoad
<1>2. CASE GpioSetDone(u)
  <2>1. LocalsOK'
    BY <1>2, PinGoto DEF GpioSetDone
  <2>2. pin_states_updated' \in Nat
    BY <1>2 DEF GpioSetDone, Enqueue, TypeOK
  <2> QED
    BY <1>2, <2>1, <2>2 DEF GpioSetDone, Enqueue, TypeOK, Locals, LocalsOK,
        drvVars, devVars, wrkVars, heldVars
<1>3. CASE DirectionPush(u)
  BY <1>3, TypePush DEF DirectionPush
<1> QED
  BY <1>1, <1>2, <1>3 DEF UseStep

LEMMA TypeReset ==
  ASSUME TypeOK, Somewhere, NEW u \in Users, ResetStep(u) \/ Reset(u),
         UNCHANGED setting
  PROVE  TypeOK' /\ Somewhere'
<1> USE DEF ResetSteps
<1>0. ASSUME NEW from \in ResetSteps \cup {"idle"},
             NEW to \in ResetSteps \cup {"idle"}, Goto(u, from, to)
      PROVE  LocalsOK'
  <2>1. /\ loc[u].word \in SUBSET Pins /\ loc[u].count \in Nat
        /\ to \in UserSteps
        /\ Move(u, from, to, loc[u].word, loc[u].count)
    BY <1>0 DEF TypeOK, UserSteps, Goto
  <2>2. /\ loc' \in [Users -> Locals]
        /\ loc[u].pc = from /\ loc'[u].pc = to
        /\ to = "idle" => loc'[u] = AtRest
        /\ to # "idle" => loc'[u].pin = loc[u].pin
        /\ \A v \in Users \ {u} : loc'[v] = loc[v]
    BY <2>1, MoveLocals
  <2>3. (ResetSteps \cup {"idle"}) \cap PinSteps = {}
    BY DEF PinSteps, RequestSteps, FreeSteps, UseSteps, PwmSteps
  <2> QED
    BY <2>2, <2>3 DEF LocalsOK, Somewhere, AtRest
<1>1. CASE Reset(u)
  <2>1. LocalsOK'
    BY <1>0, <1>1 DEF Reset
  <2>2. pin_states' \in [Pins -> SUBSET PinBits]
    BY <1>1 DEF Reset, TypeOK, clear_bit_m
  <2> QED
    BY <1>1, <2>1, <2>2 DEF Reset, TypeOK, Locals, LocalsOK, drvVars, devVars,
        wrkVars, heldVars
<1>2. CASE ResetPush(u)
  <2>1. LocalsOK'
    BY <1>0, <1>2 DEF ResetPush, Push
  <2>2. dev_gpio' \in [Pins -> SUBSET PinBits]
    BY <1>2 DEF TypeOK, ResetPush, Push
  <2> QED
    BY <1>2, <2>1, <2>2 DEF TypeOK, Locals, ResetPush, Push, LocalsOK, drvVars,
        devVars, wrkVars, heldVars
<1>3. CASE ResetZero(u)
  <2>1. LocalsOK'
    BY <1>0, <1>3 DEF ResetZero
  <2>2. pin_states' \in [Pins -> SUBSET PinBits]
    BY <1>3 DEF ResetZero, AllOff
  <2> QED
    BY <1>3, <2>1, <2>2 DEF ResetZero, TypeOK, Locals, LocalsOK, drvVars,
        devVars, wrkVars, heldVars
<1>4. CASE ResetUnexport(u)
  <2>1. LocalsOK'
    BY <1>0, <1>4 DEF ResetUnexport
  <2>2. gpio_exported' \in SUBSET Pins
    BY <1>4 DEF ResetUnexport, TypeOK
  <2> QED
    BY <1>4, <2>1, <2>2 DEF ResetUnexport, TypeOK, Locals, LocalsOK, drvVars,
        devVars, wrkVars, heldVars
<1> QED
  BY <1>1, <1>2, <1>3, <1>4 DEF ResetStep

(* A call that a user begins. *)
LEMMA TypeCall ==
  ASSUME TypeOK, Somewhere, NEW u \in Users, NEW p \in Pins, UserCall(u, p),
         UNCHANGED setting
  PROVE  TypeOK' /\ Somewhere'
<1>0. ASSUME NEW first \in PinSteps, Begin(u, p, first) PROVE LocalsOK'
  <2>1. first \in UserSteps
    BY DEF UserSteps, PinSteps
  <2>2. /\ loc' \in [Users -> Locals]
        /\ loc'[u].pc = first /\ loc'[u].pin = p
        /\ \A v \in Users \ {u} : loc'[v] = loc[v]
    BY <1>0, <2>1, BeginLocals
  <2> QED
    BY <2>2 DEF LocalsOK, Somewhere
<1>1. {"g_running", "f_running", "s_load", "d_push", "p_running", "q_read"}
        \subseteq PinSteps
  BY DEF PinSteps, RequestSteps, FreeSteps, UseSteps, PwmSteps
<1>2. CASE \/ GpioRequest(u, p) \/ GpioFree(u, p)
           \/ PwmRequest(u, p) \/ PwmFree(u, p)
  <2>1. LocalsOK'
    BY <1>0, <1>1, <1>2 DEF GpioRequest, GpioFree, PwmRequest, PwmFree
  <2>2. gpio_held' \in SUBSET Pins /\ pwm_held' \in SUBSET Pins
    BY <1>2 DEF GpioRequest, GpioFree, PwmRequest, PwmFree, TypeOK, heldVars
  <2>3. UNCHANGED <<drvVars, devVars, running, wrkVars>>
    BY <1>2 DEF GpioRequest, GpioFree, PwmRequest, PwmFree
  <2> QED
    BY <2>1, <2>2, <2>3 DEF TypeOK, Locals, LocalsOK, drvVars, devVars, wrkVars
<1>3. ASSUME NEW value \in setting.levels, GpioSet(u, p, value)
      PROVE  TypeOK' /\ Somewhere'
  <2>1. LocalsOK'
    BY <1>0, <1>1, <1>3 DEF GpioSet, UseBegin
  <2>2. \A w \in SUBSET PinBits :
          /\ clear_bit_m(set_bit_m(w, EN), V) \in SUBSET PinBits
          /\ set_bit_m(set_bit_m(w, EN), V) \in SUBSET PinBits
    BY DEF clear_bit_m, set_bit_m, PinBits
  <2>3. pin_states' \in [Pins -> SUBSET PinBits]
    BY <1>3, <2>2 DEF GpioSet, TypeOK
  <2> QED
    BY <1>3, <2>1, <2>3 DEF GpioSet, TypeOK, Locals, LocalsOK, devVars,
        wrkVars, heldVars
<1>4. ASSUME NEW input \in setting.inputs, GpioDirection(u, p, input)
      PROVE  TypeOK' /\ Somewhere'
  <2>1. LocalsOK'
    BY <1>0, <1>1, <1>4 DEF GpioDirection, UseBegin
  <2>2. \A w \in SUBSET PinBits : /\ clear_bit_m(w, DIR) \in SUBSET PinBits
                                 /\ set_bit_m(w, DIR) \in SUBSET PinBits
    BY DEF clear_bit_m, set_bit_m, PinBits
  <2>3. pin_states' \in [Pins -> SUBSET PinBits]
    BY <1>4, <2>2 DEF GpioDirection, TypeOK
  <2> QED
    BY <1>4, <2>1, <2>3 DEF GpioDirection, TypeOK, Locals, LocalsOK, devVars,
        wrkVars, heldVars
<1> QED
  BY <1>2, <1>3, <1>4 DEF UserCall

(* The worker's --: it takes from a counter that it has seen above zero, and *)
(* that nobody but itself makes smaller. *)
CounterInv ==
  /\ wpc = "load" => pin_states_updated > 0
  /\ wpc = "store" => wcount > 0

(* The probe and the worker keep the shape of the state. *)
LEMMA TypeDriver ==
  ASSUME TypeOK, Somewhere, CounterInv, DriverNext, UNCHANGED setting
  PROVE  TypeOK' /\ Somewhere' /\ CounterInv'
<1> USE DEF TypeOK, Somewhere, CounterInv, drvVars, devVars, wrkVars, heldVars,
    ProbeSteps
<1>1. CASE ProbeClear
  BY <1>1 DEF ProbeClear, AllOff
<1>2. CASE ProbePush
  BY <1>2 DEF ProbePush
<1>3. CASE ProbeUnexport
  BY <1>3 DEF ProbeUnexport
<1>4. CASE WorkerTest
  BY <1>4 DEF WorkerTest
<1>5. CASE WorkerLoad
  BY <1>5 DEF WorkerLoad
<1>6. CASE WorkerStore
  BY <1>6 DEF WorkerStore
<1>7. CASE WorkerPush
  BY <1>7 DEF WorkerPush
<1> QED
  BY <1>1, <1>2, <1>3, <1>4, <1>5, <1>6, <1>7 DEF DriverNext, ProbeStep,
      WorkerStep

(* The callbacks never touch the worker's locals. *)
LEMMA WorkerUntouched ==
  ASSUME NEW u \in Users, UserStep(u) \/ Reset(u)
  PROVE  UNCHANGED wrkVars
<1>1. CASE RequestStep(u)
  BY <1>1 DEF RequestStep, GpioCheckRunning, GpioReadPwm, GpioCheckOwner,
    GpioTakeFromPwm, GpioIgnorePwm, GpioReadExported, GpioExport, GpioEnable,
    GpioPush, GpioLow, GpioPushLow, GpioLoad, GpioRequested, CheckRunning,
    ReadMask, SetState, Push, EnqueueLoad, Enqueue
<1>2. CASE FreeStep(u)
  BY <1>2 DEF FreeStep, FreeCheckRunning, FreeReadExported, FreeLow,
    FreePushLow, FreeZero, FreePush, FreeLoad, FreeEnqueue, FreeUnexport,
    FreeUnignore, CheckRunning, ReadMask, SetState, Push, EnqueueLoad, Enqueue
<1>3. CASE UseStep(u) \/ ResetStep(u) \/ Reset(u)
  BY <1>3 DEF UseStep, GpioSetLoad, GpioSetDone, DirectionPush, ResetStep,
    ResetPush, ResetZero, ResetUnexport, Reset, Push, EnqueueLoad, Enqueue
<1>4. CASE PwmStep(u)
  BY <1>4 DEF PwmStep, PwmCheckRunning, PwmReadGpio, PwmReadPwm, PwmExport,
    PwmFreeRead, PwmUnexport, ReadMask
<1> QED
  BY <1>1, <1>2, <1>3, <1>4 DEF UserStep

(* Nobody but the worker makes the counter smaller: a callback writes what   *)
(* it read plus one, and leaves the worker's locals alone. *)
LEMMA CounterUser ==
  ASSUME TypeOK, CounterInv, NEW u \in Users, UserStep(u) \/ Reset(u)
  PROVE  CounterInv'
<1>1. UNCHANGED wrkVars
  BY WorkerUntouched
<1>2. pin_states_updated' \in {pin_states_updated, loc[u].count + 1}
  <2>1. CASE RequestStep(u)
    BY <2>1 DEF RequestStep, GpioCheckRunning, GpioReadPwm, GpioCheckOwner,
      GpioTakeFromPwm, GpioIgnorePwm, GpioReadExported, GpioExport, GpioEnable,
      GpioPush, GpioLow, GpioPushLow, GpioLoad, GpioRequested, CheckRunning,
      ReadMask, SetState, Push, EnqueueLoad, Enqueue, drvVars
  <2>2. CASE FreeStep(u)
    BY <2>2 DEF FreeStep, FreeCheckRunning, FreeReadExported, FreeLow,
      FreePushLow, FreeZero, FreePush, FreeLoad, FreeEnqueue, FreeUnexport,
      FreeUnignore, CheckRunning, ReadMask, SetState, Push, EnqueueLoad,
      Enqueue, drvVars
  <2>3. CASE UseStep(u) \/ ResetStep(u) \/ Reset(u)
    BY <2>3 DEF UseStep, GpioSetLoad, GpioSetDone, DirectionPush, ResetStep,
      ResetPush, ResetZero, ResetUnexport, Reset, Push, EnqueueLoad, Enqueue,
      drvVars
  <2>4. CASE PwmStep(u)
    BY <2>4 DEF PwmStep, PwmCheckRunning, PwmReadGpio, PwmReadPwm, PwmExport,
      PwmFreeRead, PwmUnexport, ReadMask, drvVars
  <2> QED
    BY <2>1, <2>2, <2>3, <2>4 DEF UserStep
<1>3. loc[u].count + 1 > 0 /\ pin_states_updated \in Nat
  BY DEF TypeOK
<1> QED
  BY <1>1, <1>2, <1>3 DEF CounterInv, wrkVars

(* So does a step of something else. *)
LEMMA TypeStutter ==
  ASSUME TypeOK, Somewhere, CounterInv, UNCHANGED vars
  PROVE  TypeOK' /\ Somewhere' /\ CounterInv'
BY DEF TypeOK, Somewhere, CounterInv, vars, drvVars, devVars, wrkVars, heldVars

(* Every step of a callback on a pin is one move of its thread. *)
LEMMA UserMove ==
  ASSUME TypeOK, NEW u \in Users,
         RequestStep(u) \/ FreeStep(u) \/ UseStep(u) \/ PwmStep(u)
  PROVE  \E from \in PinSteps, to \in PinSteps \cup {"idle"},
            mask \in SUBSET Pins, n \in Nat : Move(u, from, to, mask, n)
<1>1. /\ loc[u].word \in SUBSET Pins /\ loc[u].count \in Nat
      /\ pwm_exported \in SUBSET Pins /\ gpio_exported \in SUBSET Pins
      /\ pin_states_updated \in Nat
      /\ setting.pins \subseteq Pins
  BY SettingShape DEF TypeOK
<1>2. ASSUME NEW from \in PinSteps, NEW to \in PinSteps \cup {"idle"},
             Goto(u, from, to) \/ Drop(u, from, to)
      PROVE  \E mask \in SUBSET Pins, n \in Nat : Move(u, from, to, mask, n)
  BY <1>1, <1>2 DEF Goto, Drop
<1>3. ASSUME NEW from \in PinSteps, NEW to \in PinSteps,
             NEW mask \in SUBSET Pins, ReadMask(u, from, to, mask)
      PROVE  \E t \in PinSteps \cup {"idle"} : Move(u, from, t, mask, 0)
  BY <1>3 DEF ReadMask
<1>4. ASSUME NEW from \in PinSteps, NEW to \in PinSteps,
             CheckRunning(u, from, to)
      PROVE  \E t \in PinSteps \cup {"idle"} : Goto(u, from, t)
  BY <1>4 DEF CheckRunning
<1>5. CASE RequestStep(u)
  <2> USE DEF PinSteps, RequestSteps
  <2>1. CASE GpioCheckRunning(u) \/ GpioCheckOwner(u)
    BY <1>2, <1>4, <2>1 DEF GpioCheckRunning, GpioCheckOwner
  <2>2. CASE GpioReadPwm(u) \/ GpioReadExported(u)
    BY <1>1, <1>3, <2>2 DEF GpioReadPwm, GpioReadExported
  <2>3. CASE GpioTakeFromPwm(u) \/ GpioIgnorePwm(u) \/ GpioExport(u)
    BY <1>2, <2>3 DEF GpioTakeFromPwm, GpioIgnorePwm, GpioExport
  <2>4. CASE GpioEnable(u) \/ GpioPush(u) \/ GpioLow(u) \/ GpioPushLow(u)
             \/ GpioRequested(u)
    BY <1>2, <2>4 DEF GpioEnable, GpioPush, GpioLow, GpioPushLow,
                      GpioRequested, Push, SetState
  <2>5. CASE GpioLoad(u)
    BY <1>1, <2>5 DEF GpioLoad, EnqueueLoad
  <2> QED
    BY <1>5, <2>1, <2>2, <2>3, <2>4, <2>5 DEF RequestStep
<1>6. CASE FreeStep(u)
  <2> USE DEF PinSteps, FreeSteps
  <2>1. CASE FreeCheckRunning(u)
    BY <1>2, <1>4, <2>1 DEF FreeCheckRunning
  <2>2. CASE FreeReadExported(u)
    BY <1>1, <1>3, <2>2 DEF FreeReadExported
  <2>3. CASE FreeLow(u) \/ FreePushLow(u) \/ FreeZero(u) \/ FreePush(u)
    BY <1>2, <2>3 DEF FreeLow, FreePushLow, FreeZero, FreePush, Push, SetState
  <2>4. CASE FreeLoad(u) \/ FreeEnqueue(u)
    BY <1>1, <2>4 DEF FreeLoad, FreeEnqueue, EnqueueLoad
  <2>5. CASE FreeUnexport(u) \/ FreeUnignore(u)
    BY <1>2, <2>5 DEF FreeUnexport, FreeUnignore
  <2> QED
    BY <1>6, <2>1, <2>2, <2>3, <2>4, <2>5 DEF FreeStep
<1>7. CASE UseStep(u)
  <2> USE DEF PinSteps, UseSteps
  <2>1. CASE GpioSetLoad(u)
    BY <1>1, <2>1 DEF GpioSetLoad, EnqueueLoad
  <2>2. CASE GpioSetDone(u) \/ DirectionPush(u)
    BY <1>2, <2>2 DEF GpioSetDone, DirectionPush, Push
  <2> QED
    BY <1>7, <2>1, <2>2 DEF UseStep
<1>8. CASE PwmStep(u)
  <2> USE DEF PinSteps, PwmSteps
  <2>1. CASE PwmCheckRunning(u) \/ PwmReadGpio(u)
    BY <1>2, <2>1 DEF PwmCheckRunning, PwmReadGpio
  <2>2. CASE PwmReadPwm(u)
    <3>1. PICK o \in Outcomes, junk \in SUBSET setting.pins :
            Move(u, "p_pwm", "p_export",
                 IF o.ok THEN pwm_exported ELSE junk, 0)
      BY <2>2 DEF PwmReadPwm
    <3>2. (IF o.ok THEN pwm_exported ELSE junk) \in SUBSET Pins
      BY <1>1
    <3> QED
      BY <3>1, <3>2
  <2>3. CASE PwmFreeRead(u)
    BY <1>1, <1>3, <2>3 DEF PwmFreeRead
  <2>4. CASE PwmExport(u) \/ PwmUnexport(u)
    BY <1>2, <2>4 DEF PwmExport, PwmUnexport
  <2> QED
    BY <1>8, <2>1, <2>2, <2>3, <2>4 DEF PwmStep
<1> QED
  BY <1>5, <1>6, <1>7, <1>8

(* The shape of the state, inductively. *)
PinsShape == TypeOK /\ Somewhere /\ CounterInv

(* The shape holds at first. *)
LEMMA ShapeInit == Init => PinsShape
<1> SUFFICES ASSUME Init PROVE PinsShape
  OBVIOUS
<1>1. PICK w \in setting.left : /\ pin_states = [p \in Pins |-> w]
                               /\ dev_gpio = [p \in Pins |-> w]
  BY DEF Init
<1>2. w \in SUBSET PinBits /\ gpio_exported \in SUBSET Pins
  BY SettingShape DEF Init
<1>3. AtRest \in Locals /\ AtRest.pc = "idle" /\ AtRest.pin = NoPin
  BY DEF AtRest, Locals, UserSteps
<1>4. TypeOK
  BY <1>1, <1>2, <1>3 DEF Init, TypeOK, Locals, ProbeSteps
<1>5. Somewhere
  BY <1>3 DEF Init, Somewhere, PinSteps, RequestSteps, FreeSteps, UseSteps,
      PwmSteps
<1>6. CounterInv
  BY DEF Init, CounterInv
<1> QED
  BY <1>4, <1>5, <1>6 DEF PinsShape

(* Every step keeps it. *)
LEMMA ShapeStep == PinsShape /\ [Next]_vars => PinsShape'
<1> SUFFICES ASSUME TypeOK, Somewhere, CounterInv, [Next]_vars
             PROVE  TypeOK' /\ Somewhere' /\ CounterInv'
  BY DEF PinsShape
<1>0. setting \in Settings
  BY DEF TypeOK
<1>1. ASSUME NEW u \in Users, UserStep(u), UNCHANGED setting
      PROVE  TypeOK' /\ Somewhere' /\ CounterInv'
  <2>1. CounterInv'
    BY <1>1, CounterUser
  <2>2. TypeOK' /\ Somewhere'
    BY <1>1, TypeRequest, TypeFree, TypeUse, TypeReset, TypePwm DEF UserStep
  <2> QED
    BY <2>1, <2>2
<1>2. ASSUME CallsNext, UNCHANGED setting
      PROVE  TypeOK' /\ Somewhere' /\ CounterInv'
  <2>1. ASSUME NEW u \in setting.users, Reset(u)
        PROVE  TypeOK' /\ Somewhere' /\ CounterInv'
    BY <1>0, <1>2, <2>1, SettingShape, TypeReset, CounterUser
  <2>2. ASSUME NEW u \in setting.users, NEW p \in setting.pins, UserCall(u, p)
        PROVE  TypeOK' /\ Somewhere' /\ CounterInv'
    <3>1. u \in Users /\ p \in Pins
      BY <1>0, <2>2, SettingShape
    <3>2. UNCHANGED <<pin_states_updated, wrkVars>>
      BY <2>2 DEF UserCall, GpioRequest, GpioFree, GpioSet, GpioDirection,
                  PwmRequest, PwmFree, drvVars
    <3>3. CounterInv'
      BY <3>2 DEF CounterInv, wrkVars
    <3> QED
      BY <1>2, <2>2, <3>1, <3>3, TypeCall
  <2>3. ASSUME NEW p \in setting.pins, PwmFreeIgnored(p)
        PROVE  TypeOK' /\ Somewhere' /\ CounterInv'
    BY <1>2, <2>3 DEF PwmFreeIgnored, TypeOK, Somewhere, CounterInv, drvVars,
                      devVars, wrkVars
  <2>4. ASSUME NEW m \in setting.masks, PwmIgnoreStore(m)
        PROVE  TypeOK' /\ Somewhere' /\ CounterInv'
    <3>1. m \in SUBSET Pins
      BY <1>0, <2>4, SettingShape
    <3> QED
      BY <1>2, <2>4, <3>1 DEF PwmIgnoreStore, TypeOK, Somewhere, CounterInv,
                              devVars, wrkVars, heldVars
  <2> QED
    BY <1>2, <2>1, <2>2, <2>3, <2>4 DEF CallsNext
<1>3. ASSUME DriverNext, UNCHANGED setting
      PROVE  TypeOK' /\ Somewhere' /\ CounterInv'
  BY <1>3, TypeDriver
<1>4. ASSUME MotorsChange, UNCHANGED setting
      PROVE  TypeOK' /\ Somewhere' /\ CounterInv'
  <2>1. running' \in BOOLEAN
    BY <1>0, <1>4, SettingShape DEF MotorsChange
  <2> QED
    BY <1>4, <2>1 DEF MotorsChange, TypeOK, Somewhere, CounterInv, drvVars,
                      devVars, wrkVars, heldVars
<1>5. CASE UNCHANGED vars
  BY <1>5, TypeStutter
<1> QED
  BY <1>1, <1>2, <1>3, <1>4, <1>5 DEF Next

(* The invariant that gives the shape of the state. *)
THEOREM PinsShapeInvariant == Spec => []PinsShape
<1>1. Init => PinsShape
  BY ShapeInit
<1>2. PinsShape /\ [Next]_vars => PinsShape'
  BY ShapeStep
<1> QED
  BY <1>1, <1>2, PTL DEF Spec

(* The state keeps its shape on any link and under any calls; above all, the *)
(* counter of owed pushes, which callbacks and the worker load and store     *)
(* without a lock, never gets below zero (rcio_gpio.c:37-39, 308-311).       *)
THEOREM PinsTypeCorrect == Spec => []TypeOK
<1>1. PinsShape => TypeOK
  BY DEF PinsShape
<1> QED
  BY <1>1, PinsShapeInvariant, PTL
=============================================================================
