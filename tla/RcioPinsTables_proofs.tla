------------------------ MODULE RcioPinsTables_proofs ------------------------
(***************************************************************************)
(* What RcioPins promises of the two tables of pin words and of the two    *)
(* masks of exported pins, for any pins, users and settings: the board     *)
(* drives the pins that are held, and has let go of the others; and no pin *)
(* is exported twice while requests and frees do not overlap, on a link    *)
(* that delivers.                                                          *)
(***************************************************************************)
EXTENDS RcioPins_proofs

-----------------------------------------------------------------------------
(* The tables: the inductive invariant                                     *)

(* The callbacks of the GPIO core, by what they have done to their pin:     *)
(* nothing yet; driven it; begun to let go of it; let go of it.             *)
GpioSteps == RequestSteps \cup FreeSteps \cup UseSteps
OffSteps  == {"g_running", "g_pwm", "g_owner", "g_take", "g_ignore",
              "g_ignore_fail", "g_read", "g_export", "g_enable"}
OnSteps   == {"g_low", "g_push_low", "g_load", "g_store"}
FlushSteps == {"f_running", "f_read", "f_low", "f_push_low", "f_zero"}
GoneSteps == {"f_load", "f_store", "f_unexport", "f_unignore"}

Driven(p)   == p \in gpio_held /\ EN \in pin_states[p] /\ EN \in dev_gpio[p]
Released(p) == p \notin gpio_held /\ pin_states[p] = {} /\ dev_gpio[p] = {}

(* What a callback in step pc relies on about its pin p.  The step that     *)
(* writes the driver's word comes before the one that pushes it.            *)
At(pc, p) ==
  /\ pc \in RequestSteps \cup FreeSteps => p \notin gpio_held
  /\ pc \in OffSteps \cup GoneSteps => Released(p)
  /\ pc \in {"g_push"} \cup OnSteps => EN \in pin_states[p]
  /\ pc \in OnSteps => EN \in dev_gpio[p]
  /\ pc = "f_push" => pin_states[p] = {}
  /\ pc \in UseSteps => Driven(p)

CallbacksOK ==
  \A u \in Users : loc[u].pc \in GpioSteps => At(loc[u].pc, loc[u].pin)

(* The GPIO core lets one callback at a time work on a pin. *)
OneCallback ==
  \A u, v \in Users :
    u # v /\ loc[u].pc \in GpioSteps /\ loc[v].pc \in GpioSteps
      => loc[u].pin # loc[v].pin

(* A pin that no callback works on is held and driven, or neither. *)
Quiet(p) == \A u \in Users : loc[u].pc \in GpioSteps => loc[u].pin # p
RestOK   == \A p \in Pins : Quiet(p) => Driven(p) \/ Released(p)

Tables == CallbacksOK /\ OneCallback /\ RestOK

(* While the probe clears the tables nobody else is there; nobody resets.   *)
ProbeAlone ==
  /\ \A u \in Users : loc[u].pc \notin ResetSteps
  /\ wpc \in ProbeSteps => /\ gpio_held = {}
                           /\ \A u \in Users : loc[u].pc = "idle"
  /\ wpc \in {"probe_push", "probe_unexport"} => pin_states = AllOff
  /\ wpc = "probe_unexport" => dev_gpio = AllOff

TableInv == Calm => ProbeAlone /\ (wpc \notin ProbeSteps => Tables)

-----------------------------------------------------------------------------
(* A step of u's callback on p, or its first or last one.  It may change    *)
(* the driver's word of p and no other, and may push the whole table: that  *)
(* is all the other callbacks and the pins at rest see of it.               *)
LEMMA CallbackStep ==
  ASSUME TypeOK, Tables, NEW u \in Users, NEW p \in Pins,
         \A v \in Users \ {u} : loc'[v] = loc[v],
         \A q \in Pins \ {p} : /\ pin_states'[q] = pin_states[q]
                               /\ dev_gpio'[q] \in {dev_gpio[q], pin_states[q]}
                               /\ q \in gpio_held' <=> q \in gpio_held,
         loc[u].pc \in GpioSteps => loc[u].pin = p,
         loc'[u].pc \in GpioSteps => loc'[u].pin = p,
         loc[u].pc \in GpioSteps \/ Quiet(p),
         IF loc'[u].pc \in GpioSteps THEN At(loc[u].pc, p)'
                                     ELSE Driven(p)' \/ Released(p)',
         Somewhere
  PROVE  Tables'
<1>1. \A v \in Users \ {u} :
        loc[v].pc \in GpioSteps => loc[v].pin \in Pins \ {p}
  BY DEF Tables, OneCallback, Quiet, Somewhere, GpioSteps, PinSteps
<1>2. OneCallback'
  BY <1>1 DEF Tables, OneCallback
<1>3. \A q \in Pins \ {p} : /\ Driven(q) => Driven(q)'
                            /\ Released(q) => Released(q)'
  BY DEF Driven, Released
<1>4. ASSUME NEW v \in Users \ {u}, loc[v].pc \in GpioSteps
      PROVE  At(loc[v].pc, loc[v].pin)'
  <2>1. /\ loc'[v] = loc[v] /\ loc[v].pin \in Pins \ {p}
        /\ At(loc[v].pc, loc[v].pin)
    BY <1>1, <1>4 DEF Tables, CallbacksOK
  <2>2. /\ loc[v].pin \in gpio_held' <=> loc[v].pin \in gpio_held
        /\ pin_states'[loc[v].pin] = pin_states[loc[v].pin]
        /\ dev_gpio'[loc[v].pin]
             \in {dev_gpio[loc[v].pin], pin_states[loc[v].pin]}
    BY <2>1
  <2> QED
    BY <2>1, <2>2 DEF At, Driven, Released, OffSteps, OnSteps, GoneSteps,
      FlushSteps, RequestSteps, FreeSteps, UseSteps
<1>5. CallbacksOK'
  <2> SUFFICES ASSUME NEW v \in Users, loc'[v].pc \in GpioSteps
               PROVE  At(loc[v].pc, loc[v].pin)'
    BY DEF CallbacksOK
  <2>1. CASE v = u
    BY <2>1 DEF At, Driven, Released
  <2>2. CASE v # u
    BY <1>4, <2>2
  <2> QED
    BY <2>1, <2>2
<1>6. RestOK'
  BY <1>1, <1>3 DEF RestOK, Quiet, Tables
<1> QED
  BY <1>2, <1>5, <1>6 DEF Tables

(* A step of anyone else: no callback of the GPIO core moves, the table may  *)
(* be pushed. *)
LEMMA OtherStep ==
  ASSUME TypeOK, Somewhere, Tables,
         \A v \in Users : loc[v].pc \in GpioSteps \/ loc'[v].pc \in GpioSteps
                            => loc'[v] = loc[v],
         UNCHANGED <<pin_states, gpio_held>>,
         dev_gpio' \in {dev_gpio, pin_states}
  PROVE  Tables'
<1>1. OneCallback'
  BY DEF Tables, OneCallback
<1>2. \A q \in Pins : /\ Driven(q) => Driven(q)'
                      /\ Released(q) => Released(q)'
  BY DEF Driven, Released
<1>3. ASSUME NEW v \in Users, loc'[v].pc \in GpioSteps
      PROVE  At(loc[v].pc, loc[v].pin)'
  <2>1. loc'[v] = loc[v] /\ At(loc[v].pc, loc[v].pin)
    BY <1>3 DEF Tables, CallbacksOK
  <2> QED
    BY <2>1 DEF At, Driven, Released, OffSteps, OnSteps, GoneSteps,
      FlushSteps, RequestSteps, FreeSteps, UseSteps
<1>4. CallbacksOK'
  BY <1>3 DEF CallbacksOK
<1>5. RestOK'
  BY <1>2 DEF RestOK, Quiet, Tables
<1> QED
  BY <1>1, <1>4, <1>5 DEF Tables

-----------------------------------------------------------------------------
(* The kinds of steps of a callback                                        *)

(* A callback of the GPIO core goes on: the locals of its thread. *)
LEMMA Walk ==
  ASSUME TypeOK, Somewhere, NEW u \in Users, NEW from \in GpioSteps,
         NEW to \in GpioSteps \cup {"idle"},
         NEW mask \in SUBSET Pins, NEW n \in Nat, Move(u, from, to, mask, n)
  PROVE  /\ loc[u].pc = from /\ loc[u].pin \in Pins /\ loc'[u].pc = to
         /\ to # "idle" => loc'[u].pin = loc[u].pin
         /\ \A v \in Users \ {u} : loc'[v] = loc[v]
<1>1. from \in PinSteps /\ to \in UserSteps
  BY DEF GpioSteps, PinSteps, UserSteps
<1>2. /\ loc[u].pc = from /\ loc'[u].pc = to
      /\ to # "idle" => loc'[u].pin = loc[u].pin
      /\ \A v \in Users \ {u} : loc'[v] = loc[v]
  BY <1>1, MoveLocals
<1>3. loc[u].pin \in Pins
  BY <1>1, <1>2 DEF Somewhere
<1> QED
  BY <1>2, <1>3

(* The same for moves that keep the locals, or drop them. *)
LEMMA WalkGoto ==
  ASSUME TypeOK, Somewhere, NEW u \in Users, NEW from \in GpioSteps,
         NEW to \in GpioSteps \cup {"idle"},
         Goto(u, from, to) \/ Drop(u, from, to)
  PROVE  /\ loc[u].pc = from /\ loc[u].pin \in Pins /\ loc'[u].pc = to
         /\ to # "idle" => loc'[u].pin = loc[u].pin
         /\ \A v \in Users \ {u} : loc'[v] = loc[v]
<1>1. loc[u].word \in SUBSET Pins /\ loc[u].count \in Nat
  BY DEF TypeOK
<1>2. CASE Goto(u, from, to)
  BY <1>1, <1>2, Walk DEF Goto
<1>3. CASE Drop(u, from, to)
  BY <1>3, Walk DEF Drop
<1> QED
  BY <1>2, <1>3

(* Two steps between which a callback does nothing to its pin. *)
Alike(from, to) ==
  \/ from \in OffSteps /\ to \in OffSteps \cup {"idle"}
  \/ from \in OnSteps /\ to \in OnSteps
  \/ from \in FlushSteps /\ to \in FlushSteps
  \/ from \in GoneSteps /\ to \in GoneSteps \cup {"idle"}
  \/ from \in UseSteps /\ to \in UseSteps \cup {"idle"}

(* A step that touches neither table. *)
LEMMA QuietStep ==
  ASSUME TypeOK, Somewhere, Tables, NEW u \in Users, NEW from \in GpioSteps,
         NEW to \in GpioSteps \cup {"idle"}, Alike(from, to),
         loc[u].pc = from, loc[u].pin \in Pins, loc'[u].pc = to,
         to # "idle" => loc'[u].pin = loc[u].pin,
         \A v \in Users \ {u} : loc'[v] = loc[v],
         UNCHANGED <<pin_states, dev_gpio, gpio_held>>
  PROVE  Tables'
<1>1. "idle" \notin GpioSteps
  BY DEF GpioSteps, RequestSteps, FreeSteps, UseSteps
<1>2. At(from, loc[u].pin)
  BY DEF Tables, CallbacksOK
<1>3. IF to # "idle" THEN At(to, loc[u].pin)
                     ELSE Driven(loc[u].pin) \/ Released(loc[u].pin)
  BY <1>2 DEF At, Alike, OffSteps, OnSteps, FlushSteps, GoneSteps, UseSteps,
              RequestSteps, FreeSteps
<1>4. PICK p \in Pins : p = loc[u].pin
  OBVIOUS
<1>5. IF loc'[u].pc \in GpioSteps THEN At(loc[u].pc, p)'
                                 ELSE Driven(p)' \/ Released(p)'
  BY <1>1, <1>3, <1>4 DEF At, Driven, Released
<1> QED
  BY <1>1, <1>4, <1>5, CallbackStep

(* The push of the whole table: the board has p as the driver has it. *)
LEMMA PushStep ==
  ASSUME TypeOK, Somewhere, Tables, ~setting.faulty, NEW u \in Users,
         NEW from \in GpioSteps, NEW to \in GpioSteps \cup {"idle"},
         Push(u, from, to),
         \/ from \in {"g_push"} \cup OnSteps /\ to \in OnSteps
         \/ from = "f_push" /\ to \in GoneSteps
         \/ Alike(from, to)
  PROVE  Tables'
<1>1. dev_gpio' = pin_states
  BY OutcomesCalm DEF Push
<1>2. UNCHANGED <<pin_states, gpio_held>>
  BY DEF Push, drvVars, heldVars
<1>3. /\ loc[u].pc = from /\ loc[u].pin \in Pins /\ loc'[u].pc = to
      /\ to # "idle" => loc'[u].pin = loc[u].pin
      /\ \A v \in Users \ {u} : loc'[v] = loc[v]
  BY WalkGoto DEF Push
<1>4. "idle" \notin GpioSteps
  BY DEF GpioSteps, RequestSteps, FreeSteps, UseSteps
<1>5. At(from, loc[u].pin)
  BY <1>3 DEF Tables, CallbacksOK
<1>6. PICK p \in Pins : p = loc[u].pin
  BY <1>3
<1>7. IF loc'[u].pc \in GpioSteps THEN At(loc[u].pc, p)'
                                 ELSE Driven(p)' \/ Released(p)'
  BY <1>1, <1>2, <1>3, <1>4, <1>5, <1>6 DEF At, Alike, Driven, Released,
    OffSteps, OnSteps, FlushSteps, GoneSteps, UseSteps, RequestSteps, FreeSteps
<1> QED
  BY <1>1, <1>2, <1>3, <1>4, <1>6, <1>7, CallbackStep

(* The driver's word of p changes, the board does not hear of it yet. *)
LEMMA SetStep ==
  ASSUME TypeOK, Somewhere, Tables, NEW u \in Users, NEW from \in GpioSteps,
         NEW to \in GpioSteps, NEW w \in SUBSET PinBits,
         SetState(u, from, to, w),
         \/ from \in OffSteps /\ to = "g_push" /\ EN \in w
         \/ from \in OnSteps /\ to \in OnSteps /\ EN \in w
         \/ from \in FlushSteps /\ to \in FlushSteps
         \/ from \in FlushSteps /\ to = "f_push" /\ w = {}
  PROVE  Tables'
<1>1. pin_states' = [pin_states EXCEPT ![loc[u].pin] = w]
  BY DEF SetState
<1>2. UNCHANGED <<dev_gpio, gpio_held>>
  BY DEF SetState, devVars, heldVars
<1>3. /\ loc[u].pc = from /\ loc[u].pin \in Pins /\ loc'[u].pc = to
      /\ loc'[u].pin = loc[u].pin
      /\ \A v \in Users \ {u} : loc'[v] = loc[v]
  <2>1. to # "idle"
    BY DEF GpioSteps, RequestSteps, FreeSteps, UseSteps
  <2> QED
    BY <2>1, WalkGoto DEF SetState
<1>5. At(from, loc[u].pin)
  BY <1>3 DEF Tables, CallbacksOK
<1>6. PICK p \in Pins : p = loc[u].pin
  BY <1>3
<1>7. /\ pin_states'[p] = w
      /\ \A q \in Pins \ {p} : pin_states'[q] = pin_states[q]
  BY <1>1, <1>6 DEF TypeOK
<1>8. At(to, p)'
  BY <1>2, <1>3, <1>5, <1>6, <1>7 DEF At, Driven, Released,
    OffSteps, OnSteps, FlushSteps, GoneSteps, UseSteps, RequestSteps, FreeSteps
<1> QED
  BY <1>2, <1>3, <1>6, <1>7, <1>8, CallbackStep

-----------------------------------------------------------------------------
(* The callbacks, step by step                                             *)

(* gpio_chip_request: the pin is released until its word is written, and is *)
(* driven once that word is pushed.  *)
LEMMA RequestTables ==
  ASSUME TypeOK, Somewhere, Tables, ~setting.faulty, NEW u \in Users,
         RequestStep(u)
  PROVE  Tables'
<1> USE DEF GpioSteps, RequestSteps, Alike, OffSteps, OnSteps
<1>1. CASE \/ GpioCheckRunning(u) \/ GpioReadPwm(u) \/ GpioCheckOwner(u)
           \/ GpioTakeFromPwm(u) \/ GpioIgnorePwm(u) \/ GpioReadExported(u)
  <2>1. PICK from \in OffSteps, to \in OffSteps \cup {"idle"},
             mask \in SUBSET Pins, n \in Nat : Move(u, from, to, mask, n)
    <3>1. /\ loc[u].word \in SUBSET Pins /\ loc[u].count \in Nat
          /\ gpio_exported \in SUBSET Pins /\ pwm_exported \in SUBSET Pins
      BY DEF TypeOK
    <3>2. CASE GpioCheckRunning(u) \/ GpioCheckOwner(u)
      BY <3>1, <3>2 DEF GpioCheckRunning, CheckRunning, GpioCheckOwner, Goto,
                        Drop
    <3>3. CASE GpioTakeFromPwm(u) \/ GpioIgnorePwm(u)
      BY <3>1, <3>3 DEF GpioTakeFromPwm, GpioIgnorePwm, Goto, Drop
    <3>4. CASE GpioReadPwm(u) \/ GpioReadExported(u)
      BY <3>1, <3>4 DEF GpioReadPwm, GpioReadExported, ReadMask
    <3> QED
      BY <1>1, <3>2, <3>3, <3>4
  <2>2. /\ loc[u].pc = from /\ loc[u].pin \in Pins /\ loc'[u].pc = to
        /\ to # "idle" => loc'[u].pin = loc[u].pin
        /\ \A v \in Users \ {u} : loc'[v] = loc[v]
    BY <2>1, Walk
  <2>3. UNCHANGED <<pin_states, dev_gpio, gpio_held>>
    BY <1>1 DEF GpioCheckRunning, GpioReadPwm, GpioCheckOwner,
      GpioTakeFromPwm, GpioIgnorePwm, GpioReadExported, CheckRunning, ReadMask,
      drvVars, devVars, heldVars
  <2>4. from \in GpioSteps /\ to \in GpioSteps \cup {"idle"} /\ Alike(from, to)
    OBVIOUS
  <2> QED
    BY <2>2, <2>3, <2>4, QuietStep
<1>2. CASE GpioExport(u)
  <2>1. PICK to \in OffSteps \cup {"idle"} : Drop(u, "g_export", to)
    BY <1>2 DEF GpioExport
  <2>2. /\ loc[u].pc = "g_export" /\ loc[u].pin \in Pins /\ loc'[u].pc = to
        /\ to # "idle" => loc'[u].pin = loc[u].pin
        /\ \A v \in Users \ {u} : loc'[v] = loc[v]
    BY <2>1, WalkGoto
  <2>3. UNCHANGED <<pin_states, dev_gpio, gpio_held>>
    BY <1>2 DEF GpioExport, drvVars, heldVars
  <2> QED
    BY <2>2, <2>3, QuietStep
<1>3. CASE GpioEnable(u)
  <2>1. set_bit_m({}, EN) \in SUBSET PinBits /\ EN \in set_bit_m({}, EN)
    BY DEF set_bit_m, PinBits
  <2> QED
    BY <1>3, <2>1, SetStep DEF GpioEnable
<1>4. CASE GpioPush(u) \/ GpioPushLow(u)
  BY <1>4, PushStep DEF GpioPush, GpioPushLow
<1>5. CASE GpioLow(u)
  <2> DEFINE w == clear_bit_m(clear_bit_m(pin_states[loc[u].pin], DIR), V)
  <2>1. loc[u].pc = "g_low" /\ loc[u].pin \in Pins
    BY <1>5, WalkGoto DEF GpioLow, SetState
  <2>2. w \in SUBSET PinBits
    BY <2>1 DEF clear_bit_m, TypeOK
  <2>3. EN \in pin_states[loc[u].pin]
    BY <2>1 DEF Tables, CallbacksOK, At
  <2>4. EN \in w
    BY <2>3 DEF clear_bit_m, EN, DIR, V
  <2> HIDE DEF w
  <2>5. SetState(u, "g_low", "g_push_low", w)
    BY <1>5 DEF GpioLow, w
  <2> QED
    BY <2>2, <2>4, <2>5, SetStep
<1>6. CASE GpioLoad(u)
  <2>1. /\ loc[u].pc = "g_load" /\ loc[u].pin \in Pins
        /\ loc'[u].pc = "g_store" /\ loc'[u].pin = loc[u].pin
        /\ \A v \in Users \ {u} : loc'[v] = loc[v]
    BY <1>6, Walk DEF GpioLoad, EnqueueLoad, TypeOK
  <2> QED
    BY <1>6, <2>1, QuietStep DEF GpioLoad, EnqueueLoad, drvVars, devVars,
                                 heldVars
<1>7. CASE GpioRequested(u)
  <2>1. /\ loc[u].pc = "g_store" /\ loc[u].pin \in Pins /\ loc'[u].pc = "idle"
        /\ \A v \in Users \ {u} : loc'[v] = loc[v]
    BY <1>7, WalkGoto DEF GpioRequested
  <2>2. /\ UNCHANGED <<pin_states, dev_gpio>>
        /\ gpio_held' = gpio_held \cup {loc[u].pin}
    BY <1>7 DEF GpioRequested, Enqueue, devVars
  <2>3. PICK p \in Pins : p = loc[u].pin
    BY <2>1
  <2>4. At("g_store", p)
    BY <2>1, <2>3 DEF Tables, CallbacksOK
  <2>5. Driven(p)'
    BY <2>2, <2>3, <2>4 DEF At, Driven
  <2>6. "idle" \notin GpioSteps /\ "g_store" \in GpioSteps
    BY DEF FreeSteps, UseSteps
  <2> HIDE DEF GpioSteps
  <2> QED
    BY <2>1, <2>2, <2>3, <2>5, <2>6, CallbackStep
<1> QED
  BY <1>1, <1>2, <1>3, <1>4, <1>5, <1>6, <1>7 DEF RequestStep

(* gpio_chip_free: the pin is released once its cleared word is pushed. *)
LEMMA FreeTables ==
  ASSUME TypeOK, Somewhere, Tables, ~setting.faulty, NEW u \in Users,
         FreeStep(u)
  PROVE  Tables'
<1> USE DEF GpioSteps, FreeSteps, Alike, FlushSteps, GoneSteps
<1>1. CASE FreeCheckRunning(u) \/ FreeReadExported(u)
  <2>1. PICK to \in FlushSteps, mask \in SUBSET Pins, n \in Nat :
          \/ Move(u, "f_running", to, mask, n)
          \/ Move(u, "f_read", to, mask, n)
    <3>1. CASE FreeCheckRunning(u)
      <4>1. PICK o \in Outcomes :
              Goto(u, "f_running", IF o.ok THEN "f_read" ELSE "idle")
        BY <3>1 DEF FreeCheckRunning, CheckRunning
      <4>2. o.ok
        BY OutcomesCalm
      <4> QED
        BY <4>1, <4>2 DEF Goto, TypeOK
    <3>2. CASE FreeReadExported(u)
      <4>1. PICK o \in Outcomes :
              Move(u, "f_read", IF o.ok THEN "f_low" ELSE "idle",
                   gpio_exported, 0)
        BY <3>2 DEF FreeReadExported, ReadMask
      <4>2. o.ok
        BY OutcomesCalm
      <4> QED
        BY <4>1, <4>2 DEF TypeOK
    <3> QED
      BY <1>1, <3>1, <3>2
  <2>2. PICK from \in FlushSteps : Move(u, from, to, mask, n)
    BY <2>1
  <2>3. /\ loc[u].pc = from /\ loc[u].pin \in Pins /\ loc'[u].pc = to
        /\ to # "idle" => loc'[u].pin = loc[u].pin
        /\ \A v \in Users \ {u} : loc'[v] = loc[v]
    BY <2>2, Walk
  <2>4. UNCHANGED <<pin_states, dev_gpio, gpio_held>>
    BY <1>1 DEF FreeCheckRunning, FreeReadExported, CheckRunning, ReadMask,
                drvVars, devVars, heldVars
  <2> QED
    BY <2>3, <2>4, QuietStep
<1>2. CASE FreeLow(u)
  <2>1. loc[u].pin \in Pins
    BY <1>2, WalkGoto DEF FreeLow, SetState
  <2>2. clear_bit_m(pin_states[loc[u].pin], V) \in SUBSET PinBits
    BY <2>1 DEF clear_bit_m, TypeOK
  <2> QED
    BY <1>2, <2>2, SetStep DEF FreeLow
<1>3. CASE FreeZero(u)
  BY <1>3, SetStep DEF FreeZero
<1>4. CASE FreePushLow(u) \/ FreePush(u)
  BY <1>4, PushStep DEF FreePushLow, FreePush
<1>5. CASE FreeLoad(u) \/ FreeEnqueue(u)
  <2>1. PICK from \in GoneSteps, to \in GoneSteps,
             mask \in SUBSET Pins, n \in Nat : Move(u, from, to, mask, n)
    BY <1>5 DEF FreeLoad, EnqueueLoad, FreeEnqueue, TypeOK
  <2>2. /\ loc[u].pc = from /\ loc[u].pin \in Pins /\ loc'[u].pc = to
        /\ to # "idle" => loc'[u].pin = loc[u].pin
        /\ \A v \in Users \ {u} : loc'[v] = loc[v]
    BY <2>1, Walk
  <2>3. UNCHANGED <<pin_states, dev_gpio, gpio_held>>
    BY <1>5 DEF FreeLoad, EnqueueLoad, FreeEnqueue, Enqueue, drvVars, devVars,
                heldVars
  <2> QED
    BY <2>2, <2>3, QuietStep
<1>6. CASE FreeUnexport(u) \/ FreeUnignore(u)
  <2>1. PICK from \in GoneSteps, to \in GoneSteps \cup {"idle"} :
          Goto(u, from, to) \/ Drop(u, from, to)
    BY <1>6 DEF FreeUnexport, FreeUnignore
  <2>2. /\ loc[u].pc = from /\ loc[u].pin \in Pins /\ loc'[u].pc = to
        /\ to # "idle" => loc'[u].pin = loc[u].pin
        /\ \A v \in Users \ {u} : loc'[v] = loc[v]
    BY <2>1, WalkGoto
  <2>3. UNCHANGED <<pin_states, dev_gpio, gpio_held>>
    BY <1>6 DEF FreeUnexport, FreeUnignore, drvVars, devVars, heldVars
  <2> QED
    BY <2>2, <2>3, QuietStep
<1> QED
  BY <1>1, <1>2, <1>3, <1>4, <1>5, <1>6 DEF FreeStep

(* The rest of the calls that set a pin or its direction. *)
LEMMA UseTables ==
  ASSUME TypeOK, Somewhere, Tables, ~setting.faulty, NEW u \in Users,
         UseStep(u)
  PROVE  Tables'
<1> USE DEF GpioSteps, UseSteps, Alike
<1>1. CASE GpioSetLoad(u) \/ GpioSetDone(u)
  <2>1. PICK from \in UseSteps, to \in UseSteps \cup {"idle"},
             mask \in SUBSET Pins, n \in Nat : Move(u, from, to, mask, n)
    BY <1>1 DEF GpioSetLoad, EnqueueLoad, GpioSetDone, Goto, TypeOK
  <2>2. /\ loc[u].pc = from /\ loc[u].pin \in Pins /\ loc'[u].pc = to
        /\ to # "idle" => loc'[u].pin = loc[u].pin
        /\ \A v \in Users \ {u} : loc'[v] = loc[v]
    BY <2>1, Walk
  <2>3. UNCHANGED <<pin_states, dev_gpio, gpio_held>>
    BY <1>1 DEF GpioSetLoad, EnqueueLoad, GpioSetDone, Enqueue, drvVars,
                devVars, heldVars
  <2> QED
    BY <2>2, <2>3, QuietStep
<1>2. CASE DirectionPush(u)
  BY <1>2, PushStep DEF DirectionPush
<1> QED
  BY <1>1, <1>2 DEF UseStep

(* The PWM core's callbacks leave the tables alone. *)
LEMMA PwmTables ==
  ASSUME TypeOK, Somewhere, Tables, NEW u \in Users, PwmStep(u)
  PROVE  Tables'
<1>1. PICK from \in PwmSteps, to \in PwmSteps \cup {"idle"},
           mask \in SUBSET Pins, n \in Nat : Move(u, from, to, mask, n)
  <2> USE DEF PwmSteps
  <2>1. /\ loc[u].word \in SUBSET Pins /\ loc[u].count \in Nat
        /\ pwm_exported \in SUBSET Pins /\ setting.pins \subseteq Pins
    BY SettingShape DEF TypeOK
  <2>2. CASE PwmCheckRunning(u) \/ PwmReadGpio(u)
    BY <2>1, <2>2 DEF PwmCheckRunning, PwmReadGpio, Goto
  <2>3. CASE PwmReadPwm(u)
    <3>1. PICK o \in Outcomes, junk \in SUBSET setting.pins :
            Move(u, "p_pwm", "p_export",
                 IF o.ok THEN pwm_exported ELSE junk, 0)
      BY <2>3 DEF PwmReadPwm
    <3>2. (IF o.ok THEN pwm_exported ELSE junk) \in SUBSET Pins
      BY <2>1
    <3> QED
      BY <3>1, <3>2
  <2>4. CASE PwmFreeRead(u)
    BY <2>1, <2>4 DEF PwmFreeRead, ReadMask
  <2>5. CASE PwmExport(u) \/ PwmUnexport(u)
    BY <2>1, <2>5 DEF PwmExport, PwmUnexport, Goto
  <2> QED
    BY <2>2, <2>3, <2>4, <2>5 DEF PwmStep
<1>2. from \notin GpioSteps /\ to \notin GpioSteps /\ to \in UserSteps
  BY DEF GpioSteps, RequestSteps, FreeSteps, UseSteps, PwmSteps, UserSteps
<1>3. /\ loc[u].pc = from /\ loc'[u].pc = to
      /\ \A v \in Users \ {u} : loc'[v] = loc[v]
  BY <1>1, <1>2, MoveLocals
<1>4. UNCHANGED <<pin_states, dev_gpio, gpio_held>>
  BY DEF PwmStep, PwmCheckRunning, PwmReadGpio, PwmReadPwm, PwmExport,
    PwmFreeRead, PwmUnexport, ReadMask, PwmGranted, drvVars, devVars, heldVars
<1> QED
  BY <1>2, <1>3, <1>4, OtherStep

-----------------------------------------------------------------------------
(* Calls                                                                   *)

(* The first step of a callback on p, which the GPIO core lets only one     *)
(* thread take, and which finds p driven or released. *)
LEMMA FirstStep ==
  ASSUME TypeOK, Somewhere, Tables, NEW u \in Users, NEW p \in Pins,
         ~Busy(p), NEW first \in GpioSteps, Begin(u, p, first)
  PROVE  /\ loc[u].pc = "idle" /\ loc'[u].pc = first /\ loc'[u].pin = p
         /\ \A v \in Users \ {u} : loc'[v] = loc[v]
         /\ Quiet(p) /\ (Driven(p) \/ Released(p))
<1>1. first \in UserSteps
  BY DEF GpioSteps, UserSteps
<1>2. /\ loc[u].pc = "idle" /\ loc'[u].pc = first /\ loc'[u].pin = p
      /\ \A v \in Users \ {u} : loc'[v] = loc[v]
  BY <1>1, BeginLocals
<1>3. GpioSteps \cap PwmSteps = {}
  BY DEF GpioSteps, RequestSteps, FreeSteps, UseSteps, PwmSteps
<1>4. Quiet(p)
  BY <1>3 DEF Quiet, Busy
<1> QED
  BY <1>2, <1>4 DEF Tables, RestOK

(* A call that begins: GpioSet and GpioDirection keep the pin enabled. *)
LEMMA CallTables ==
  ASSUME TypeOK, Somewhere, Tables, NEW u \in Users, NEW p \in Pins,
         UserCall(u, p)
  PROVE  Tables'
<1>1. /\ {"g_running", "f_running", "s_load", "d_push"} \subseteq GpioSteps
      /\ "idle" \notin GpioSteps
  BY DEF GpioSteps, RequestSteps, FreeSteps, UseSteps
<1>2. CASE GpioRequest(u, p)
  <2>1. /\ loc[u].pc = "idle" /\ loc'[u].pc = "g_running" /\ loc'[u].pin = p
        /\ \A v \in Users \ {u} : loc'[v] = loc[v]
        /\ Quiet(p) /\ (Driven(p) \/ Released(p))
    BY <1>1, <1>2, FirstStep DEF GpioRequest
  <2>2. p \notin gpio_held /\ UNCHANGED <<pin_states, dev_gpio, gpio_held>>
    BY <1>2 DEF GpioRequest, drvVars, devVars, heldVars
  <2>3. At(loc[u].pc, p)'
    BY <2>1, <2>2 DEF At, Driven, Released, OnSteps, UseSteps
  <2> QED
    BY <1>1, <2>1, <2>2, <2>3, CallbackStep
<1>3. CASE GpioFree(u, p)
  <2>1. /\ loc[u].pc = "idle" /\ loc'[u].pc = "f_running" /\ loc'[u].pin = p
        /\ \A v \in Users \ {u} : loc'[v] = loc[v]
        /\ Quiet(p) /\ (Driven(p) \/ Released(p))
    BY <1>1, <1>3, FirstStep DEF GpioFree
  <2>2. gpio_held' = gpio_held \ {p} /\ UNCHANGED <<pin_states, dev_gpio>>
    BY <1>3 DEF GpioFree, drvVars, devVars
  <2>3. At(loc[u].pc, p)'
    BY <2>1, <2>2 DEF At, OffSteps, OnSteps, GoneSteps, UseSteps
  <2> QED
    BY <1>1, <2>1, <2>2, <2>3, CallbackStep
<1>4. ASSUME NEW first \in UseSteps, UseBegin(u, p, first),
             NEW w \in SUBSET PinBits, EN \in pin_states[p] => EN \in w,
             pin_states' = [pin_states EXCEPT ![p] = w],
             UNCHANGED <<dev_gpio, gpio_held>>
      PROVE  Tables'
  <2>1. /\ loc[u].pc = "idle" /\ loc'[u].pc = first /\ loc'[u].pin = p
        /\ \A v \in Users \ {u} : loc'[v] = loc[v]
        /\ Quiet(p) /\ (Driven(p) \/ Released(p))
    BY <1>4, FirstStep DEF UseBegin, GpioSteps
  <2>2. /\ pin_states'[p] = w
        /\ \A q \in Pins \ {p} : pin_states'[q] = pin_states[q]
    BY <1>4 DEF TypeOK
  <2>3. Driven(p)'
    BY <1>4, <2>1, <2>2 DEF UseBegin, Driven, Released
  <2>4. At(loc[u].pc, p)'
    BY <2>1, <2>3 DEF At, Driven, RequestSteps, FreeSteps, OffSteps, OnSteps,
                      GoneSteps, UseSteps
  <2> QED
    BY <1>1, <1>4, <2>1, <2>2, <2>4, CallbackStep DEF GpioSteps
<1>5. ASSUME NEW value \in setting.levels, GpioSet(u, p, value)
      PROVE  Tables'
  <2> DEFINE w == IF value = 0
                  THEN clear_bit_m(set_bit_m(pin_states[p], EN), V)
                  ELSE set_bit_m(set_bit_m(pin_states[p], EN), V)
  <2>1. w \in SUBSET PinBits /\ EN \in w
    BY DEF TypeOK, clear_bit_m, set_bit_m, PinBits, EN, DIR, V
  <2>2. pin_states' = [pin_states EXCEPT ![p] = w]
    BY <1>5 DEF GpioSet
  <2> HIDE DEF w
  <2> QED
    BY <1>4, <1>5, <2>1, <2>2 DEF GpioSet, UseSteps, devVars, heldVars
<1>6. ASSUME NEW input \in setting.inputs, GpioDirection(u, p, input)
      PROVE  Tables'
  <2> DEFINE w == IF input THEN set_bit_m(pin_states[p], DIR)
                           ELSE clear_bit_m(pin_states[p], DIR)
  <2>1. w \in SUBSET PinBits /\ (EN \in pin_states[p] => EN \in w)
    BY DEF TypeOK, clear_bit_m, set_bit_m, PinBits, EN, DIR, V
  <2>2. pin_states' = [pin_states EXCEPT ![p] = w]
    BY <1>6 DEF GpioDirection
  <2> HIDE DEF w
  <2> QED
    BY <1>4, <1>6, <2>1, <2>2 DEF GpioDirection, UseSteps, devVars, heldVars
<1>7. CASE PwmRequest(u, p) \/ PwmFree(u, p)
  <2>1. PICK first \in {"p_running", "q_read"} : Begin(u, p, first)
    BY <1>7 DEF PwmRequest, PwmFree
  <2>2. first \in UserSteps /\ first \notin GpioSteps
    BY DEF GpioSteps, RequestSteps, FreeSteps, UseSteps, UserSteps, PwmSteps
  <2>3. /\ loc[u].pc = "idle" /\ loc'[u].pc = first
        /\ \A v \in Users \ {u} : loc'[v] = loc[v]
    BY <2>1, <2>2, BeginLocals
  <2>4. UNCHANGED <<pin_states, dev_gpio, gpio_held>>
    BY <1>7 DEF PwmRequest, PwmFree, drvVars, devVars, heldVars
  <2> QED
    BY <1>1, <2>2, <2>3, <2>4, OtherStep
<1> QED
  BY <1>2, <1>3, <1>5, <1>6, <1>7 DEF UserCall

-----------------------------------------------------------------------------
(* The invariant                                                           *)

(* At first the probe is alone. *)
LEMMA TablesInit == Init => TableInv
<1> SUFFICES ASSUME Init PROVE ProbeAlone /\ wpc \in ProbeSteps
  BY DEF TableInv
<1>1. \A u \in Users : loc[u].pc = "idle"
  BY DEF Init, AtRest
<1> QED
  BY <1>1 DEF Init, ProbeAlone, ProbeSteps, ResetSteps

(* A step of the probe clears the tables and lets the others in.  *)
LEMMA TablesDriver ==
  ASSUME TypeOK, Somewhere, TableInv, Calm, DriverNext, UNCHANGED setting
  PROVE  ProbeAlone' /\ (wpc' \notin ProbeSteps => Tables')
<1> USE DEF ProbeSteps
<1>0. ProbeAlone /\ (wpc \notin ProbeSteps => Tables) /\ ~setting.faulty
  BY DEF TableInv, Calm
<1>1. CASE ProbeClear
  BY <1>0, <1>1 DEF ProbeClear, ProbeAlone, heldVars
<1>2. CASE ProbePush
  BY <1>0, <1>2, OutcomesCalm DEF ProbePush, ProbeAlone, drvVars, heldVars
<1>3. CASE ProbeUnexport
  <2>1. UNCHANGED <<pin_states, dev_gpio, gpio_held, loc>> /\ wpc' = "idle"
    BY <1>3 DEF ProbeUnexport, heldVars
  <2>2. /\ gpio_held = {} /\ pin_states = AllOff /\ dev_gpio = AllOff
        /\ \A u \in Users : loc[u].pc = "idle"
    BY <1>0, <1>3 DEF ProbeUnexport, ProbeAlone
  <2>3. "idle" \notin GpioSteps
    BY DEF GpioSteps, RequestSteps, FreeSteps, UseSteps
  <2>4. CallbacksOK' /\ OneCallback'
    BY <2>1, <2>2, <2>3 DEF CallbacksOK, OneCallback
  <2>5. RestOK'
    BY <2>1, <2>2 DEF RestOK, Released, AllOff
  <2> QED
    BY <1>0, <2>1, <2>4, <2>5 DEF Tables, ProbeAlone
<1>4. CASE WorkerStep
  <2>1. /\ wpc \notin ProbeSteps /\ wpc' \notin ProbeSteps
        /\ UNCHANGED <<pin_states, gpio_held, loc>>
        /\ dev_gpio' \in {dev_gpio, pin_states}
    BY <1>4 DEF WorkerStep, WorkerTest, WorkerLoad, WorkerStore, WorkerPush,
                drvVars, devVars, heldVars
  <2> QED
    BY <1>0, <2>1, OtherStep DEF ProbeAlone
<1> QED
  BY <1>1, <1>2, <1>3, <1>4 DEF DriverNext, ProbeStep

(* A step inside a callback. *)
LEMMA TablesUser ==
  ASSUME TypeOK, Somewhere, TableInv, Calm, NEW u \in Users, UserStep(u),
         UNCHANGED setting
  PROVE  ProbeAlone' /\ wpc' \notin ProbeSteps /\ Tables'
<1>0. ProbeAlone /\ (wpc \notin ProbeSteps => Tables) /\ ~setting.faulty
  BY DEF TableInv, Calm
<1>1. ~ResetStep(u)
  BY <1>0 DEF ProbeAlone, ResetStep, ResetPush, Push, ResetZero, ResetUnexport,
              Goto, Move, ResetSteps
<1>2. PICK from \in PinSteps, to \in PinSteps \cup {"idle"},
           mask \in SUBSET Pins, n \in Nat : Move(u, from, to, mask, n)
  BY <1>1, UserMove DEF UserStep
<1>3. "idle" \notin PinSteps /\ to \notin ResetSteps /\ to \in UserSteps
  BY DEF PinSteps, RequestSteps, FreeSteps, UseSteps, PwmSteps, ResetSteps,
         UserSteps
<1>4. /\ loc[u].pc = from /\ loc'[u].pc = to
      /\ \A v \in Users \ {u} : loc'[v] = loc[v]
  BY <1>2, <1>3, MoveLocals
<1>5. wpc \notin ProbeSteps
  BY <1>0, <1>3, <1>4 DEF ProbeAlone
<1>6. wpc' = wpc
  BY WorkerUntouched DEF wrkVars
<1>7. ProbeAlone'
  BY <1>0, <1>3, <1>4, <1>5, <1>6 DEF ProbeAlone, ProbeSteps
<1>8. Tables'
  BY <1>0, <1>1, <1>5, RequestTables, FreeTables, UseTables, PwmTables
     DEF UserStep
<1> QED
  BY <1>5, <1>6, <1>7, <1>8

(* A call, which waits for the probe. *)
LEMMA TablesCall ==
  ASSUME TypeOK, Somewhere, TableInv, Calm, CallsNext, UNCHANGED setting
  PROVE  ProbeAlone' /\ wpc' \notin ProbeSteps /\ Tables'
<1>0. ProbeAlone /\ (wpc \notin ProbeSteps => Tables) /\ wpc \notin ProbeSteps
  BY DEF TableInv, Calm, CallsNext
<1>1. setting.users \subseteq Users /\ setting.pins \subseteq Pins
  BY SettingShape DEF TypeOK
<1>2. ASSUME NEW u \in setting.users, NEW p \in setting.pins, UserCall(u, p)
      PROVE  ProbeAlone' /\ wpc' \notin ProbeSteps /\ Tables'
  <2>1. Tables'
    BY <1>0, <1>1, <1>2, CallTables
  <2>2. wpc' = wpc
    BY <1>2 DEF UserCall, GpioRequest, GpioFree, GpioSet, GpioDirection,
                PwmRequest, PwmFree, wrkVars
  <2>3. PICK first \in {"g_running", "f_running", "s_load", "d_push",
                        "p_running", "q_read"} : Begin(u, p, first)
    BY <1>2 DEF UserCall, GpioRequest, GpioFree, GpioSet, GpioDirection,
                UseBegin, PwmRequest, PwmFree
  <2>4. first \in UserSteps /\ first \notin ResetSteps
    BY DEF UserSteps, RequestSteps, FreeSteps, UseSteps, PwmSteps, ResetSteps
  <2>5. /\ loc'[u].pc = first
        /\ \A v \in Users \ {u} : loc'[v] = loc[v]
    BY <1>1, <2>3, <2>4, BeginLocals
  <2> QED
    BY <1>0, <2>1, <2>2, <2>4, <2>5 DEF ProbeAlone, ProbeSteps
<1>3. ASSUME UNCHANGED <<pin_states, gpio_held, dev_gpio, loc, wpc>>
      PROVE  ProbeAlone' /\ wpc' \notin ProbeSteps /\ Tables'
  BY <1>0, <1>3, OtherStep DEF ProbeAlone
<1>4. ASSUME NEW p \in setting.pins, PwmFreeIgnored(p)
      PROVE  ProbeAlone' /\ wpc' \notin ProbeSteps /\ Tables'
  BY <1>3, <1>4 DEF PwmFreeIgnored, drvVars, devVars, wrkVars
<1>5. ASSUME NEW m \in setting.masks, PwmIgnoreStore(m)
      PROVE  ProbeAlone' /\ wpc' \notin ProbeSteps /\ Tables'
  BY <1>3, <1>5 DEF PwmIgnoreStore, devVars, wrkVars, heldVars
<1>6. \A u \in Users : ~Reset(u)
  BY DEF Reset, Calm
<1> QED
  BY <1>1, <1>2, <1>4, <1>5, <1>6 DEF CallsNext

(* Every step keeps the invariant. *)
LEMMA TablesStep == PinsShape /\ TableInv /\ [Next]_vars => TableInv'
<1> SUFFICES ASSUME TypeOK, Somewhere, TableInv, [Next]_vars, Calm
             PROVE  ProbeAlone' /\ (wpc' \notin ProbeSteps => Tables')
  <2>1. [Next]_vars => setting' = setting
    BY DEF Next, vars
  <2> QED
    BY <2>1 DEF PinsShape, TableInv, Calm
<1>1. CASE \E u \in Users : UserStep(u) /\ UNCHANGED setting
  BY <1>1, TablesUser
<1>2. CASE CallsNext /\ UNCHANGED setting
  BY <1>2, TablesCall
<1>3. CASE DriverNext /\ UNCHANGED setting
  BY <1>3, TablesDriver
<1>4. CASE MotorsChange \/ UNCHANGED vars
  <2>1. UNCHANGED <<pin_states, gpio_held, dev_gpio, loc, wpc>>
    BY <1>4 DEF MotorsChange, vars, drvVars, devVars, wrkVars, heldVars
  <2> QED
    BY <2>1, OtherStep DEF TableInv, ProbeAlone
<1> QED
  BY <1>1, <1>2, <1>3, <1>4 DEF Next

(* What every callback and every pin at rest knows of the two tables. *)
THEOREM TablesInvariant == Spec => []TableInv
<1>1. Init => TableInv
  BY TablesInit
<1>2. PinsShape /\ TableInv /\ [Next]_vars => TableInv'
  BY TablesStep
<1> QED
  BY <1>1, <1>2, PinsShapeInvariant, PTL DEF Spec

(* The board drives a pin from the return of gpio_chip_request to the call   *)
(* of gpio_chip_free, whatever tables the worker and the callbacks on other  *)
(* pins push meanwhile, for any number of users and pins                     *)
(* (rcio_gpio.c:197-207, 234-239, 303-313).                                  *)
THEOREM PinsHeldDriven == Spec => []HeldPinDriven
<1>1. TypeOK /\ TableInv => HeldPinDriven
  <2> SUFFICES ASSUME TypeOK, TableInv, Calm, NEW p \in gpio_held
               PROVE  EN \in dev_gpio[p]
    BY DEF HeldPinDriven
  <2>1. Tables /\ p \in Pins
    BY DEF TableInv, ProbeAlone, TypeOK
  <2>2. CASE Quiet(p)
    BY <2>1, <2>2 DEF Tables, RestOK, Driven, Released
  <2>3. CASE ~Quiet(p)
    <3>1. PICK u \in Users : loc[u].pc \in GpioSteps /\ loc[u].pin = p
      BY <2>3 DEF Quiet
    <3>2. At(loc[u].pc, p)
      BY <2>1, <3>1 DEF Tables, CallbacksOK
    <3> QED
      BY <3>1, <3>2 DEF At, GpioSteps, Driven
  <2> QED
    BY <2>2, <2>3
<1> QED
  BY <1>1, TablesInvariant, PinsTypeCorrect, PTL

(* And it has let go of a pin when gpio_chip_free has returned, and of all   *)
(* that an earlier life of the driver left on when the probe is through      *)
(* (rcio_gpio.c:234-239, 351-353).                                           *)
THEOREM PinsFreedReleased == Spec => []FreedPinReleased
<1>1. TableInv => FreedPinReleased
  <2> SUFFICES ASSUME TableInv, Calm, wpc \notin ProbeSteps, NEW p \in Pins,
                      p \notin gpio_held, ~Busy(p)
               PROVE  dev_gpio[p] = {}
    BY DEF FreedPinReleased
  <2>1. GpioSteps \cap PwmSteps = {}
    BY DEF GpioSteps, RequestSteps, FreeSteps, UseSteps, PwmSteps
  <2>2. Quiet(p)
    BY <2>1 DEF Quiet, Busy
  <2> QED
    BY <2>2 DEF TableInv, Tables, RestOK, Driven, Released
<1> QED
  BY <1>1, TablesInvariant, PTL

-----------------------------------------------------------------------------
(* The masks: the inductive invariant                                      *)

(* What a callback has read of the masks and still acts upon: the mask of   *)
(* PWM pins as it is; that its pin is not a PWM pin; GPIO pins, to be       *)
(* written back; that its pin is not a GPIO pin; PWM pins, to be written    *)
(* back.                                                                    *)
PwmReadSteps  == {"g_owner", "g_take"}
NotPwmSteps   == {"g_ignore", "g_read", "g_export"}
FreeMaskSteps == {"f_low", "f_push_low", "f_zero", "f_push", "f_load",
                  "f_store", "f_unexport"}
GpioMaskSteps == {"g_export"} \cup FreeMaskSteps
NotGpioSteps  == {"p_pwm", "p_export"}
PwmMaskSteps  == {"p_export", "q_unexport"}
KnowingSteps  == PwmReadSteps \cup NotPwmSteps \cup GpioMaskSteps
                   \cup NotGpioSteps \cup PwmMaskSteps

Knows(l) ==
  /\ l.pc \in PwmReadSteps => l.word = pwm_exported
  /\ l.pc \in NotPwmSteps => l.pin \notin pwm_exported
  /\ l.pc \in GpioMaskSteps => l.word \cap pwm_exported = {}
  /\ l.pc \in NotGpioSteps => l.pin \notin gpio_exported
  /\ l.pc \in PwmMaskSteps => l.word \cap gpio_exported = {}

Disjoint == gpio_exported \cap pwm_exported = {}

Owners == Disjoint /\ \A u \in Users : Knows(loc[u])

OwnerInv == ~setting.faulty => Owners

(* The callbacks that read the masks or change them: requests and frees of  *)
(* the two chips.                                                           *)
OwnerSteps == RequestSteps \cup FreeSteps \cup PwmSteps

Alone(u) == \A v \in Users \ {u} : loc[v].pc \notin OwnerSteps

OneAtATime == \A u \in Users : loc[u].pc \in OwnerSteps => Alone(u)

-----------------------------------------------------------------------------
(* A step of a thread while no other is about the masks, or one that at most *)
(* unexports GPIO pins.                                                     *)
LEMMA CallerStep ==
  ASSUME TypeOK, Owners, NEW u \in Users,
         \A v \in Users \ {u} : loc'[v] = loc[v],
         \/ Alone(u)
         \/ /\ pwm_exported' = pwm_exported
            /\ gpio_exported' \subseteq gpio_exported,
         Disjoint', Knows(loc[u])'
  PROVE  Owners'
<1>1. ASSUME NEW v \in Users \ {u} PROVE Knows(loc[v])'
  <2>1. CASE loc[v].pc \notin OwnerSteps
    BY <2>1 DEF OwnerSteps, Knows, PwmReadSteps, NotPwmSteps, GpioMaskSteps,
      FreeMaskSteps, NotGpioSteps, PwmMaskSteps, RequestSteps, FreeSteps,
      PwmSteps
  <2>2. CASE /\ pwm_exported' = pwm_exported
             /\ gpio_exported' \subseteq gpio_exported
    BY <2>2 DEF Owners, Knows
  <2> QED
    BY <2>1, <2>2 DEF Alone
<1> QED
  BY <1>1 DEF Owners

(* One that leaves the masks alone, and knows nothing after it that it did  *)
(* not know before. *)
LEMMA CallerQuiet ==
  ASSUME TypeOK, Owners, NEW u \in Users,
         NEW from \in UserSteps, NEW to \in UserSteps,
         NEW mask \in SUBSET Pins, NEW n \in Nat, Move(u, from, to, mask, n),
         \/ to \notin KnowingSteps
         \/ /\ from \in FreeMaskSteps /\ to \in FreeMaskSteps
            /\ mask = loc[u].word,
         UNCHANGED <<gpio_exported, pwm_exported, setting>>
  PROVE  Owners'
<1>2. /\ loc[u].pc = from /\ loc'[u].pc = to
      /\ to # "idle" => loc'[u].word = mask
      /\ \A v \in Users \ {u} : loc'[v] = loc[v]
  BY MoveLocals
<1>3. Knows(loc[u])'
  BY <1>2 DEF Owners, Knows, KnowingSteps, PwmReadSteps, NotPwmSteps,
    GpioMaskSteps, FreeMaskSteps, NotGpioSteps, PwmMaskSteps
<1> QED
  BY <1>2, <1>3, CallerStep DEF Owners, Disjoint

(* The same for moves that keep the thread's locals, or drop them.  *)
LEMMA CallerQuietGoto ==
  ASSUME TypeOK, Owners, NEW u \in Users,
         NEW from \in UserSteps, NEW to \in UserSteps,
         \/ to \notin KnowingSteps /\ (Goto(u, from, to) \/ Drop(u, from, to))
         \/ /\ from \in FreeMaskSteps /\ to \in FreeMaskSteps
            /\ Goto(u, from, to),
         UNCHANGED <<gpio_exported, pwm_exported, setting>>
  PROVE  Owners'
<1>1. loc[u].word \in SUBSET Pins /\ loc[u].count \in Nat
  BY DEF TypeOK
<1>2. CASE Goto(u, from, to)
  BY <1>1, <1>2, CallerQuiet DEF Goto
<1>3. CASE Drop(u, from, to) /\ to \notin KnowingSteps
  BY <1>3, CallerQuiet DEF Drop
<1> QED
  BY <1>2, <1>3

-----------------------------------------------------------------------------
(* The masks: the callbacks, step by step                                  *)

(* gpio_chip_request takes the pin from PWM, or finds it is not there,      *)
(* before it exports it as GPIO. *)
LEMMA RequestOwners ==
  ASSUME TypeOK, Somewhere, ~setting.faulty, Owners, NEW u \in Users, Alone(u),
         RequestStep(u), UNCHANGED setting
  PROVE  Owners'
<1>0. /\ Disjoint /\ Knows(loc[u])
      /\ loc[u].word \in SUBSET Pins /\ loc[u].count \in Nat
      /\ pwm_exported \in SUBSET Pins /\ gpio_exported \in SUBSET Pins
      /\ RequestSteps \cup {"idle"} \subseteq UserSteps
  BY DEF TypeOK, Owners, UserSteps
<1>a. {"idle", "g_running", "g_pwm", "g_ignore_fail", "g_enable", "g_push",
       "g_low", "g_push_low", "g_load", "g_store"} \cap KnowingSteps = {}
  BY DEF KnowingSteps, PwmReadSteps, NotPwmSteps, GpioMaskSteps,
         FreeMaskSteps, NotGpioSteps, PwmMaskSteps
<1>1. CASE GpioCheckRunning(u)
  <2>1. PICK to \in {"g_pwm", "idle"} : Goto(u, "g_running", to)
    BY <1>1 DEF GpioCheckRunning, CheckRunning
  <2> QED
    BY <1>0, <1>1, <1>a, <2>1, CallerQuietGoto
       DEF GpioCheckRunning, CheckRunning, devVars, RequestSteps
<1>2. CASE GpioReadPwm(u)
  <2>1. Move(u, "g_pwm", "g_owner", pwm_exported, 0)
    BY <1>2, OutcomesCalm DEF GpioReadPwm, ReadMask
  <2>2. /\ loc'[u].pc = "g_owner" /\ loc'[u].word = pwm_exported
        /\ \A v \in Users \ {u} : loc'[v] = loc[v]
    BY <1>0, <2>1, MoveLocals DEF RequestSteps
  <2>3. UNCHANGED <<gpio_exported, pwm_exported>>
    BY <1>2 DEF GpioReadPwm, ReadMask, devVars
  <2>4. Knows(loc[u])'
    BY <2>2, <2>3 DEF Knows, PwmReadSteps, NotPwmSteps, GpioMaskSteps,
                      FreeMaskSteps, NotGpioSteps, PwmMaskSteps
  <2> QED
    BY <1>0, <2>2, <2>3, <2>4, CallerStep DEF Disjoint
<1>3. CASE GpioCheckOwner(u)
  <2>1. /\ \/ /\ loc'[u].pc = "g_take" /\ loc'[u].word = loc[u].word
           \/ /\ loc'[u].pc = "g_read" /\ loc'[u].pin = loc[u].pin
              /\ loc[u].pin \notin loc[u].word
        /\ loc[u].pc = "g_owner"
        /\ \A v \in Users \ {u} : loc'[v] = loc[v]
    <3>1. CASE loc[u].pin \in loc[u].word
      <4>1. PICK mask \in SUBSET Pins, n \in Nat :
              mask = loc[u].word /\ Move(u, "g_owner", "g_take", mask, n)
        BY <1>0, <1>3, <3>1 DEF GpioCheckOwner, Goto
      <4>2. /\ loc[u].pc = "g_owner" /\ loc'[u].pc = "g_take"
            /\ loc'[u].word = mask
            /\ \A v \in Users \ {u} : loc'[v] = loc[v]
        BY <1>0, <4>1, MoveLocals DEF RequestSteps
      <4> QED
        BY <4>1, <4>2
    <3>2. CASE loc[u].pin \notin loc[u].word
      <4>1. Move(u, "g_owner", "g_read", {}, 0)
        BY <1>3, <3>2 DEF GpioCheckOwner, Drop
      <4> QED
        BY <1>0, <3>2, <4>1, MoveLocals DEF RequestSteps
    <3> QED
      BY <3>1, <3>2
  <2>2. UNCHANGED <<gpio_exported, pwm_exported>>
    BY <1>3 DEF GpioCheckOwner, devVars
  <2>3. Knows(loc[u])'
    BY <1>0, <2>1, <2>2 DEF Knows, PwmReadSteps, NotPwmSteps, GpioMaskSteps,
                            FreeMaskSteps, NotGpioSteps, PwmMaskSteps
  <2> QED
    BY <1>0, <2>1, <2>2, <2>3, CallerStep DEF Disjoint
<1>4. CASE GpioTakeFromPwm(u)
  <2>1. /\ Move(u, "g_take", "g_ignore", {}, 0)
        /\ pwm_exported' = loc[u].word \ {loc[u].pin}
    BY <1>4, OutcomesCalm DEF GpioTakeFromPwm, Drop
  <2>2. /\ loc[u].pc = "g_take" /\ loc'[u].pc = "g_ignore"
        /\ loc'[u].pin = loc[u].pin
        /\ \A v \in Users \ {u} : loc'[v] = loc[v]
    BY <1>0, <2>1, MoveLocals DEF RequestSteps
  <2>3. gpio_exported' = gpio_exported
    BY <1>4 DEF GpioTakeFromPwm
  <2>4. loc[u].word = pwm_exported
    BY <1>0, <2>2 DEF Knows, PwmReadSteps
  <2>5. Disjoint'
    BY <1>0, <2>1, <2>3, <2>4 DEF Disjoint
  <2>6. Knows(loc[u])'
    BY <2>1, <2>2 DEF Knows, PwmReadSteps, NotPwmSteps, GpioMaskSteps,
                      FreeMaskSteps, NotGpioSteps, PwmMaskSteps
  <2> QED
    BY <1>0, <2>2, <2>5, <2>6, CallerStep
<1>5. CASE GpioIgnorePwm(u)
  <2>1. UNCHANGED <<gpio_exported, pwm_exported>>
    BY <1>5 DEF GpioIgnorePwm, devVars
  <2>2. CASE Goto(u, "g_ignore", "g_read")
    <3>1. /\ loc[u].pc = "g_ignore" /\ loc'[u].pc = "g_read"
          /\ loc'[u].pin = loc[u].pin
          /\ \A v \in Users \ {u} : loc'[v] = loc[v]
      BY <1>0, <2>2, MoveLocals DEF Goto, RequestSteps
    <3>2. Knows(loc[u])'
      BY <1>0, <2>1, <3>1 DEF Knows, PwmReadSteps, NotPwmSteps, GpioMaskSteps,
                              FreeMaskSteps, NotGpioSteps, PwmMaskSteps
    <3> QED
      BY <1>0, <2>1, <3>1, <3>2, CallerStep DEF Disjoint
  <2>3. CASE Goto(u, "g_ignore_fail", "idle")
    BY <1>0, <1>a, <2>1, <2>3, CallerQuietGoto DEF RequestSteps
  <2> QED
    BY <1>5, <2>2, <2>3 DEF GpioIgnorePwm
<1>6. CASE GpioReadExported(u)
  <2>1. Move(u, "g_read", "g_export", gpio_exported, 0)
    BY <1>6, OutcomesCalm DEF GpioReadExported, ReadMask
  <2>2. /\ loc[u].pc = "g_read" /\ loc'[u].pc = "g_export"
        /\ loc'[u].word = gpio_exported /\ loc'[u].pin = loc[u].pin
        /\ \A v \in Users \ {u} : loc'[v] = loc[v]
    BY <1>0, <2>1, MoveLocals DEF RequestSteps
  <2>3. UNCHANGED <<gpio_exported, pwm_exported>>
    BY <1>6 DEF GpioReadExported, ReadMask, devVars
  <2>4. Knows(loc[u])'
    BY <1>0, <2>2, <2>3 DEF Knows, Disjoint, PwmReadSteps, NotPwmSteps,
      GpioMaskSteps, FreeMaskSteps, NotGpioSteps, PwmMaskSteps
  <2> QED
    BY <1>0, <2>2, <2>3, <2>4, CallerStep DEF Disjoint
<1>7. CASE GpioExport(u)
  <2>1. /\ Move(u, "g_export", "g_enable", {}, 0)
        /\ gpio_exported' = loc[u].word \cup {loc[u].pin}
    BY <1>7, OutcomesCalm DEF GpioExport, Drop, set_bit_m
  <2>2. /\ loc[u].pc = "g_export" /\ loc'[u].pc = "g_enable"
        /\ \A v \in Users \ {u} : loc'[v] = loc[v]
    BY <1>0, <2>1, MoveLocals DEF RequestSteps
  <2>3. pwm_exported' = pwm_exported
    BY <1>7 DEF GpioExport
  <2>4. loc[u].word \cap pwm_exported = {} /\ loc[u].pin \notin pwm_exported
    BY <1>0, <2>2 DEF Knows, NotPwmSteps, GpioMaskSteps
  <2>5. Disjoint'
    BY <2>1, <2>3, <2>4 DEF Disjoint
  <2>6. Knows(loc[u])'
    BY <2>2 DEF Knows, PwmReadSteps, NotPwmSteps, GpioMaskSteps,
                FreeMaskSteps, NotGpioSteps, PwmMaskSteps
  <2> QED
    BY <1>0, <2>2, <2>5, <2>6, CallerStep
<1>8. CASE GpioEnable(u) \/ GpioPush(u) \/ GpioLow(u) \/ GpioPushLow(u)
            \/ GpioRequested(u)
  <2>1. PICK from \in RequestSteps,
             to \in {"g_push", "g_low", "g_push_low", "g_load", "idle"} :
          Goto(u, from, to)
    BY <1>8 DEF GpioEnable, GpioPush, GpioLow, GpioPushLow, GpioRequested,
                SetState, Push, RequestSteps
  <2>2. UNCHANGED <<gpio_exported, pwm_exported>>
    BY <1>8 DEF GpioEnable, GpioPush, GpioLow, GpioPushLow, GpioRequested,
                SetState, Push, Enqueue, devVars
  <2> QED
    BY <1>0, <1>a, <2>1, <2>2, CallerQuietGoto DEF RequestSteps
<1>9. CASE GpioLoad(u)
  <2>1. /\ Move(u, "g_load", "g_store", loc[u].word, pin_states_updated)
        /\ pin_states_updated \in Nat
        /\ UNCHANGED <<gpio_exported, pwm_exported>>
    BY <1>9 DEF GpioLoad, EnqueueLoad, TypeOK, devVars
  <2> QED
    BY <1>0, <1>a, <2>1, CallerQuiet DEF RequestSteps
<1> QED
  BY <1>1, <1>2, <1>3, <1>4, <1>5, <1>6, <1>7, <1>8, <1>9 DEF RequestStep

(* gpio_chip_free writes back a mask that is one read before. *)
LEMMA FreeOwners ==
  ASSUME TypeOK, ~setting.faulty, Owners, NEW u \in Users, Alone(u),
         FreeStep(u), UNCHANGED setting
  PROVE  Owners'
<1>0. /\ Disjoint /\ Knows(loc[u])
      /\ loc[u].word \in SUBSET Pins /\ loc[u].count \in Nat
      /\ pwm_exported \in SUBSET Pins /\ gpio_exported \in SUBSET Pins
      /\ FreeSteps \cup {"idle"} \subseteq UserSteps
  BY DEF TypeOK, Owners, UserSteps
<1>a. {"idle", "f_read", "f_unignore"} \cap KnowingSteps = {}
  BY DEF KnowingSteps, PwmReadSteps, NotPwmSteps, GpioMaskSteps,
         FreeMaskSteps, NotGpioSteps, PwmMaskSteps
<1>1. CASE FreeCheckRunning(u) \/ FreeUnignore(u)
  <2>1. PICK from \in {"f_running", "f_unignore"}, to \in {"f_read", "idle"} :
          Goto(u, from, to)
    BY <1>1 DEF FreeCheckRunning, CheckRunning, FreeUnignore
  <2>2. UNCHANGED <<gpio_exported, pwm_exported>>
    BY <1>1 DEF FreeCheckRunning, CheckRunning, FreeUnignore, devVars
  <2> QED
    BY <1>0, <1>a, <2>1, <2>2, CallerQuietGoto DEF FreeSteps
<1>2. CASE FreeReadExported(u)
  <2>1. Move(u, "f_read", "f_low", gpio_exported, 0)
    BY <1>2, OutcomesCalm DEF FreeReadExported, ReadMask
  <2>2. /\ loc'[u].pc = "f_low" /\ loc'[u].word = gpio_exported
        /\ \A v \in Users \ {u} : loc'[v] = loc[v]
    BY <1>0, <2>1, MoveLocals DEF FreeSteps
  <2>3. UNCHANGED <<gpio_exported, pwm_exported>>
    BY <1>2 DEF FreeReadExported, ReadMask, devVars
  <2>4. Knows(loc[u])'
    BY <1>0, <2>2, <2>3 DEF Knows, Disjoint, PwmReadSteps, NotPwmSteps,
      GpioMaskSteps, FreeMaskSteps, NotGpioSteps, PwmMaskSteps
  <2> QED
    BY <1>0, <2>2, <2>3, <2>4, CallerStep DEF Disjoint
<1>3. CASE FreeLow(u) \/ FreePushLow(u) \/ FreeZero(u) \/ FreePush(u)
  <2>1. PICK from \in FreeMaskSteps, to \in FreeMaskSteps : Goto(u, from, to)
    BY <1>3 DEF FreeLow, FreePushLow, FreeZero, FreePush, SetState, Push,
                FreeMaskSteps
  <2>2. UNCHANGED <<gpio_exported, pwm_exported>>
    BY <1>3 DEF FreeLow, FreePushLow, FreeZero, FreePush, SetState, Push,
                devVars
  <2>3. from \in UserSteps /\ to \in UserSteps
    BY DEF FreeMaskSteps, FreeSteps, UserSteps
  <2> QED
    BY <2>1, <2>2, <2>3, CallerQuietGoto
<1>4. CASE FreeLoad(u) \/ FreeEnqueue(u)
  <2>1. PICK from \in FreeMaskSteps, to \in FreeMaskSteps, n \in Nat :
          Move(u, from, to, loc[u].word, n)
    BY <1>4 DEF FreeLoad, EnqueueLoad, FreeEnqueue, FreeMaskSteps, TypeOK
  <2>2. UNCHANGED <<gpio_exported, pwm_exported>>
    BY <1>4 DEF FreeLoad, EnqueueLoad, FreeEnqueue, Enqueue, devVars
  <2>3. from \in UserSteps /\ to \in UserSteps
    BY DEF FreeMaskSteps, FreeSteps, UserSteps
  <2> QED
    BY <1>0, <2>1, <2>2, <2>3, CallerQuiet
<1>5. CASE FreeUnexport(u)
  <2>1. /\ Move(u, "f_unexport", "f_unignore", {}, 0)
        /\ gpio_exported' = clear_bit_m(loc[u].word, loc[u].pin)
    BY <1>5, OutcomesCalm DEF FreeUnexport, Drop
  <2>2. /\ loc[u].pc = "f_unexport" /\ loc'[u].pc = "f_unignore"
        /\ \A v \in Users \ {u} : loc'[v] = loc[v]
    BY <1>0, <2>1, MoveLocals DEF FreeSteps
  <2>3. pwm_exported' = pwm_exported
    BY <1>5 DEF FreeUnexport
  <2>4. loc[u].word \cap pwm_exported = {}
    BY <1>0, <2>2 DEF Knows, GpioMaskSteps, FreeMaskSteps
  <2>5. Disjoint'
    BY <2>1, <2>3, <2>4 DEF Disjoint, clear_bit_m
  <2>6. Knows(loc[u])'
    BY <2>2 DEF Knows, PwmReadSteps, NotPwmSteps, GpioMaskSteps,
                FreeMaskSteps, NotGpioSteps, PwmMaskSteps
  <2> QED
    BY <1>0, <2>2, <2>5, <2>6, CallerStep
<1> QED
  BY <1>1, <1>2, <1>3, <1>4, <1>5 DEF FreeStep

(* The other GPIO calls only unexport. *)
LEMMA UseResetOwners ==
  ASSUME TypeOK, ~setting.faulty, Owners,
         NEW u \in Users, UseStep(u) \/ ResetStep(u) \/ Reset(u),
         UNCHANGED setting
  PROVE  Owners'
<1>0. /\ Disjoint
      /\ loc[u].word \in SUBSET Pins /\ loc[u].count \in Nat
      /\ UseSteps \cup ResetSteps \cup {"idle"} \subseteq UserSteps
  BY DEF TypeOK, Owners, UserSteps
<1>a. (UseSteps \cup ResetSteps \cup {"idle"}) \cap KnowingSteps = {}
  BY DEF KnowingSteps, PwmReadSteps, NotPwmSteps, GpioMaskSteps,
         FreeMaskSteps, NotGpioSteps, PwmMaskSteps, UseSteps, ResetSteps
<1>1. CASE GpioSetLoad(u)
  <2>1. /\ Move(u, "s_load", "s_store", loc[u].word, pin_states_updated)
        /\ pin_states_updated \in Nat
        /\ UNCHANGED <<gpio_exported, pwm_exported>>
    BY <1>1 DEF GpioSetLoad, EnqueueLoad, TypeOK, devVars
  <2>2. {"s_load", "s_store"} \subseteq UseSteps
    BY DEF UseSteps
  <2> QED
    BY <1>0, <1>a, <2>1, <2>2, CallerQuiet
<1>2. CASE GpioSetDone(u) \/ DirectionPush(u) \/ Reset(u) \/ ResetPush(u)
           \/ ResetZero(u)
  <2>1. PICK from \in UseSteps \cup ResetSteps \cup {"idle"},
             to \in UseSteps \cup ResetSteps \cup {"idle"} : Goto(u, from, to)
    BY <1>2 DEF GpioSetDone, DirectionPush, Push, Reset, ResetPush, ResetZero,
                UseSteps, ResetSteps
  <2>2. UNCHANGED <<gpio_exported, pwm_exported>>
    BY <1>2 DEF GpioSetDone, Enqueue, DirectionPush, Push, Reset, ResetPush,
                ResetZero, devVars
  <2> QED
    BY <1>0, <1>a, <2>1, <2>2, CallerQuietGoto
<1>3. CASE ResetUnexport(u)
  <2>1. /\ Move(u, "r_unexport", "idle", loc[u].word, loc[u].count)
        /\ gpio_exported' = {} /\ pwm_exported' = pwm_exported
    BY <1>3, OutcomesCalm DEF ResetUnexport, Goto
  <2>2. "idle" \in UserSteps
    BY <1>0
  <2>3. /\ loc'[u].pc = "idle"
        /\ \A v \in Users \ {u} : loc'[v] = loc[v]
    <3>1. PICK to \in UserSteps, mask \in SUBSET Pins, n \in Nat :
            to = "idle" /\ Move(u, "r_unexport", to, mask, n)
      BY <1>0, <2>1, <2>2
    <3> QED
      BY <3>1, MoveLocals
  <2>4. Knows(loc[u])'
    BY <2>3 DEF Knows, PwmReadSteps, NotPwmSteps, GpioMaskSteps,
                FreeMaskSteps, NotGpioSteps, PwmMaskSteps
  <2>5. Disjoint' /\ gpio_exported' \subseteq gpio_exported
    BY <2>1 DEF Disjoint
  <2> QED
    BY <2>1, <2>3, <2>4, <2>5, CallerStep
<1> QED
  BY <1>1, <1>2, <1>3 DEF UseStep, ResetStep

(* rcio_pwm_request gives up on a pin that is a GPIO, before it exports it. *)
LEMMA PwmOwners ==
  ASSUME TypeOK, ~setting.faulty, Owners, NEW u \in Users, Alone(u),
         PwmStep(u), UNCHANGED setting
  PROVE  Owners'
<1>0. /\ Disjoint /\ Knows(loc[u])
      /\ loc[u].word \in SUBSET Pins /\ loc[u].count \in Nat
      /\ pwm_exported \in SUBSET Pins /\ gpio_exported \in SUBSET Pins
      /\ PwmSteps \cup {"idle"} \subseteq UserSteps
  BY DEF TypeOK, Owners, UserSteps
<1>a. {"idle", "p_gpio"} \cap KnowingSteps = {}
  BY DEF KnowingSteps, PwmReadSteps, NotPwmSteps, GpioMaskSteps,
         FreeMaskSteps, NotGpioSteps, PwmMaskSteps
<1>1. CASE PwmCheckRunning(u)
  <2>1. PICK to \in {"p_gpio", "idle"} : Goto(u, "p_running", to)
    BY <1>1 DEF PwmCheckRunning
  <2>2. UNCHANGED <<gpio_exported, pwm_exported>>
    BY <1>1 DEF PwmCheckRunning, devVars
  <2> QED
    BY <1>0, <1>a, <2>1, <2>2, CallerQuietGoto DEF PwmSteps
<1>2. CASE PwmReadGpio(u)
  <2>1. UNCHANGED <<gpio_exported, pwm_exported>>
    BY <1>2 DEF PwmReadGpio, devVars
  <2>2. CASE Goto(u, "p_gpio", "idle")
    BY <1>0, <1>a, <2>1, <2>2, CallerQuietGoto DEF PwmSteps
  <2>3. CASE loc[u].pin \notin gpio_exported /\ Goto(u, "p_gpio", "p_pwm")
    <3>1. Move(u, "p_gpio", "p_pwm", loc[u].word, loc[u].count)
      BY <2>3 DEF Goto
    <3>2. /\ loc'[u].pc = "p_pwm" /\ loc'[u].pin = loc[u].pin
          /\ \A v \in Users \ {u} : loc'[v] = loc[v]
      BY <1>0, <3>1, MoveLocals DEF PwmSteps
    <3>3. Knows(loc[u])'
      BY <2>1, <2>3, <3>2 DEF Knows, PwmReadSteps, NotPwmSteps, GpioMaskSteps,
                              FreeMaskSteps, NotGpioSteps, PwmMaskSteps
    <3> QED
      BY <1>0, <2>1, <3>2, <3>3, CallerStep DEF Disjoint
  <2> QED
    BY <1>2, <2>2, <2>3 DEF PwmReadGpio
<1>3. CASE PwmReadPwm(u)
  <2>1. Move(u, "p_pwm", "p_export", pwm_exported, 0)
    BY <1>3, OutcomesCalm DEF PwmReadPwm
  <2>2. /\ loc[u].pc = "p_pwm" /\ loc'[u].pc = "p_export"
        /\ loc'[u].word = pwm_exported /\ loc'[u].pin = loc[u].pin
        /\ \A v \in Users \ {u} : loc'[v] = loc[v]
    BY <1>0, <2>1, MoveLocals DEF PwmSteps
  <2>3. UNCHANGED <<gpio_exported, pwm_exported>>
    BY <1>3 DEF PwmReadPwm, devVars
  <2>4. Knows(loc[u])'
    BY <1>0, <2>2, <2>3 DEF Knows, Disjoint, PwmReadSteps, NotPwmSteps,
      GpioMaskSteps, FreeMaskSteps, NotGpioSteps, PwmMaskSteps
  <2> QED
    BY <1>0, <2>2, <2>3, <2>4, CallerStep DEF Disjoint
<1>4. CASE PwmFreeRead(u)
  <2>1. Move(u, "q_read", "q_unexport", pwm_exported, 0)
    BY <1>4, OutcomesCalm DEF PwmFreeRead, ReadMask
  <2>2. /\ loc'[u].pc = "q_unexport" /\ loc'[u].word = pwm_exported
        /\ \A v \in Users \ {u} : loc'[v] = loc[v]
    BY <1>0, <2>1, MoveLocals DEF PwmSteps
  <2>3. UNCHANGED <<gpio_exported, pwm_exported>>
    BY <1>4 DEF PwmFreeRead, ReadMask, devVars
  <2>4. Knows(loc[u])'
    BY <1>0, <2>2, <2>3 DEF Knows, Disjoint, PwmReadSteps, NotPwmSteps,
      GpioMaskSteps, FreeMaskSteps, NotGpioSteps, PwmMaskSteps
  <2> QED
    BY <1>0, <2>2, <2>3, <2>4, CallerStep DEF Disjoint
<1>5. CASE PwmExport(u) \/ PwmUnexport(u)
  <2>1. PICK from \in {"p_export", "q_unexport"} :
          /\ Move(u, from, "idle", loc[u].word, loc[u].count)
          /\ pwm_exported' = IF from = "p_export"
                             THEN loc[u].word \cup {loc[u].pin}
                             ELSE loc[u].word \ {loc[u].pin}
    BY <1>5, OutcomesCalm DEF PwmExport, PwmUnexport, Goto
  <2>2. /\ loc[u].pc = from /\ loc'[u].pc = "idle"
        /\ \A v \in Users \ {u} : loc'[v] = loc[v]
    BY <1>0, <2>1, MoveLocals DEF PwmSteps
  <2>3. gpio_exported' = gpio_exported
    BY <1>5 DEF PwmExport, PwmUnexport
  <2>4. /\ loc[u].word \cap gpio_exported = {}
        /\ from = "p_export" => loc[u].pin \notin gpio_exported
    BY <1>0, <2>2 DEF Knows, PwmMaskSteps, NotGpioSteps
  <2>5. Disjoint'
    BY <2>1, <2>3, <2>4 DEF Disjoint
  <2>6. Knows(loc[u])'
    BY <2>2 DEF Knows, PwmReadSteps, NotPwmSteps, GpioMaskSteps,
                FreeMaskSteps, NotGpioSteps, PwmMaskSteps
  <2> QED
    BY <1>0, <2>2, <2>5, <2>6, CallerStep
<1> QED
  BY <1>1, <1>2, <1>3, <1>4, <1>5 DEF PwmStep

-----------------------------------------------------------------------------
(* The masks: the invariant                                                *)

(* No pin is a PWM output at first, and nobody has called. *)
LEMMA OwnersInit == Init => OwnerInv
<1> SUFFICES ASSUME Init PROVE Owners
  BY DEF OwnerInv
<1>1. \A u \in Users : loc[u].pc = "idle"
  BY DEF Init, AtRest
<1> QED
  BY <1>1 DEF Init, Owners, Disjoint, Knows, PwmReadSteps, NotPwmSteps,
    GpioMaskSteps, FreeMaskSteps, NotGpioSteps, PwmMaskSteps

(* A step inside a callback moves one thread, which is inside it. *)
LEMMA UserStepsInside ==
  ASSUME TypeOK, NEW u \in Users, UserStep(u)
  PROVE  /\ loc[u].pc # "idle"
         /\ \A v \in Users \ {u} : loc'[v] = loc[v]
<1>0. loc[u].word \in SUBSET Pins /\ loc[u].count \in Nat
  BY DEF TypeOK
<1>1. \E from \in UserSteps \ {"idle"}, to \in UserSteps,
         mask \in SUBSET Pins, n \in Nat : Move(u, from, to, mask, n)
  <2>1. CASE ResetStep(u)
    <3>1. PICK from \in ResetSteps, to \in ResetSteps \cup {"idle"} :
            Goto(u, from, to)
      BY <2>1 DEF ResetStep, ResetPush, Push, ResetZero, ResetUnexport,
                  ResetSteps
    <3>2. from \in UserSteps \ {"idle"} /\ to \in UserSteps
      BY DEF ResetSteps, UserSteps
    <3> QED
      BY <1>0, <3>1, <3>2 DEF Goto
  <2>2. CASE ~ResetStep(u)
    <3>1. PinSteps \subseteq UserSteps \ {"idle"} /\ "idle" \in UserSteps
      BY DEF UserSteps, PinSteps, RequestSteps, FreeSteps, UseSteps, PwmSteps
    <3> QED
      BY <2>2, <3>1, UserMove DEF UserStep
  <2> QED
    BY <2>1, <2>2
<1>2. PICK from \in UserSteps \ {"idle"}, to \in UserSteps,
           mask \in SUBSET Pins, n \in Nat : Move(u, from, to, mask, n)
  BY <1>1
<1>3. loc[u].pc = from /\ \A v \in Users \ {u} : loc'[v] = loc[v]
  BY <1>2, MoveLocals
<1> QED
  BY <1>3

(* A step of a request or a free is taken inside one. *)
LEMMA OwnerStepsInside ==
  ASSUME NEW u \in Users, RequestStep(u) \/ FreeStep(u) \/ PwmStep(u)
  PROVE  loc[u].pc \in OwnerSteps
<1>1. CASE RequestStep(u)
  BY <1>1 DEF RequestStep, GpioCheckRunning, CheckRunning, GpioReadPwm,
    ReadMask, GpioCheckOwner, GpioTakeFromPwm, GpioIgnorePwm,
    GpioReadExported, GpioExport, GpioEnable, SetState, GpioPush, Push,
    GpioLow, GpioPushLow, GpioLoad, EnqueueLoad, GpioRequested, Goto, Drop,
    Move, OwnerSteps, RequestSteps
<1>2. CASE FreeStep(u)
  BY <1>2 DEF FreeStep, FreeCheckRunning, CheckRunning, FreeReadExported,
    ReadMask, FreeLow, SetState, FreePushLow, Push, FreeZero, FreePush,
    FreeLoad, EnqueueLoad, FreeEnqueue, FreeUnexport, FreeUnignore, Goto,
    Drop, Move, OwnerSteps, FreeSteps
<1>3. CASE PwmStep(u)
  BY <1>3 DEF PwmStep, PwmCheckRunning, PwmReadGpio, PwmReadPwm, PwmExport,
    PwmFreeRead, ReadMask, PwmUnexport, Goto, Move, OwnerSteps, PwmSteps
<1> QED
  BY <1>1, <1>2, <1>3

(* A call that begins knows nothing of the masks. *)
LEMMA OwnersCall ==
  ASSUME TypeOK, ~setting.faulty, Owners, CallsNext, UNCHANGED setting
  PROVE  Owners'
<1>1. setting.users \subseteq Users /\ setting.pins \subseteq Pins
  BY SettingShape DEF TypeOK
<1>2. ASSUME NEW u \in setting.users, NEW p \in setting.pins, UserCall(u, p)
      PROVE  Owners'
  <2>1. PICK first \in {"g_running", "f_running", "s_load", "d_push",
                        "p_running", "q_read"} : Begin(u, p, first)
    BY <1>2 DEF UserCall, GpioRequest, GpioFree, GpioSet, GpioDirection,
                UseBegin, PwmRequest, PwmFree
  <2>2. first \in UserSteps /\ first \notin KnowingSteps
    BY DEF UserSteps, RequestSteps, FreeSteps, UseSteps, PwmSteps,
           KnowingSteps, PwmReadSteps, NotPwmSteps, GpioMaskSteps,
           FreeMaskSteps, NotGpioSteps, PwmMaskSteps
  <2>3. /\ loc'[u].pc = first
        /\ \A v \in Users \ {u} : loc'[v] = loc[v]
    BY <1>1, <2>1, <2>2, BeginLocals
  <2>4. UNCHANGED <<gpio_exported, pwm_exported>>
    BY <1>2 DEF UserCall, GpioRequest, GpioFree, GpioSet, GpioDirection,
                PwmRequest, PwmFree, devVars
  <2>5. Knows(loc[u])'
    BY <2>2, <2>3 DEF Knows, KnowingSteps
  <2> QED
    BY <1>1, <2>3, <2>4, <2>5, CallerStep DEF Owners, Disjoint
<1>3. ASSUME UNCHANGED <<gpio_exported, pwm_exported, loc>> PROVE Owners'
  BY <1>3 DEF Owners, Disjoint, Knows
<1>4. ASSUME NEW p \in setting.pins, PwmFreeIgnored(p) PROVE Owners'
  BY <1>3, <1>4 DEF PwmFreeIgnored, devVars
<1>5. ASSUME NEW m \in setting.masks, PwmIgnoreStore(m) PROVE Owners'
  BY <1>3, <1>5 DEF PwmIgnoreStore, devVars
<1> QED
  BY <1>1, <1>2, <1>4, <1>5, UseResetOwners DEF CallsNext

(* The driver itself only ever unexports. *)
LEMMA OwnersDriver ==
  ASSUME TypeOK, Owners, DriverNext \/ MotorsChange \/ UNCHANGED vars,
         UNCHANGED setting
  PROVE  Owners'
<1>1. UNCHANGED <<pwm_exported, loc>> /\ gpio_exported' \subseteq gpio_exported
  <2>1. CASE DriverNext
    BY <2>1 DEF DriverNext, ProbeStep, ProbeClear, ProbePush, ProbeUnexport,
      WorkerStep, WorkerTest, WorkerLoad, WorkerStore, WorkerPush, devVars
  <2>2. CASE MotorsChange \/ UNCHANGED vars
    BY <2>2 DEF MotorsChange, vars, devVars
  <2> QED
    BY <2>1, <2>2
<1> QED
  BY <1>1 DEF Owners, Disjoint, Knows

(* Every step keeps the invariant, if a request or free is alone.  *)
LEMMA OwnersStep ==
  PinsShape /\ OneAtATime /\ OwnerInv /\ [Next]_vars => OwnerInv'
<1> SUFFICES ASSUME TypeOK, Somewhere, OneAtATime, [Next]_vars,
                    ~setting.faulty, Owners, UNCHANGED setting
             PROVE  Owners'
  <2>1. [Next]_vars => setting' = setting
    BY DEF Next, vars
  <2> QED
    BY <2>1 DEF PinsShape, OwnerInv
<1>1. ASSUME NEW u \in Users, UserStep(u)
      PROVE  Owners'
  <2>1. CASE UseStep(u) \/ ResetStep(u)
    BY <2>1, UseResetOwners
  <2>2. CASE RequestStep(u) \/ FreeStep(u) \/ PwmStep(u)
    <3>1. Alone(u)
      BY <2>2, OwnerStepsInside DEF OneAtATime
    <3> QED
      BY <2>2, <3>1, RequestOwners, FreeOwners, PwmOwners
  <2> QED
    BY <1>1, <2>1, <2>2 DEF UserStep
<1>2. CASE CallsNext
  BY <1>2, OwnersCall
<1>3. CASE DriverNext \/ MotorsChange \/ UNCHANGED vars
  BY <1>3, OwnersDriver
<1> QED
  BY <1>1, <1>2, <1>3 DEF Next

(* What a callback acts upon is still so when it acts, in every behaviour   *)
(* in which no request or free overlaps another.                            *)
THEOREM OwnersInvariant == Spec /\ []OneAtATime => []OwnerInv
<1>1. Init => OwnerInv
  BY OwnersInit
<1>2. PinsShape /\ OneAtATime /\ OwnerInv /\ [Next]_vars => OwnerInv'
  BY OwnersStep
<1> QED
  BY <1>1, <1>2, PinsShapeInvariant, PTL DEF Spec

(* While transactions do not fail, no pin is exported as GPIO and as PWM at *)
(* once as long as requests and frees of the two chips do not overlap, for  *)
(* any number of threads, and whatever sets, resets, pushes of the worker   *)
(* and writes to pwmignore come between their steps (rcio_gpio.c:179-194,   *)
(* rcio_pwm.c:534-560).  Serial calls are all the two masks need.           *)
THEOREM PinsSerialOwners ==
  Spec /\ []OneAtATime
    => [](~setting.faulty => gpio_exported \cap pwm_exported = {})
<1>1. OwnerInv => (~setting.faulty => gpio_exported \cap pwm_exported = {})
  BY DEF OwnerInv, Owners, Disjoint
<1> QED
  BY <1>1, OwnersInvariant, PTL

(* Only the threads of the setting are inside a callback. *)
CallersOnly == \A u \in Users : u \in setting.users \/ loc[u].pc = "idle"

(* Nobody has called at first, and only they call. *)
LEMMA CallersInvariant == Spec => []CallersOnly
<1>1. Init => CallersOnly
  BY DEF Init, CallersOnly, AtRest
<1>2. PinsShape /\ CallersOnly /\ [Next]_vars => CallersOnly'
  <2> SUFFICES ASSUME TypeOK, CallersOnly, [Next]_vars PROVE CallersOnly'
    BY DEF PinsShape
  <2>1. setting' = setting /\ setting.users \subseteq Users
            /\ setting.pins \subseteq Pins
    BY SettingShape DEF Next, vars, TypeOK
  <2>2. ASSUME NEW u \in Users, u \in setting.users \/ loc[u].pc # "idle",
               \A v \in Users \ {u} : loc'[v] = loc[v]
        PROVE  CallersOnly'
    BY <2>1, <2>2 DEF CallersOnly
  <2>3. ASSUME NEW u \in Users, UserStep(u) PROVE CallersOnly'
    BY <2>2, <2>3, UserStepsInside
  <2>4. ASSUME loc' = loc PROVE CallersOnly'
    BY <2>1, <2>4 DEF CallersOnly
  <2>5. ASSUME NEW u \in setting.users, Reset(u) PROVE CallersOnly'
    <3>1. \A v \in Users \ {u} : loc'[v] = loc[v]
      BY <2>5 DEF Reset, Goto, Move, TypeOK
    <3> QED
      BY <2>1, <2>2, <3>1
  <2>6. ASSUME NEW u \in setting.users, NEW p \in setting.pins, UserCall(u, p)
        PROVE  CallersOnly'
    <3>1. PICK first \in UserSteps : Begin(u, p, first)
      BY <2>6 DEF UserCall, GpioRequest, GpioFree, GpioSet, GpioDirection,
                  UseBegin, PwmRequest, PwmFree, UserSteps, RequestSteps,
                  FreeSteps, UseSteps, PwmSteps
    <3>2. \A v \in Users \ {u} : loc'[v] = loc[v]
      BY <2>1, <3>1, BeginLocals
    <3> QED
      BY <2>1, <2>2, <3>2
  <2>7. CASE CallsNext
    BY <2>4, <2>5, <2>6, <2>7 DEF CallsNext, PwmFreeIgnored, PwmIgnoreStore
  <2>8. CASE DriverNext \/ MotorsChange \/ UNCHANGED vars
    BY <2>4, <2>8 DEF DriverNext, ProbeStep, ProbeClear, ProbePush,
      ProbeUnexport, WorkerStep, WorkerTest, WorkerLoad, WorkerStore,
      WorkerPush, MotorsChange, vars
  <2> QED
    BY <2>3, <2>7, <2>8 DEF Next
<1> QED
  BY <1>1, <1>2, PinsShapeInvariant, PTL DEF Spec

(* While one thread calls and transactions do not fail, no pin is exported  *)
(* as GPIO and as PWM at once, for any pins and whatever else is written to  *)
(* the attributes (rcio_gpio.c:179-194, rcio_pwm.c:534-560): the calls of    *)
(* one thread are serial.                                                    *)
THEOREM PinsOneOwner == Spec => []OneOwner
<1>1. CallersOnly /\ OneCaller => OneAtATime
  <2> SUFFICES ASSUME CallersOnly, OneCaller, NEW u \in Users, NEW v \in Users,
                      loc[u].pc \in OwnerSteps, loc[v].pc \in OwnerSteps
               PROVE  u = v
    BY DEF OneAtATime, Alone
  <2>1. "idle" \notin OwnerSteps
    BY DEF OwnerSteps, RequestSteps, FreeSteps, PwmSteps
  <2> QED
    BY <2>1 DEF CallersOnly, OneCaller
<1>2. [Next]_vars => (OneCaller' <=> OneCaller)
  <2>1. [Next]_vars => setting' = setting
    BY DEF Next, vars
  <2> QED
    BY <2>1 DEF OneCaller
<1>3. (~setting.faulty => gpio_exported \cap pwm_exported = {}) => OneOwner
  BY DEF OneOwner
<1>4. ~OneCaller => OneOwner
  BY DEF OneOwner
<1>5. Spec /\ OneCaller => []OneAtATime
  BY <1>1, <1>2, CallersInvariant, PTL DEF Spec
<1> QED
  BY <1>2, <1>3, <1>4, <1>5, PinsSerialOwners, PTL DEF Spec
=============================================================================
