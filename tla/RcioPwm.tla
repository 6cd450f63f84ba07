------------------------------- MODULE RcioPwm -------------------------------
(***************************************************************************)
(* The PWM output path of the RCIO driver, src/src/rcio_pwm.c.             *)
(*                                                                         *)
(* PWM clients (the callbacks of struct pwm_ops) edit a table of duties    *)
(* and request rate changes; they do no I/O except for a disable.  The     *)
(* worker kthread runs rcio_pwm_update for ever and carries the table to   *)
(* the IO board, first blanking the outputs when a rate must change.  A    *)
(* GPIO request runs rcio_pwm_update too, from its own thread, through     *)
(* rcio_pwm_force_zero_duty.  None of the variables they share is          *)
(* protected by a lock: the steps below are the points between which       *)
(* another thread can run.                                                 *)
(*                                                                         *)
(* A register transaction is one step (the adapter lock serialises them    *)
(* and the payload is copied with the lock held).  A duty is 0 or, when it *)
(* is not zero, the frequency its pulse width was computed for: all that   *)
(* the properties need to know of it.                                      *)
(***************************************************************************)
EXTENDS Integers

CONSTANTS
  TimerCount,            \* RCIO_PWM_TIMER_COUNT
  ChannelsPerTimer,      \* RCIO_PWM_CHANNELS_PER_TIMER
  AltChannels,           \* old way: channels below this one use alt_frequency
  MaxZeroedChannels,     \* RCIO_PWM_MAX_ZEROED_CHANNELS
  ZeroSkipUpdateCycles,  \* RCIO_PWM_ZERO_SKIP_UPDATE_CYCLES
  ArmTicks,              \* HZ / 10, the life of a config in jiffies
  Freqs,                 \* the frequencies clients ask for
  DefaultFreq,           \* the frequency of the static initialisers
  Masks,                 \* the masks a user stores in pwmignore
  Clients,               \* threads inside the PWM callbacks
  GpioThreads,           \* threads inside a GPIO request or free
  MaxCountdown,          \* bound on force_pwmzero_countdown (model only)
  Ways,                  \* firmwares: TRUE has one rate per timer (new way)
  Faulty                 \* may a register transaction miss the board?

Timers   == 0 .. (TimerCount - 1)
Channels == 0 .. (TimerCount * ChannelsPerTimer - 1)
Duties   == {0} \cup Freqs

\* freq_update_stage_t: one stage per timer, then the two old-way ones
SET_ALT == TimerCount
SET_DEF == TimerCount + 1
Stages  == 0 .. SET_DEF

Worker   == "worker"
Updaters == {Worker} \cup GpioThreads

ASSUME PwmAssumption ==
  /\ TimerCount \in Nat \ {0}
  /\ ChannelsPerTimer \in Nat \ {0}
  /\ AltChannels \in Nat
  /\ MaxZeroedChannels \in Nat
  /\ ZeroSkipUpdateCycles \in Nat \ {0}
  /\ MaxCountdown \in Nat
  /\ ArmTicks \in Nat \ {0}
  /\ Freqs \subseteq Nat \ {0}
  /\ DefaultFreq \in Freqs
  /\ Masks \subseteq SUBSET Channels
  /\ Worker \notin GpioThreads
  /\ Ways \subseteq BOOLEAN
  /\ Faulty \in BOOLEAN

VARIABLES
  values,                       \* the duty table
  frequencies,                  \* new way: the rate of each timer ...
  new_frequencies,              \* ... the rate requested for it ...
  frequencies_update_required,  \* ... and whether to send it
  alt_frequency, alt_frequency_updated,          \* old way, low channels
  default_frequency, default_frequency_updated,  \* old way, high channels
  adv_timer_config_supported,   \* new way or old way, read at probe
  armed,
  arm_ticks,                    \* jiffies left before armtimeout
  freq_update_noticed,
  force_pwmzero_countdown,
  pwm_ignore_writings_mask,     \* owned by rcio_gpio.c, read here
  pc, loc,                      \* threads inside rcio_pwm_update
  cpc, cop,                     \* threads inside the PWM callbacks
  client_alive,                 \* PWM clients still make new calls
  stopped,                      \* history: disabled, not configured since
  dev_pwm,                      \* board: PX4IO_PAGE_DIRECT_PWM
  dev_rate                      \* board: the PX4IO_P_SETUP_PWM_* rates

newWay   == <<frequencies, new_frequencies, frequencies_update_required>>
oldWay   == <<alt_frequency, alt_frequency_updated,
              default_frequency, default_frequency_updated>>
freqVars == <<newWay, oldWay, adv_timer_config_supported>>
updVars  == <<pc, loc>>
cliVars  == <<cpc, cop, client_alive, stopped>>
devVars  == <<dev_pwm, dev_rate>>
flagVars == <<freq_update_noticed, force_pwmzero_countdown,
              pwm_ignore_writings_mask>>
vars == <<values, freqVars, armed, arm_ticks, flagVars, updVars, cliVars,
          devVars>>

NoLocals == [some |-> FALSE, stage |-> 0, freq |-> DefaultFreq, count |-> 0]
NoCall   == [ch |-> 0, freq |-> DefaultFreq, on |-> FALSE]
AllZero  == [c \in Channels |-> 0]

\* Between two passes the worker is about to begin the next one, a GPIO
\* thread has left the PWM code.
AtRest(t) == IF t = Worker THEN "begin" ELSE "idle"

(* The driver after a successful probe, on a board that powered up idle. *)
Init ==
  /\ values = AllZero
  /\ frequencies = [g \in Timers |-> DefaultFreq]
  /\ new_frequencies = [g \in Timers |-> DefaultFreq]
  /\ frequencies_update_required = [g \in Timers |-> FALSE]
  /\ alt_frequency = DefaultFreq
  /\ alt_frequency_updated = FALSE
  /\ default_frequency = DefaultFreq
  /\ default_frequency_updated = FALSE
  /\ adv_timer_config_supported \in Ways
  /\ armed = FALSE
  /\ arm_ticks = 0
  /\ freq_update_noticed = FALSE
  /\ force_pwmzero_countdown = 0
  /\ pwm_ignore_writings_mask = {}
  /\ pc = [t \in Updaters |-> AtRest(t)]
  /\ loc = [t \in Updaters |-> NoLocals]
  /\ cpc = [k \in Clients |-> "idle"]
  /\ cop = [k \in Clients |-> NoCall]
  /\ client_alive = TRUE
  /\ stopped = {}
  /\ dev_pwm = AllZero
  /\ dev_rate = [s \in Stages |-> DefaultFreq]

-----------------------------------------------------------------------------
(* rcio_pwm_update, run by the worker and by GPIO threads                  *)

\* A write of the driver reaches the board unless the link drops it; the
\* code of this file ignores which.
Sent(new, old) == {new} \cup (IF Faulty THEN {old} ELSE {})

Goto(t, from, to) == pc[t] = from /\ pc' = [pc EXCEPT ![t] = to]
Return(t, from)   == /\ Goto(t, from, AtRest(t))
                     /\ loc' = [loc EXCEPT ![t] = NoLocals]

SomeFreqUpdated ==
  \/ alt_frequency_updated
  \/ default_frequency_updated
  \/ \E g \in Timers : frequencies_update_required[g]

\* The local some_freq_updated is computed once, at the top.
ReadFlags(t) ==
  /\ Goto(t, "begin", "arm")
  /\ loc' = [loc EXCEPT ![t].some = SomeFreqUpdated]
  /\ UNCHANGED <<values, freqVars, armed, arm_ticks, flagVars, cliVars,
                 devVars>>

\* Mutant: the outputs are never disarmed by the clock.
CheckArmedSticky(t) ==
  /\ Goto(t, "arm", "choose")
  /\ armed' = (armed \/ arm_ticks > 0)
  /\ UNCHANGED <<values, freqVars, arm_ticks, flagVars, loc, cliVars, devVars>>

\* time_before(jiffies, armtimeout) && armtimeout > 0
CheckArmed(t) ==
  /\ Goto(t, "arm", "choose")
  /\ armed' = (arm_ticks > 0)
  /\ UNCHANGED <<values, freqVars, arm_ticks, flagVars, loc, cliVars, devVars>>

MustClear(t) == armed /\ loc[t].some /\ ~freq_update_noticed

\* The stage the next branches pick: the lowest timer with a request, or
\* SET_ALT before SET_DEF.
Pending ==
  IF adv_timer_config_supported
  THEN {g \in Timers : frequencies_update_required[g]}
  ELSE {s \in {SET_ALT, SET_DEF} : \/ s = SET_ALT /\ alt_frequency_updated
                                   \/ s = SET_DEF /\ default_frequency_updated}

Requested(s) ==
  CASE s = SET_ALT -> alt_frequency
    [] s = SET_DEF -> default_frequency
    [] OTHER       -> new_frequencies[s]

ChooseClear(t) ==
  /\ MustClear(t)
  /\ Goto(t, "choose", "clear")
  /\ UNCHANGED <<values, freqVars, armed, arm_ticks, flagVars, loc, cliVars,
                 devVars>>

\* The rate is passed by value to register_set_byte: it is read here.
ChooseRate(t) ==
  /\ armed /\ ~MustClear(t)
  /\ Goto(t, "choose", "rate")
  /\ \E s \in Pending :
       /\ \A r \in Pending : s <= r
       /\ loc' = [loc EXCEPT ![t].stage = s, ![t].freq = Requested(s)]
  /\ UNCHANGED <<values, freqVars, armed, arm_ticks, flagVars, cliVars,
                 devVars>>

ChooseNothing(t) ==
  /\ ~armed \/ (~MustClear(t) /\ Pending = {})
  /\ Goto(t, "choose", "fall")
  /\ UNCHANGED <<values, freqVars, armed, arm_ticks, flagVars, loc, cliVars,
                 devVars>>

SendClear(t) ==
  /\ Goto(t, "clear", "noticed")
  /\ dev_pwm' \in Sent(AllZero, dev_pwm)
  /\ UNCHANGED <<values, freqVars, armed, arm_ticks, flagVars, loc, cliVars,
                 dev_rate>>

\* Mutant: the flag is not set after the clear.
NoticeNothing(t) ==
  /\ Return(t, "noticed")
  /\ UNCHANGED <<values, freqVars, armed, arm_ticks, flagVars, cliVars, devVars>>

NoticeUpdate(t) ==
  /\ Return(t, "noticed")
  /\ freq_update_noticed' = TRUE
  /\ UNCHANGED <<values, freqVars, armed, arm_ticks, force_pwmzero_countdown,
                 pwm_ignore_writings_mask, cliVars, devVars>>

SendRate(t) ==
  /\ Goto(t, "rate", "ratedone")
  /\ dev_rate' \in Sent([dev_rate EXCEPT ![loc[t].stage] = loc[t].freq],
                        dev_rate)
  /\ UNCHANGED <<values, freqVars, armed, arm_ticks, flagVars, loc, cliVars,
                 dev_pwm>>

\* Mutant: the request flag is not reset.
RecordRateKeepsFlag(t) ==
  /\ Return(t, "ratedone")
  /\ frequencies' = IF loc[t].stage \in Timers
                    THEN [frequencies EXCEPT ![loc[t].stage] =
                            new_frequencies[loc[t].stage]]
                    ELSE frequencies
  /\ UNCHANGED <<values, new_frequencies, frequencies_update_required, oldWay,
                 adv_timer_config_supported, armed, arm_ticks, flagVars,
                 cliVars, devVars>>

\* After the transaction: the new way copies new_frequencies again.
RecordRate(t) ==
  /\ Return(t, "ratedone")
  /\ LET s == loc[t].stage IN
       /\ frequencies' = IF s \in Timers
                         THEN [frequencies EXCEPT ![s] = new_frequencies[s]]
                         ELSE frequencies
       /\ frequencies_update_required' =
            IF s \in Timers
            THEN [frequencies_update_required EXCEPT ![s] = FALSE]
            ELSE frequencies_update_required
       /\ alt_frequency_updated' = (alt_frequency_updated /\ s # SET_ALT)
       /\ default_frequency_updated' =
            (default_frequency_updated /\ s # SET_DEF)
  /\ UNCHANGED <<values, new_frequencies, alt_frequency, default_frequency,
                 adv_timer_config_supported, armed, arm_ticks, flagVars,
                 cliVars, devVars>>

\* Mutant: the flag is not reset when the rate updates are done.
FallThroughNoticed(t) ==
  /\ Goto(t, "fall", IF force_pwmzero_countdown > 0 THEN "load" ELSE "last")
  /\ force_pwmzero_countdown' = IF force_pwmzero_countdown < 0
                                THEN 0 ELSE force_pwmzero_countdown
  /\ UNCHANGED <<values, freqVars, armed, arm_ticks, freq_update_noticed,
                 pwm_ignore_writings_mask, loc, cliVars, devVars>>

\* force_pwmzero_countdown is tested here, loaded and stored below: the
\* decrement is not atomic.
FallThrough(t) ==
  /\ Goto(t, "fall", IF force_pwmzero_countdown > 0 THEN "load" ELSE "last")
  /\ freq_update_noticed' = FALSE
  /\ force_pwmzero_countdown' = IF force_pwmzero_countdown < 0
                                THEN 0 ELSE force_pwmzero_countdown
  /\ UNCHANGED <<values, freqVars, armed, arm_ticks, pwm_ignore_writings_mask,
                 loc, cliVars, devVars>>

LoadCountdown(t) ==
  /\ Goto(t, "load", "store")
  /\ loc' = [loc EXCEPT ![t].count = force_pwmzero_countdown]
  /\ UNCHANGED <<values, freqVars, armed, arm_ticks, flagVars, cliVars,
                 devVars>>

ZeroValues ==
  [c \in Channels |-> IF c < MaxZeroedChannels THEN 0 ELSE values[c]]

\* Mutant: the countdown stays where it is.
StoreSameCountdown(t) ==
  /\ Goto(t, "store", "last")
  /\ force_pwmzero_countdown' = loc[t].count
  /\ values' = ZeroValues
  /\ UNCHANGED <<freqVars, armed, arm_ticks, freq_update_noticed,
                 pwm_ignore_writings_mask, loc, cliVars, devVars>>

StoreCountdown(t) ==
  /\ Goto(t, "store", "last")
  /\ force_pwmzero_countdown' = loc[t].count - 1
  /\ values' = ZeroValues
  /\ UNCHANGED <<freqVars, armed, arm_ticks, freq_update_noticed,
                 pwm_ignore_writings_mask, loc, cliVars, devVars>>

ChooseDirect(t) ==
  /\ armed /\ ~loc[t].some
  /\ Goto(t, "last", "direct")
  /\ UNCHANGED <<values, freqVars, armed, arm_ticks, flagVars, loc, cliVars,
                 devVars>>

SkipDirect(t) ==
  /\ ~armed \/ loc[t].some
  /\ Return(t, "last")
  /\ UNCHANGED <<values, freqVars, armed, arm_ticks, flagVars, cliVars,
                 devVars>>

\* register_set is given a pointer: the table is copied by the transaction.
SendDirect(t) ==
  /\ Return(t, "direct")
  /\ dev_pwm' \in Sent(values, dev_pwm)
  /\ UNCHANGED <<values, freqVars, armed, arm_ticks, flagVars, cliVars,
                 dev_rate>>

UpdateStep(t) ==
  \/ ReadFlags(t) \/ CheckArmed(t)
  \/ ChooseClear(t) \/ ChooseRate(t) \/ ChooseNothing(t)
  \/ SendClear(t) \/ NoticeUpdate(t)
  \/ SendRate(t) \/ RecordRate(t)
  \/ FallThrough(t) \/ LoadCountdown(t) \/ StoreCountdown(t)
  \/ ChooseDirect(t) \/ SkipDirect(t) \/ SendDirect(t)

-----------------------------------------------------------------------------
(* rcio_pwm_force_zero_duty, called by a GPIO request or free              *)

ForceZeroLoad(t) ==
  /\ Goto(t, "idle", "add")
  /\ force_pwmzero_countdown + ZeroSkipUpdateCycles <= MaxCountdown
  /\ loc' = [loc EXCEPT ![t].count = force_pwmzero_countdown]
  /\ UNCHANGED <<values, freqVars, armed, arm_ticks, flagVars, cliVars,
                 devVars>>

ForceZeroStore(t) ==
  /\ Goto(t, "add", "begin")
  /\ force_pwmzero_countdown' = loc[t].count + ZeroSkipUpdateCycles
  /\ loc' = [loc EXCEPT ![t] = NoLocals]
  /\ UNCHANGED <<values, freqVars, armed, arm_ticks, freq_update_noticed,
                 pwm_ignore_writings_mask, cliVars, devVars>>

-----------------------------------------------------------------------------
(* The PWM callbacks                                                       *)

CGoto(k, from, to) == cpc[k] = from /\ cpc' = [cpc EXCEPT ![k] = to]
CReturn(k, from)   == /\ CGoto(k, from, "idle")
                      /\ cop' = [cop EXCEPT ![k] = NoCall]

\* The PWM core runs the callbacks of one channel one at a time.
Free(c) == \A k \in Clients : cpc[k] # "idle" => cop[k].ch # c

Suppressed(c, on) ==
  \/ c \in pwm_ignore_writings_mask /\ on
  \/ force_pwmzero_countdown > 0 /\ c < MaxZeroedChannels

\* rcio_pwm_config, the early return.
ConfigSuppressed(k, c, on) ==
  /\ client_alive /\ cpc[k] = "idle" /\ Free(c)
  /\ Suppressed(c, on)
  /\ values' = [values EXCEPT ![c] = 0]
  /\ UNCHANGED <<freqVars, armed, arm_ticks, flagVars, updVars, cliVars,
                 devVars>>

\* Mutant: the timeout is pushed back from the old one, not from now.
ArmLonger == arm_ticks + ArmTicks

\* armtimeout = jiffies + HZ / 10
ArmTimeout == ArmTicks

ConfigBegin(k, c, f, on) ==
  /\ client_alive /\ Free(c)
  /\ ~Suppressed(c, on)
  /\ CGoto(k, "idle", "config")
  /\ cop' = [cop EXCEPT ![k] = [ch |-> c, freq |-> f, on |-> on]]
  /\ arm_ticks' = ArmTimeout
  /\ stopped' = stopped \ {c}
  /\ UNCHANGED <<values, freqVars, armed, flagVars, updVars, client_alive,
                 devVars>>

TimerOf(c)      == c \div ChannelsPerTimer
ControlPin(c)   == c % ChannelsPerTimer = 0
TimerIdle(g)    == \A i \in Channels : TimerOf(i) = g => values[i] = 0
Duty(on, f)     == IF on THEN f ELSE 0

ShouldChangeFreqNewWay(c, f) ==
  /\ frequencies[TimerOf(c)] # f
  /\ ControlPin(c) \/ TimerIdle(TimerOf(c))

ConfigNewWay(k) ==
  LET c == cop[k].ch
      f == cop[k].freq
      g == TimerOf(c)
      change == ShouldChangeFreqNewWay(c, f)
  IN
  /\ adv_timer_config_supported
  /\ CReturn(k, "config")
  /\ new_frequencies' = IF change THEN [new_frequencies EXCEPT ![g] = f]
                        ELSE new_frequencies
  /\ frequencies_update_required' =
       IF change THEN [frequencies_update_required EXCEPT ![g] = TRUE]
       ELSE frequencies_update_required
  /\ values' = [values EXCEPT
                  ![c] = Duty(cop[k].on /\ frequencies[g] = f, f)]
  /\ UNCHANGED <<frequencies, oldWay, adv_timer_config_supported, armed,
                 arm_ticks, flagVars, updVars, client_alive, stopped, devVars>>

ConfigOldWay(k) ==
  LET c == cop[k].ch
      f == cop[k].freq
      change == cop[k].on /\ ControlPin(c)
      alt == c < AltChannels
  IN
  /\ ~adv_timer_config_supported
  /\ CReturn(k, "config")
  /\ alt_frequency' = IF alt /\ change THEN f ELSE alt_frequency
  /\ alt_frequency_updated' =
       (alt_frequency_updated \/ (alt /\ change /\ f # alt_frequency))
  /\ default_frequency' = IF ~alt /\ change THEN f ELSE default_frequency
  /\ default_frequency_updated' =
       (default_frequency_updated \/ (~alt /\ change /\ f # default_frequency))
  /\ LET rate == IF alt THEN alt_frequency' ELSE default_frequency'
     IN  values' = [values EXCEPT ![c] = Duty(cop[k].on /\ rate = f, f)]
  /\ UNCHANGED <<newWay, adv_timer_config_supported, armed, arm_ticks,
                 flagVars, updVars, client_alive, stopped, devVars>>

\* rcio_pwm_enable
Enable(k) ==
  /\ client_alive /\ cpc[k] = "idle"
  /\ armed' = TRUE
  /\ UNCHANGED <<values, freqVars, arm_ticks, flagVars, updVars, cliVars,
                 devVars>>

\* Mutant: the duty stays in the table, for the worker to send.
DisableKeepsDuty(k, c) ==
  /\ client_alive /\ Free(c)
  /\ CGoto(k, "idle", "push")
  /\ cop' = [cop EXCEPT ![k].ch = c]
  /\ UNCHANGED <<values, freqVars, armed, arm_ticks, flagVars, updVars,
                 client_alive, stopped, devVars>>

\* rcio_pwm_disable, in three steps around rcio_pwm_force_update_pin
DisableBegin(k, c) ==
  /\ client_alive /\ Free(c)
  /\ CGoto(k, "idle", "push")
  /\ cop' = [cop EXCEPT ![k].ch = c]
  /\ values' = [values EXCEPT ![c] = 0]
  /\ UNCHANGED <<freqVars, armed, arm_ticks, flagVars, updVars, client_alive,
                 stopped, devVars>>

\* Mutant: the disable leaves the write to the worker.
SendNoPin(k) ==
  /\ CGoto(k, "push", "disarm")
  /\ UNCHANGED <<values, freqVars, armed, arm_ticks, flagVars, updVars, cop,
                 client_alive, stopped, devVars>>

SendPin(k) ==
  LET c == cop[k].ch IN
  /\ CGoto(k, "push", "disarm")
  /\ dev_pwm' \in Sent([dev_pwm EXCEPT ![c] = values[c]], dev_pwm)
  /\ UNCHANGED <<values, freqVars, armed, arm_ticks, flagVars, updVars, cop,
                 client_alive, stopped, dev_rate>>

Disarm(k) ==
  /\ CReturn(k, "disarm")
  /\ armed' = FALSE
  /\ stopped' = stopped \cup {cop[k].ch}
  /\ UNCHANGED <<values, freqVars, arm_ticks, flagVars, updVars, client_alive,
                 devVars>>

\* A callback that has begun runs to its end.
CallbackStep(k) ==
  ConfigNewWay(k) \/ ConfigOldWay(k) \/ SendPin(k) \/ Disarm(k)

\* rcio_pwm_free: the table; the board's export mask is in RcioPins.
PwmFree(c) ==
  /\ client_alive /\ Free(c)
  /\ values' = [values EXCEPT ![c] = 0]
  /\ UNCHANGED <<freqVars, armed, arm_ticks, flagVars, updVars, cliVars,
                 devVars>>

-----------------------------------------------------------------------------
(* The surroundings: the user, the clock, the client process               *)

\* pwmignore_store with a valid mask
PwmIgnoreStore(m) ==
  /\ pwm_ignore_writings_mask' = m
  /\ UNCHANGED <<values, freqVars, armed, arm_ticks, freq_update_noticed,
                 force_pwmzero_countdown, updVars, cliVars, devVars>>

Tick ==
  /\ arm_ticks > 0
  /\ arm_ticks' = arm_ticks - 1
  /\ UNCHANGED <<values, freqVars, armed, flagVars, updVars, cliVars, devVars>>

ClientExit ==
  /\ client_alive' = FALSE
  /\ UNCHANGED <<values, freqVars, armed, arm_ticks, flagVars, updVars, cpc,
                 cop, stopped, devVars>>

\* rcio_pwm_update and its callers: the worker, a GPIO request or free
UpdaterNext ==
  \/ \E t \in Updaters : UpdateStep(t)
  \/ \E t \in GpioThreads : ForceZeroLoad(t) \/ ForceZeroStore(t)

\* the PWM chip's users
ClientNext ==
  \/ \E k \in Clients :
       \/ CallbackStep(k)
       \/ Enable(k)
       \/ \E c \in Channels :
            \/ DisableBegin(k, c)
            \/ \E on \in BOOLEAN :
                 \/ ConfigSuppressed(k, c, on)
                 \/ \E f \in Freqs : ConfigBegin(k, c, f, on)
  \/ \E c \in Channels : PwmFree(c)
  \/ ClientExit

Next ==
  \/ UpdaterNext
  \/ ClientNext
  \/ \E m \in Masks : PwmIgnoreStore(m)
  \/ Tick

Spec == Init /\ [][Next]_vars

\* The kernel schedules the worker and every thread inside a callback, and
\* time passes.  Clients and users owe nothing.
Fairness ==
  /\ WF_vars(UpdateStep(Worker))
  /\ \A t \in GpioThreads : WF_vars(UpdateStep(t) \/ ForceZeroStore(t))
  /\ \A k \in Clients : WF_vars(CallbackStep(k))
  /\ WF_vars(Tick)

FairSpec == Spec /\ Fairness

-----------------------------------------------------------------------------
(* Properties                                                              *)

UpdatePcs == {"idle", "add", "begin", "arm", "choose", "clear", "noticed",
              "rate", "ratedone", "fall", "load", "store", "last", "direct"}
ClientPcs == {"idle", "config", "push", "disarm"}

(* The shape of the driver's state and of the board's registers. *)
TypeOK ==
  /\ values \in [Channels -> Duties]
  /\ frequencies \in [Timers -> Freqs]
  /\ new_frequencies \in [Timers -> Freqs]
  /\ frequencies_update_required \in [Timers -> BOOLEAN]
  /\ alt_frequency \in Freqs /\ alt_frequency_updated \in BOOLEAN
  /\ default_frequency \in Freqs /\ default_frequency_updated \in BOOLEAN
  /\ adv_timer_config_supported \in Ways
  /\ armed \in BOOLEAN
  /\ arm_ticks \in 0 .. ArmTicks
  /\ freq_update_noticed \in BOOLEAN
  /\ force_pwmzero_countdown \in Int
  /\ pwm_ignore_writings_mask \in SUBSET Channels
  /\ pc \in [Updaters -> UpdatePcs]
  /\ loc \in [Updaters -> [some : BOOLEAN, stage : Stages, freq : Freqs,
                           count : Int]]
  /\ cpc \in [Clients -> ClientPcs]
  /\ cop \in [Clients -> [ch : Channels, freq : Freqs, on : BOOLEAN]]
  /\ client_alive \in BOOLEAN
  /\ stopped \in SUBSET Channels
  /\ dev_pwm \in [Channels -> Duties]
  /\ dev_rate \in [Stages -> Freqs]

(* While freq_update_noticed is set the board's outputs are blank: nothing  *)
(* drives them between the CLEAR and the end of the rate updates it         *)
(* prepares (rcio_pwm.c:167-204).  The flag is the only thing the driver    *)
(* has to remember it by.  For one updater on a link that delivers.         *)
NoticedMeansCleared == freq_update_noticed => dev_pwm = AllZero

(* A channel whose disable has returned is silent on the board, and stays   *)
(* so until its next config, whatever the worker was sending when           *)
(* rcio_pwm_disable ran (rcio_pwm.c:341-346 against 214).                   *)
StoppedStaysZero == \A c \in stopped : dev_pwm[c] = 0

(* When the PWM clients die the driver stops driving the outputs: after     *)
(* some point no thread writes the duty table to the board any more         *)
(* (rcio_pwm.c:160-165, 462 "timeout in 0.1s").  arm_ticks is armtimeout -  *)
(* jiffies cut off at zero, so this is about the time until armtimeout      *)
(* seems to lie ahead again, half the range of jiffies later: see           *)
(* ArmedInTime of RcioPolls.                                                *)
Failsafe == ~client_alive ~> [](\A t \in Updaters : pc[t] # "direct")

\* A config that asks for another rate than the one last asked for.
FreqRequest ==
  \/ ~SomeFreqUpdated /\ SomeFreqUpdated'
  \/ new_frequencies' # new_frequencies
  \/ alt_frequency' # alt_frequency
  \/ default_frequency' # default_frequency

(* Once the clients stop changing rates, a duty that stays in the table     *)
(* while the outputs stay armed reaches the board: no sequence of clears    *)
(* and rate updates keeps the worker from writing it                        *)
(* (rcio_pwm.c:167-215).                                                    *)
DutyReachesBoard ==
  <>[][~FreqRequest]_vars =>
    \A c \in Channels, v \in Duties :
      values[c] = v ~> \/ dev_pwm[c] = v
                       \/ values[c] # v
                       \/ ~armed

\* No more GPIO request enters rcio_pwm_force_zero_duty.
ForceRequest == \E t \in GpioThreads : pc'[t] = "add"

(* Forcing the duties to zero comes to an end: whatever the races on the    *)
(* countdown between the worker's decrement and the GPIO threads' addition  *)
(* (rcio_pwm.c:148, 206-211), once the GPIO requests stop it runs out and   *)
(* the clients' duties are taken again.                                     *)
ForceZeroEnds ==
  <>[][~ForceRequest]_vars =>
    (force_pwmzero_countdown > 0 ~> force_pwmzero_countdown <= 0)

-----------------------------------------------------------------------------
(* What comments and messages of the code claim, and the code does not do  *)

(* "but first we should clear up values on the device not to have this pwm  *)
(* broken" (rcio_pwm.c:169-171): a rate changes on the board only while     *)
(* all its outputs are zero.                                                *)
ClearBeforeRate == [][dev_rate' # dev_rate => dev_pwm = AllZero]_dev_rate
=============================================================================
