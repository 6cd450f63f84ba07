--------------------------- MODULE RcioPwm_proofs ---------------------------
(***************************************************************************)
(* Proofs about RcioPwm, for every number of timers, channels, frequencies *)
(* and threads.                                                            *)
(***************************************************************************)
EXTENDS RcioPwm, TLAPS

(* The board has a channel 0, the one an idle callback is said to be about. *)
LEMMA ChannelZero == 0 \in Channels
<1>1. TimerCount * ChannelsPerTimer >= 1
  BY PwmAssumption
<1> QED
  BY <1>1, PwmAssumption DEF Channels

(* What ChooseRate picks is a stage, and the rate it reads a frequency. *)
LEMMA PendingStage ==
  ASSUME TypeOK, NEW s \in Pending
  PROVE  s \in Stages /\ Requested(s) \in Freqs
<1>1. s \in Timers \/ s = SET_ALT \/ s = SET_DEF
  BY DEF Pending
<1>2. s \in Stages
  BY <1>1, PwmAssumption DEF Stages, Timers, SET_ALT, SET_DEF
<1>3. Requested(s) \in Freqs
  BY <1>1 DEF Requested, TypeOK
<1> QED
  BY <1>2, <1>3

(* The initial state has the right shape. *)
LEMMA TypeInit == Init => TypeOK
<1> SUFFICES ASSUME Init PROVE TypeOK
  OBVIOUS
<1> USE PwmAssumption
<1>1. 0 \in Stages /\ 0 \in Duties /\ 0 \in 0 .. ArmTicks
  BY DEF Stages, SET_DEF, Duties
<1>2. NoLocals \in [some : BOOLEAN, stage : Stages, freq : Freqs, count : Int]
  BY <1>1 DEF NoLocals
<1>3. NoCall \in [ch : Channels, freq : Freqs, on : BOOLEAN]
  BY ChannelZero DEF NoCall
<1>4. /\ pc \in [Updaters -> UpdatePcs]
      /\ cpc \in [Clients -> ClientPcs]
  BY DEF Init, AtRest, UpdatePcs, ClientPcs
<1>5. /\ values \in [Channels -> Duties]
      /\ dev_pwm \in [Channels -> Duties]
      /\ dev_rate \in [Stages -> Freqs]
  BY <1>1 DEF Init, AllZero
<1>6. /\ loc \in [Updaters -> [some : BOOLEAN, stage : Stages, freq : Freqs,
                               count : Int]]
      /\ cop \in [Clients -> [ch : Channels, freq : Freqs, on : BOOLEAN]]
  BY <1>2, <1>3 DEF Init
<1>7. /\ frequencies \in [Timers -> Freqs]
      /\ new_frequencies \in [Timers -> Freqs]
      /\ frequencies_update_required \in [Timers -> BOOLEAN]
      /\ alt_frequency \in Freqs /\ alt_frequency_updated \in BOOLEAN
      /\ default_frequency \in Freqs /\ default_frequency_updated \in BOOLEAN
      /\ adv_timer_config_supported \in Ways
  BY DEF Init
<1>8. /\ arm_ticks \in 0 .. ArmTicks
      /\ force_pwmzero_countdown \in Int
      /\ pwm_ignore_writings_mask \in SUBSET Channels
      /\ stopped \in SUBSET Channels
  BY <1>1 DEF Init
<1>9. armed \in BOOLEAN /\ freq_update_noticed \in BOOLEAN
      /\ client_alive \in BOOLEAN
  BY Zenon DEF Init
<1> QED
  BY <1>4, <1>5, <1>6, <1>7, <1>8, <1>9 DEF TypeOK

(* A step of rcio_pwm_update keeps the shape of the state. *)
LEMMA TypeUpdate ==
  ASSUME TypeOK, NEW t \in Updaters, UpdateStep(t)
  PROVE  TypeOK'
<1> USE DEF TypeOK, Goto, UpdatePcs
<1>0. AtRest(t) \in UpdatePcs /\ NoLocals \in [some : BOOLEAN, stage : Stages,
                                               freq : Freqs, count : Int]
  BY PwmAssumption DEF AtRest, NoLocals, Stages, SET_DEF
<1>1. CASE ReadFlags(t)
  BY <1>1 DEF ReadFlags, SomeFreqUpdated, freqVars, newWay, oldWay, flagVars,
              cliVars, devVars
<1>2. CASE CheckArmed(t)
  BY <1>2 DEF CheckArmed, freqVars, newWay, oldWay, flagVars, cliVars, devVars
<1>3. CASE ChooseClear(t)
  BY <1>3 DEF ChooseClear, freqVars, newWay, oldWay, flagVars, cliVars, devVars
<1>4. CASE ChooseRate(t)
  <2>1. PICK s \in Pending :
          loc' = [loc EXCEPT ![t].stage = s, ![t].freq = Requested(s)]
    BY <1>4 DEF ChooseRate
  <2>2. s \in Stages /\ Requested(s) \in Freqs
    BY PendingStage
  <2>3. loc' \in [Updaters -> [some : BOOLEAN, stage : Stages, freq : Freqs,
                              count : Int]]
    BY <2>1, <2>2
  <2> QED
    BY <1>4, <2>3 DEF ChooseRate, freqVars, newWay, oldWay, flagVars, cliVars,
                      devVars
<1>5. CASE ChooseNothing(t)
  BY <1>5 DEF ChooseNothing, freqVars, newWay, oldWay, flagVars, cliVars,
              devVars
<1>6. CASE SendClear(t)
  BY <1>6 DEF SendClear, Sent, AllZero, Duties, freqVars, newWay, oldWay,
              flagVars, cliVars, devVars
<1>7. CASE NoticeUpdate(t)
  BY <1>0, <1>7 DEF NoticeUpdate, Return, freqVars, newWay, oldWay, cliVars,
                    devVars
<1>8. CASE SendRate(t)
  BY <1>8 DEF SendRate, Sent, freqVars, newWay, oldWay, flagVars, cliVars
<1>9. CASE RecordRate(t)
  <2>1. loc' \in [Updaters -> [some : BOOLEAN, stage : Stages, freq : Freqs,
                              count : Int]]
    BY <1>0, <1>9 DEF RecordRate, Return
  <2>2. pc' \in [Updaters -> UpdatePcs]
    BY <1>0, <1>9 DEF RecordRate, Return
  <2>3. /\ frequencies' \in [Timers -> Freqs]
        /\ frequencies_update_required' \in [Timers -> BOOLEAN]
    BY <1>9 DEF RecordRate
  <2>4. /\ alt_frequency_updated' \in BOOLEAN
        /\ default_frequency_updated' \in BOOLEAN
    BY <1>9 DEF RecordRate
  <2> QED
    BY <1>9, <2>1, <2>2, <2>3, <2>4 DEF RecordRate, flagVars, cliVars, devVars
<1>10. CASE FallThrough(t)
  <2>1. pc' \in [Updaters -> UpdatePcs]
    BY <1>10 DEF FallThrough
  <2>2. freq_update_noticed' \in BOOLEAN
    BY <1>10, Zenon DEF FallThrough
  <2>3. force_pwmzero_countdown' \in Int
    BY <1>10 DEF FallThrough
  <2> QED
    BY <1>10, <2>1, <2>2, <2>3
     DEF FallThrough, freqVars, newWay, oldWay, cliVars,
                             devVars
<1>11. CASE LoadCountdown(t)
  BY <1>11 DEF LoadCountdown, freqVars, newWay, oldWay, flagVars, cliVars,
               devVars
<1>12. CASE StoreCountdown(t)
  BY <1>12 DEF StoreCountdown, ZeroValues, Duties, freqVars, newWay, oldWay,
               cliVars, devVars
<1>13. CASE ChooseDirect(t)
  BY <1>13 DEF ChooseDirect, freqVars, newWay, oldWay, flagVars, cliVars,
               devVars
<1>14. CASE SkipDirect(t)
  BY <1>0, <1>14 DEF SkipDirect, Return, freqVars, newWay, oldWay, flagVars,
                     cliVars, devVars
<1>15. CASE SendDirect(t)
  BY <1>0, <1>15 DEF SendDirect, Return, Sent, freqVars, newWay, oldWay,
                     flagVars, cliVars
<1> QED
  BY <1>1, <1>2, <1>3, <1>4, <1>5, <1>6, <1>7, <1>8, <1>9, <1>10, <1>11,
     <1>12, <1>13, <1>14, <1>15 DEF UpdateStep

(* So does a step of a GPIO request that forces the duties to zero. *)
LEMMA TypeForceZero ==
  ASSUME TypeOK, NEW t \in GpioThreads, ForceZeroLoad(t) \/ ForceZeroStore(t)
  PROVE  TypeOK'
<1> USE DEF TypeOK, Goto, UpdatePcs, Updaters
<1>0. NoLocals \in [some : BOOLEAN, stage : Stages, freq : Freqs, count : Int]
  BY PwmAssumption DEF NoLocals, Stages, SET_DEF
<1>1. CASE ForceZeroLoad(t)
  BY <1>1 DEF ForceZeroLoad, freqVars, newWay, oldWay, flagVars, cliVars,
              devVars
<1>2. CASE ForceZeroStore(t)
  <2>1. loc[t].count + ZeroSkipUpdateCycles \in Int
    BY PwmAssumption
  <2> QED
    BY <1>0, <1>2, <2>1 DEF ForceZeroStore, freqVars, newWay, oldWay, cliVars,
                            devVars
<1> QED
  BY <1>1, <1>2

(* A step of a PWM callback keeps the shape of the state. *)
LEMMA TypeCallback ==
  ASSUME TypeOK, NEW k \in Clients, CallbackStep(k)
  PROVE  TypeOK'
<1> USE DEF TypeOK, CGoto, CReturn, ClientPcs
<1>0. NoCall \in [ch : Channels, freq : Freqs, on : BOOLEAN]
  BY ChannelZero, PwmAssumption DEF NoCall
<1>1. CASE ConfigNewWay(k)
  <2>1. /\ new_frequencies' \in [Timers -> Freqs]
        /\ frequencies_update_required' \in [Timers -> BOOLEAN]
    BY <1>1 DEF ConfigNewWay
  <2>2. values' \in [Channels -> Duties]
    BY <1>1 DEF ConfigNewWay, Duty, Duties
  <2> QED
    BY <1>0, <1>1, <2>1, <2>2 DEF ConfigNewWay, oldWay, flagVars, updVars,
                                  devVars
<1>2. CASE ConfigOldWay(k)
  <2>1. /\ alt_frequency' \in Freqs
        /\ default_frequency' \in Freqs
        /\ alt_frequency_updated' \in BOOLEAN
        /\ default_frequency_updated' \in BOOLEAN
    BY <1>2 DEF ConfigOldWay
  <2>2. values' \in [Channels -> Duties]
    BY <1>2 DEF ConfigOldWay, Duty, Duties
  <2> QED
    BY <1>0, <1>2, <2>1, <2>2 DEF ConfigOldWay, newWay, flagVars, updVars,
                                  devVars
<1>3. CASE SendPin(k)
  <2>1. cop[k].ch \in Channels
    OBVIOUS
  <2>2. dev_pwm' \in [Channels -> Duties]
    BY <1>3, <2>1 DEF SendPin, Sent
  <2> QED
    BY <1>3, <2>2 DEF SendPin, freqVars, newWay, oldWay, flagVars, updVars
<1>4. CASE Disarm(k)
  <2>1. armed' \in BOOLEAN
    BY <1>4, Zenon DEF Disarm
  <2>2. stopped' \in SUBSET Channels
    BY <1>4 DEF Disarm
  <2>3. /\ cpc' \in [Clients -> ClientPcs]
        /\ cop' \in [Clients -> [ch : Channels, freq : Freqs, on : BOOLEAN]]
    BY <1>0, <1>4 DEF Disarm
  <2> QED
    BY <1>4, <2>1, <2>2, <2>3 DEF Disarm, freqVars, newWay, oldWay, flagVars,
                                  updVars, devVars
<1> QED
  BY <1>1, <1>2, <1>3, <1>4 DEF CallbackStep

(* And so do the calls that begin, and the surroundings. *)
LEMMA TypeCalls ==
  ASSUME TypeOK, NEW k \in Clients, NEW c \in Channels, NEW f \in Freqs,
         NEW on \in BOOLEAN,
         \/ Enable(k) \/ DisableBegin(k, c)
         \/ ConfigSuppressed(k, c, on) \/ ConfigBegin(k, c, f, on)
  PROVE  TypeOK'
<1> USE DEF TypeOK, CGoto, ClientPcs
<1>1. CASE Enable(k)
  BY <1>1 DEF Enable, freqVars, newWay, oldWay, flagVars, updVars, cliVars,
              devVars
<1>2. CASE DisableBegin(k, c)
  BY <1>2 DEF DisableBegin, Duties, freqVars, newWay, oldWay, flagVars,
              updVars, devVars
<1>3. CASE ConfigSuppressed(k, c, on)
  BY <1>3 DEF ConfigSuppressed, Duties, freqVars, newWay, oldWay, flagVars,
              updVars, cliVars, devVars
<1>4. CASE ConfigBegin(k, c, f, on)
  BY <1>4, PwmAssumption DEF ConfigBegin, ArmTimeout, freqVars, newWay, oldWay, flagVars,
                             updVars, devVars
<1> QED
  BY <1>1, <1>2, <1>3, <1>4

LEMMA TypeSurroundings ==
  ASSUME TypeOK,
         \/ (\E m \in Masks : PwmIgnoreStore(m)) \/ Tick \/ ClientExit
         \/ \E c \in Channels : PwmFree(c)
  PROVE  TypeOK'
<1> USE DEF TypeOK
<1>1. ASSUME NEW m \in Masks, PwmIgnoreStore(m) PROVE TypeOK'
  BY <1>1, PwmAssumption DEF PwmIgnoreStore, freqVars, newWay, oldWay,
                             updVars, cliVars, devVars
<1>2. CASE Tick
  BY <1>2, PwmAssumption DEF Tick, freqVars, newWay, oldWay, flagVars,
                             updVars, cliVars, devVars
<1>3. CASE ClientExit
  BY <1>3 DEF ClientExit, freqVars, newWay, oldWay, flagVars, updVars,
              devVars
<1>4. ASSUME NEW c \in Channels, PwmFree(c) PROVE TypeOK'
  BY <1>4 DEF PwmFree, Duties, freqVars, newWay, oldWay, flagVars, updVars,
              cliVars, devVars
<1> QED
  BY <1>1, <1>2, <1>3, <1>4

LEMMA TypeStutter == TypeOK /\ UNCHANGED vars => TypeOK'
  BY DEF TypeOK, vars, freqVars, newWay, oldWay, flagVars, updVars, cliVars,
         devVars

(* Every step keeps the shape. *)
LEMMA TypeNext ==
  ASSUME TypeOK, [Next]_vars
  PROVE  TypeOK'
<1>1. ASSUME NEW t \in Updaters, UpdateStep(t) PROVE TypeOK'
  BY <1>1, TypeUpdate
<1>2. ASSUME NEW t \in GpioThreads, ForceZeroLoad(t) \/ ForceZeroStore(t)
      PROVE  TypeOK'
  BY <1>2, TypeForceZero
<1>3. ASSUME NEW k \in Clients, CallbackStep(k) PROVE TypeOK'
  BY <1>3, TypeCallback
<1>4. ASSUME NEW k \in Clients, NEW c \in Channels, NEW f \in Freqs,
             NEW on \in BOOLEAN,
             \/ Enable(k) \/ DisableBegin(k, c)
             \/ ConfigSuppressed(k, c, on) \/ ConfigBegin(k, c, f, on)
      PROVE  TypeOK'
  BY <1>4, TypeCalls
<1>5. CASE \/ (\E m \in Masks : PwmIgnoreStore(m)) \/ Tick \/ ClientExit
           \/ \E c \in Channels : PwmFree(c)
  BY <1>5, TypeSurroundings
<1>6. 0 \in Channels /\ DefaultFreq \in Freqs /\ TRUE \in BOOLEAN
  BY ChannelZero, PwmAssumption
<1>7. CASE UNCHANGED vars
  BY <1>7, TypeStutter
<1> QED
  BY <1>1, <1>2, <1>3, <1>4, <1>5, <1>6, <1>7, Zenon
   DEF Next, UpdaterNext, ClientNext

(* The state of the driver and the board keeps its shape. *)
THEOREM PwmTypeCorrect == Spec => []TypeOK
<1>1. TypeOK /\ [Next]_vars => TypeOK'
  BY TypeNext
<1> QED
  BY <1>1, TypeInit, PTL DEF Spec

-----------------------------------------------------------------------------
(* A stopped channel stays silent.  The property is not inductive: that a   *)
(* DIRECT_PWM write cannot wake a stopped channel rests on the duty table,  *)
(* which must be zero there from the start of rcio_pwm_disable on, and that *)
(* on the PWM core running the callbacks of a channel one at a time.        *)

Exclusive ==
  \A k, l \in Clients :
    k # l /\ cpc[k] # "idle" /\ cpc[l] # "idle" => cop[k].ch # cop[l].ch

DisabledZero ==
  \A k \in Clients : cpc[k] \in {"push", "disarm"} => values[cop[k].ch] = 0

PushedZero ==
  \A k \in Clients : cpc[k] = "disarm" => dev_pwm[cop[k].ch] = 0

ConfigStarts ==
  \A k \in Clients : cpc[k] = "config" => cop[k].ch \notin stopped

StoppedZero ==
  \A c \in stopped : values[c] = 0 /\ dev_pwm[c] = 0

StoppedInv == Exclusive /\ DisabledZero /\ PushedZero /\ ConfigStarts
                        /\ StoppedZero

(* What every thread but a callback may do to the tables: zero a duty,      *)
(* blank an output or give it its duty.                                     *)
Quiet ==
  /\ UNCHANGED <<cpc, cop, stopped>>
  /\ \A c \in Channels : /\ values'[c] \in {0, values[c]}
                         /\ dev_pwm'[c] \in {0, dev_pwm[c], values[c]}

LEMMA UpdateQuiet ==
  ASSUME TypeOK, ~Faulty, NEW t \in Updaters, UpdateStep(t)
  PROVE  Quiet
<1> USE DEF Quiet, cliVars, devVars
<1>1. CASE SendClear(t)
  BY <1>1 DEF SendClear, Sent, AllZero
<1>2. CASE StoreCountdown(t)
  BY <1>2 DEF StoreCountdown, ZeroValues
<1>3. CASE SendDirect(t)
  BY <1>3 DEF SendDirect, Sent
<1>4. CASE \/ ReadFlags(t) \/ CheckArmed(t) \/ ChooseClear(t) \/ ChooseRate(t)
           \/ ChooseNothing(t) \/ NoticeUpdate(t) \/ SendRate(t)
           \/ RecordRate(t) \/ FallThrough(t) \/ LoadCountdown(t)
           \/ ChooseDirect(t) \/ SkipDirect(t)
  BY <1>4 DEF ReadFlags, CheckArmed, ChooseClear, ChooseRate, ChooseNothing,
              NoticeUpdate, SendRate, RecordRate, FallThrough, LoadCountdown,
              ChooseDirect, SkipDirect
<1> QED
  BY <1>1, <1>2, <1>3, <1>4 DEF UpdateStep

LEMMA OthersQuiet ==
  ASSUME TypeOK,
         \/ \E t \in GpioThreads : ForceZeroLoad(t) \/ ForceZeroStore(t)
         \/ \E k \in Clients : Enable(k)
         \/ \E m \in Masks : PwmIgnoreStore(m)
         \/ Tick \/ ClientExit \/ UNCHANGED vars
  PROVE  Quiet
  BY DEF Quiet, cliVars, devVars, vars, ForceZeroLoad, ForceZeroStore, Enable,
         PwmIgnoreStore, Tick, ClientExit

LEMMA QuietStopped ==
  ASSUME TypeOK, StoppedInv, Quiet
  PROVE  StoppedInv'
<1>1. \A k \in Clients : cop[k].ch \in Channels
  BY DEF TypeOK
<1>2. stopped \subseteq Channels
  BY DEF TypeOK
<1>3. UNCHANGED <<cpc, cop, stopped>>
  BY DEF Quiet
<1>4. Exclusive' /\ ConfigStarts'
  BY <1>3 DEF StoppedInv, Exclusive, ConfigStarts
<1>5. DisabledZero'
  BY <1>1, <1>3 DEF StoppedInv, DisabledZero, Quiet
<1>6. PushedZero'
  BY <1>1, <1>3 DEF StoppedInv, DisabledZero, PushedZero, Quiet
<1>7. StoppedZero'
  BY <1>2, <1>3 DEF StoppedInv, StoppedZero, Quiet
<1> QED
  BY <1>4, <1>5, <1>6, <1>7 DEF StoppedInv

LEMMA ConfigStopped ==
  ASSUME TypeOK, StoppedInv, NEW k \in Clients,
         ConfigNewWay(k) \/ ConfigOldWay(k)
  PROVE  StoppedInv'
<1>1. /\ cpc[k] = "config"
      /\ cpc' = [cpc EXCEPT ![k] = "idle"]
      /\ cop' = [cop EXCEPT ![k] = NoCall]
      /\ UNCHANGED <<stopped, dev_pwm>>
  BY DEF ConfigNewWay, ConfigOldWay, CReturn, CGoto, devVars
<1>2. \A c \in Channels : c # cop[k].ch => values'[c] = values[c]
  BY DEF ConfigNewWay, ConfigOldWay, TypeOK
<1>3. \A l \in Clients : l # k => cpc'[l] = cpc[l] /\ cop'[l] = cop[l]
  BY <1>1 DEF TypeOK
<1>4. cpc'[k] = "idle"
  BY <1>1 DEF TypeOK
<1>5. \A l \in Clients : cop[l].ch \in Channels
  BY DEF TypeOK
<1>6. \A l \in Clients : l # k /\ cpc[l] # "idle"
                           => values'[cop[l].ch] = values[cop[l].ch]
  BY <1>1, <1>2, <1>5 DEF StoppedInv, Exclusive
<1>7. Exclusive'
  BY <1>3, <1>4 DEF StoppedInv, Exclusive
<1>8. DisabledZero'
  BY <1>3, <1>4, <1>6 DEF StoppedInv, DisabledZero
<1>9. PushedZero'
  BY <1>1, <1>3, <1>4 DEF StoppedInv, PushedZero
<1>10. ConfigStarts'
  BY <1>1, <1>3, <1>4 DEF StoppedInv, ConfigStarts
<1>11. StoppedZero'
  <2>1. cop[k].ch \notin stopped
    BY <1>1 DEF StoppedInv, ConfigStarts
  <2>2. stopped \subseteq Channels
    BY DEF TypeOK
  <2> QED
    BY <1>1, <1>2, <2>1, <2>2 DEF StoppedInv, StoppedZero
<1> QED
  BY <1>7, <1>8, <1>9, <1>10, <1>11 DEF StoppedInv

LEMMA SuppressStopped ==
  ASSUME TypeOK, StoppedInv, NEW k \in Clients, NEW c \in Channels,
         NEW on \in BOOLEAN, ConfigSuppressed(k, c, on)
  PROVE  StoppedInv'
<1>1. Quiet
  BY DEF ConfigSuppressed, Quiet, TypeOK, cliVars, devVars
<1> QED
  BY <1>1, QuietStopped

LEMMA FreeStopped ==
  ASSUME TypeOK, StoppedInv, NEW c \in Channels, PwmFree(c)
  PROVE  StoppedInv'
<1>1. Quiet
  BY DEF PwmFree, Quiet, TypeOK, cliVars, devVars
<1> QED
  BY <1>1, QuietStopped

(* A callback begins: the PWM core has no other one on the channel. *)
LEMMA BeginStopped ==
  ASSUME TypeOK, StoppedInv, NEW k \in Clients, NEW c \in Channels,
         NEW f \in Freqs, NEW on \in BOOLEAN,
         ConfigBegin(k, c, f, on) \/ DisableBegin(k, c)
  PROVE  StoppedInv'
<1>1. /\ cpc[k] = "idle"
      /\ \A l \in Clients : cpc[l] # "idle" => cop[l].ch # c
      /\ dev_pwm' = dev_pwm
  BY DEF ConfigBegin, DisableBegin, Free, CGoto, devVars
<1>2. /\ cop'[k].ch = c
      /\ \A l \in Clients : l # k => cpc'[l] = cpc[l] /\ cop'[l] = cop[l]
  BY DEF ConfigBegin, DisableBegin, CGoto, TypeOK
<1>3. \/ cpc'[k] = "config" /\ values' = values /\ stopped' = stopped \ {c}
      \/ /\ cpc'[k] = "push" /\ stopped' = stopped
         /\ values' = [values EXCEPT ![c] = 0]
  BY DEF ConfigBegin, DisableBegin, CGoto, TypeOK
<1>4. /\ values'[c] \in {0, values[c]}
      /\ \A d \in Channels : d # c => values'[d] = values[d]
  BY <1>3 DEF TypeOK
<1>5. stopped \subseteq Channels /\ \A l \in Clients : cop[l].ch \in Channels
  BY DEF TypeOK
<1>6. Exclusive'
  BY <1>1, <1>2 DEF StoppedInv, Exclusive
<1>7. DisabledZero'
  <2>1. cpc'[k] = "push" => values'[c] = 0
    BY <1>3 DEF TypeOK
  <2> QED
    BY <1>1, <1>2, <1>3, <1>4, <1>5, <2>1 DEF StoppedInv, DisabledZero
<1>8. PushedZero'
  BY <1>1, <1>2, <1>3 DEF StoppedInv, PushedZero
<1>9. ConfigStarts'
  BY <1>1, <1>2, <1>3 DEF StoppedInv, ConfigStarts
<1>10. StoppedZero'
  BY <1>1, <1>3, <1>4, <1>5 DEF StoppedInv, StoppedZero
<1> QED
  BY <1>6, <1>7, <1>8, <1>9, <1>10 DEF StoppedInv

(* The rest of rcio_pwm_disable. *)
LEMMA DisableStopped ==
  ASSUME TypeOK, StoppedInv, ~Faulty, NEW k \in Clients,
         SendPin(k) \/ Disarm(k)
  PROVE  StoppedInv'
<1>1. CASE SendPin(k)
  <2> DEFINE c == cop[k].ch
  <2>1. c \in Channels /\ stopped \subseteq Channels
    BY DEF TypeOK
  <2>2. cpc[k] = "push" /\ values[c] = 0
    BY <1>1 DEF SendPin, CGoto, StoppedInv, DisabledZero
  <2>3. /\ dev_pwm' = [dev_pwm EXCEPT ![c] = 0]
        /\ cpc' = [cpc EXCEPT ![k] = "disarm"]
        /\ UNCHANGED <<values, cop, stopped>>
    BY <1>1, <2>2 DEF SendPin, CGoto, Sent
  <2>4. \A d \in Channels : dev_pwm'[d] \in {0, dev_pwm[d]}
    BY <2>3 DEF TypeOK
  <2>5. dev_pwm'[c] = 0
    BY <2>1, <2>3 DEF TypeOK
  <2>6. \A l \in Clients : cop[l].ch \in Channels
    BY DEF TypeOK
  <2>7. \A l \in Clients : cpc'[l] = IF l = k THEN "disarm" ELSE cpc[l]
    BY <2>3 DEF TypeOK
  <2>8. Exclusive' /\ DisabledZero' /\ ConfigStarts'
    BY <2>2, <2>3, <2>7
    DEF StoppedInv, Exclusive, DisabledZero, ConfigStarts
  <2>9. PushedZero'
    BY <2>3, <2>4, <2>5, <2>6, <2>7 DEF StoppedInv, PushedZero
  <2>10. StoppedZero'
    BY <2>1, <2>3, <2>4 DEF StoppedInv, StoppedZero
  <2> QED
    BY <2>8, <2>9, <2>10 DEF StoppedInv
<1>2. CASE Disarm(k)
  <2> DEFINE c == cop[k].ch
  <2>1. /\ cpc[k] = "disarm"
        /\ cpc' = [cpc EXCEPT ![k] = "idle"]
        /\ cop' = [cop EXCEPT ![k] = NoCall]
        /\ stopped' = stopped \cup {c}
        /\ UNCHANGED <<values, dev_pwm>>
    BY <1>2 DEF Disarm, CReturn, CGoto, devVars
  <2>2. /\ cpc'[k] = "idle"
        /\ \A l \in Clients : l # k => cpc'[l] = cpc[l] /\ cop'[l] = cop[l]
    BY <2>1 DEF TypeOK
  <2>3. values[c] = 0 /\ dev_pwm[c] = 0
    BY <2>1 DEF StoppedInv, DisabledZero, PushedZero
  <2>4. \A l \in Clients : l # k /\ cpc[l] # "idle" => cop[l].ch # c
    BY <2>1 DEF StoppedInv, Exclusive
  <2>5. Exclusive' /\ DisabledZero' /\ PushedZero'
    BY <2>1, <2>2 DEF StoppedInv, Exclusive, DisabledZero, PushedZero
  <2>6. ConfigStarts'
    BY <2>1, <2>2, <2>4 DEF StoppedInv, ConfigStarts
  <2>7. StoppedZero'
    BY <2>1, <2>3 DEF StoppedInv, StoppedZero
  <2> QED
    BY <2>5, <2>6, <2>7 DEF StoppedInv
<1> QED
  BY <1>1, <1>2

LEMMA StoppedStep ==
  ASSUME TypeOK, StoppedInv, ~Faulty, [Next]_vars
  PROVE  StoppedInv'
<1>1. ASSUME NEW t \in Updaters, UpdateStep(t) PROVE StoppedInv'
  BY <1>1, UpdateQuiet, QuietStopped
<1>2. CASE \/ \E t \in GpioThreads : ForceZeroLoad(t) \/ ForceZeroStore(t)
           \/ \E k \in Clients : Enable(k)
           \/ \E m \in Masks : PwmIgnoreStore(m)
           \/ Tick \/ ClientExit \/ UNCHANGED vars
  BY <1>2, OthersQuiet, QuietStopped
<1>3. ASSUME NEW k \in Clients, CallbackStep(k) PROVE StoppedInv'
  BY <1>3, ConfigStopped, DisableStopped DEF CallbackStep
<1>4. ASSUME NEW k \in Clients, NEW c \in Channels, DisableBegin(k, c)
      PROVE  StoppedInv'
  <2>1. DefaultFreq \in Freqs /\ TRUE \in BOOLEAN
    BY PwmAssumption
  <2> QED
    BY <1>4, <2>1, BeginStopped
<1>5. ASSUME NEW k \in Clients, NEW c \in Channels, NEW on \in BOOLEAN,
             \/ ConfigSuppressed(k, c, on)
             \/ \E f \in Freqs : ConfigBegin(k, c, f, on)
      PROVE  StoppedInv'
  BY <1>5, SuppressStopped, BeginStopped
<1>6. ASSUME NEW c \in Channels, PwmFree(c) PROVE StoppedInv'
  BY <1>6, FreeStopped
<1> QED
  BY <1>1, <1>2, <1>3, <1>4, <1>5, <1>6, Zenon
     DEF Next, UpdaterNext, ClientNext

LEMMA StoppedInit == Init => StoppedInv
  BY DEF Init, StoppedInv, Exclusive, DisabledZero, PushedZero, ConfigStarts,
         StoppedZero

(* On a link that delivers, a channel whose disable has returned stays      *)
(* silent until its next config, with any number of clients and of GPIO     *)
(* threads that run the update beside the worker.                           *)
THEOREM PwmStoppedStaysZero == ~Faulty /\ Spec => []StoppedStaysZero
<1>1. ~Faulty /\ Spec => []StoppedInv
  <2>1. TypeOK /\ StoppedInv /\ ~Faulty /\ [Next]_vars => StoppedInv'
    BY StoppedStep
  <2>2. CASE ~Faulty
    <3>1. TypeOK /\ StoppedInv /\ [Next]_vars => StoppedInv'
      BY <2>1, <2>2
    <3> QED
      BY <3>1, StoppedInit, PwmTypeCorrect, PTL DEF Spec
  <2> QED
    BY <2>2
<1>2. StoppedInv => StoppedStaysZero
  BY DEF StoppedInv, StoppedZero, StoppedStaysZero
<1> QED
  BY <1>1, <1>2, PTL

-----------------------------------------------------------------------------
(* While freq_update_noticed is set the outputs are blank.  The flag is     *)
(* remembered between passes: what keeps the table off the board is that no *)
(* pass gets past the assignment of FALSE with the flag still set, and that *)
(* the only other writer, rcio_pwm_disable, writes zeros.                   *)

NoticedInv ==
  /\ freq_update_noticed \/ pc[Worker] = "noticed" => dev_pwm = AllZero
  /\ freq_update_noticed =>
       pc[Worker] \in {"begin", "arm", "choose", "rate", "ratedone", "fall"}

LEMMA NoticedInit == Init => NoticedInv
  BY DEF Init, NoticedInv, Updaters, AtRest

LEMMA NoticedUpdate ==
  ASSUME TypeOK, NoticedInv, ~Faulty, UpdateStep(Worker)
  PROVE  NoticedInv'
<1> Worker \in Updaters
  BY DEF Updaters
<1> USE DEF NoticedInv, Goto, TypeOK
<1>1. CASE SendClear(Worker)
  BY <1>1 DEF SendClear, Sent, flagVars
<1>2. CASE NoticeUpdate(Worker)
  BY <1>2 DEF NoticeUpdate, Return, AtRest, devVars
<1>3. CASE SendDirect(Worker)
  BY <1>3 DEF SendDirect, Return, AtRest, flagVars
<1>4. CASE FallThrough(Worker)
  BY <1>4 DEF FallThrough, devVars
<1>5. CASE ReadFlags(Worker) \/ CheckArmed(Worker)
  BY <1>5 DEF ReadFlags, CheckArmed, flagVars, devVars
<1>6. CASE ChooseClear(Worker) \/ ChooseRate(Worker) \/ ChooseNothing(Worker)
  BY <1>6 DEF ChooseClear, ChooseRate, ChooseNothing, MustClear, flagVars,
              devVars
<1>7. CASE SendRate(Worker)
  BY <1>7 DEF SendRate, flagVars
<1>8. CASE RecordRate(Worker)
  BY <1>8 DEF RecordRate, Return, AtRest, flagVars, devVars
<1>9. CASE LoadCountdown(Worker) \/ StoreCountdown(Worker)
  BY <1>9 DEF LoadCountdown, StoreCountdown, flagVars, devVars
<1>10. CASE ChooseDirect(Worker) \/ SkipDirect(Worker)
  BY <1>10 DEF ChooseDirect, SkipDirect, Return, AtRest, flagVars, devVars
<1> QED
  BY <1>1, <1>2, <1>3, <1>4, <1>5, <1>6, <1>7, <1>8, <1>9, <1>10
  DEF UpdateStep

(* The other threads leave the flag and the worker alone, and the board     *)
(* too, but for the zero that a disable writes.                             *)
LEMMA NoticedOthers ==
  ASSUME TypeOK, NoticedInv, ~Faulty,
         UNCHANGED <<pc, freq_update_noticed>>,
         \A c \in Channels : dev_pwm'[c] \in {0, dev_pwm[c]},
         dev_pwm' \in [Channels -> Duties]
  PROVE  NoticedInv'
<1>1. dev_pwm = AllZero => dev_pwm' = AllZero
  BY DEF AllZero
<1> QED
  BY <1>1 DEF NoticedInv

LEMMA NoticedStep ==
  ASSUME TypeOK, TypeOK', StoppedInv, NoticedInv, ~Faulty, GpioThreads = {},
         [Next]_vars
  PROVE  NoticedInv'
<1>1. ASSUME NEW t \in Updaters, UpdateStep(t) PROVE NoticedInv'
  <2>1. t = Worker
    BY DEF Updaters
  <2> QED
    BY <1>1, <2>1, NoticedUpdate
<1>2. ASSUME NEW k \in Clients, SendPin(k) PROVE NoticedInv'
  <2>1. cpc[k] = "push" /\ values[cop[k].ch] = 0
    BY <1>2 DEF SendPin, CGoto, StoppedInv, DisabledZero
  <2>2. dev_pwm' = [dev_pwm EXCEPT ![cop[k].ch] = 0]
    BY <1>2, <2>1 DEF SendPin, Sent
  <2>3. \A c \in Channels : dev_pwm'[c] \in {0, dev_pwm[c]}
    BY <2>2 DEF TypeOK
  <2>4. UNCHANGED <<pc, freq_update_noticed>>
    BY <1>2 DEF SendPin, updVars, flagVars
  <2> QED
    BY <2>3, <2>4, NoticedOthers DEF TypeOK
<1>3. ASSUME UNCHANGED <<pc, freq_update_noticed, dev_pwm>> PROVE NoticedInv'
  BY <1>3 DEF NoticedInv
<1>4. ASSUME NEW k \in Clients,
             \/ ConfigNewWay(k) \/ ConfigOldWay(k) \/ Disarm(k) \/ Enable(k)
             \/ \E c \in Channels : DisableBegin(k, c)
             \/ \E c \in Channels, on \in BOOLEAN : ConfigSuppressed(k, c, on)
             \/ \E c \in Channels, on \in BOOLEAN, f \in Freqs :
                  ConfigBegin(k, c, f, on)
      PROVE  UNCHANGED <<pc, freq_update_noticed, dev_pwm>>
  BY <1>4 DEF ConfigNewWay, ConfigOldWay, Disarm, Enable, DisableBegin,
              ConfigSuppressed, ConfigBegin, updVars, flagVars, devVars
<1>5. CASE (\E m \in Masks : PwmIgnoreStore(m)) \/ Tick \/ ClientExit
           \/ (\E c \in Channels : PwmFree(c))
           \/ UNCHANGED vars
  BY <1>3, <1>5 DEF PwmIgnoreStore, Tick, ClientExit, PwmFree, vars, updVars,
                    flagVars, devVars
<1> QED
  BY <1>1, <1>2, <1>3, <1>4, <1>5, Zenon
     DEF Next, UpdaterNext, ClientNext, CallbackStep

(* When the worker alone runs the update, on a link that delivers, the      *)
(* outputs are blank for as long as freq_update_noticed is set.             *)
THEOREM PwmNoticedMeansCleared ==
  ~Faulty /\ GpioThreads = {} /\ Spec => []NoticedMeansCleared
<1>1. CASE ~Faulty /\ GpioThreads = {}
  <2>1. /\ TypeOK /\ TypeOK' /\ StoppedInv /\ NoticedInv /\ [Next]_vars
        => NoticedInv'
    BY <1>1, NoticedStep
  <2>2. TypeOK /\ StoppedInv /\ [Next]_vars => StoppedInv'
    BY <1>1, StoppedStep
  <2>3. NoticedInv => NoticedMeansCleared
    BY DEF NoticedInv, NoticedMeansCleared
  <2> QED
    BY <2>1, <2>2, <2>3, StoppedInit, NoticedInit, PwmTypeCorrect, PTL DEF Spec
<1> QED
  BY <1>1
=============================================================================
