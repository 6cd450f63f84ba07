---------------------------- MODULE RcioPwmProbe ----------------------------
(***************************************************************************)
(* The start of the PWM path: rcio_pwm_probe and rcio_hardware_init        *)
(* (src/src/rcio_pwm.c), composed with RcioPwm, which is what runs once    *)
(* they are done.                                                          *)
(*                                                                         *)
(* The probe adds the PWM chip first.  From then on clients can call it,   *)
(* while the probe still asks the firmware which way it takes rates and    *)
(* sends the first ones.  The worker, the GPIO chip and its attributes     *)
(* start after the probe.  (What a failed probe leaves behind is the       *)
(* subject of RcioLifecycle.)                                              *)
(***************************************************************************)
EXTENDS RcioPwm

CONSTANTS
  EarlyClients   \* may clients call the chip before the probe is done?

ASSUME ProbeAssumption == EarlyClients \in BOOLEAN /\ Ways = BOOLEAN

VARIABLES
  probe,      \* where the probe is
  timer,      \* its loop over the timers
  firmware    \* board: does its firmware have a rate per timer?

probeVars == <<probe, timer, firmware>>
allVars   == <<vars, probeVars>>
restVars  == <<values, armed, arm_ticks, flagVars, updVars, cliVars, dev_pwm>>

\* The chip is added, adv_timer_config_supported still false.
ProbeInit ==
  /\ Init /\ ~adv_timer_config_supported
  /\ probe = "features" /\ timer = 0
  /\ firmware \in Ways

ProbeGoto(from, to) == probe = from /\ probe' = to

\* Nobody looks at the result: a lost read leaves setup_features
\* uninitialised.
ReadFeatures ==
  /\ ProbeGoto("features", "rates")
  /\ adv_timer_config_supported' \in {firmware} \cup (IF Faulty THEN BOOLEAN
                                                      ELSE {})
  /\ UNCHANGED <<newWay, oldWay, restVars, dev_rate, timer, firmware>>

\* New way: rcio_pwm_update_frequency(state, i), which leaves the request
\* flag alone.
SendTimerRate ==
  /\ adv_timer_config_supported
  /\ ProbeGoto("rates", "record")
  /\ dev_rate' \in Sent([dev_rate EXCEPT ![timer] = new_frequencies[timer]],
                        dev_rate)
  /\ UNCHANGED <<freqVars, restVars, timer, firmware>>

\* Mutant: the loop goes one timer too far.
RecordOneTooMany ==
  /\ ProbeGoto("record", IF timer = TimerCount THEN "done" ELSE "rates")
  /\ frequencies' = [frequencies EXCEPT ![timer] = new_frequencies[timer]]
  /\ timer' = IF timer = TimerCount THEN 0 ELSE timer + 1
  /\ UNCHANGED <<new_frequencies, frequencies_update_required, oldWay,
                 adv_timer_config_supported, restVars, dev_rate, firmware>>

RecordTimerRate ==
  /\ ProbeGoto("record", IF timer + 1 = TimerCount THEN "done" ELSE "rates")
  /\ frequencies' = [frequencies EXCEPT ![timer] = new_frequencies[timer]]
  /\ timer' = IF timer + 1 = TimerCount THEN 0 ELSE timer + 1
  /\ UNCHANGED <<new_frequencies, frequencies_update_required, oldWay,
                 adv_timer_config_supported, restVars, dev_rate, firmware>>

\* Old way: PX4IO_P_SETUP_PWM_ALTRATE, then PX4IO_P_SETUP_PWM_DEFAULTRATE
SendAltRate ==
  /\ ~adv_timer_config_supported
  /\ ProbeGoto("rates", "default")
  /\ dev_rate' = [dev_rate EXCEPT ![SET_ALT] = alt_frequency]
  /\ UNCHANGED <<freqVars, restVars, timer, firmware>>

SendDefaultRate ==
  /\ ProbeGoto("default", "done")
  /\ dev_rate' = [dev_rate EXCEPT ![SET_DEF] = default_frequency]
  /\ UNCHANGED <<freqVars, restVars, timer, firmware>>

ProbeStep ==
  \/ ReadFeatures
  \/ SendTimerRate \/ RecordTimerRate \/ SendAltRate \/ SendDefaultRate

ProbeNext ==
  \/ ProbeStep
  \/ /\ probe = "done"
     /\ UpdaterNext \/ \E m \in Masks : PwmIgnoreStore(m)
     /\ UNCHANGED probeVars
  \/ /\ EarlyClients \/ probe = "done"
     /\ ClientNext
     /\ UNCHANGED probeVars
  \/ Tick /\ UNCHANGED probeVars

\* As in RcioPwm, and the kernel runs the probe.
ProbeFairness ==
  /\ WF_allVars(ProbeStep)
  /\ WF_allVars(probe = "done" /\ UpdateStep(Worker) /\ UNCHANGED probeVars)
  /\ \A t \in GpioThreads :
       WF_allVars(/\ UpdateStep(t) \/ ForceZeroStore(t)
                  /\ UNCHANGED probeVars)
  /\ \A k \in Clients : WF_allVars(CallbackStep(k) /\ UNCHANGED probeVars)
  /\ WF_allVars(Tick /\ UNCHANGED probeVars)

ProbeSpec == ProbeInit /\ [][ProbeNext]_allVars /\ ProbeFairness

-----------------------------------------------------------------------------
(* Properties                                                              *)

(* The shape of the state; the loop of rcio_hardware_init stays within the  *)
(* timers of the board (rcio_pwm.c:244-246).                                *)
ProbeTypeOK ==
  /\ TypeOK
  /\ probe \in {"features", "rates", "record", "default", "done"}
  /\ timer \in Timers
  /\ firmware \in Ways

(* "we detected frequency updates, so we have to change them"               *)
(* (rcio_pwm.c:169): once the clients stop changing rates, a request the    *)
(* worker has seen is carried out while the outputs stay armed, and its     *)
(* flag reset, whenever it was made (rcio_pwm.c:153-158, 177-200).          *)
UpdateIsMade ==
  <>[][~FreqRequest]_vars =>
    (probe = "done" /\ SomeFreqUpdated ~> ~SomeFreqUpdated \/ ~armed)
=============================================================================
