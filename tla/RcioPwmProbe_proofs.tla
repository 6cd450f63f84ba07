------------------------ MODULE RcioPwmProbe_proofs -------------------------
(***************************************************************************)
(* What RcioPwm promises holds from the moment the probe adds the chip, on *)
(* either firmware, also for clients that do not wait for the probe's end. *)
(***************************************************************************)
EXTENDS RcioPwmProbe, RcioPwm_proofs

(* A step is the probe's, or one of the driver that it starts. *)
LEMMA ProbeOrDriver ==
  ASSUME [ProbeNext]_allVars
  PROVE  ProbeStep \/ ([Next]_vars /\ UNCHANGED probeVars)
<1>1. CASE ProbeNext
  BY <1>1, Zenon DEF ProbeNext, Next
<1>2. CASE UNCHANGED allVars
  BY <1>2 DEF allVars
<1> QED
  BY <1>1, <1>2

(* The probe's step writes rates and what is known of them, nothing else. *)
LEMMA ProbeLeaves ==
  ASSUME ProbeStep
  PROVE  UNCHANGED <<values, dev_pwm, freq_update_noticed, pc, cpc, cop,
                     stopped>>
BY DEF ProbeStep, ReadFeatures, SendTimerRate, RecordTimerRate, SendAltRate,
       SendDefaultRate, restVars, flagVars, updVars, cliVars

(* The shape of the state is kept by the probe, whatever it reads. *)
LEMMA ProbeShape ==
  ASSUME ProbeTypeOK, ProbeStep
  PROVE  ProbeTypeOK'
<1> USE DEF ProbeGoto, restVars, flagVars, updVars, cliVars, freqVars, newWay,
            oldWay
<1>0. /\ TypeOK /\ timer \in Timers /\ 0 \in Timers
      /\ SET_ALT \in Stages /\ SET_DEF \in Stages /\ Timers \subseteq Stages
  BY PwmAssumption DEF ProbeTypeOK, Timers, Stages, SET_ALT, SET_DEF
<1>1. CASE ReadFeatures
  <2>1. adv_timer_config_supported' \in Ways
    BY <1>1, ProbeAssumption DEF ReadFeatures, ProbeTypeOK
  <2> QED
    BY <1>1, <2>1 DEF ReadFeatures, ProbeTypeOK, TypeOK
<1>2. CASE SendTimerRate
  <2>1. dev_rate' \in [Stages -> Freqs]
    BY <1>0, <1>2 DEF SendTimerRate, Sent, TypeOK
  <2> QED
    BY <1>2, <2>1 DEF SendTimerRate, ProbeTypeOK, TypeOK
<1>3. CASE RecordTimerRate
  <2>1. frequencies' \in [Timers -> Freqs]
    BY <1>0, <1>3 DEF RecordTimerRate, TypeOK
  <2>2. timer' \in Timers
    BY <1>0, <1>3, PwmAssumption DEF RecordTimerRate, Timers
  <2>3. probe' \in {"done", "rates"}
    BY <1>3 DEF RecordTimerRate
  <2> QED
    BY <1>3, <2>1, <2>2, <2>3, ProbeLeaves
       DEF RecordTimerRate, ProbeTypeOK, TypeOK
<1>4. CASE SendAltRate
  <2>1. dev_rate' \in [Stages -> Freqs]
    BY <1>0, <1>4 DEF SendAltRate, TypeOK
  <2> QED
    BY <1>4, <2>1 DEF SendAltRate, ProbeTypeOK, TypeOK
<1>5. CASE SendDefaultRate
  <2>1. dev_rate' \in [Stages -> Freqs]
    BY <1>0, <1>5 DEF SendDefaultRate, TypeOK
  <2> QED
    BY <1>5, <2>1 DEF SendDefaultRate, ProbeTypeOK, TypeOK
<1> QED
  BY <1>1, <1>2, <1>3, <1>4, <1>5 DEF ProbeStep

(* The driver's steps keep the shape too: RcioPwm's proof, step by step. *)
LEMMA ProbeTypeStep ==
  ASSUME ProbeTypeOK, [ProbeNext]_allVars
  PROVE  ProbeTypeOK'
<1>1. CASE ProbeStep
  BY <1>1, ProbeShape
<1>2. CASE [Next]_vars /\ UNCHANGED probeVars
  BY <1>2, TypeNext DEF ProbeTypeOK, probeVars
<1> QED
  BY <1>1, <1>2, ProbeOrDriver

(* When the chip is added the driver is as it was loaded. *)
LEMMA ProbeTypeInit == ProbeInit => ProbeTypeOK
BY TypeInit, PwmAssumption DEF ProbeInit, ProbeTypeOK, Timers

(* The state keeps its shape through the probe, faults included: the answer  *)
(* of the firmware may be anything.                                          *)
THEOREM ProbeTypeCorrect == ProbeSpec => []ProbeTypeOK
<1>1. ProbeTypeOK /\ [ProbeNext]_allVars => ProbeTypeOK'
  BY ProbeTypeStep
<1> QED
  BY <1>1, ProbeTypeInit, PTL DEF ProbeSpec

(* A channel that a client disables while the probe still sends its first   *)
(* rates, or later, stays silent until its next config, on a link that      *)
(* delivers (rcio_pwm.c:279-299, 341-346).                                  *)
THEOREM ProbeStoppedStaysZero == ~Faulty /\ ProbeSpec => []StoppedStaysZero
<1>1. CASE ~Faulty
  <2>1. TypeOK /\ StoppedInv /\ [ProbeNext]_allVars => StoppedInv'
    <3> SUFFICES ASSUME TypeOK, StoppedInv, [ProbeNext]_allVars
                 PROVE  StoppedInv'
      OBVIOUS
    <3>1. CASE ProbeStep
      <4>1. Quiet
        BY <3>1, ProbeLeaves DEF Quiet
      <4> QED
        BY <4>1, QuietStopped
    <3>2. CASE [Next]_vars
      BY <1>1, <3>2, StoppedStep
    <3> QED
      BY <3>1, <3>2, ProbeOrDriver
  <2>2. ProbeInit => StoppedInv
    BY StoppedInit DEF ProbeInit
  <2>3. StoppedInv => StoppedStaysZero
    BY DEF StoppedInv, StoppedZero, StoppedStaysZero
  <2>4. ProbeTypeOK => TypeOK
    BY DEF ProbeTypeOK
  <2> QED
    BY <2>1, <2>2, <2>3, <2>4, ProbeTypeCorrect, PTL DEF ProbeSpec
<1> QED
  BY <1>1

(* The same of the blank outputs behind freq_update_noticed, with the       *)
(* worker as only updater: what early clients request does not find the     *)
(* flag set before the worker has cleared (rcio_pwm.c:167-204).             *)
THEOREM ProbeNoticedMeansCleared ==
  ~Faulty /\ GpioThreads = {} /\ ProbeSpec => []NoticedMeansCleared
<1>1. CASE ~Faulty /\ GpioThreads = {}
  <2>1. /\ TypeOK /\ TypeOK' /\ StoppedInv /\ NoticedInv
        /\ [ProbeNext]_allVars
        => StoppedInv' /\ NoticedInv'
    <3> SUFFICES ASSUME TypeOK, TypeOK', StoppedInv, NoticedInv,
                        [ProbeNext]_allVars
                 PROVE  StoppedInv' /\ NoticedInv'
      OBVIOUS
    <3>1. CASE ProbeStep
      <4>1. Quiet
        BY <3>1, ProbeLeaves DEF Quiet
      <4>2. NoticedInv'
        BY <3>1, ProbeLeaves DEF NoticedInv
      <4> QED
        BY <4>1, <4>2, QuietStopped
    <3>2. CASE [Next]_vars
      BY <1>1, <3>2, StoppedStep, NoticedStep
    <3> QED
      BY <3>1, <3>2, ProbeOrDriver
  <2>2. ProbeInit => StoppedInv /\ NoticedInv
    BY StoppedInit, NoticedInit DEF ProbeInit
  <2>3. NoticedInv => NoticedMeansCleared
    BY DEF NoticedInv, NoticedMeansCleared
  <2>4. ProbeTypeOK => TypeOK
    BY DEF ProbeTypeOK
  <2> QED
    BY <2>1, <2>2, <2>3, <2>4, ProbeTypeCorrect, PTL DEF ProbeSpec
<1> QED
  BY <1>1
=============================================================================
