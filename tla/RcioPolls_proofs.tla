-------------------------- MODULE RcioPolls_proofs --------------------------
(***************************************************************************)
(* What RcioPolls promises of its timeouts, for any range of jiffies, any  *)
(* periods and any length of a pass that the assumption admits.            *)
(***************************************************************************)
EXTENDS RcioPolls, TLAPS

-----------------------------------------------------------------------------
(* Arithmetic of a counter that wraps                                      *)

(* W is even. *)
LEMMA Half == W \div 2 \in Nat /\ W = 2 * (W \div 2)
BY PollsAssumption

(* The remainder of a difference or a sum of two times. *)
LEMMA Wrap ==
  ASSUME NEW a \in -W .. (2 * W) - 1
  PROVE  a % W = IF a < 0 THEN a + W ELSE IF a < W THEN a ELSE a - W
<1>1. W \in Nat \ {0}
  BY PollsAssumption
<1>2. CASE a < 0
  BY <1>1, <1>2
<1>3. CASE 0 <= a /\ a < W
  BY <1>1, <1>3
<1>4. CASE W <= a
  BY <1>1, <1>4
<1> QED
  BY <1>1, <1>2, <1>3, <1>4

(* The parameters, as the proofs use them. *)
LEMMA Params ==
  /\ W \in Nat \ {0} /\ MaxPass \in Nat \ {0} /\ 2 * MaxPass <= W \div 2
  /\ ArmTicks \in 1 .. (W \div 2) - 1
  /\ \A p \in Polls : /\ Period[p] \in 1 .. (W \div 2) - 1
                      /\ First[p] \in 1 .. Period[p]
BY PollsAssumption, Half

(* A jiffy later *)
LEMMA JiffyLater ==
  ASSUME jiffies \in 0 .. W - 1
  PROVE  Later(1) = IF jiffies = W - 1 THEN 0 ELSE jiffies + 1
<1> DEFINE c == jiffies + 1
<1>1. c \in -W .. (2 * W) - 1
  BY Params
<1>2. c % W = IF c < 0 THEN c + W ELSE IF c < W THEN c ELSE c - W
  <2> HIDE DEF c
  <2> QED
    BY <1>1, Wrap
<1> QED
  BY <1>2, Params DEF Later

(* Jiffies since the last update of p that set its timeout, if recent. *)
Elapsed(p) == (jiffies - timeout[p] + Period[p]) % W

(* A jiffy later an update is a jiffy older, until jiffies have gone round. *)
LEMMA ElapsedTick ==
  ASSUME TypeOK, NEW p \in Polls, Elapsed(p) < W - 1,
         jiffies' = Later(1), timeout' = timeout
  PROVE  Elapsed(p) \in Nat /\ Elapsed(p)' = Elapsed(p) + 1
<1>1. /\ jiffies \in 0 .. W - 1 /\ timeout[p] \in 0 .. W - 1
      /\ Period[p] \in 1 .. (W \div 2) - 1
  BY Params DEF TypeOK
<1>2. jiffies' = IF jiffies = W - 1 THEN 0 ELSE jiffies + 1
  BY <1>1, JiffyLater
<1> DEFINE a == jiffies - timeout[p] + Period[p]
           b == jiffies' - timeout[p] + Period[p]
<1>3. a \in -W .. (2 * W) - 1 /\ b \in -W .. (2 * W) - 1
  BY <1>1, <1>2, Half, Params
<1>4. /\ a % W = IF a < 0 THEN a + W ELSE IF a < W THEN a ELSE a - W
      /\ b % W = IF b < 0 THEN b + W ELSE IF b < W THEN b ELSE b - W
  <2> HIDE DEF a, b
  <2> QED
    BY <1>3, Wrap
<1>5. b = a + 1 \/ b = a + 1 - W
  BY <1>1, <1>2, Params
<1>6. a % W \in 0 .. W - 1 /\ b % W \in 0 .. W - 1 /\ a % W < W - 1
  <2>1. a % W < W - 1
    BY DEF Elapsed
  <2> QED
    BY <1>3, <1>4, <2>1, Params
<1>7. b % W = (a % W) + 1
  BY <1>3, <1>4, <1>5, <1>6, Params
<1> QED
  BY <1>6, <1>7 DEF Elapsed

(* It is less than the range of jiffies. *)
LEMMA ElapsedRange ==
  ASSUME TypeOK, NEW p \in Polls
  PROVE  Elapsed(p) \in 0 .. W - 1
<1>1. /\ jiffies \in 0 .. W - 1 /\ timeout[p] \in 0 .. W - 1
      /\ Period[p] \in 1 .. (W \div 2) - 1
  BY Params DEF TypeOK
<1>2. jiffies - timeout[p] + Period[p] \in -W .. (2 * W) - 1
  BY <1>1, Half, Params
<1> QED
  BY <1>2, Wrap, Params DEF Elapsed

(* An update of p is now, the others are as old as they were. *)
LEMMA ElapsedRefresh ==
  ASSUME TypeOK, NEW p \in Polls, Refresh(p), jiffies' = jiffies
  PROVE  /\ Elapsed(p)' = 0
         /\ \A q \in Polls \ {p} : Elapsed(q)' = Elapsed(q)
<1>1. /\ jiffies \in 0 .. W - 1 /\ timeout[p] \in 0 .. W - 1
      /\ Period[p] \in 1 .. (W \div 2) - 1
  BY Params DEF TypeOK
<1>2. jiffies + Period[p] \in -W .. (2 * W) - 1
  BY <1>1, Half, Params
<1>3. Later(Period[p]) = IF jiffies + Period[p] < W THEN jiffies + Period[p]
                         ELSE jiffies + Period[p] - W
  BY <1>1, <1>2, Wrap, Params DEF Later
<1>4. /\ timeout'[p] = Later(Period[p])
      /\ \A q \in Polls \ {p} : timeout'[q] = timeout[q]
  BY DEF Refresh, TypeOK
<1>5. jiffies - timeout'[p] + Period[p] \in {0, W}
  BY <1>1, <1>3, <1>4, Params
<1>6. 0 % W = 0 /\ W % W = 0
  BY Wrap, Params
<1> QED
  BY <1>4, <1>5, <1>6 DEF Elapsed

(* A poll is due when its period is over, and for as long as half the range *)
(* of jiffies has not gone by. *)
LEMMA DueElapsed ==
  ASSUME TypeOK, NEW p \in Polls, Elapsed(p) < Period[p] + (W \div 2)
  PROVE  Due(p) <=> Elapsed(p) >= Period[p]
<1>1. /\ jiffies \in 0 .. W - 1 /\ timeout[p] \in 0 .. W - 1
      /\ Period[p] \in 1 .. (W \div 2) - 1
  BY Params DEF TypeOK
<1> DEFINE a == jiffies - timeout[p]
           b == jiffies - timeout[p] + Period[p]
<1>2. a \in -W .. (2 * W) - 1 /\ b \in -W .. (2 * W) - 1 /\ b = a + Period[p]
      /\ a > -W /\ a < W
  BY <1>1, Half, Params
<1>3. /\ a % W = IF a < 0 THEN a + W ELSE a
      /\ b % W = IF b < 0 THEN b + W ELSE IF b < W THEN b ELSE b - W
  <2> HIDE DEF a, b
  <2> QED
    BY <1>2, Wrap
<1>4. b % W < Period[p] + (W \div 2)
  BY DEF Elapsed
<1>5. a % W >= W \div 2 <=> b % W < Period[p]
  <2> HIDE DEF a, b
  <2> QED
    BY <1>1, <1>2, <1>3, <1>4, Half, Params
<1> QED
  BY <1>1, <1>3, <1>5, <1>2, Params, Half DEF Due, time_before, Elapsed

-----------------------------------------------------------------------------
(* The shape of the state                                                  *)

(* The bound of what is watched is one to count up to. *)
LEMMA AgeBoundNat ==
  ASSUME watched \in Watches
  PROVE  /\ AgeBound \in Nat /\ RearmAge \in Nat
         /\ \A p \in Polls : Bound(p) \in Nat
<1>1. /\ RearmAge - 1 \in Nat /\ RearmAge \in Nat
      /\ \A p \in Polls : Bound(p) \in Nat
  BY Params, Half DEF Bound, RearmAge
<1>2. watched \in {"rc", "channels", "link", "beat", "config"}
  BY PollsAssumption
<1> QED
  BY <1>1, <1>2 DEF AgeBound, Polls

(* A sum with a time is a time. *)
LEMMA LaterRange ==
  ASSUME TypeOK, NEW n \in Nat
  PROVE  Later(n) \in 0 .. W - 1
BY Params DEF Later, TypeOK

(* The steps of the worker keep the shape. *)
LEMMA TypeWorker ==
  ASSUME TypeOK, WorkerStep
  PROVE  TypeOK'
<1> USE DEF Goto, Places, timeVars, pwmVars, rcVars, boardVars, history
<1>0. /\ AgeBound \in Nat /\ (watched' = watched => AgeBound' = AgeBound)
      /\ \A p \in Polls : Later(Period[p]) \in 0 .. W - 1
      /\ {"adc", "rcin", "status", "safety"} = Polls
  <2>1. AgeBound \in Nat /\ (watched' = watched => AgeBound' = AgeBound)
    BY AgeBoundNat DEF TypeOK, AgeBound
  <2>2. \A p \in Polls : Period[p] \in Nat
    BY Params
  <2>3. \A p \in Polls : Later(Period[p]) \in 0 .. W - 1
    BY <2>2, LaterRange
  <2> QED
    BY <2>1, <2>3 DEF Polls
<1>1. ASSUME NEW p \in Polls, Refresh(p)
      PROVE  timeout' \in [Polls -> 0 .. W - 1]
  BY <1>0, <1>1 DEF Refresh, TypeOK
<1>2. CASE CheckArmed
  <2>1. armed' \in BOOLEAN
    BY <1>2 DEF CheckArmed
  <2> QED
    BY <1>0, <1>2, <2>1 DEF CheckArmed, TypeOK
<1>11. CASE WriteIfArmed
  BY <1>0, <1>11 DEF WriteIfArmed, TypeOK
<1>3. ASSUME NEW p \in Polls, NEW next \in Places, NotDue(p, next)
      PROVE  TypeOK'
  BY <1>0, <1>3 DEF NotDue, TypeOK
<1>4. CASE AdcRead
  <2>1. timeout' \in [Polls -> 0 .. W - 1]
    BY <1>0, <1>1, <1>4 DEF AdcRead, TypeOK
  <2> QED
    BY <1>0, <1>4, <2>1 DEF AdcRead, TypeOK
<1>5. CASE RcinReadFlags
  <2>1. connected' \in BOOLEAN /\ measured' \in BOOLEAN
    BY <1>5 DEF RcinReadFlags, TypeOK
  <2> QED
    BY <1>0, <1>5, <2>1 DEF RcinReadFlags, TypeOK
<1>6. CASE RcinReadValues
  <2>1. timeout' \in [Polls -> 0 .. W - 1]
    BY <1>0, <1>1, <1>6 DEF RcinReadValues, TypeOK
  <2>2. connected' \in BOOLEAN /\ measured' \in BOOLEAN
    BY <1>6 DEF RcinReadValues, TypeOK
  <2> QED
    BY <1>0, <1>6, <2>1, <2>2 DEF RcinReadValues, TypeOK
<1>7. CASE StatusRead
  BY <1>0, <1>7 DEF StatusRead, TypeOK
<1>8. CASE StatusReadCrc
  <2>1. timeout' \in [Polls -> 0 .. W - 1]
    BY <1>0, <1>1, <1>8 DEF StatusReadCrc
  <2> QED
    BY <1>0, <1>8, <2>1 DEF StatusReadCrc, TypeOK
<1>9. CASE Heartbeat
  <2>1. timeout' \in [Polls -> 0 .. W - 1]
    BY <1>0, <1>1, <1>9 DEF Heartbeat
  <2>2. UNCHANGED <<watched, enabled>> /\ age' \in {age, 0}
    BY <1>9 DEF Heartbeat, rcio_safety_do_heartbeat, Restart
  <2> QED
    BY <1>0, <1>9, <2>1, <2>2 DEF Heartbeat, TypeOK
<1>10. CASE Sleep
  BY <1>0, <1>10, Params DEF Sleep, TypeOK
<1> QED
  BY <1>0, <1>2, <1>3, <1>4, <1>5, <1>6, <1>7, <1>8, <1>9, <1>10, <1>11
     DEF WorkerStep

(* So do the clock, the users and the board, *)
LEMMA TypeSurroundings ==
  ASSUME TypeOK,
         \/ Tick \/ PwmConfig \/ PwmEnable \/ PwmDisable
         \/ RcChange \/ LinkChange \/ UNCHANGED vars
         \/ \E value \in BOOLEAN : HeartbeatEnabledStore(value)
  PROVE  TypeOK'
<1> USE DEF timeVars, pwmVars, rcVars, boardVars, history
<1>0. AgeBound \in Nat /\ (watched' = watched => AgeBound' = AgeBound)
  BY AgeBoundNat DEF TypeOK, AgeBound
<1>1. CASE Tick
  <2>1. jiffies' \in 0 .. W - 1
    BY <1>1, LaterRange DEF Tick
  <2>2. pass_ticks' \in 0 .. MaxPass
    BY <1>1, Params DEF Tick, TypeOK
  <2>3. age' \in 0 .. AgeBound + 1
    BY <1>0, <1>1 DEF Tick, TypeOK
  <2>4. enabled' \in 0 .. Stale + 1
    BY <1>1, Params DEF Tick, TypeOK, Stale
  <2> QED
    BY <1>0, <1>1, <2>1, <2>2, <2>3, <2>4 DEF Tick, TypeOK
<1>2. CASE PwmConfig
  <2>1. armtimeout' \in 0 .. W - 1
    BY <1>2, LaterRange, Params DEF PwmConfig
  <2> QED
    BY <1>0, <1>2, <2>1 DEF PwmConfig, Restart, TypeOK
<1>3. CASE RcChange
  BY <1>0, <1>3 DEF RcChange, TypeOK
<1>4. CASE LinkChange
  BY <1>0, <1>4 DEF LinkChange, TypeOK
<1>5. CASE UNCHANGED vars
  BY <1>0, <1>5 DEF vars, TypeOK
<1>6. ASSUME NEW value \in BOOLEAN, HeartbeatEnabledStore(value)
      PROVE  TypeOK'
  <2>1. heartbeat_enabled' \in BOOLEAN
    BY <1>6 DEF HeartbeatEnabledStore
  <2> QED
    BY <1>0, <1>6, <2>1 DEF HeartbeatEnabledStore, Restart, TypeOK
<1>7. CASE PwmEnable
  <2>1. enabled' \in 0 .. Stale + 1
    BY <1>7, Params DEF PwmEnable, Stale
  <2> QED
    BY <1>0, <1>7, <2>1 DEF PwmEnable, TypeOK
<1>8. CASE PwmDisable
  BY <1>0, <1>8 DEF PwmDisable, TypeOK
<1> QED
  BY <1>1, <1>2, <1>3, <1>4, <1>5, <1>6, <1>7, <1>8

(* and the probe leaves it so. *)
LEMMA TypeInit == Init => TypeOK
<1> SUFFICES ASSUME Init PROVE TypeOK
  OBVIOUS
<1>1. AgeBound \in Nat
  BY AgeBoundNat DEF Init
<1>2. \A p \in Polls : Later(First[p]) \in 0 .. W - 1
  BY Params DEF Later, Init
<1>3. timeout \in [Polls -> 0 .. W - 1]
  BY <1>2 DEF Init
<1>4. /\ 0 \in 0 .. MaxPass /\ 0 \in 0 .. W - 1 /\ 0 \in 0 .. AgeBound + 1
      /\ Stale + 1 \in 0 .. Stale + 1
  BY <1>1, Params DEF Stale
<1> QED
  BY <1>3, <1>4 DEF Init, TypeOK, Places

(* The state keeps its shape; every timeout is a value of jiffies, whatever *)
(* is added to one that is about to wrap. *)
THEOREM PollsTypeCorrect == Spec => []TypeOK
<1>1. Init => TypeOK
  BY TypeInit
<1>2. TypeOK /\ [Next]_vars => TypeOK'
  BY TypeWorker, TypeSurroundings DEF Next
<1> QED
  BY <1>1, <1>2, PTL DEF Spec

-----------------------------------------------------------------------------
(* The inductive invariants                                                *)

BeforeRcin   == {"pwm", "pwm_write", "adc", "rcin", "rcin_values"}
BeforeStatus == BeforeRcin \cup {"status", "status_crc"}
BeforeSafety == BeforeStatus \cup {"safety"}

(* The last update of p, which a pass makes at the end of the places before, *)
(* was at most a period and the passes since ago.  Had the worker come by    *)
(* later than a period after it, p would have been due.                      *)
Recent(p, before) ==
  Elapsed(p) <= Period[p] - 1 + pass_ticks
                  + (IF wpc \in before THEN MaxPass ELSE 0)

(* A receiver is connected since an update, of a pass in which it was not    *)
(* yet lost when the flags were read.                                        *)
RcInv ==
  /\ watched \in {"rc", "channels"} =>
       (rc_ok => age = 0) /\ (wpc = "rcin_values" => age <= pass_ticks)
  /\ connected =>
       /\ Recent("rcin", BeforeRcin)
       /\ watched \in {"rc", "channels"} => age <= Elapsed("rcin") + MaxPass

(* On a link that works no channel is measured but of a connected receiver.  *)
ChannelsInv == watched = "channels" => link /\ (measured => connected)

(* A board is alive since an update, of a pass in which it still answered.   *)
LinkInv ==
  /\ watched = "link" =>
       (link => age = 0) /\ (wpc = "status_crc" => age <= pass_ticks)
  /\ alive =>
       /\ Recent("status", BeforeStatus)
       /\ watched = "link" => age <= Elapsed("status") + MaxPass

(* The heartbeat is polled all the time, and no beat is due for longer than  *)
(* the last poll is ago.                                                     *)
BeatInv ==
  /\ Recent("safety", BeforeSafety)
  /\ watched = "beat" =>
       ((heartbeat_enabled /\ link) \/ age = 0) /\ age <= Elapsed("safety")

(* The most jiffies that can have passed since the worker looked at          *)
(* armtimeout.                                                               *)
SinceLook == pass_ticks + (IF wpc = "pwm" THEN MaxPass ELSE 0)

(* armtimeout says when the last config was, until jiffies have gone round;  *)
(* the outputs are armed since the worker saw it lie ahead, or by an enable  *)
(* since then.                                                               *)
ArmInv ==
  watched = "config" /\ age < RearmAge =>
    /\ armtimeout > 0 => age = (jiffies - armtimeout + ArmTicks) % W
    /\ armed => age <= ArmTicks - 1 + SinceLook \/ enabled <= SinceLook

PollsInv == TypeOK /\ RcInv /\ ChannelsInv /\ LinkInv /\ BeatInv /\ ArmInv

-----------------------------------------------------------------------------
(* Time passes and updates happen                                          *)

(* What a recent update leaves room for. *)
LEMMA RecentRoom ==
  ASSUME TypeOK, NEW p \in Polls, NEW before, Recent(p, before)
  PROVE  /\ Elapsed(p) \in Nat /\ Elapsed(p) <= Period[p] - 1 + 2 * MaxPass
         /\ Elapsed(p) < Period[p] + (W \div 2) /\ Elapsed(p) < W - 1
<1>1. /\ Elapsed(p) \in 0 .. W - 1 /\ pass_ticks \in 0 .. MaxPass
      /\ Period[p] \in 1 .. (W \div 2) - 1
  BY ElapsedRange, Params DEF TypeOK
<1>2. Elapsed(p) <= Period[p] - 1 + 2 * MaxPass
  BY <1>1, Params DEF Recent
<1> QED
  BY <1>1, <1>2, Params, Half

(* What was so since one pass before the update has been so for a period and *)
(* three passes.                                                             *)
LEMMA RecentBound ==
  ASSUME TypeOK, NEW p \in Polls, NEW before, Recent(p, before),
         age <= Elapsed(p) + MaxPass \/ age <= Elapsed(p)
  PROVE  age <= Bound(p)
<1>1. /\ Elapsed(p) \in Nat /\ Elapsed(p) <= Period[p] - 1 + 2 * MaxPass
  BY RecentRoom
<1>2. age \in Nat /\ MaxPass \in Nat /\ Period[p] \in Nat
  BY AgeBoundNat, Params DEF TypeOK
<1> QED
  BY <1>1, <1>2 DEF Bound

(* A jiffy later the update is a jiffy older. *)
LEMMA RecentTick ==
  ASSUME TypeOK, NEW p \in Polls, NEW before, Recent(p, before), Tick
  PROVE  Recent(p, before)' /\ Elapsed(p)' = Elapsed(p) + 1
<1>1. /\ Elapsed(p) \in Nat /\ Elapsed(p)' = Elapsed(p) + 1
  BY RecentRoom, ElapsedTick DEF Tick
<1>2. /\ pass_ticks \in Nat /\ pass_ticks' = pass_ticks + 1 /\ wpc' = wpc
      /\ Period[p] \in Nat /\ MaxPass \in Nat
  BY Params DEF Tick, TypeOK
<1> QED
  BY <1>1, <1>2 DEF Recent

(* When the worker finds p not due, no pass is owed. *)
LEMMA RecentPolled ==
  ASSUME TypeOK, NEW p \in Polls, NEW before, Recent(p, before),
         ~Due(p), UNCHANGED <<jiffies, pass_ticks, timeout>>
  PROVE  Recent(p, before)'
<1>1. Elapsed(p) \in Nat /\ Elapsed(p) < Period[p]
  BY RecentRoom, DueElapsed, Params
<1>2. Elapsed(p)' = Elapsed(p)
  BY DEF Elapsed
<1>3. pass_ticks \in Nat /\ Period[p] \in Nat /\ MaxPass \in Nat
  BY Params DEF TypeOK
<1> QED
  BY <1>1, <1>2, <1>3 DEF Recent

(* An update is recent. *)
LEMMA RecentRefresh ==
  ASSUME TypeOK, NEW p \in Polls, NEW before, Refresh(p),
         UNCHANGED <<jiffies, pass_ticks>>
  PROVE  Recent(p, before)' /\ Elapsed(p)' = 0
<1>1. Elapsed(p)' = 0
  BY ElapsedRefresh
<1>2. /\ pass_ticks \in Nat /\ MaxPass \in Nat
      /\ Period[p] \in 1 .. (W \div 2) - 1
  BY Params DEF TypeOK
<1> QED
  BY <1>1, <1>2, Half DEF Recent

(* A step that does not pass p by. *)
LEMMA RecentQuiet ==
  ASSUME TypeOK, NEW p \in Polls, NEW before, Recent(p, before),
         UNCHANGED <<jiffies, pass_ticks>>, timeout'[p] = timeout[p],
         wpc \in before => wpc' \in before
  PROVE  Recent(p, before)' /\ Elapsed(p)' = Elapsed(p)
<1>1. Elapsed(p)' = Elapsed(p)
  BY DEF Elapsed
<1>2. /\ pass_ticks \in Nat /\ Period[p] \in Nat /\ MaxPass \in Nat
      /\ Elapsed(p) \in 0 .. W - 1
  BY Params, ElapsedRange DEF TypeOK
<1> QED
  BY <1>1, <1>2, Params DEF Recent

(* The next pass begins. *)
LEMMA RecentSleep ==
  ASSUME TypeOK, NEW p \in Polls, NEW before, Recent(p, before), Sleep,
         "sleep" \notin before, "pwm" \in before
  PROVE  Recent(p, before)' /\ Elapsed(p)' = Elapsed(p)
<1>1. Elapsed(p)' = Elapsed(p)
  BY DEF Elapsed, Sleep
<1>2. /\ pass_ticks \in 0 .. MaxPass /\ Period[p] \in Nat /\ MaxPass \in Nat
      /\ Elapsed(p) \in 0 .. W - 1
  BY Params, ElapsedRange DEF TypeOK
<1>3. wpc = "sleep" /\ wpc' = "pwm" /\ pass_ticks' = 0
  BY DEF Sleep, Goto
<1> QED
  BY <1>1, <1>2, <1>3, Params DEF Recent

-----------------------------------------------------------------------------
(* The receiver                                                            *)

(* Ages and passes are counted. *)
LEMMA Counts ==
  ASSUME TypeOK
  PROVE  /\ age \in Nat /\ pass_ticks \in 0 .. MaxPass /\ MaxPass \in Nat
         /\ \A p \in Polls : Elapsed(p) \in Nat
         /\ Polls = {"adc", "rcin", "status", "safety"}
<1>1. age \in Nat
  BY AgeBoundNat DEF TypeOK
<1>2. \A p \in Polls : Elapsed(p) \in Nat
  BY ElapsedRange, Params
<1> QED
  BY <1>1, <1>2, Params DEF TypeOK, Polls

(* A jiffy more, at most. *)
LEMMA AgeTick ==
  ASSUME TypeOK, Tick
  PROVE  age' \in 0 .. age + 1 /\ (~Running => age' = 0)
BY Counts DEF Tick

(* Updating one poll leaves the timeouts of the others. *)
LEMMA OtherTimeouts ==
  ASSUME TypeOK, NEW p \in Polls, Refresh(p)
  PROVE  \A q \in Polls \ {p} : timeout'[q] = timeout[q]
BY DEF TypeOK, Refresh

(* A step that is nothing to the receiver. *)
LEMMA RcQuiet ==
  ASSUME TypeOK, RcInv,
         UNCHANGED <<jiffies, pass_ticks, rc_ok, watched>>,
         connected' \in BOOLEAN, connected' => connected,
         timeout'["rcin"] = timeout["rcin"], age' \in {age, 0},
         wpc \in BeforeRcin => wpc' \in BeforeRcin \/ ~connected',
         watched \in {"rc", "channels"} /\ wpc' = "rcin_values" =>
           age' <= pass_ticks \/ wpc = "rcin_values"
  PROVE  RcInv'
<1>1. /\ age \in Nat /\ pass_ticks \in Nat /\ MaxPass \in Nat
      /\ Elapsed("rcin") \in Nat /\ "rcin" \in Polls
  BY Counts
<1>2. ASSUME connected'
      PROVE  /\ Recent("rcin", BeforeRcin)'
             /\ Elapsed("rcin")' = Elapsed("rcin")
  <2>1. Recent("rcin", BeforeRcin)
    BY <1>2 DEF RcInv
  <2>2. wpc \in BeforeRcin => wpc' \in BeforeRcin
    BY <1>2
  <2> QED
    BY <1>1, <2>1, <2>2, RecentQuiet
<1>3. watched' \in {"rc", "channels"} =>
        /\ rc_ok' => age' = 0
        /\ wpc' = "rcin_values" => age' <= pass_ticks'
  BY <1>1 DEF RcInv
<1>4. ASSUME connected', watched' \in {"rc", "channels"}
      PROVE  age' <= Elapsed("rcin")' + MaxPass
  <2>1. age <= Elapsed("rcin") + MaxPass
    BY <1>4 DEF RcInv
  <2> QED
    BY <1>1, <1>2, <1>4, <2>1
<1> QED
  BY <1>2, <1>3, <1>4 DEF RcInv

(* Every step keeps what is known of the receiver. *)
LEMMA RcPreserved ==
  ASSUME TypeOK, RcInv, [Next]_vars
  PROVE  RcInv'
<1> USE DEF timeVars, pwmVars, rcVars, boardVars, history, Goto
<1>0. /\ age \in Nat /\ pass_ticks \in 0 .. MaxPass /\ MaxPass \in Nat
      /\ Elapsed("rcin") \in Nat
      /\ {"adc", "rcin", "status", "safety"} = Polls
  BY Counts
<1>1. CASE \/ CheckArmed \/ WriteIfArmed
           \/ NotDue("adc", "rcin") \/ AdcRead
           \/ StatusRead \/ StatusReadCrc \/ Heartbeat
           \/ NotDue("status", "safety") \/ NotDue("safety", "sleep")
  <2>1. /\ UNCHANGED <<jiffies, pass_ticks, rc_ok, watched, connected>>
        /\ age' \in {age, 0}
        /\ wpc \in BeforeRcin => wpc' \in BeforeRcin
        /\ wpc' # "rcin_values"
    BY <1>1
       DEF CheckArmed, WriteIfArmed, NotDue, AdcRead, StatusRead,
           StatusReadCrc, Heartbeat, rcio_safety_do_heartbeat, Restart,
           BeforeRcin
  <2>2. timeout'["rcin"] = timeout["rcin"]
    BY <1>0, <1>1, OtherTimeouts
       DEF CheckArmed, WriteIfArmed, NotDue, AdcRead, StatusRead,
           StatusReadCrc, Heartbeat
  <2>3. connected' \in BOOLEAN
    BY <2>1 DEF TypeOK
  <2> QED
    BY <2>1, <2>2, <2>3, RcQuiet
<1>2. CASE \/ PwmConfig \/ PwmEnable \/ PwmDisable \/ LinkChange
           \/ UNCHANGED vars
           \/ \E value \in BOOLEAN : HeartbeatEnabledStore(value)
  <2>1. /\ UNCHANGED <<jiffies, pass_ticks, rc_ok, watched, connected,
                       timeout, wpc>>
        /\ age' \in {age, 0}
    BY <1>2
       DEF PwmConfig, PwmEnable, PwmDisable, LinkChange, vars,
           HeartbeatEnabledStore, Restart
  <2>2. connected' \in BOOLEAN
    BY <2>1 DEF TypeOK
  <2> QED
    BY <2>1, <2>2, RcQuiet
<1>3. CASE NotDue("rcin", "status")
  <2>1. connected => Recent("rcin", BeforeRcin)'
    BY <1>0, <1>3, RecentPolled DEF NotDue, RcInv
  <2>2. Elapsed("rcin")' = Elapsed("rcin")
    BY <1>3 DEF NotDue, Elapsed
  <2> QED
    BY <1>3, <2>1, <2>2 DEF NotDue, RcInv
<1>4. CASE RcinReadFlags
  <2>1. /\ UNCHANGED <<jiffies, pass_ticks, rc_ok, watched, timeout, age>>
        /\ connected' \in BOOLEAN /\ (connected' => connected)
        /\ wpc' \in BeforeRcin \/ ~connected'
    BY <1>4 DEF RcinReadFlags, TypeOK, BeforeRcin
  <2>2. ASSUME watched \in {"rc", "channels"}, wpc' = "rcin_values"
        PROVE  age' <= pass_ticks
    <3>1. rc_ok
      BY <1>4, <2>2 DEF RcinReadFlags, FlagsSayInput
    <3>2. age = 0
      BY <2>2, <3>1 DEF RcInv
    <3> QED
      BY <1>0, <2>1, <3>2
  <2> QED
    BY <2>1, <2>2, RcQuiet
<1>5. CASE RcinReadValues
  <2>1. CASE link
    <3>1. Recent("rcin", BeforeRcin)' /\ Elapsed("rcin")' = 0
      BY <1>0, <1>5, <2>1, RecentRefresh DEF RcinReadValues
    <3>2. watched \in {"rc", "channels"} => age <= MaxPass
      BY <1>0, <1>5 DEF RcinReadValues, RcInv
    <3> QED
      BY <1>0, <1>5, <3>1, <3>2 DEF RcinReadValues, RcInv
  <2>2. CASE ~link
    BY <1>5, <2>2 DEF RcinReadValues, RcInv
  <2> QED
    BY <2>1, <2>2
<1>6. CASE Sleep
  <2>1. connected => /\ Recent("rcin", BeforeRcin)'
                     /\ Elapsed("rcin")' = Elapsed("rcin")
    BY <1>0, <1>6, RecentSleep DEF RcInv, BeforeRcin
  <2> QED
    BY <1>6, <2>1 DEF Sleep, RcInv
<1>7. CASE Tick
  <2>1. connected => /\ Recent("rcin", BeforeRcin)'
                     /\ Elapsed("rcin")' = Elapsed("rcin") + 1
    BY <1>0, <1>7, RecentTick DEF RcInv
  <2>2. /\ age' \in 0 .. age + 1
        /\ watched \in {"rc", "channels"} /\ rc_ok => age' = 0
    BY <1>7, AgeTick DEF Running
  <2>3. /\ UNCHANGED <<rc_ok, watched, wpc, connected>>
        /\ pass_ticks' = pass_ticks + 1
    BY <1>7 DEF Tick
  <2> QED
    BY <1>0, <2>1, <2>2, <2>3 DEF RcInv
<1>8. CASE RcChange
  <2>1. /\ UNCHANGED <<jiffies, pass_ticks, watched, connected, timeout, wpc>>
        /\ watched \in {"rc", "channels"} => age' = 0
    BY <1>8 DEF RcChange
  <2>2. connected => /\ Recent("rcin", BeforeRcin)'
                     /\ Elapsed("rcin")' = Elapsed("rcin")
    BY <1>0, <2>1, RecentQuiet DEF RcInv
  <2> QED
    BY <1>0, <2>1, <2>2 DEF RcInv
<1> QED
  BY <1>1, <1>2, <1>3, <1>4, <1>5, <1>6, <1>7, <1>8 DEF Next, WorkerStep

(* A link that works, and no reading that fails for another reason. *)
LEMMA ChannelsPreserved ==
  ASSUME TypeOK, ChannelsInv, [Next]_vars
  PROVE  ChannelsInv'
<1> USE DEF timeVars, pwmVars, rcVars, boardVars, history
<1>1. watched' = watched
  BY DEF Next, WorkerStep, CheckArmed, WriteIfArmed, NotDue, AdcRead,
         RcinReadFlags, RcinReadValues, StatusRead, StatusReadCrc, Heartbeat,
         Sleep, Tick, PwmConfig, PwmEnable, PwmDisable, HeartbeatEnabledStore,
         RcChange, LinkChange, Restart, rcio_safety_do_heartbeat, vars
<1>2. CASE watched # "channels"
  BY <1>1, <1>2 DEF ChannelsInv
<1>3. CASE watched = "channels"
  <2>1. link /\ (measured => connected)
    BY <1>3 DEF ChannelsInv
  <2>2. ~LinkChange
    BY <1>3, PollsAssumption DEF LinkChange, Changing, TypeOK
  <2>3. link'
    BY <2>1, <2>2
       DEF Next, WorkerStep, CheckArmed, WriteIfArmed, NotDue, AdcRead,
           RcinReadFlags, RcinReadValues, StatusRead, StatusReadCrc, Heartbeat,
           Sleep, Tick, PwmConfig, PwmEnable, PwmDisable,
           HeartbeatEnabledStore, RcChange, vars
  <2>4. measured' => connected'
    BY <2>1, <2>2
       DEF Next, WorkerStep, CheckArmed, WriteIfArmed, NotDue, AdcRead,
           RcinReadFlags, RcinReadValues, StatusRead, StatusReadCrc, Heartbeat,
           Sleep, Tick, PwmConfig, PwmEnable, PwmDisable,
           HeartbeatEnabledStore, RcChange, vars
  <2> QED
    BY <2>3, <2>4 DEF ChannelsInv
<1> QED
  BY <1>2, <1>3

-----------------------------------------------------------------------------
(* The board                                                               *)

(* A step that is nothing to the status page. *)
LEMMA LinkQuiet ==
  ASSUME TypeOK, LinkInv,
         UNCHANGED <<jiffies, pass_ticks, link, watched>>,
         alive' \in BOOLEAN, alive' => alive,
         timeout'["status"] = timeout["status"], age' \in {age, 0},
         wpc \in BeforeStatus => wpc' \in BeforeStatus \/ ~alive',
         watched = "link" /\ wpc' = "status_crc" => age' <= pass_ticks
  PROVE  LinkInv'
<1>1. /\ age \in Nat /\ pass_ticks \in Nat /\ MaxPass \in Nat
      /\ Elapsed("status") \in Nat /\ "status" \in Polls
  BY Counts
<1>2. ASSUME alive'
      PROVE  /\ Recent("status", BeforeStatus)'
             /\ Elapsed("status")' = Elapsed("status")
  <2>1. Recent("status", BeforeStatus)
    BY <1>2 DEF LinkInv
  <2>2. wpc \in BeforeStatus => wpc' \in BeforeStatus
    BY <1>2
  <2> QED
    BY <1>1, <2>1, <2>2, RecentQuiet
<1>3. watched' = "link" =>
        (link' => age' = 0) /\ (wpc' = "status_crc" => age' <= pass_ticks')
  BY <1>1 DEF LinkInv
<1>4. ASSUME alive', watched' = "link"
      PROVE  age' <= Elapsed("status")' + MaxPass
  <2>1. age <= Elapsed("status") + MaxPass
    BY <1>4 DEF LinkInv
  <2> QED
    BY <1>1, <1>2, <1>4, <2>1
<1> QED
  BY <1>2, <1>3, <1>4 DEF LinkInv

(* Every step keeps what is known of the board. *)
LEMMA LinkPreserved ==
  ASSUME TypeOK, LinkInv, [Next]_vars
  PROVE  LinkInv'
<1> USE DEF timeVars, pwmVars, rcVars, boardVars, history, Goto
<1>0. /\ age \in Nat /\ pass_ticks \in 0 .. MaxPass /\ MaxPass \in Nat
      /\ Elapsed("status") \in Nat
      /\ {"adc", "rcin", "status", "safety"} = Polls
  BY Counts
<1>1. CASE \/ CheckArmed \/ WriteIfArmed
           \/ NotDue("adc", "rcin") \/ AdcRead
           \/ NotDue("rcin", "status") \/ RcinReadFlags \/ RcinReadValues
           \/ Heartbeat \/ NotDue("safety", "sleep")
  <2>1. /\ UNCHANGED <<jiffies, pass_ticks, link, watched, alive>>
        /\ age' \in {age, 0}
        /\ wpc \in BeforeStatus => wpc' \in BeforeStatus
        /\ wpc' # "status_crc"
    BY <1>1
       DEF CheckArmed, WriteIfArmed, NotDue, AdcRead, RcinReadFlags,
           RcinReadValues, Heartbeat, rcio_safety_do_heartbeat, Restart,
           BeforeStatus, BeforeRcin
  <2>2. timeout'["status"] = timeout["status"]
    BY <1>0, <1>1, OtherTimeouts
       DEF CheckArmed, WriteIfArmed, NotDue, AdcRead, RcinReadFlags,
           RcinReadValues, Heartbeat
  <2>3. alive' \in BOOLEAN
    BY <2>1 DEF TypeOK
  <2> QED
    BY <2>1, <2>2, <2>3, LinkQuiet
<1>2. CASE \/ PwmConfig \/ PwmEnable \/ PwmDisable \/ RcChange
           \/ UNCHANGED vars
           \/ \E value \in BOOLEAN : HeartbeatEnabledStore(value)
  <2>1. /\ UNCHANGED <<jiffies, pass_ticks, link, watched, alive, timeout,
                       wpc>>
        /\ age' \in {age, 0}
    BY <1>2
       DEF PwmConfig, PwmEnable, PwmDisable, RcChange, vars,
           HeartbeatEnabledStore, Restart
  <2>2. alive' \in BOOLEAN
    BY <2>1 DEF TypeOK
  <2>3. watched = "link" /\ wpc' = "status_crc" => age' <= pass_ticks
    BY <1>0, <2>1 DEF LinkInv
  <2> QED
    BY <2>1, <2>2, <2>3, LinkQuiet
<1>3. CASE NotDue("status", "safety")
  <2>1. alive => Recent("status", BeforeStatus)'
    BY <1>0, <1>3, RecentPolled DEF NotDue, LinkInv
  <2>2. Elapsed("status")' = Elapsed("status")
    BY <1>3 DEF NotDue, Elapsed
  <2> QED
    BY <1>3, <2>1, <2>2 DEF NotDue, LinkInv
<1>4. CASE StatusRead
  <2>1. /\ UNCHANGED <<jiffies, pass_ticks, link, watched, timeout, age>>
        /\ alive' \in BOOLEAN /\ (alive' => alive)
        /\ wpc' \in BeforeStatus \/ ~alive'
    BY <1>4 DEF StatusRead, TypeOK, BeforeStatus
  <2>2. watched = "link" /\ wpc' = "status_crc" => age' <= pass_ticks
    <3>1. wpc' = "status_crc" => link
      BY <1>4 DEF StatusRead
    <3> QED
      BY <1>0, <2>1, <3>1 DEF LinkInv
  <2> QED
    BY <2>1, <2>2, LinkQuiet
<1>5. CASE StatusReadCrc
  <2>1. Recent("status", BeforeStatus)' /\ Elapsed("status")' = 0
    BY <1>0, <1>5, RecentRefresh DEF StatusReadCrc
  <2>2. watched = "link" => age <= MaxPass
    BY <1>0, <1>5 DEF StatusReadCrc, LinkInv
  <2> QED
    BY <1>0, <1>5, <2>1, <2>2 DEF StatusReadCrc, LinkInv
<1>6. CASE Sleep
  <2>1. alive => /\ Recent("status", BeforeStatus)'
                 /\ Elapsed("status")' = Elapsed("status")
    BY <1>0, <1>6, RecentSleep DEF LinkInv, BeforeStatus, BeforeRcin
  <2> QED
    BY <1>6, <2>1 DEF Sleep, LinkInv
<1>7. CASE Tick
  <2>1. alive => /\ Recent("status", BeforeStatus)'
                 /\ Elapsed("status")' = Elapsed("status") + 1
    BY <1>0, <1>7, RecentTick DEF LinkInv
  <2>2. age' \in 0 .. age + 1 /\ (watched = "link" /\ link => age' = 0)
    BY <1>7, AgeTick DEF Running
  <2>3. /\ UNCHANGED <<link, watched, wpc, alive>>
        /\ pass_ticks' = pass_ticks + 1
    BY <1>7 DEF Tick
  <2> QED
    BY <1>0, <2>1, <2>2, <2>3 DEF LinkInv
<1>8. CASE LinkChange
  <2>1. /\ UNCHANGED <<jiffies, pass_ticks, watched, alive, timeout, wpc>>
        /\ watched = "link" => age' = 0
    BY <1>8 DEF LinkChange
  <2>2. alive => /\ Recent("status", BeforeStatus)'
                 /\ Elapsed("status")' = Elapsed("status")
    BY <1>0, <2>1, RecentQuiet DEF LinkInv
  <2> QED
    BY <1>0, <2>1, <2>2 DEF LinkInv
<1> QED
  BY <1>1, <1>2, <1>3, <1>4, <1>5, <1>6, <1>7, <1>8 DEF Next, WorkerStep

-----------------------------------------------------------------------------
(* The heartbeat                                                           *)

(* Every step keeps what is known of the heartbeat. *)
LEMMA BeatPreserved ==
  ASSUME TypeOK, BeatInv, [Next]_vars
  PROVE  BeatInv'
<1> USE DEF timeVars, pwmVars, rcVars, boardVars, history, Goto
<1>0. /\ age \in Nat /\ pass_ticks \in 0 .. MaxPass /\ MaxPass \in Nat
      /\ Elapsed("safety") \in Nat
      /\ {"adc", "rcin", "status", "safety"} = Polls
      /\ Recent("safety", BeforeSafety)
  BY Counts DEF BeatInv
<1>1. CASE \/ CheckArmed \/ WriteIfArmed
           \/ NotDue("adc", "rcin") \/ AdcRead
           \/ NotDue("rcin", "status") \/ RcinReadFlags \/ RcinReadValues
           \/ NotDue("status", "safety") \/ StatusRead \/ StatusReadCrc
  <2>1. /\ UNCHANGED <<jiffies, pass_ticks, link, watched, age,
                       heartbeat_enabled>>
        /\ wpc \in BeforeSafety => wpc' \in BeforeSafety
    BY <1>1
       DEF CheckArmed, WriteIfArmed, NotDue, AdcRead, RcinReadFlags,
           RcinReadValues, StatusRead, StatusReadCrc, BeforeSafety,
           BeforeStatus, BeforeRcin
  <2>2. timeout'["safety"] = timeout["safety"]
    BY <1>0, <1>1, OtherTimeouts
       DEF CheckArmed, WriteIfArmed, NotDue, AdcRead, RcinReadFlags,
           RcinReadValues, StatusRead, StatusReadCrc
  <2>3. /\ Recent("safety", BeforeSafety)'
        /\ Elapsed("safety")' = Elapsed("safety")
    BY <1>0, <2>1, <2>2, RecentQuiet
  <2> QED
    BY <2>1, <2>3 DEF BeatInv
<1>2. CASE \/ PwmConfig \/ PwmEnable \/ PwmDisable \/ RcChange \/ LinkChange
           \/ UNCHANGED vars
           \/ \E value \in BOOLEAN : HeartbeatEnabledStore(value)
  <2>1. UNCHANGED <<jiffies, pass_ticks, watched, timeout, wpc>>
    BY <1>2
       DEF PwmConfig, PwmEnable, PwmDisable, RcChange, LinkChange, vars,
           HeartbeatEnabledStore, Restart
  <2>2. \/ UNCHANGED <<age, heartbeat_enabled, link>>
        \/ watched = "beat" => age' = 0
    BY <1>2
       DEF PwmConfig, PwmEnable, PwmDisable, RcChange, LinkChange, vars,
           HeartbeatEnabledStore, Restart
  <2>3. /\ Recent("safety", BeforeSafety)'
        /\ Elapsed("safety")' = Elapsed("safety")
    BY <1>0, <2>1, RecentQuiet
  <2> QED
    BY <1>0, <2>1, <2>2, <2>3 DEF BeatInv
<1>3. CASE NotDue("safety", "sleep")
  <2>1. Recent("safety", BeforeSafety)'
    BY <1>0, <1>3, RecentPolled DEF NotDue
  <2>2. Elapsed("safety")' = Elapsed("safety")
    BY <1>3 DEF NotDue, Elapsed
  <2> QED
    BY <1>3, <2>1, <2>2 DEF NotDue, BeatInv
<1>4. CASE Heartbeat
  <2>1. Recent("safety", BeforeSafety)' /\ Elapsed("safety")' = 0
    BY <1>0, <1>4, RecentRefresh DEF Heartbeat
  <2>2. watched = "beat" => watched' = watched /\ age' = 0
    BY <1>4 DEF Heartbeat, rcio_safety_do_heartbeat, Restart, BeatInv
  <2>3. watched' = watched /\ UNCHANGED <<heartbeat_enabled, link>>
    BY <1>4 DEF Heartbeat, rcio_safety_do_heartbeat, Restart
  <2> QED
    BY <2>1, <2>2, <2>3 DEF BeatInv
<1>5. CASE Sleep
  <2>1. /\ Recent("safety", BeforeSafety)'
        /\ Elapsed("safety")' = Elapsed("safety")
    BY <1>0, <1>5, RecentSleep DEF BeforeSafety, BeforeStatus, BeforeRcin
  <2> QED
    BY <1>5, <2>1 DEF Sleep, BeatInv
<1>6. CASE Tick
  <2>1. /\ Recent("safety", BeforeSafety)'
        /\ Elapsed("safety")' = Elapsed("safety") + 1
    BY <1>0, <1>6, RecentTick
  <2>2. /\ age' \in 0 .. age + 1
        /\ watched = "beat" /\ ~(heartbeat_enabled /\ link) => age' = 0
    BY <1>6, AgeTick DEF Running
  <2>3. UNCHANGED <<link, watched, heartbeat_enabled>>
    BY <1>6 DEF Tick
  <2> QED
    BY <1>0, <2>1, <2>2, <2>3 DEF BeatInv
<1> QED
  BY <1>1, <1>2, <1>3, <1>4, <1>5, <1>6 DEF Next, WorkerStep

-----------------------------------------------------------------------------
(* The arming of the outputs                                               *)

(* Jiffies since the last config, until they have gone round. *)
ConfigAge == (jiffies - armtimeout + ArmTicks) % W

(* A jiffy later the config is a jiffy older. *)
LEMMA ConfigAgeTick ==
  ASSUME TypeOK, ConfigAge < W - 1, jiffies' = Later(1),
         armtimeout' = armtimeout
  PROVE  ConfigAge' = ConfigAge + 1
<1>1. /\ jiffies \in 0 .. W - 1 /\ armtimeout \in 0 .. W - 1
      /\ ArmTicks \in 1 .. (W \div 2) - 1
  BY Params DEF TypeOK
<1>2. jiffies' = IF jiffies = W - 1 THEN 0 ELSE jiffies + 1
  BY <1>1, JiffyLater
<1> DEFINE a == jiffies - armtimeout + ArmTicks
           b == jiffies' - armtimeout + ArmTicks
<1>3. a \in -W .. (2 * W) - 1 /\ b \in -W .. (2 * W) - 1
  BY <1>1, <1>2, Half, Params
<1>4. /\ a % W = IF a < 0 THEN a + W ELSE IF a < W THEN a ELSE a - W
      /\ b % W = IF b < 0 THEN b + W ELSE IF b < W THEN b ELSE b - W
  <2> HIDE DEF a, b
  <2> QED
    BY <1>3, Wrap
<1>5. b = a + 1 \/ b = a + 1 - W
  BY <1>1, <1>2, Params
<1>6. a % W < W - 1
  BY DEF ConfigAge
<1>7. b % W = (a % W) + 1
  BY <1>3, <1>4, <1>5, <1>6, Params
<1> QED
  BY <1>7 DEF ConfigAge

(* rcio_pwm_config, now *)
LEMMA ConfigAgeZero ==
  ASSUME TypeOK, armtimeout' = Later(ArmTicks), jiffies' = jiffies
  PROVE  ConfigAge' = 0
<1>1. jiffies \in 0 .. W - 1 /\ ArmTicks \in 1 .. (W \div 2) - 1
  BY Params DEF TypeOK
<1>2. jiffies + ArmTicks \in -W .. (2 * W) - 1
  BY <1>1, Half, Params
<1>3. armtimeout' = IF jiffies + ArmTicks < W THEN jiffies + ArmTicks
                    ELSE jiffies + ArmTicks - W
  BY <1>1, <1>2, Wrap, Params DEF Later
<1>4. jiffies - armtimeout' + ArmTicks \in {0, W}
  BY <1>1, <1>3, Params
<1>5. 0 % W = 0 /\ W % W = 0
  BY Wrap, Params
<1> QED
  BY <1>4, <1>5 DEF ConfigAge

(* armtimeout lies ahead of jiffies before the config is ArmTicks ago and    *)
(* not again until half the range of jiffies after that.                     *)
LEMMA ArmedBefore ==
  ASSUME TypeOK, ConfigAge < RearmAge, time_before(jiffies, armtimeout)
  PROVE  ConfigAge < ArmTicks
<1>1. /\ jiffies \in 0 .. W - 1 /\ armtimeout \in 0 .. W - 1
      /\ ArmTicks \in 1 .. (W \div 2) - 1
  BY Params DEF TypeOK
<1> DEFINE a == jiffies - armtimeout
           b == jiffies - armtimeout + ArmTicks
<1>2. /\ a \in -W .. (2 * W) - 1 /\ b \in -W .. (2 * W) - 1
      /\ b = a + ArmTicks /\ a > -W /\ a < W
  BY <1>1, Half, Params
<1>3. /\ a % W = IF a < 0 THEN a + W ELSE a
      /\ b % W = IF b < 0 THEN b + W ELSE IF b < W THEN b ELSE b - W
  <2> HIDE DEF a, b
  <2> QED
    BY <1>2, Wrap
<1>4. b % W < ArmTicks + (W \div 2) /\ a % W >= W \div 2
  BY DEF ConfigAge, RearmAge, time_before
<1>5. b % W < ArmTicks
  <2> HIDE DEF a, b
  <2> QED
    BY <1>1, <1>2, <1>3, <1>4, Half, Params
<1> QED
  BY <1>5 DEF ConfigAge

(* Every step keeps what is known of the last config. *)
LEMMA ArmPreserved ==
  ASSUME TypeOK, ArmInv, [Next]_vars
  PROVE  ArmInv'
<1> USE DEF timeVars, pwmVars, rcVars, boardVars, history, Goto
<1>0. /\ age \in Nat /\ pass_ticks \in 0 .. MaxPass /\ MaxPass \in Nat
      /\ ArmTicks \in 1 .. (W \div 2) - 1 /\ RearmAge \in Nat
      /\ RearmAge < W
      /\ Stale = 2 * MaxPass /\ enabled \in Nat /\ SinceLook \in Nat
      /\ SinceLook <= Stale
  BY Counts, Params, Half DEF RearmAge, Stale, TypeOK, SinceLook
<1>1. CASE CheckArmed
  <2>1. /\ UNCHANGED <<jiffies, pass_ticks, armtimeout, watched, age>>
        /\ wpc' = "pwm_write"
        /\ armed' => time_before(jiffies, armtimeout) /\ armtimeout > 0
    BY <1>1 DEF CheckArmed
  <2>2. ASSUME armed', watched = "config", age < RearmAge
        PROVE  age < ArmTicks
    <3>1. age = ConfigAge
      BY <2>1, <2>2 DEF ArmInv, ConfigAge
    <3> QED
      BY <2>1, <2>2, <3>1, ArmedBefore
  <2>3. ASSUME age < ArmTicks
        PROVE  age <= ArmTicks - 1 + SinceLook'
    BY <1>0, <2>1, <2>3 DEF SinceLook
  <2> QED
    BY <1>0, <2>1, <2>2, <2>3 DEF ArmInv
<1>2. CASE PwmConfig
  <2>1. /\ UNCHANGED <<jiffies, pass_ticks, watched, wpc>>
        /\ watched = "config" => age' = 0
        /\ ConfigAge' = 0
    BY <1>2, ConfigAgeZero DEF PwmConfig, Restart
  <2>2. watched = "config" => age' <= ArmTicks - 1 + SinceLook'
    BY <1>0, <2>1 DEF SinceLook
  <2> QED
    BY <2>1, <2>2 DEF ArmInv, ConfigAge
<1>3. CASE PwmEnable
  <2>1. /\ UNCHANGED <<jiffies, pass_ticks, armtimeout, watched, age, wpc>>
        /\ enabled' = 0
    BY <1>3 DEF PwmEnable
  <2>2. enabled' <= SinceLook'
    BY <1>0, <2>1 DEF SinceLook
  <2> QED
    BY <2>1, <2>2 DEF ArmInv
<1>4. CASE PwmDisable
  BY <1>4 DEF PwmDisable, ArmInv
<1>5. CASE Tick
  <2>1. /\ jiffies' = Later(1) /\ pass_ticks' = pass_ticks + 1
        /\ UNCHANGED <<wpc, watched, armtimeout, armed>>
        /\ enabled' = IF enabled > Stale THEN enabled ELSE enabled + 1
    BY <1>5 DEF Tick
  <2>2. SUFFICES ASSUME watched = "config", age' < RearmAge
                 PROVE  ArmInv'
    BY <2>1 DEF ArmInv
  <2>3. Running /\ AgeBound = RearmAge - 1
    BY <2>2 DEF Running, AgeBound
  <2>4. age' = age + 1 /\ age < RearmAge
    BY <1>0, <1>5, <2>2, <2>3 DEF Tick
  <2>5. ASSUME armtimeout > 0
        PROVE  age' = ConfigAge'
    <3>1. age = ConfigAge
      BY <2>2, <2>4, <2>5 DEF ArmInv, ConfigAge
    <3>2. age < W - 1
      BY <1>0, <2>2, <2>4, Params
    <3> QED
      BY <2>1, <2>4, <3>1, <3>2, ConfigAgeTick
  <2>6. armed => age <= ArmTicks - 1 + SinceLook \/ enabled <= SinceLook
    BY <2>2, <2>4 DEF ArmInv
  <2>7. SinceLook' = SinceLook + 1
    BY <1>0, <2>1 DEF SinceLook
  <2>8. armed' => \/ age' <= ArmTicks - 1 + SinceLook'
                  \/ enabled' <= SinceLook'
    BY <1>0, <2>1, <2>4, <2>6, <2>7
  <2> QED
    BY <2>1, <2>5, <2>8 DEF ArmInv, ConfigAge
<1>6. CASE Sleep
  <2>1. /\ UNCHANGED <<jiffies, armtimeout, armed, watched, age, enabled>>
        /\ pass_ticks' = 0 /\ wpc = "sleep" /\ wpc' = "pwm"
    BY <1>6 DEF Sleep
  <2>2. SinceLook = pass_ticks /\ SinceLook' = MaxPass
    BY <1>0, <2>1 DEF SinceLook
  <2>3. ASSUME armed', watched = "config", age < RearmAge
        PROVE  age <= ArmTicks - 1 + SinceLook' \/ enabled <= SinceLook'
    <3>1. age <= ArmTicks - 1 + SinceLook \/ enabled <= SinceLook
      BY <2>1, <2>3 DEF ArmInv
    <3> QED
      BY <1>0, <2>2, <3>1
  <2> QED
    BY <2>1, <2>3 DEF ArmInv
<1>7. CASE ~(CheckArmed \/ PwmConfig \/ PwmEnable \/ PwmDisable \/ Tick
               \/ Sleep)
  <2> USE DEF Next, WorkerStep, WriteIfArmed, NotDue, AdcRead, RcinReadFlags,
              RcinReadValues, StatusRead, StatusReadCrc, Heartbeat,
              HeartbeatEnabledStore, RcChange, LinkChange, Restart,
              rcio_safety_do_heartbeat, vars
  <2>1. UNCHANGED <<jiffies, pass_ticks, armtimeout, armed, watched, enabled>>
    BY <1>7
  <2>2. watched = "config" => age' = age
    BY <1>7
  <2>3. wpc = "pwm" <=> wpc' = "pwm"
    BY <1>7
  <2>4. SinceLook' = SinceLook
    BY <2>1, <2>3 DEF SinceLook
  <2> QED
    BY <2>1, <2>2, <2>4 DEF ArmInv
<1> QED
  BY <1>1, <1>2, <1>3, <1>4, <1>5, <1>6, <1>7

-----------------------------------------------------------------------------
(* The theorems                                                            *)

(* After the probe every timeout is set, and nothing has been seen yet. *)
LEMMA PollsInit == Init => PollsInv
<1> SUFFICES ASSUME Init PROVE PollsInv
  OBVIOUS
<1>1. TypeOK
  BY TypeInit
<1>2. RcInv /\ LinkInv
  BY DEF Init, RcInv, LinkInv
<1>3. ChannelsInv
  BY DEF Init, ChannelsInv
<1>4. BeatInv
  <2>1. /\ jiffies \in 0 .. W - 1 /\ "safety" \in Polls
        /\ First["safety"] \in 1 .. Period["safety"]
        /\ Period["safety"] \in 1 .. (W \div 2) - 1
        /\ timeout["safety"] = Later(First["safety"])
    BY Params DEF Init, Polls
  <2>2. jiffies + First["safety"] \in -W .. (2 * W) - 1
    BY <2>1, Half, Params
  <2>3. timeout["safety"] = IF jiffies + First["safety"] < W
                            THEN jiffies + First["safety"]
                            ELSE jiffies + First["safety"] - W
    BY <2>1, <2>2, Wrap, Params DEF Later
  <2> DEFINE b == jiffies - timeout["safety"] + Period["safety"]
  <2>4. \/ b = Period["safety"] - First["safety"]
        \/ b = Period["safety"] - First["safety"] + W
    BY <2>1, <2>3, Params
  <2>5. b \in -W .. (2 * W) - 1
    BY <2>1, <2>4, Half, Params
  <2>6. b % W = Period["safety"] - First["safety"]
    <3>1. b % W = IF b < 0 THEN b + W ELSE IF b < W THEN b ELSE b - W
      <4> HIDE DEF b
      <4> QED
        BY <2>5, Wrap
    <3> QED
      BY <2>1, <2>4, <3>1, Half, Params
  <2>7. Elapsed("safety") = Period["safety"] - First["safety"]
    BY <2>6 DEF Elapsed
  <2> QED
    BY <2>1, <2>7, Params DEF Init, BeatInv, Recent
<1>5. ArmInv
  BY DEF Init, ArmInv
<1> QED
  BY <1>1, <1>2, <1>3, <1>4, <1>5 DEF PollsInv

(* The invariant behind the theorems below: how long ago the last update of  *)
(* each poll was, and the last config, against how long the thing that is    *)
(* watched has been so.                                                      *)
THEOREM PollsInvariant == Spec => []PollsInv
<1>1. Init => PollsInv
  BY PollsInit
<1>2. PollsInv /\ [Next]_vars => PollsInv'
  <2> SUFFICES ASSUME PollsInv, [Next]_vars PROVE PollsInv'
    OBVIOUS
  <2>1. TypeOK'
    BY TypeWorker, TypeSurroundings DEF Next, PollsInv
  <2> QED
    BY <2>1, RcPreserved, ChannelsPreserved, LinkPreserved, BeatPreserved,
       ArmPreserved DEF PollsInv
<1> QED
  BY <1>1, <1>2, PTL DEF Spec

(* A receiver lost for longer than a poll and its passes take is not         *)
(* reported as connected (rcio_rcin.c:94-121, 150-180).                      *)
THEOREM PollsRcLossSeen == Spec => []RcLossSeen
<1>1. PollsInv => RcLossSeen
  <2> SUFFICES ASSUME PollsInv, watched = "rc", connected
               PROVE  age <= Bound("rcin")
    BY DEF RcLossSeen
  <2>1. /\ Recent("rcin", BeforeRcin) /\ TypeOK
        /\ age <= Elapsed("rcin") + MaxPass
    BY DEF PollsInv, RcInv
  <2>2. "rcin" \in Polls
    BY DEF Polls
  <2> QED
    BY <2>1, <2>2, RecentBound
<1> QED
  BY <1>1, PollsInvariant, PTL

(* Nor do its channels keep a measurement, on a link that works              *)
(* (rcio_rcin.c:100-105).                                                    *)
THEOREM PollsLostChannelsZero == Spec => []LostChannelsZero
<1>1. PollsInv => LostChannelsZero
  <2> SUFFICES ASSUME PollsInv, watched = "channels", measured
               PROVE  age <= Bound("rcin")
    BY DEF LostChannelsZero
  <2>1. /\ Recent("rcin", BeforeRcin) /\ TypeOK
        /\ age <= Elapsed("rcin") + MaxPass
    BY DEF PollsInv, RcInv, ChannelsInv
  <2>2. "rcin" \in Polls
    BY DEF Polls
  <2> QED
    BY <2>1, <2>2, RecentBound
<1> QED
  BY <1>1, PollsInvariant, PTL

(* A board that stopped answering that long ago is not alive                 *)
(* (rcio_status.c:94-113).                                                   *)
THEOREM PollsBoardLossSeen == Spec => []BoardLossSeen
<1>1. PollsInv => BoardLossSeen
  <2> SUFFICES ASSUME PollsInv, watched = "link", alive
               PROVE  age <= Bound("status")
    BY DEF BoardLossSeen
  <2>1. /\ Recent("status", BeforeStatus) /\ TypeOK
        /\ age <= Elapsed("status") + MaxPass
    BY DEF PollsInv, LinkInv
  <2>2. "status" \in Polls
    BY DEF Polls
  <2> QED
    BY <2>1, <2>2, RecentBound
<1> QED
  BY <1>1, PollsInvariant, PTL

(* While the heartbeat is enabled and the link works the board gets one in   *)
(* time (rcio_safety.c:64-78).                                               *)
THEOREM PollsHeartbeatInTime == Spec => []HeartbeatInTime
<1>1. PollsInv => HeartbeatInTime
  <2> SUFFICES ASSUME PollsInv, watched = "beat"
               PROVE  age <= Bound("safety")
    BY DEF HeartbeatInTime
  <2>1. /\ Recent("safety", BeforeSafety) /\ TypeOK
        /\ age <= Elapsed("safety")
    BY DEF PollsInv, BeatInv
  <2>2. "safety" \in Polls
    BY DEF Polls
  <2> QED
    BY <2>1, <2>2, RecentBound
<1> QED
  BY <1>1, PollsInvariant, PTL

(* With the last config longer ago than HZ / 10 and the pass in which that   *)
(* ran out, and half the range of jiffies not gone by since, the outputs are *)
(* armed only by an enable that the worker has not yet overruled             *)
(* (rcio_pwm.c:160-165, 336, 462).                                           *)
THEOREM PollsArmedInTime == Spec => []ArmedInTime
<1>1. PollsInv => ArmedInTime
  <2> SUFFICES ASSUME PollsInv, watched = "config", armed,
                      age \in ArmTicks + Room .. RearmAge - 1,
                      ~(enabled <= Room)
               PROVE  FALSE
    BY DEF ArmedInTime
  <2>1. /\ TypeOK /\ ArmTicks \in Nat /\ RearmAge \in Nat
    BY AgeBoundNat, Params DEF PollsInv, TypeOK
  <2>2. age \in Nat /\ pass_ticks \in 0 .. MaxPass /\ MaxPass \in Nat
    BY <2>1, Counts
  <2>3. /\ Room \in Nat /\ SinceLook \in Nat /\ SinceLook <= Room
        /\ enabled \in Nat
    BY <2>1, <2>2, Params DEF Room, Stale, SinceLook, TypeOK
  <2>4. age < RearmAge /\ age >= ArmTicks + Room
    BY <2>1, <2>3
  <2>5. age <= ArmTicks - 1 + SinceLook \/ enabled <= SinceLook
    BY <2>4 DEF PollsInv, ArmInv
  <2> QED
    BY <2>1, <2>2, <2>3, <2>4, <2>5
<1> QED
  BY <1>1, PollsInvariant, PTL
=============================================================================
