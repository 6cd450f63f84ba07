------------------------ MODULE RcioLifecycle_proofs ------------------------
(***************************************************************************)
(* Proofs about RcioLifecycle, for every number of lives and failures.     *)
(***************************************************************************)
EXTENDS RcioLifecycle, TLAPS

(* The invariant says what there is at each place of rcio_init and          *)
(* rcio_remove, whichever way the thread came there.                        *)

\* Places at which the PWM chip of this life is registered.
AfterPwm == {"hardware", "rcin", "safety", "features", "gpio", "thread",
             "bound", "stop"}

\* The allocations and the lock.
MemoryInv ==
  /\ buffer <=> pc # "unbound"
  /\ object <=> pc \notin {"unbound", "object", "free"}
  /\ object => lock # "none"
  /\ pc \in {"status", "board", "adc", "pwm"} \cup AfterPwm => lock = "ready"

\* What is published needs the object, and who is inside needs what is
\* published.
PublishedInv ==
  /\ groups # {} => object
  /\ "attribute" \in calls => groups # {}
  /\ pc = "gpio" => gpio_supported
  /\ gpiochip => /\ gpio_supported
                 /\ pc \in {"thread", "bound", "stop", "remove_pwm",
                            "remove_gpio", "oops"}
  /\ "gpio" \in calls => gpiochip

\* The worker lives between StartThread and StopThread.
TaskInv ==
  /\ task = "invalid" =>
       pc \in {"bound", "stop", "oops"} /\ "thread" \in failed
  /\ task \in {"head", "turn"} => pc \in {"bound", "stop"}

\* A PWM call is inside a registered chip, which its request keeps there.
PwmInv ==
  /\ pc \in AfterPwm => pwm = "added"
  /\ "pwm" \in calls => pwm = "added" /\ "pwm" \in requested
  /\ "old_pwm" \in calls => stranded /\ "old_pwm" \in requested
  /\ failed \cap Stranding = {} =>
       /\ ~stranded
       /\ pwm = "added" => pc \in AfterPwm \cup {"remove_pwm", "oops"}

\* GPIO was found, and its chip could not be added in this life.
GpioFailed == failed \cap {"gpio_group", "gpio_add"} # {}

\* Whose fault it is that the removal meets something it does not expect.
BlameInv ==
  /\ pc # "unbound" => lives >= 1
  /\ gpio_supported =>
       /\ lives >= 1
       /\ pc \in {"object", "status", "board", "adc", "pwm", "hardware",
                  "rcin", "safety", "features"} => lives > 1
  /\ pc = "remove_pwm" /\ pwm # "added" => "status_group" \in failed
  /\ gpio_supported /\ ~gpiochip =>
       /\ pc \in {"thread", "bound", "stop"} => GpioFailed
       /\ pc \in {"remove_pwm", "remove_gpio"} =>
            \/ GpioFailed
            \/ "status_group" \in failed
            \/ "safety_group" \in failed /\ lives > 1

\* Places at which the ADC's attributes have been published, or refused.
AfterAdc == {"pwm"} \cup AfterPwm

\* While no read of the board type failed, a board probed since boot accounts
\* for the attributes that are switched off.
AdcInv ==
  /\ "board" \notin failed =>
       /\ \E b \in probed \cup {EDGE} : ChannelsOf(b) <= adc_shown
       /\ pc \in {"adc"} \cup AfterAdc =>
            board \in probed /\ (board # UNKNOWN => counts = board)
       /\ pc \in AfterAdc /\ board # UNKNOWN => adc_shown <= ChannelsOf(board)
  /\ pc \in AfterAdc => "adc" \in groups \/ "adc_group" \in failed

LifecycleInv ==
  /\ TypeOK
  /\ MemoryInv /\ PublishedInv /\ TaskInv /\ PwmInv /\ BlameInv /\ AdcInv
  /\ OopsExplained

(* What the kernel lets users call is there.                                *)
LEMMA RegisteredChips ==
  /\ Registered("attribute") => groups # {}
  /\ Registered("gpio") => gpiochip
  /\ Registered("pwm") <=> pwm = "added"
  /\ Registered("old_pwm") <=> stranded
BY DEF Registered

(* Each part of the invariant survives every step: of the thread that binds *)
(* and unbinds, of the worker, of a user and of a reboot.  First the shape  *)
(* of the state.                                                            *)
LEMMA LifecycleTypeStep ==
  ASSUME TypeOK, [Next]_vars
  PROVE  TypeOK'
<1> USE LifecycleAssumption
    DEF Goto, Fail, Oops, Strand, spiVars, coreVars, partVars, userVars,
        boardVars
<1>1. CASE Binding
  <2> USE DEF Binding, ObjectFails, CreateObject, StatusFails, StatusGroup,
              ReadBoard, AdcProbe, PwmMemoryFails, PwmAddFails, PwmAdd,
              HardwareFails, HardwareInit, RcinProbe, SafetyFails, SafetyProbe,
              GpioFeatures, GpioGroupFails, GpioAddFails, GpioAdd, ThreadFails,
              StartThread
  <2>1. pc' \in Pcs /\ lives' \in 0 .. MaxLives
    BY <1>1 DEF TypeOK, Pcs
  <2>2. /\ buffer' \in BOOLEAN /\ object' \in BOOLEAN
        /\ lock' \in {"none", "ready", "destroyed"}
    BY <1>1 DEF TypeOK
  <2>3. task' \in {"none", "head", "turn", "invalid"}
    BY <1>1 DEF TypeOK
  <2>4. /\ board_type' \in {NAVIO2, EDGE, UNKNOWN}
        /\ counts' \in {NAVIO2, EDGE, UNKNOWN}
    BY <1>1 DEF TypeOK, CountsOf
  <2>5. groups' \subseteq {"status", "adc", "rcin", "safety", "gpio"}
    BY <1>1 DEF TypeOK
  <2>6. adc_shown' \in 0 .. 8
    BY <1>1 DEF TypeOK, AdcChannels, ChannelsOf
  <2>7. pwm' \in {"null", "unadded", "added", "freed"} /\ stranded' \in BOOLEAN
    BY <1>1 DEF TypeOK
  <2>8. gpio_supported' \in BOOLEAN /\ gpiochip' \in BOOLEAN
    BY <1>1 DEF TypeOK
  <2>9. calls' \subseteq Calls /\ requested' \subseteq Chips
    BY <1>1 DEF TypeOK, Calls, Chips
  <2>10. board' \in Boards /\ probed' \subseteq Boards
    BY <1>1 DEF TypeOK
  <2>11. failed' \subseteq Failures
    BY <1>1 DEF TypeOK, Failures
  <2> QED
    BY <2>1, <2>2, <2>3, <2>4, <2>5, <2>6, <2>7, <2>8, <2>9, <2>10,
       <2>11 DEF TypeOK
<1>2. CASE Unbinding
  <2> USE DEF Unbinding, StopInvalid, StopThread, RemoveNoPwm, RemoveBusyPwm,
              RemovePwm, RemoveNoGpio, RemoveGpio, PutObject, FreeBuffer
  <2>1. failed' \subseteq Failures
    BY <1>2 DEF TypeOK, Failures
  <2>2. pc' \in Pcs
    BY <1>2 DEF TypeOK, Pcs
  <2>3. groups' \subseteq {"status", "adc", "rcin", "safety", "gpio"}
    BY <1>2 DEF TypeOK
  <2>4. /\ buffer' \in BOOLEAN /\ object' \in BOOLEAN
        /\ lock' \in {"none", "ready", "destroyed"}
        /\ pwm' \in {"null", "unadded", "added", "freed"}
        /\ gpiochip' \in BOOLEAN
    BY <1>2 DEF TypeOK
  <2>5. UNCHANGED <<board_type, counts, task, adc_shown, stranded,
                    gpio_supported, userVars, boardVars, lives>>
    BY <1>2
  <2> QED
    BY <2>1, <2>2, <2>3, <2>4, <2>5 DEF TypeOK
<1>3. CASE BindFails \/ Bind \/ Unbind \/ WorkerLoop \/ WorkerReturn
  <2> USE DEF BindFails, Bind, Unbind, WorkerLoop, WorkerReturn, Task
  <2>1. failed' \subseteq Failures
    BY <1>3 DEF TypeOK, Failures
  <2>2. pc' \in Pcs /\ lives' \in 0 .. MaxLives
    BY <1>3 DEF TypeOK, Pcs
  <2>3. buffer' \in BOOLEAN /\ task' \in {"none", "head", "turn", "invalid"}
    BY <1>3 DEF TypeOK
  <2>4. UNCHANGED <<object, lock, board_type, counts, partVars, userVars,
                    boardVars>>
    BY <1>3
  <2> QED
    BY <2>1, <2>2, <2>3, <2>4 DEF TypeOK
<1>4. ASSUME NEW c \in Calls, Enter(c) \/ Leave(c) PROVE TypeOK'
  <2>1. calls' \subseteq Calls
    BY <1>4 DEF TypeOK, Enter, Leave
  <2>2. requested' \subseteq Chips
    BY <1>4 DEF TypeOK, Enter, Leave
  <2>3. UNCHANGED <<pc, spiVars, coreVars, partVars, boardVars, failed, lives>>
    BY <1>4 DEF Enter, Leave
  <2> QED
    BY <2>1, <2>2, <2>3 DEF TypeOK
<1>5. CASE Reboot
  <2>1. lives' \in 0 .. MaxLives /\ pc' \in Pcs /\ adc_shown' \in 0 .. 8
    BY <1>5 DEF Reboot, Pcs
  <2>2. board' \in Boards /\ probed' \subseteq Boards
    BY <1>5 DEF TypeOK, Reboot
  <2>3. /\ failed' \subseteq Failures /\ calls' \subseteq Calls
        /\ requested' \subseteq Chips
        /\ groups' \subseteq {"status", "adc", "rcin", "safety", "gpio"}
    BY <1>5 DEF Reboot
  <2>4. /\ lock' = "none" /\ board_type' = NAVIO2 /\ counts' = UNKNOWN
        /\ task' = "none" /\ pwm' = "null"
    BY <1>5 DEF Reboot
  <2>5. /\ buffer' \in BOOLEAN /\ object' \in BOOLEAN /\ stranded' \in BOOLEAN
        /\ gpio_supported' \in BOOLEAN /\ gpiochip' \in BOOLEAN
    BY <1>5, Zenon DEF Reboot
  <2> QED
    BY <2>1, <2>2, <2>3, <2>4, <2>5 DEF TypeOK
<1>6. CASE Swap
  <2>1. board' \in Boards
    BY <1>6 DEF Swap
  <2>2. UNCHANGED <<pc, spiVars, coreVars, partVars, userVars, probed, failed,
                    lives>>
    BY <1>6 DEF Swap
  <2> QED
    BY <2>1, <2>2 DEF TypeOK
<1>7. CASE UNCHANGED vars
  BY <1>7 DEF TypeOK, vars
<1> QED
  BY <1>1, <1>2, <1>3, <1>4, <1>5, <1>6, <1>7 DEF Next

(* The buffer and the lock outlive the object.                              *)
LEMMA MemoryStep ==
  ASSUME MemoryInv, [Next]_vars
  PROVE  MemoryInv'
<1> USE LifecycleAssumption
    DEF Goto, Fail, Oops, Strand, spiVars, coreVars, partVars, userVars,
        boardVars, AfterPwm
<1>1. CASE Binding
  BY <1>1 DEF MemoryInv, Binding, ObjectFails, CreateObject, StatusFails,
              StatusGroup, ReadBoard, AdcProbe, PwmMemoryFails, PwmAddFails,
              PwmAdd, HardwareFails, HardwareInit, RcinProbe, SafetyFails,
              SafetyProbe, GpioFeatures, GpioGroupFails, GpioAddFails,
              GpioAdd, ThreadFails, StartThread
<1>2. CASE Unbinding
  BY <1>2 DEF MemoryInv, Unbinding, StopInvalid, StopThread, RemoveNoPwm,
              RemoveBusyPwm, RemovePwm, RemoveNoGpio, RemoveGpio, PutObject,
              FreeBuffer
<1>3. CASE BindFails \/ Bind \/ Unbind \/ WorkerLoop \/ WorkerReturn
  BY <1>3 DEF MemoryInv, BindFails, Bind, Unbind, WorkerLoop, WorkerReturn,
              Task
<1>4. ASSUME NEW c \in Calls, Enter(c) \/ Leave(c) PROVE MemoryInv'
  BY <1>4 DEF MemoryInv, Enter, Leave
<1>5. CASE Reboot
  BY <1>5 DEF MemoryInv, Reboot
<1>6. CASE Swap \/ UNCHANGED vars
  BY <1>6 DEF MemoryInv, Swap, vars
<1> QED
  BY <1>1, <1>2, <1>3, <1>4, <1>5, <1>6 DEF Next

(* Nothing is published without the object, and PutObject and RemoveGpio    *)
(* wait for the calls inside.                                               *)
LEMMA PublishedStep ==
  ASSUME TypeOK, MemoryInv, PublishedInv, [Next]_vars
  PROVE  PublishedInv'
<1> USE LifecycleAssumption
    DEF Goto, Fail, Oops, Strand, spiVars, coreVars, partVars, userVars,
        boardVars, AfterPwm
<1>1. CASE Binding
  <2> USE DEF Binding, ObjectFails, CreateObject, StatusFails, StatusGroup,
              ReadBoard, AdcProbe, PwmMemoryFails, PwmAddFails, PwmAdd,
              HardwareFails, HardwareInit, RcinProbe, SafetyFails, SafetyProbe,
              GpioFeatures, GpioGroupFails, GpioAddFails, GpioAdd, ThreadFails,
              StartThread
  <2>1. (groups # {} => object)' /\ ("attribute" \in calls => groups # {})'
    BY <1>1 DEF MemoryInv, PublishedInv
  <2>2. /\ (pc = "gpio" => gpio_supported)'
        /\ (gpiochip => /\ gpio_supported
                        /\ pc \in {"thread", "bound", "stop", "remove_pwm",
                                   "remove_gpio", "oops"})'
    BY <1>1 DEF PublishedInv
  <2>3. ("gpio" \in calls => gpiochip)'
    BY <1>1 DEF PublishedInv
  <2> QED
    BY <2>1, <2>2, <2>3 DEF PublishedInv
<1>2. CASE Unbinding
  <2> USE DEF Unbinding, StopInvalid, StopThread, RemoveNoPwm, RemoveBusyPwm,
              RemovePwm, RemoveNoGpio, RemoveGpio, PutObject, FreeBuffer
  <2>1. (groups # {} => object)' /\ ("attribute" \in calls => groups # {})'
    BY <1>2 DEF MemoryInv, PublishedInv
  <2>2. /\ (pc = "gpio" => gpio_supported)'
        /\ (gpiochip => /\ gpio_supported
                        /\ pc \in {"thread", "bound", "stop", "remove_pwm",
                                   "remove_gpio", "oops"})'
    <3>1. RemoveGpio => ~gpiochip'
      BY Zenon DEF PublishedInv, RemoveGpio
    <3> QED
      BY <1>2, <3>1 DEF PublishedInv
  <2>3. ("gpio" \in calls => gpiochip)'
    BY <1>2 DEF PublishedInv
  <2> QED
    BY <2>1, <2>2, <2>3 DEF PublishedInv
<1>3. CASE BindFails \/ Bind \/ Unbind \/ WorkerLoop \/ WorkerReturn
  BY <1>3 DEF MemoryInv, PublishedInv, TypeOK, BindFails, Bind, Unbind,
              WorkerLoop, WorkerReturn, Task
<1>4. ASSUME NEW c \in Calls, Enter(c) \/ Leave(c) PROVE PublishedInv'
  <2>1. UNCHANGED <<pc, object, groups, gpio_supported, gpiochip>>
    BY <1>4 DEF Enter, Leave
  <2>2. "attribute" \in calls' => "attribute" \in calls \/ groups # {}
    BY <1>4, RegisteredChips DEF Enter, Leave
  <2>3. "gpio" \in calls' => "gpio" \in calls \/ gpiochip
    BY <1>4, RegisteredChips DEF Enter, Leave
  <2> QED
    BY <2>1, <2>2, <2>3 DEF PublishedInv
<1>5. CASE Reboot
  BY <1>5 DEF MemoryInv, PublishedInv, TypeOK, Reboot
<1>6. CASE Swap \/ UNCHANGED vars
  BY <1>6 DEF MemoryInv, PublishedInv, TypeOK, Swap, vars
<1> QED
  BY <1>1, <1>2, <1>3, <1>4, <1>5, <1>6 DEF Next

(* The worker ends before rcio_remove goes on.                              *)
LEMMA TaskStep ==
  ASSUME TypeOK, TaskInv, [Next]_vars
  PROVE  TaskInv'
<1> USE LifecycleAssumption
    DEF Goto, Fail, Oops, Strand, spiVars, coreVars, partVars, userVars,
        boardVars, AfterPwm
<1>1. CASE Binding
  BY <1>1 DEF TypeOK, TaskInv, Binding, ObjectFails, CreateObject,
              StatusFails, StatusGroup, ReadBoard, AdcProbe, PwmMemoryFails,
              PwmAddFails, PwmAdd, HardwareFails, HardwareInit, RcinProbe,
              SafetyFails, SafetyProbe, GpioFeatures, GpioGroupFails,
              GpioAddFails, GpioAdd, ThreadFails, StartThread
<1>2. CASE Unbinding
  BY <1>2 DEF TypeOK, TaskInv, Unbinding, StopInvalid, StopThread,
              RemoveNoPwm, RemoveBusyPwm, RemovePwm, RemoveNoGpio, RemoveGpio,
              PutObject, FreeBuffer
<1>3. CASE BindFails \/ Bind \/ Unbind \/ WorkerLoop \/ WorkerReturn
  BY <1>3 DEF TypeOK, TaskInv, BindFails, Bind, Unbind, WorkerLoop,
              WorkerReturn, Task
<1>4. ASSUME NEW c \in Calls, Enter(c) \/ Leave(c) PROVE TaskInv'
  BY <1>4 DEF TypeOK, TaskInv, Enter, Leave
<1>5. CASE Reboot
  BY <1>5 DEF TypeOK, TaskInv, Reboot
<1>6. CASE Swap \/ UNCHANGED vars
  BY <1>6 DEF TypeOK, TaskInv, Swap, vars
<1> QED
  BY <1>1, <1>2, <1>3, <1>4, <1>5, <1>6 DEF Next

(* A PWM chip with a requested PWM stays; the pointer may leave it, by      *)
(* Strand, and only a failed rcio_hardware_init and a busy chip let it.     *)
LEMMA PwmStep ==
  ASSUME TypeOK, PwmInv, [Next]_vars
  PROVE  PwmInv'
<1> USE LifecycleAssumption
    DEF Goto, Fail, Oops, Strand, spiVars, coreVars, partVars, userVars,
        boardVars, AfterPwm
<1>1. CASE Binding
  <2> USE DEF Binding, ObjectFails, CreateObject, StatusFails, StatusGroup,
              ReadBoard, AdcProbe, PwmMemoryFails, PwmAddFails, PwmAdd,
              HardwareFails, HardwareInit, RcinProbe, SafetyFails, SafetyProbe,
              GpioFeatures, GpioGroupFails, GpioAddFails, GpioAdd, ThreadFails,
              StartThread
  <2>1. (pc \in AfterPwm => pwm = "added")'
    BY <1>1 DEF PwmInv
  <2>2. ("pwm" \in calls => pwm = "added" /\ "pwm" \in requested)'
    BY <1>1 DEF PwmInv
  <2>3. ("old_pwm" \in calls => stranded /\ "old_pwm" \in requested)'
    BY <1>1 DEF PwmInv
  <2>4. (failed \cap Stranding = {} =>
           /\ ~stranded
           /\ pwm = "added" => pc \in AfterPwm \cup {"remove_pwm", "oops"})'
    BY <1>1 DEF PwmInv, Stranding
  <2> QED
    BY <2>1, <2>2, <2>3, <2>4 DEF PwmInv
<1>2. CASE Unbinding
  BY <1>2 DEF TypeOK, PwmInv, Stranding, Unbinding, StopInvalid, StopThread,
              RemoveNoPwm, RemoveBusyPwm, RemovePwm, RemoveNoGpio, RemoveGpio,
              PutObject, FreeBuffer
<1>3. CASE BindFails \/ Bind \/ Unbind \/ WorkerLoop \/ WorkerReturn
  BY <1>3 DEF TypeOK, PwmInv, Stranding, BindFails, Bind, Unbind, WorkerLoop,
              WorkerReturn, Task
<1>4. ASSUME NEW c \in Calls, Enter(c) \/ Leave(c) PROVE PwmInv'
  <2>1. UNCHANGED <<pc, pwm, stranded, failed>>
    BY <1>4 DEF Enter, Leave
  <2>2. "pwm" \in calls' => pwm = "added" /\ "pwm" \in requested'
    BY <1>4, RegisteredChips DEF PwmInv, Enter, Leave, Chips
  <2>3. "old_pwm" \in calls' => stranded /\ "old_pwm" \in requested'
    BY <1>4, RegisteredChips DEF PwmInv, Enter, Leave, Chips
  <2> QED
    BY <2>1, <2>2, <2>3 DEF PwmInv
<1>5. CASE Reboot
  BY <1>5 DEF TypeOK, PwmInv, Stranding, Reboot
<1>6. CASE Swap \/ UNCHANGED vars
  BY <1>6 DEF TypeOK, PwmInv, Stranding, Swap, vars
<1> QED
  BY <1>1, <1>2, <1>3, <1>4, <1>5, <1>6 DEF Next

(* What the removal does not find, some failure kept from being made.       *)
LEMMA BlameStep ==
  ASSUME TypeOK, PublishedInv, PwmInv, BlameInv, [Next]_vars
  PROVE  BlameInv'
<1> USE LifecycleAssumption
    DEF Goto, Fail, Oops, Strand, spiVars, coreVars, partVars, userVars,
        boardVars, AfterPwm
<1>1. CASE Binding
  BY <1>1 DEF TypeOK, PublishedInv, PwmInv, BlameInv, GpioFailed, Binding,
              ObjectFails, CreateObject, StatusFails, StatusGroup, ReadBoard,
              AdcProbe, PwmMemoryFails, PwmAddFails, PwmAdd, HardwareFails,
              HardwareInit, RcinProbe, SafetyFails, SafetyProbe, GpioFeatures,
              GpioGroupFails, GpioAddFails, GpioAdd, ThreadFails, StartThread
<1>2. CASE Unbinding
  BY <1>2 DEF TypeOK, PublishedInv, PwmInv, BlameInv, GpioFailed, Unbinding,
              StopInvalid, StopThread, RemoveNoPwm, RemoveBusyPwm, RemovePwm,
              RemoveNoGpio, RemoveGpio, PutObject, FreeBuffer
<1>3. CASE BindFails \/ Bind \/ Unbind \/ WorkerLoop \/ WorkerReturn
  BY <1>3 DEF TypeOK, PublishedInv, PwmInv, BlameInv, GpioFailed, BindFails,
              Bind, Unbind, WorkerLoop, WorkerReturn, Task
<1>4. ASSUME NEW c \in Calls, Enter(c) \/ Leave(c) PROVE BlameInv'
  BY <1>4 DEF TypeOK, PublishedInv, PwmInv, BlameInv, GpioFailed, Enter, Leave
<1>5. CASE Reboot
  BY <1>5 DEF TypeOK, PublishedInv, PwmInv, BlameInv, GpioFailed, Reboot
<1>6. CASE Swap \/ UNCHANGED vars
  BY <1>6 DEF TypeOK, PublishedInv, PwmInv, BlameInv, GpioFailed, Swap, vars
<1> QED
  BY <1>1, <1>2, <1>3, <1>4, <1>5, <1>6 DEF Next

(* The boards' channels *)
LEMMA ChannelCounts ==
  /\ ChannelsOf(NAVIO2) = 6 /\ ChannelsOf(EDGE) = 8 /\ ChannelsOf(UNKNOWN) = 0
  /\ \A b \in {NAVIO2, EDGE, UNKNOWN} : ChannelsOf(b) \in 0 .. 8
BY DEF ChannelsOf, NAVIO2, EDGE, UNKNOWN

(* Attributes go when AdcProbe puts its NULL, where the count of the board   *)
(* that was just probed says.                                                *)
LEMMA AdcStep ==
  ASSUME TypeOK, AdcInv, [Next]_vars
  PROVE  AdcInv'
<1> USE LifecycleAssumption
    DEF Goto, Fail, Oops, Strand, spiVars, coreVars, partVars, userVars,
        boardVars, AfterPwm, AfterAdc
<1>1. CASE ReadBoard
  <2>1. /\ probed' = probed \cup {board} /\ UNCHANGED <<adc_shown, board>>
        /\ pc' = "adc"
        /\ "board" \notin failed' =>
             /\ "board" \notin failed
             /\ counts' = (IF board = UNKNOWN THEN counts ELSE board)
    BY <1>1 DEF ReadBoard, CountsOf
  <2> QED
    BY <2>1 DEF AdcInv
<1>2. CASE AdcProbe
  <2>1. /\ UNCHANGED <<probed, board, counts>> /\ failed \subseteq failed'
        /\ "board" \in failed' => "board" \in failed
        /\ pc = "adc" /\ pc' = "pwm"
        /\ "adc" \in groups' \/ "adc_group" \in failed'
        /\ adc_shown' = IF AdcChannels < adc_shown THEN AdcChannels
                        ELSE adc_shown
    BY <1>2 DEF AdcProbe
  <2>2. SUFFICES ASSUME "board" \notin failed
                 PROVE  /\ \E b \in probed \cup {EDGE} :
                             ChannelsOf(b) <= adc_shown'
                        /\ board # UNKNOWN => adc_shown' <= ChannelsOf(board)
    BY <2>1 DEF AdcInv
  <2>3. /\ AdcChannels = ChannelsOf(counts) /\ adc_shown \in 0 .. 8
        /\ board \in {NAVIO2, EDGE, UNKNOWN}
        /\ counts \in {NAVIO2, EDGE, UNKNOWN}
        /\ board \in probed /\ (board # UNKNOWN => counts = board)
    BY <2>1, <2>2 DEF TypeOK, AdcInv, AdcChannels
  <2>4. adc_shown' \in 0 .. 8 /\ ChannelsOf(counts) \in 0 .. 8
    BY <2>1, <2>3, ChannelCounts
  <2>5. CASE board # UNKNOWN
    <3>1. adc_shown' <= ChannelsOf(board)
      BY <2>1, <2>3, <2>4, <2>5
    <3>2. adc_shown' = adc_shown \/ adc_shown' = ChannelsOf(board)
      BY <2>1, <2>3, <2>5
    <3>3. \E b \in probed \cup {EDGE} : ChannelsOf(b) <= adc_shown'
      BY <2>2, <2>3, <2>4, <2>5, <3>2 DEF AdcInv
    <3> QED
      BY <3>1, <3>3
  <2>6. CASE board = UNKNOWN
    BY <2>3, <2>4, <2>6, ChannelCounts
  <2> QED
    BY <2>5, <2>6
<1>3. CASE Binding /\ ~(ReadBoard \/ AdcProbe)
  <2> USE DEF Binding, ObjectFails, CreateObject, StatusFails, StatusGroup,
              PwmMemoryFails, PwmAddFails, PwmAdd, HardwareFails,
              HardwareInit, RcinProbe, SafetyFails, SafetyProbe, GpioFeatures,
              GpioGroupFails, GpioAddFails, GpioAdd, ThreadFails, StartThread
  <2>1. UNCHANGED <<adc_shown, probed, board, counts>>
    BY <1>3
  <2>2. /\ failed \subseteq failed' /\ groups \subseteq groups'
        /\ "board" \in failed' => "board" \in failed
    BY <1>3
  <2>3. /\ pc' \in AfterAdc => pc \in AfterAdc
        /\ pc' # "adc"
    BY <1>3
  <2> QED
    BY <2>1, <2>2, <2>3 DEF AdcInv
<1>4. CASE Unbinding
  <2> USE DEF Unbinding, StopInvalid, StopThread, RemoveNoPwm, RemoveBusyPwm,
              RemovePwm, RemoveNoGpio, RemoveGpio, PutObject, FreeBuffer
  <2>1. UNCHANGED <<adc_shown, probed, board, counts>>
    BY <1>4
  <2>2. /\ pc' \notin {"adc"} \cup AfterAdc
        /\ "board" \in failed' <=> "board" \in failed
    BY <1>4
  <2> QED
    BY <2>1, <2>2 DEF AdcInv
<1>5. CASE BindFails \/ Bind \/ Unbind \/ WorkerLoop \/ WorkerReturn
  BY <1>5 DEF TypeOK, AdcInv, BindFails, Bind, Unbind, WorkerLoop,
              WorkerReturn, Task
<1>6. ASSUME NEW c \in Calls, Enter(c) \/ Leave(c) PROVE AdcInv'
  BY <1>6 DEF TypeOK, AdcInv, Enter, Leave
<1>7. CASE Reboot
  <2>1. /\ probed' = {} /\ adc_shown' = 8 /\ pc' = "unbound"
    BY <1>7 DEF Reboot
  <2> QED
    BY <2>1, ChannelCounts DEF AdcInv
<1>8. CASE Swap \/ UNCHANGED vars
  BY <1>8 DEF TypeOK, AdcInv, Swap, vars
<1> QED
  BY <1>1, <1>2, <1>3, <1>4, <1>5, <1>6, <1>7, <1>8 DEF Next

(* The kernel oopses where BlameInv and TaskInv say whose fault it is.       *)
LEMMA OopsStep ==
  ASSUME TaskInv, BlameInv, OopsExplained, [Next]_vars
  PROVE  OopsExplained'
<1> USE LifecycleAssumption
    DEF Goto, Fail, Oops, Strand, spiVars, coreVars, partVars, userVars,
        boardVars, AfterPwm
<1>1. CASE Binding
  BY <1>1 DEF TaskInv, BlameInv, OopsExplained, Unhandled, GpioFailed,
              Binding, ObjectFails, CreateObject, StatusFails, StatusGroup,
              ReadBoard, AdcProbe, PwmMemoryFails, PwmAddFails, PwmAdd,
              HardwareFails, HardwareInit, RcinProbe, SafetyFails,
              SafetyProbe, GpioFeatures, GpioGroupFails, GpioAddFails,
              GpioAdd, ThreadFails, StartThread
<1>2. CASE Unbinding
  BY <1>2 DEF TaskInv, BlameInv, OopsExplained, Unhandled, GpioFailed,
              Unbinding, StopInvalid, StopThread, RemoveNoPwm, RemoveBusyPwm,
              RemovePwm, RemoveNoGpio, RemoveGpio, PutObject, FreeBuffer
<1>3. CASE BindFails \/ Bind \/ Unbind \/ WorkerLoop \/ WorkerReturn
  BY <1>3 DEF TaskInv, BlameInv, OopsExplained, Unhandled, GpioFailed,
              BindFails, Bind, Unbind, WorkerLoop, WorkerReturn, Task
<1>4. ASSUME NEW c \in Calls, Enter(c) \/ Leave(c) PROVE OopsExplained'
  BY <1>4 DEF TaskInv, BlameInv, OopsExplained, Unhandled, GpioFailed, Enter,
              Leave
<1>5. CASE Reboot
  BY <1>5 DEF TaskInv, BlameInv, OopsExplained, Unhandled, GpioFailed, Reboot
<1>6. CASE Swap \/ UNCHANGED vars
  BY <1>6 DEF TaskInv, BlameInv, OopsExplained, Unhandled, GpioFailed, Swap,
              vars
<1> QED
  BY <1>1, <1>2, <1>3, <1>4, <1>5, <1>6 DEF Next

(* The driver that was just loaded. *)
LEMMA LifecycleInit == Init => LifecycleInv
<1> SUFFICES ASSUME Init PROVE LifecycleInv
  OBVIOUS
<1>1. TypeOK
  <2>1. /\ pc \in Pcs /\ lock = "none" /\ board_type = NAVIO2
        /\ counts = UNKNOWN /\ task = "none" /\ pwm = "null"
        /\ adc_shown \in 0 .. 8 /\ lives \in 0 .. MaxLives
    BY LifecycleAssumption DEF Init, Pcs
  <2>2. /\ buffer \in BOOLEAN /\ object \in BOOLEAN /\ stranded \in BOOLEAN
        /\ gpio_supported \in BOOLEAN /\ gpiochip \in BOOLEAN
    BY Zenon DEF Init
  <2>3. /\ groups = {} /\ calls = {} /\ requested = {} /\ failed = {}
        /\ board \in Boards /\ probed = {}
    BY DEF Init
  <2> QED
    BY <2>1, <2>2, <2>3 DEF TypeOK
<1>2. MemoryInv /\ PublishedInv /\ TaskInv
  BY DEF Init, MemoryInv, PublishedInv, TaskInv, AfterPwm
<1>3. PwmInv /\ BlameInv /\ OopsExplained
  BY DEF Init, PwmInv, BlameInv, OopsExplained, AfterPwm
<1>4. AdcInv
  BY ChannelCounts DEF Init, AdcInv, AfterAdc, AfterPwm
<1> QED
  BY <1>1, <1>2, <1>3, <1>4 DEF LifecycleInv

(* Every behaviour of the driver keeps the invariant. *)
THEOREM LifecycleInvariant == Spec => []LifecycleInv
<1>1. LifecycleInv /\ [Next]_vars => LifecycleInv'
  BY LifecycleTypeStep, MemoryStep, PublishedStep, TaskStep, PwmStep,
     BlameStep, AdcStep, OopsStep DEF LifecycleInv
<1> QED
  BY <1>1, LifecycleInit, PTL DEF Spec

(* The state of the driver keeps its shape. *)
THEOREM LifecycleTypeCorrect == Spec => []TypeOK
BY LifecycleInvariant, PTL DEF LifecycleInv

(* The worker runs the updates only while the buffer, the lock, the object  *)
(* and the PWM chip of its life are there, whatever failed before.          *)
THEOREM LifecycleWorkerSafe == Spec => []WorkerSafe
<1>1. LifecycleInv => WorkerSafe
  BY DEF LifecycleInv, MemoryInv, TaskInv, PwmInv, AfterPwm, WorkerSafe
<1> QED
  BY <1>1, LifecycleInvariant, PTL

(* A call to an attribute or to the GPIO chip finds the buffer and a lock.  *)
THEOREM LifecycleCallsSafe == Spec => []CallsSafe
<1>1. LifecycleInv => CallsSafe
  BY DEF LifecycleInv, MemoryInv, PublishedInv, CallsSafe
<1> QED
  BY <1>1, LifecycleInvariant, PTL

(* Only a refused rcio_hardware_init or a PWM in use at the unbind lets a   *)
(* PWM call meet freed memory.                                              *)
THEOREM LifecyclePwmCallsSafe == Spec => []PwmCallsSafe
<1>1. LifecycleInv => PwmCallsSafe
  BY DEF LifecycleInv, TypeOK, MemoryInv, PwmInv, AfterPwm, Chips, PwmCallsSafe
<1> QED
  BY <1>1, LifecycleInvariant, PTL

(* Each oops of the kernel goes back to one of five failures.               *)
THEOREM LifecycleOopsExplained == Spec => []OopsExplained
BY LifecycleInvariant, PTL DEF LifecycleInv

(* An unbind and a failed bind leave nothing to call behind, but a PWM chip *)
(* in the two cases above.                                                  *)
THEOREM LifecycleCleanUnbind == Spec => []CleanUnbind
<1>1. LifecycleInv => CleanUnbind
  BY DEF LifecycleInv, TypeOK, MemoryInv, PublishedInv, TaskInv, PwmInv,
         AfterPwm, Calls, Chips, CleanUnbind
<1> QED
  BY <1>1, LifecycleInvariant, PTL

(* A bound driver shows other ADC channels than its board has only after one *)
(* of the causes that AdcShown names (rcio_adc.c:97-106).                    *)
THEOREM LifecycleAdcShown == Spec => []AdcShown
<1>1. LifecycleInv => AdcShown
  <2> SUFFICES ASSUME LifecycleInv, pc = "bound"
               PROVE  AdcShown
    BY DEF AdcShown
  <2>1. /\ board \in {NAVIO2, EDGE, UNKNOWN} /\ adc_shown \in 0 .. 8
        /\ "adc" \in groups \/ "adc_group" \in failed
    BY LifecycleAssumption
       DEF LifecycleInv, TypeOK, AdcInv, AfterAdc, AfterPwm
  <2>2. /\ ChannelsOf(board) \in 0 .. 8 /\ Visible \in {0, adc_shown}
        /\ "adc" \in groups => Visible = adc_shown
    BY <2>1, ChannelCounts DEF Visible
  <2>3. ASSUME "board" \notin failed, board # UNKNOWN
        PROVE  Visible <= ChannelsOf(board)
    <3>1. adc_shown <= ChannelsOf(board)
      BY <2>3 DEF LifecycleInv, AdcInv, AfterAdc, AfterPwm
    <3> QED
      BY <2>1, <2>2, <3>1
  <2>4. ASSUME "board" \notin failed, "adc" \in groups,
               Visible < ChannelsOf(board)
        PROVE  \E b \in probed : ChannelsOf(b) < ChannelsOf(board)
    <3>1. PICK b \in probed \cup {EDGE} : ChannelsOf(b) <= adc_shown
      BY <2>4 DEF LifecycleInv, AdcInv
    <3>2. b \in {NAVIO2, EDGE, UNKNOWN}
      BY LifecycleAssumption DEF LifecycleInv, TypeOK
    <3>3. ChannelsOf(b) \in 0 .. 8
      BY <3>2, ChannelCounts
    <3>4. ChannelsOf(b) < ChannelsOf(board)
      BY <2>1, <2>2, <2>4, <3>1, <3>3
    <3>5. b # EDGE
      BY <2>2, <3>3, <3>4, ChannelCounts
    <3> QED
      BY <3>1, <3>4, <3>5
  <2>5. Visible > ChannelsOf(board) => "board" \in failed \/ board = UNKNOWN
    BY <2>2, <2>3, <2>1
  <2> QED
    BY <2>1, <2>4, <2>5 DEF AdcShown
<1> QED
  BY <1>1, LifecycleInvariant, PTL
=============================================================================
