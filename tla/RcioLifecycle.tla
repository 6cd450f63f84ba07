---------------------------- MODULE RcioLifecycle ----------------------------
(***************************************************************************)
(* Binding and unbinding the driver: rcio_spi_probe and rcio_spi_remove    *)
(* (src/src/rcio_spi.c), rcio_init and rcio_remove (src/src/rcio_core.c)   *)
(* and the probe and remove functions of the components.                   *)
(*                                                                         *)
(* The device can be bound and unbound again and again.  All state of the  *)
(* driver is static, so that a life begins with what the last one left.    *)
(* The probes publish attributes and chips one by one; from then on users  *)
(* call them while the binding thread goes on, fails and undoes its work.  *)
(*                                                                         *)
(* The kernel is external: pwmchip_remove refuses a chip with a requested  *)
(* PWM, removing attributes or a GPIO chip refuses new calls and waits for *)
(* those inside, and kthread_stop waits for the worker to return.          *)
(***************************************************************************)
EXTENDS Integers, FiniteSets

CONSTANTS
  Boards,       \* boards on the bus, of NAVIO2, EDGE and UNKNOWN
  MaxFailures,  \* bound on the kinds of failure of one behaviour (model only)
  MaxLives      \* bound on the binds of one behaviour (model only)

\* board_type_t; UNKNOWN is any other number the firmware may report
NAVIO2  == "navio2"
EDGE    == "edge"
UNKNOWN == "unknown"

ASSUME LifecycleAssumption ==
  /\ Boards \subseteq {NAVIO2, EDGE, UNKNOWN}
  /\ MaxFailures \in Nat
  /\ MaxLives \in Nat

\* What may fail, and a chip found in use when it should be removed.
Failures == {"memory", "object", "status_group", "board", "adc_group",
             "pwm_memory", "pwm_add", "hardware", "rcin_group",
             "safety_group", "gpio_read", "gpio_group", "gpio_add",
             "thread", "busy"}

VARIABLES
  pc,              \* the thread that binds and unbinds
  buffer,          \* spi: the packet all transactions share is allocated
  object,          \* core: the kobject "rcio"
  lock,            \* core: the adapter's mutex
  board_type,      \* core: what the board said it is
  counts,          \* core: the board whose channel counts are in use
  task,            \* core: the worker, "turn" while inside the updates
  groups,          \* the attribute groups users see
  adc_shown,       \* adc: attributes before the first NULL of attrs
  pwm,             \* pwm: the chip behind the pointer
  stranded,        \* pwm: a chip no pointer leads to is still registered
  gpio_supported,  \* gpio: the flag
  gpiochip,        \* gpio: the chip is registered
  calls,           \* calls users are inside
  requested,       \* PWM chips with a PWM that a user has requested
  board,           \* the board on the bus
  probed,          \* history: boards asked for their type since boot
  failed,          \* history: what has failed since the machine booted
  lives            \* binds since then

spiVars   == <<buffer>>
coreVars  == <<object, lock, board_type, counts, task>>
partVars  == <<groups, adc_shown, pwm, stranded, gpio_supported, gpiochip>>
userVars  == <<calls, requested>>
boardVars == <<board, probed>>
vars == <<pc, spiVars, coreVars, partVars, userVars, boardVars, failed, lives>>

\* The calls users make: an attribute's, the GPIO chip's, the PWM chip's
\* behind the pointer and that of a stranded one.
Chips == {"pwm", "old_pwm"}
Calls == Chips \cup {"attribute", "gpio"}

\* Static variables are zero: board_type is NAVIO2, the pointer NULL.
Init ==
  /\ pc = "unbound"
  /\ buffer = FALSE /\ object = FALSE /\ lock = "none"
  /\ board_type = NAVIO2 /\ counts = UNKNOWN /\ task = "none"
  /\ groups = {} /\ adc_shown = 8
  /\ pwm = "null" /\ stranded = FALSE
  /\ gpio_supported = FALSE /\ gpiochip = FALSE
  /\ calls = {} /\ requested = {}
  /\ board \in Boards /\ probed = {}
  /\ failed = {} /\ lives = 0

-----------------------------------------------------------------------------
(* rcio_spi_probe and rcio_init, each step with its outcomes               *)

Goto(from, to) == pc = from /\ pc' = to

Fail(what) == /\ failed' = failed \cup {what}
              /\ Cardinality(failed') <= MaxFailures

\* spi_setup or kmalloc failed
BindFails ==
  /\ Goto("unbound", "unbound") /\ lives < MaxLives
  /\ Fail("memory")
  /\ UNCHANGED <<spiVars, coreVars, partVars, userVars, boardVars, lives>>

Bind ==
  /\ Goto("unbound", "object") /\ lives < MaxLives
  /\ buffer' = TRUE
  /\ lives' = lives + 1
  /\ UNCHANGED <<coreVars, partVars, userVars, boardVars, failed>>

ObjectFails ==
  /\ Goto("object", "free")
  /\ Fail("object")
  /\ UNCHANGED <<spiVars, coreVars, partVars, userVars, boardVars, lives>>

CreateObject ==
  /\ Goto("object", "status")
  /\ object' = TRUE /\ lock' = "ready"
  /\ UNCHANGED <<spiVars, board_type, counts, task, partVars, userVars,
                 boardVars, failed, lives>>

\* errout_status, which stands above rcio_pwm_remove
StatusFails ==
  /\ Goto("status", "remove_pwm")
  /\ Fail("status_group")
  /\ UNCHANGED <<spiVars, coreVars, partVars, userVars, boardVars, lives>>

StatusGroup ==
  /\ Goto("status", "board")
  /\ groups' = groups \cup {"status"}
  /\ UNCHANGED <<spiVars, coreVars, adc_shown, pwm, stranded, gpio_supported,
                 gpiochip, userVars, boardVars, failed, lives>>

\* A board that is neither of the two leaves the counts as they are.
CountsOf(b) == IF b = UNKNOWN THEN counts ELSE b

\* Only a message says that the board type could not be read.
ReadBoard ==
  /\ Goto("board", "adc")
  /\ \/ board_type' = board /\ UNCHANGED failed
     \/ Fail("board") /\ UNCHANGED board_type
  /\ counts' = CountsOf(board_type')
  /\ probed' = probed \cup {board}
  /\ UNCHANGED <<spiVars, object, lock, task, partVars, userVars, board,
                 lives>>

ChannelsOf(b) == CASE b = NAVIO2 -> 6 [] b = EDGE -> 8 [] OTHER -> 0

AdcChannels == ChannelsOf(counts)

\* Mutant: the first attribute switched off is one too far.
AdcProbeTooFar ==
  /\ Goto("adc", "pwm")
  /\ adc_shown' = AdcChannels + 1
  /\ groups' = groups \cup {"adc"}
  /\ UNCHANGED <<spiVars, coreVars, pwm, stranded, gpio_supported, gpiochip,
                 userVars, boardVars, failed, lives>>

\* Mutant: the count of the smaller board whatever the board.
AdcProbeNavio ==
  /\ Goto("adc", "pwm")
  /\ adc_shown' = 6
  /\ groups' = groups \cup {"adc"}
  /\ UNCHANGED <<spiVars, coreVars, pwm, stranded, gpio_supported, gpiochip,
                 userVars, boardVars, failed, lives>>

\* attrs[adc_channels_count] = NULL: nothing puts an attribute back.  The
\* result of sysfs_create_group is ignored, as in rcio_rcin_probe.
AdcProbe ==
  /\ Goto("adc", "pwm")
  /\ adc_shown' = IF AdcChannels < adc_shown THEN AdcChannels ELSE adc_shown
  /\ \/ groups' = groups \cup {"adc"} /\ UNCHANGED failed
     \/ Fail("adc_group") /\ UNCHANGED groups
  /\ UNCHANGED <<spiVars, coreVars, pwm, stranded, gpio_supported, gpiochip,
                 userVars, boardVars, lives>>

\* kzalloc overwrites the pointer to a chip that is still registered.
Strand ==
  /\ stranded' = (stranded \/ pwm = "added")
  /\ requested' = IF "pwm" \in requested THEN {"old_pwm"}
                  ELSE requested
  /\ calls' = IF "pwm" \in calls THEN (calls \ {"pwm"}) \cup {"old_pwm"}
              ELSE calls

PwmMemoryFails ==
  /\ Goto("pwm", "put")
  /\ Fail("pwm_memory")
  /\ Strand /\ pwm' = "null"
  /\ UNCHANGED <<spiVars, coreVars, groups, adc_shown, gpio_supported,
                 gpiochip, boardVars, lives>>

\* pwmchip_add fails, and always does for a chip without channels.
PwmAddFails ==
  /\ Goto("pwm", "put")
  /\ IF counts = UNKNOWN THEN UNCHANGED failed ELSE Fail("pwm_add")
  /\ Strand /\ pwm' = "unadded"
  /\ UNCHANGED <<spiVars, coreVars, groups, adc_shown, gpio_supported,
                 gpiochip, boardVars, lives>>

PwmAdd ==
  /\ Goto("pwm", "hardware")
  /\ counts # UNKNOWN
  /\ Strand /\ pwm' = "added"
  /\ UNCHANGED <<spiVars, coreVars, groups, adc_shown, gpio_supported,
                 gpiochip, boardVars, failed, lives>>

\* errout_pwm: the chip stays registered.
HardwareFails ==
  /\ Goto("hardware", "put")
  /\ Fail("hardware")
  /\ UNCHANGED <<spiVars, coreVars, partVars, userVars, boardVars, lives>>

\* rcio_hardware_init; the writes of the RC config may all fail.
HardwareInit ==
  /\ Goto("hardware", "rcin")
  /\ UNCHANGED <<spiVars, coreVars, partVars, userVars, boardVars, failed,
                 lives>>

RcinProbe ==
  /\ Goto("rcin", "safety")
  /\ \/ groups' = groups \cup {"rcin"} /\ UNCHANGED failed
     \/ Fail("rcin_group") /\ UNCHANGED groups
  /\ UNCHANGED <<spiVars, coreVars, adc_shown, pwm, stranded, gpio_supported,
                 gpiochip, userVars, boardVars, lives>>

SafetyFails ==
  /\ Goto("safety", "remove_pwm")
  /\ Fail("safety_group")
  /\ UNCHANGED <<spiVars, coreVars, partVars, userVars, boardVars, lives>>

SafetyProbe ==
  /\ Goto("safety", "features")
  /\ groups' = groups \cup {"safety"}
  /\ UNCHANGED <<spiVars, coreVars, adc_shown, pwm, stranded, gpio_supported,
                 gpiochip, userVars, boardVars, failed, lives>>

\* What this life's firmware says; when the read fails, setup_features is
\* whatever the stack held.
GpioFeatures ==
  /\ pc = "features"
  /\ gpio_supported' \in BOOLEAN
  /\ UNCHANGED failed \/ Fail("gpio_read")
  /\ pc' = IF gpio_supported' THEN "gpio" ELSE "thread"
  /\ UNCHANGED <<spiVars, coreVars, groups, adc_shown, pwm, stranded, gpiochip,
                 userVars, boardVars, lives>>

\* rcio_gpio_probe returns false: zero, no error to rcio_init.
GpioGroupFails ==
  /\ Goto("gpio", "thread")
  /\ Fail("gpio_group")
  /\ UNCHANGED <<spiVars, coreVars, partVars, userVars, boardVars, lives>>

GpioAddFails ==
  /\ Goto("gpio", "thread")
  /\ Fail("gpio_add")
  /\ groups' = groups \cup {"gpio"}
  /\ UNCHANGED <<spiVars, coreVars, adc_shown, pwm, stranded, gpio_supported,
                 gpiochip, userVars, boardVars, lives>>

\* What follows on the board may fail and changes nothing here.
GpioAdd ==
  /\ Goto("gpio", "thread")
  /\ groups' = groups \cup {"gpio"} /\ gpiochip' = TRUE
  /\ UNCHANGED <<spiVars, coreVars, adc_shown, pwm, stranded, gpio_supported,
                 userVars, boardVars, failed, lives>>

\* kthread_run's result is not looked at: task may be an error code.
ThreadFails ==
  /\ Goto("thread", "bound")
  /\ Fail("thread")
  /\ task' = "invalid"
  /\ UNCHANGED <<spiVars, object, lock, board_type, counts, partVars, userVars,
                 boardVars, lives>>

StartThread ==
  /\ Goto("thread", "bound")
  /\ task' = "head"
  /\ UNCHANGED <<spiVars, object, lock, board_type, counts, partVars, userVars,
                 boardVars, failed, lives>>

-----------------------------------------------------------------------------
(* rcio_remove and the end of rcio_init's error path, which runs the same  *)
(* calls from rcio_pwm_remove on; then kfree(buffer)                       *)

\* The kernel is handed something that is not there: the thread dies.
Oops(from) ==
  /\ Goto(from, "oops")
  /\ UNCHANGED <<spiVars, coreVars, partVars, userVars, boardVars, failed,
                 lives>>

Unbind ==
  /\ Goto("bound", "stop")
  /\ UNCHANGED <<spiVars, coreVars, partVars, userVars, boardVars, failed,
                 lives>>

StopInvalid == task = "invalid" /\ Oops("stop")

\* Mutant: the worker is told to stop and not waited for.
StopNoWait ==
  /\ Goto("stop", "remove_pwm")
  /\ task # "invalid"
  /\ lock' = "destroyed"
  /\ UNCHANGED <<spiVars, object, board_type, counts, task, partVars, userVars,
                 boardVars, failed, lives>>

\* kthread_stop, mutex_destroy: users can still call the chips.
StopThread ==
  /\ Goto("stop", "remove_pwm")
  /\ task = "none"
  /\ lock' = "destroyed"
  /\ UNCHANGED <<spiVars, object, board_type, counts, task, partVars, userVars,
                 boardVars, failed, lives>>

RemoveNoPwm == pwm # "added" /\ Oops("remove_pwm")

\* pwmchip_remove refuses; nobody looks at the result.
RemoveBusyPwm ==
  /\ Goto("remove_pwm", "remove_gpio")
  /\ pwm = "added" /\ "pwm" \in requested
  /\ failed' = failed \cup {"busy"}
  /\ UNCHANGED <<spiVars, coreVars, partVars, userVars, boardVars, lives>>

\* Mutant: the chip's memory is freed and the chip not removed.
FreePwmOnly ==
  /\ Goto("remove_pwm", "remove_gpio")
  /\ pwm = "added" /\ "pwm" \notin requested
  /\ pwm' = "freed" /\ stranded' = TRUE
  /\ UNCHANGED <<spiVars, coreVars, groups, adc_shown, gpio_supported,
                 gpiochip, userVars, boardVars, failed, lives>>

RemovePwm ==
  /\ Goto("remove_pwm", "remove_gpio")
  /\ pwm = "added" /\ "pwm" \notin requested
  /\ pwm' = "freed"
  /\ UNCHANGED <<spiVars, coreVars, groups, adc_shown, stranded,
                 gpio_supported, gpiochip, userVars, boardVars, failed, lives>>

\* Mutant: the flag is not looked at.
RemoveGpioAlways == ~gpiochip /\ Oops("remove_gpio")

RemoveNoGpio == gpio_supported /\ ~gpiochip /\ Oops("remove_gpio")

\* Mutant: the GPIO chip stays registered.
SkipGpio ==
  /\ Goto("remove_gpio", "put")
  /\ UNCHANGED <<spiVars, coreVars, partVars, userVars, boardVars, failed,
                 lives>>

RemoveGpio ==
  /\ Goto("remove_gpio", "put")
  /\ gpio_supported => gpiochip /\ "gpio" \notin calls
  /\ gpiochip' = (gpiochip /\ ~gpio_supported)
  /\ UNCHANGED <<spiVars, coreVars, groups, adc_shown, pwm, stranded,
                 gpio_supported, userVars, boardVars, failed, lives>>

\* kobject_put takes the attribute groups with it.
PutObject ==
  /\ Goto("put", "free")
  /\ "attribute" \notin calls
  /\ object' = FALSE /\ groups' = {}
  /\ UNCHANGED <<spiVars, lock, board_type, counts, task, adc_shown, pwm,
                 stranded, gpio_supported, gpiochip, userVars, boardVars,
                 failed, lives>>

\* Mutant: the buffer is kept for the next bind.
KeepBuffer ==
  /\ Goto("free", "unbound")
  /\ UNCHANGED <<spiVars, coreVars, partVars, userVars, boardVars, failed,
                 lives>>

FreeBuffer ==
  /\ Goto("free", "unbound")
  /\ buffer' = FALSE
  /\ UNCHANGED <<coreVars, partVars, userVars, boardVars, failed, lives>>

-----------------------------------------------------------------------------
(* The worker and the users                                                *)

Task(from, to) ==
  /\ task = from /\ task' = to
  /\ UNCHANGED <<pc, spiVars, object, lock, board_type, counts, partVars,
                 userVars, boardVars, failed, lives>>

\* Mutant: the loop does not look at kthread_should_stop.
LoopForEver == Task("head", "turn") \/ Task("turn", "head")

WorkerLoop == \/ pc # "stop" /\ Task("head", "turn")
              \/ Task("turn", "head")

WorkerReturn == pc = "stop" /\ Task("head", "none")

\* What users can enter; the kernel lets nobody into what it is removing.
Registered(c) ==
  CASE c = "attribute" -> groups # {} /\ pc # "put"
    [] c = "gpio"      -> gpiochip /\ (pc = "remove_gpio" => ~gpio_supported)
    [] c = "pwm"       -> pwm = "added"
    [] c = "old_pwm"   -> stranded

\* A PWM's first call requests it.
Enter(c) ==
  /\ Registered(c) /\ c \notin calls
  /\ calls' = calls \cup {c}
  /\ requested' = requested \cup ({c} \cap Chips)
  /\ UNCHANGED <<pc, spiVars, coreVars, partVars, boardVars, failed, lives>>

\* The call ends; it may have been the one that frees the PWM.
Leave(c) ==
  /\ c \in calls
  /\ calls' = calls \ {c}
  /\ requested' \in {requested, requested \ {c}}
  /\ UNCHANGED <<pc, spiVars, coreVars, partVars, boardVars, failed, lives>>

\* The machine boots again, after an oops or because the user wants it.
Reboot ==
  /\ pc \in {"oops", "unbound"} /\ pc' = "unbound"
  /\ buffer' = FALSE /\ object' = FALSE /\ lock' = "none"
  /\ board_type' = NAVIO2 /\ counts' = UNKNOWN /\ task' = "none"
  /\ groups' = {} /\ adc_shown' = 8
  /\ pwm' = "null" /\ stranded' = FALSE
  /\ gpio_supported' = FALSE /\ gpiochip' = FALSE
  /\ calls' = {} /\ requested' = {}
  /\ failed' = {} /\ lives' = 0 /\ probed' = {}
  /\ UNCHANGED board

\* Another board is connected while the driver is unbound (external).
Swap ==
  /\ pc = "unbound" /\ lives < MaxLives
  /\ board' \in Boards
  /\ UNCHANGED <<pc, spiVars, coreVars, partVars, userVars, probed, failed,
                 lives>>

Binding ==
  \/ ObjectFails \/ CreateObject \/ StatusFails \/ StatusGroup
  \/ ReadBoard \/ AdcProbe
  \/ PwmMemoryFails \/ PwmAddFails \/ PwmAdd \/ HardwareFails \/ HardwareInit
  \/ RcinProbe \/ SafetyFails \/ SafetyProbe
  \/ GpioFeatures \/ GpioGroupFails \/ GpioAddFails \/ GpioAdd
  \/ ThreadFails \/ StartThread

Unbinding ==
  \/ StopInvalid \/ StopThread
  \/ RemoveNoPwm \/ RemoveBusyPwm \/ RemovePwm
  \/ RemoveNoGpio \/ RemoveGpio \/ PutObject \/ FreeBuffer

Next ==
  \/ BindFails \/ Bind \/ Binding
  \/ Unbind \/ Unbinding
  \/ WorkerLoop \/ WorkerReturn
  \/ \E c \in Calls : Enter(c) \/ Leave(c)
  \/ Reboot \/ Swap

\* The kernel runs the binding thread, the worker and the calls users are
\* inside of; a user owes no call and nobody owes a bind or an unbind.  No
\* removal waits for a PWM call, so none need end.
Fairness ==
  /\ WF_vars(Binding \/ Unbinding)
  /\ WF_vars(WorkerLoop \/ WorkerReturn)
  /\ \A c \in Calls \ Chips : WF_vars(Leave(c))

Spec == Init /\ [][Next]_vars /\ Fairness

-----------------------------------------------------------------------------
(* Properties                                                              *)

Pcs == {"unbound", "object", "status", "board", "adc", "pwm", "hardware",
        "rcin", "safety", "features", "gpio", "thread", "bound", "stop",
        "remove_pwm", "remove_gpio", "put", "free", "oops"}

(* The shape of the driver's static state. *)
TypeOK ==
  /\ pc \in Pcs
  /\ buffer \in BOOLEAN /\ object \in BOOLEAN
  /\ lock \in {"none", "ready", "destroyed"}
  /\ board_type \in {NAVIO2, EDGE, UNKNOWN} /\ counts \in {NAVIO2, EDGE, UNKNOWN}
  /\ task \in {"none", "head", "turn", "invalid"}
  /\ groups \subseteq {"status", "adc", "rcin", "safety", "gpio"}
  /\ adc_shown \in 0 .. 8
  /\ pwm \in {"null", "unadded", "added", "freed"}
  /\ stranded \in BOOLEAN
  /\ gpio_supported \in BOOLEAN /\ gpiochip \in BOOLEAN
  /\ calls \subseteq Calls /\ requested \subseteq Chips
  /\ board \in Boards /\ probed \subseteq Boards
  /\ failed \subseteq Failures /\ lives \in 0 .. MaxLives

(* Whatever fails in whichever life, the worker runs the updates only while *)
(* the packet buffer, the lock, the attributes' object and the PWM chip of  *)
(* its own life are there (rcio_core.c:154 after every probe, 192 before    *)
(* every removal).                                                          *)
WorkerSafe ==
  task = "turn" => buffer /\ object /\ lock = "ready" /\ pwm = "added"

(* Whatever fails, a call to an attribute or to the GPIO chip finds the     *)
(* buffer and an initialised lock, from the moment the probe publishes it   *)
(* until the removal has waited for the last call (rcio_gpio.c:332-349,     *)
(* rcio_core.c:196-198 before rcio_spi.c:174).                              *)
CallsSafe ==
  calls \cap {"attribute", "gpio"} # {} => buffer /\ lock # "none"

\* The ways a PWM chip outlives the driver.
Stranding == {"hardware", "busy"}

(* A PWM call finds the buffer and the chip behind the pointer it uses,     *)
(* unless the board refused rcio_hardware_init or a PWM was in use at the   *)
(* unbind, in this life or an earlier one: nothing else strands a chip      *)
(* (rcio_pwm.c:279-299, 302-314, rcio_core.c:136, 195).                     *)
PwmCallsSafe ==
  calls \cap Chips # {} =>
    \/ buffer /\ pwm = "added" /\ calls \cap Chips = {"pwm"}
    \/ failed \cap Stranding # {}

\* What the error paths and the removal do not allow for.
Unhandled == {"status_group", "safety_group", "gpio_group", "gpio_add",
              "thread"}

(* The kernel is asked to remove a chip that is not registered, or to stop  *)
(* a thread that is not one, only after one of five failures, and a failed  *)
(* safety probe is harmful only if an earlier life had found GPIO           *)
(* (rcio_core.c:154, 158-167, rcio_gpio.c:335-347, 364-376).                *)
OopsExplained ==
  pc = "oops" => \/ failed \cap (Unhandled \ {"safety_group"}) # {}
                 \/ "safety_group" \in failed /\ gpio_supported /\ lives > 1

(* After an unbind or a failed bind nothing of the driver is left for users *)
(* or the kernel to call, unless a PWM chip was stranded: the undo of a     *)
(* failed probe and the removal both reach everything the probes published  *)
(* (rcio_core.c:158-167, 188-201, rcio_spi.c:156-160, 165-176).             *)
CleanUnbind ==
  pc = "unbound" =>
    /\ ~buffer /\ ~object /\ groups = {} /\ task = "none" /\ ~gpiochip
    /\ failed \cap Stranding = {} =>
         pwm # "added" /\ ~stranded /\ calls = {}

\* The ADC channels users see.
Visible == IF "adc" \in groups THEN adc_shown ELSE 0

(* A bound driver shows a channel that its board does not have only if it   *)
(* could not read the board type in some life, or the board is none it      *)
(* knows.  It shows fewer than the board has only if sysfs refused them     *)
(* all, which nobody looks at, a board type could not be read, or a board   *)
(* with fewer channels was there before: attributes that are switched off   *)
(* for one board stay so for the next (rcio_adc.c:97-106,                   *)
(* rcio_core.c:124-130).                                                    *)
AdcShown ==
  pc = "bound" =>
    /\ Visible > ChannelsOf(board) => "board" \in failed \/ board = UNKNOWN
    /\ Visible < ChannelsOf(board) =>
         \/ "adc" \notin groups /\ "adc_group" \in failed
         \/ "board" \in failed
         \/ \E b \in probed : ChannelsOf(b) < ChannelsOf(board)

(* Every bind and every unbind comes to an end, also when users keep        *)
(* calling: the removal never waits for something that waits for it         *)
(* (rcio_core.c:102-168, 188-201).                                          *)
BindsEnd ==
  pc \notin {"unbound", "bound", "oops"} ~> pc \in {"unbound", "bound", "oops"}
=============================================================================
