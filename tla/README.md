# The RCIO driver in TLA+

rcio-dkms is the Linux driver of the IO coprocessor on Emlid's Navio2 and Edge
boards. The Raspberry Pi talks to the coprocessor over SPI in packets that read
or write a window of 16-bit registers; on top of that the driver offers the
board's outputs as a PWM chip, its pins as a GPIO chip, and its ADC, RC input,
status and heartbeat through sysfs. The code is small and almost all of it runs
concurrently: one worker kthread, the callbacks of two kernel frameworks and
the sysfs attributes share static variables, and the only lock is the one
around a single SPI transaction.

Paths below are relative to `src/src/` of the repository.

## 1. Inventory

| Component | Files | State | Operations | Modules |
|---|---|---|---|---|
| SPI transport | `rcio_spi.c`, `protocol.h` (packets), `rcio.h`, `rcio_core.c:18-64` | one static packet buffer, `adapter.lock` | `rcio_spi_read`, `rcio_spi_write`, `wait_complete`; `register_set/get` on top | `RcioSpi` over `RegisterFile`, `RcioRegs` |
| PWM outputs | `rcio_pwm.c`, `rcio_pwm.h` | `values`, the frequencies and their update flags, `armed`, `armtimeout`, `freq_update_noticed`, `force_pwmzero_countdown`, `pwm_ignore_writings_mask` | `rcio_pwm_config/enable/disable/request/free`, `rcio_pwm_update`, `rcio_pwm_force_zero_duty` | `RcioPwm` (tables, rates, arming), `RcioPwmProbe` (its start), `RcioPins` (request and free) |
| GPIO chip and pin ownership | `rcio_gpio.c`, `rcio_pwm.c:528-604`, bit macros of `protocol.h` | `pin_states`, `pin_states_updated`, the ignore mask; on the board the pin words and two export masks | `gpio_chip_request/free/get/set`, the directions, `reset_store`, `pwmignore_store`, `rcio_gpio_update` | `RcioPins` |
| Worker and polled inputs | `rcio_core.c:70-100`, `rcio_adc.c`, `rcio_rcin.c`, `rcio_status.c`, `rcio_safety.c` | a timeout in jiffies per poll, `connected`, the measurements, `alive`, `heartbeat_enabled` | `worker`, the four `*_update`, `heartbeat_enabled_store` | `RcioPolls` |
| Packet CRC and register encoding | `protocol.h` | none | `crc_packet`, `PKT_CODE`, `PKT_COUNT` | `RcioCrc` (bytes), `RcioSpi` (codes and counts) |
| Driver lifecycle | `rcio_core.c:102-201`, the probes, the removals | which parts exist, what the last life left in static variables | `rcio_spi_probe/remove`, `rcio_init`, `rcio_remove`, `*_probe`, `*_remove` | `RcioLifecycle` |
| sysfs show attributes | all | none of their own | formatting | not modelled |
| Build and installation | `dkms.conf`, makefiles, overlay | none | - | not modelled |

How they interact. Every component reaches the board through
`state->register_set` and `register_get`, so the transport is below all of
them. The worker calls `rcio_pwm_update`, the ADC, RC input, GPIO, status and
safety updates in that order, sleeps at least 1 ms and starts again. The PWM
callbacks write `values` and the frequency requests, which the worker carries
to the board; only `rcio_pwm_disable`, `request` and `free` talk to the board
themselves. The GPIO callbacks edit `pin_states` and push the whole table to
the board, from their own thread or, through `pin_states_updated`, from the
worker. A GPIO request that finds outputs running calls
`rcio_pwm_force_zero_duty` and so runs `rcio_pwm_update` beside the worker. A
pin is exported as GPIO or PWM by two masks on the board, which the GPIO side
and the PWM side read and write.

What is hard, and what makes each component correct:

- **Transport.** One buffer serves all threads, requests as well as replies;
  packets carry no sequence number; the board answers after a fixed sleep.
  Correct means that its callers see a register file: a call acts once, at one
  instant, with its own words, or not at all, and success means it acted.
- **PWM.** Flags are read without a lock, before and after SPI transactions,
  while clients set them; a rate may change on the board only after its
  outputs were cleared; an output must fall silent when it is disabled or when
  its clients die; forcing to zero must end.
- **Pins.** A callback is a chain of transactions that another callback or
  the worker may interleave with; `++` and `--` race; the macros on masks must
  touch one bit. A held pin is driven, a freed one is not, and GPIO and PWM
  never hold a pin at once.
- **Polls.** jiffies wrap; a poll that fails keeps its old timeout; a loss
  may fall between two reads of one poll. What the driver reports must be true
  of the board a bounded time ago, and heartbeats must keep coming.

- **CRC.** The value covers as many words as the packet itself says. A hurt
  packet must be refused, a whole one taken.
- **Lifecycle.** Attributes and chips are published one by one, with users
  inside from that moment; a dozen steps may fail, and the results of several
  are not looked at; state is static and outlives an unbind. Nobody may be
  called without the buffer, the lock and the chip he uses, nothing may be left
  behind, and an unbind must not wait for ever.

The list of hazards, each at its line with the property that is about it, is
in `PROJECT.json`.

## 2. How the modules correspond to the code

### RcioRegs, RegisterFile, RcioSpi

`RcioRegs` has what the other two share: requests (a read or write of `count`
registers from `offset`, one page), the board's registers and what a window of
them looks like. `RegisterFile` is the abstract specification: per thread a
call is pending, applied or over; `Apply` acts on the registers in one step,
`Succeed` and `Fail` return. A call that succeeded was applied, unless the
instance is `Lossy` and the call a write (see `spi_ack` below).

`RcioSpi` is `rcio_spi_read` and `rcio_spi_write` in steps: `Call` with the
test of the length, `Acquire` the mutex, `Fill` and `Seal` the shared
buffer, the two halves of `wait_complete` with the board in between, `Finish`
with the tests of CRC, code and count and the unlock. The board is external: it
takes a request it can read and leaves a reply in `tx`. Faults are a constant:
`"request"` and `"reply"` garble a packet, `"spi"` makes the controller fail,
`"late"` lets the board answer with what it had before, `"low"` takes the board
away, so that the line reads as zeros. A CRC is a Boolean of a packet: a garbled
packet does not pass the check. How far that is true is the question of
`RcioCrc`. `late` is history: the calls whose own answer was late. Of these the
register file promises only that they act at most once (`Slow`, `SucceedLate`).

### RcioCrc

One packet, byte by byte: filled as `rcio_spi_write` fills it, sealed by
`crc_packet` (`CrcByte` is one turn of its loop), sent as a reply, hurt on the
line or not, and judged by `rcio_spi_read` or `rcio_spi_write`. `crc8_tab` is the
table of the source; the reference (`Divide`, `Remainders`) is the division by
x^8 + x^2 + x + 1 a bit at a time. The `^` of bytes is `ByteXor`, in arithmetic
that can be proved about; `MCRcioCrc` has TLC compare it with `Bitwise` for all
pairs of bytes. `beyond` is what the loop reads when a count of up to 63 leads it past
the buffer. The board is taken to seal as the driver does.

The run shows where a Boolean is a fair picture of the check. A changed byte is
always seen unless it is the count and the value over another number of words
fits. The count then differs from what the call asked for, so that `RcioSpi`'s
picture is exact for a read whose reply was a success. What it leaves out: a
refused read, which carries no words, may turn into a success of one word with
a changed count, and a reply to a write into a reply to a longer one (which
means the same to the driver).

### RcioPwm

The duty table, the rates and the arming, from `rcio_pwm.c`. One step is what
a thread does between two points where another can interfere: a register
transaction is one step, and each read and write of a shared variable across
one is its own. `pc` and `loc` are the place and the locals of each thread that
runs `rcio_pwm_update`: the worker and the GPIO threads. `cpc` and `cop`
are those of the PWM clients. A duty is 0 or the rate it was computed
for: that is enough to say that a duty reached the board, that it is silent and
that it fits its rate. `Ways` has both firmwares, `adv_timer_config_supported`
(a rate per timer) and not (an alt and a default rate). `stopped` is history:
channels whose disable has returned and that were not configured since.
`arm_ticks` stands for `armtimeout - jiffies` cut off at zero; that jiffies
wrap is in `RcioPolls`. The PWM core serialises the callbacks of one channel,
which is the guard `Free`.

### RcioPwmProbe

EXTENDS `RcioPwm` by the thread that runs `rcio_pwm_probe`. The chip has been added,
so that clients may call (`EarlyClients`), while `ReadFeatures` and the writes of
`rcio_hardware_init` are still to come; the worker starts after them.

### RcioPins

GPIO and PWM callbacks as chains of transactions on `dev_gpio` (the pin words
the board drives), `gpio_exported` and `pwm_exported`. `loc[u]` has the place,
pin and locals of user `u`; the worker has its own. A register word is the
set of its bits that are one, and `clear_bit_m` does what the macro does: it
shifts `~1`, so it clears the named bit *and every lower one*. `Enqueue`
splits the unsynchronised `++` into load and store. `running` is the board's
answer to "is some output not zero"; how it comes about is in `RcioPwm`. The behaviours begin in
`rcio_gpio_probe`, when `gpiochip_add` has returned: the words of the last life are
still in the table and on the board, until `ProbeClear`, `ProbePush` and
`ProbeUnexport` are through. A `setting`, chosen at the start of a behaviour from
`Settings`, says who calls what and whether the link fails, so that one run
has instances that would be too large together.

### RcioLifecycle

The thread that binds and unbinds (`pc`), one action per step and outcome, over
`MaxLives` lives: what is static keeps its value from one to the next. `failed`
remembers what has failed since the machine booted. Failures that `rcio_init`
looks at lead to its labels, those it ignores do not. `calls` are the calls users
are inside of, `requested` the PWM chips with a PWM handed out. The kernel is
external: it refuses to remove a PWM chip in use, and waits when it removes
attributes or the GPIO chip and when it stops the worker. What would crash it
(removing a chip that is not there, stopping an error code) ends in `"oops"`,
after which there is a `Reboot`. While the driver is unbound another board may be
connected (`Swap`), and every life's firmware has GPIO or not. `probed` is
history: the boards asked for their type since the machine booted. The ADC
channels users see (`Visible`) are those of `attrs`, if the group was published.

### RcioPolls

A pass of the worker through the polls. `jiffies` counts modulo `W`, and
`time_before` is the sign of a difference modulo `W`. `rcin_get_raw_values`
and the status poll are two transactions each, so a loss of the receiver or the
link can fall between. `Tick` lets at most `MaxPass` jiffies go by per pass.
Of `rcio_pwm_update` it has the two looks at arming: `CheckArmed` compares
`armtimeout`, and the rest of the update (`WriteIfArmed`) reads `armed` again, so
that `rcio_pwm_enable`, which sets `armed` and no timeout, and `rcio_pwm_disable`
may come between. What an armed update writes is in `RcioPwm`.
`watched` and `age` are history: each behaviour watches one thing (the
receiver, its channels, the link, the heartbeat, the last config), chosen at its
start, and `age` says for how long it has been lost or due. One age for each
would multiply the states and show no more. `enabled`, history too, counts the
jiffies since the last enable.

## 3. The runs

Passing runs. Each checks deadlock (no state of the models may be stuck), but for
`crc_packet`, where a packet's way ends when it is judged.

| Run | Instance | Shows |
|---|---|---|
| `spi_transport` | 2 threads, every fault of link and board, one register, windows of 1 and 2 and a call that is too long | `FreshRead`, `ImplementsFile`: no mixing of replies; garbled packets and failed transfers never look like the success of a read; a late answer harms only its own call; a window the board refuses fails. `CallReturns`: no path keeps the lock. Longer windows are covered by the proof. |
| `crc_packet` | packets of up to two words, every code; each byte changed to each other value; stuck lines | `SealIsRemainder`, `WholeIsTaken`, `GarbleIsSeen`, `StuckLineRefused` |
| `pwm_two_timers` | two rate updates behind one clear, both firmwares | `NoticedMeansCleared`, `StoppedStaysZero` |
| `pwm_gpio_thread` | a timer with two channels, a GPIO thread beside the worker | `StoppedStaysZero` with two updaters, `ForceZeroEnds` |
| `pwm_liveness` | one channel, two rates, both firmwares, from the probe on; clients wait for the probe; a user's ignore mask | the probe's loop stays within the timers; `Failsafe`, `DutyReachesBoard`, `UpdateIsMade` |
| `pins_tables` | four settings: two users on two pins; one user on one pin with every call, also during the probe; the same with every fault; a GPIO user who takes pins from PWM users | `HeldPinDriven`, `FreedPinReleased`: a callback, the worker or the probe pushes the whole table, and undoes nothing of another's; `OneOwner`; `BoardCatchesUp`: no update is lost; the counter of owed pushes stays natural under all races |
| `polls_timeouts` | jiffies of 8 values, losses of receiver and link, the heartbeat setting, configs, enables and disables | `RcLossSeen`, `LostChannelsZero`, `BoardLossSeen`, `HeartbeatInTime`; `ArmedInTime`: `armed` outlives the timeout of the last config only by an enable, and that for two passes at most |
| `lifecycle` | three lives, every pair of failures, boards swapped between lives, users who call throughout | `WorkerSafe`, `CallsSafe`, `PwmCallsSafe`: nobody works without what he uses, and the two ways a PWM chip outlives its driver; `OopsExplained`: which failures the error paths do not survive; `CleanUnbind`; `AdcShown`: the three reasons for which a bound driver shows fewer channels than its board has; `BindsEnd` |

Runs in which TLC finds what a comment of the code says to be violated by the
code. `PROJECT.json` quotes each.

| Run | What happens |
|---|---|
| `spi_ack` | A reply `PKT_CODE_CORRUPT` to a write counts as success: the write is lost. `RegisterFile` therefore has `Lossy`. |
| `pwm_clear_before_rate` | A config that comes between the copy of the update flags (`rcio_pwm.c:155`) and the test of the flags themselves sends a rate with the outputs on. |
| `pins_taken_ignored` | `clear_bit_m` clears all lower bits too: freeing a pin lifts the PWM ignore of lower pins that are still GPIOs. |
| `pwm_early_config` | A config between `pwmchip_add` and the read of the features goes the old way; on a firmware with a rate per timer nobody then resets its flag, and the outputs are cleared every other pass for ever (`rcio_pwm.c:279-292`). |

Other places where the models, like the code, do not do what a comment or
message hopes for; no run is kept for them:

- A board slower than the fixed sleep of `wait_complete` makes a read return the
  reply to an earlier request (`rcio_spi.c:24`); `FreshRead` leaves such a call out.
- Without a board every write counts as done: zeros have the right check value
  and the code of a success (`rcio_spi.c:61`).
- Half the range of jiffies after the last config (248 days with 32 bits and
  HZ=100) `time_before` is true of the old `armtimeout`, and the outputs are armed
  again (`rcio_pwm.c:160`). `ArmedInTime` says when that begins.
- `rcio_pwm_enable` arms the outputs without a timeout (`rcio_pwm.c:336`): when it
  comes between the look at `armtimeout` and the tests of `armed` (167, 213), a
  pass writes the table however long ago the last config was. The next pass
  disarms. `ArmedInTime` names it.
- Attributes switched off for one board stay off when a board with more channels
  is connected, and a refused ADC group leaves a bound driver without channels
  (`rcio_adc.c:98-106`). `AdcShown` names both.
- A PWM probe that fails in `rcio_hardware_init`, and an unbind with a PWM in use,
  leave a chip registered whose callbacks use freed memory
  (`rcio_core.c:136`, `195`). `PwmCallsSafe` names both.
- After a failed status or GPIO probe the kernel is asked to remove a chip that
  is not there, and after a failed `kthread_run` to stop no thread
  (`rcio_core.c:154-167`). `OopsExplained` names all of these.
- A pin requested between `gpiochip_add` and the clearing of the table is held
  and not driven (`rcio_gpio.c:342-351`).
- `new_frequencies` is read before and after the rate's transaction; a config in
  between is recorded as sent (`rcio_pwm.c:129`).
- A duty stays in the table when another channel's config changes the rate of
  its timer, and is played at the new rate (`rcio_pwm.c:481`).
- `rcio_pwm_force_zero_duty` runs one update, which writes no duty when the
  outputs are not armed or a rate is pending; `gpio_chip_request` goes on
  (`rcio_gpio.c:176`).
- Overlapping GPIO and PWM requests export one pin as both (`rcio_pwm.c:538`), and
  a pin that went from PWM to GPIO and back is not exported as PWM again
  (`rcio_gpio.c:246`).
- `reset_store` zeroes the table after its push and queues none: the board keeps
  the pins enabled (`rcio_gpio.c:73`). `BoardCatchesUp` is checked without resets.

### Bounds

- Threads. Two of a kind is what an interference needs: two callers of the
  transport, the worker and a GPIO thread, two GPIO users and the worker.
- `pwm_*`: one or two timers of one or two channels; one channel below
  `MaxZeroedChannels` and `AltChannels` and one not. One client: callbacks of
  different channels touch different words of `values`, and what they share (the
  rates) is written in one step. `ZeroSkipUpdateCycles` is 2 instead of 50,
  the least that counts down more than once. `MaxCountdown` keeps GPIO threads
  from adding for ever and guards only that addition. `ArmTicks` is 1: armed or
  not is what the code tells apart.
- `pins_*`: one or two pins; the macro's fault needs a lower pin. Two users only
  with GPIO calls: with every call and fault the instance is too large, and what
  users of both chips do to each other is the overlap `OneOwner` leaves out.
  `MaxUpdates` guards a user's next enqueue only.
- `crc_packet`: two words have every place a longer packet has (header, first,
  last word, padding), counts below and above; the table has 256 entries and all
  are met. The theorems are about packets of up to 62 words and all bytes. A
  burst longer than a byte is not tried.
- `lifecycle`: a third life finds what two earlier ones left, in either order, and
  on which boards; two
  failures at a time (`MaxFailures` counts kinds, not occurrences, and a busy chip
  is free of charge).
- `polls_*`: with W = 8 periods of 1 and 2 jiffies fit in half the range and
  jiffies wrap every few polls, also while the link is down. The bounds
  (`Bound(p)`, `Room`, `RearmAge`) are tight: one less, or one more where it is a
  lower one, is violated. `Bound(p)` holds for passes of two jiffies too. Enables
  come and go only where the last config is watched; nothing else reads `armed`. `LostChannelsZero` is watched on a link that works: when the link
  has been down for half the range the old timeout looks like one to come, and
  the receiver is not polled until it has passed.

### Fairness

The kernel schedules every thread that can run: weak fairness of the worker
(`UpdateStep(Worker)`, `DriverNext`, `WorkerLoop`), of a user's or GPIO thread's step *once it
is inside a callback*, of the thread that binds or unbinds, and of the clock. Nobody owes a call: enabling,
configuring, requesting, freeing, binding, unbinding and swapping boards have no
fairness. In `RcioLifecycle` calls to attributes and the GPIO chip end; calls to
a PWM chip need not, since no removal waits for one. In `RcioSpi` taking the
mutex is strongly fair, since a kernel mutex hands over to its waiters and
does not starve one; everything else is weakly fair. Polls have no liveness
property: theirs are bounds on time, which are invariants.

## 4. Proofs

TLAPS proves, for any number of threads, clients, timers, channels and registers:

- `RcioPwm_proofs`
  - `PwmTypeCorrect`: `Spec => []TypeOK`, one lemma per group of actions.
  - `PwmStoppedStaysZero`: on a link that delivers (`~Faulty`), with any number
    of updaters. The invariant alone is not inductive: the worker sends the
    whole table, so what must hold is that the *table* is zero at a
    stopped channel and at one whose disable is under way, that the callback
    which has pushed left the board zero, and that no other callback is on that
    channel. `StoppedInv == Exclusive /\ DisabledZero /\ PushedZero /\
    ConfigStarts /\ StoppedZero` says so; each step either is `Quiet` about the
    table and sends only the table or zeros, or is one of the callbacks treated
    one by one.
  - `PwmNoticedMeansCleared`: with the worker as only updater
    (`GpioThreads = {}`), on a link that delivers. `NoticedInv` adds where in
    the update the flag can be set. With a second updater it is false.
- `RcioPwmProbe_proofs`: `ProbeTypeCorrect`, `ProbeStoppedStaysZero` and
  `ProbeNoticedMeansCleared`, the same from the moment the chip is added, with
  `EarlyClients` or without. A step is the probe's, which writes rates and
  leaves alone what the invariants are about (`ProbeLeaves`), or one of
  `RcioPwm`, whose step lemmas are cited. What early clients do break is a
  liveness property (`pwm_early_config`). The runs check the two
  safety properties after the probe only; that clients who call during it do
  not break them rests on the proof.
- `RcioSpi_proofs`
  - `SpiTypeCorrect`, `SpiImplementsFile`, `SpiFreshRead`. `SpiInv` says who holds
    the lock (`LockInv`), where a call is taken (`CallInv`), whose words are in
    the buffer at each place (`BufferInv`) and, for a call that was not answered
    late, whose reply is on the wire (`ReplyInv`). From it every step is a step of
    the register file or a stutter. No fault needs an assumption: a late board
    and a missing one are part of the theorem.
- `RcioPins_proofs`, `RcioPinsTables_proofs`
  - `PinsTypeCorrect`, for any pins, users, settings and faults. `PinsShape`
    adds where a thread has a pin and that whoever is between the load and the
    store of `++` or `--` has loaded a number the counter could have.
  - `PinsHeldDriven` and `PinsFreedReleased`, in settings that are `Calm` (the
    link delivers, nobody resets, nobody calls before the probe is through; the
    two tables cannot agree otherwise, see section 3). Every push carries the whole
    table, so the invariant is about all pins at once: `CallbacksOK` says what each
    callback relies on about *its* pin at each of its steps (`At`), `OneCallback`
    that the GPIO core has one callback per pin, and `RestOK` that a pin on which
    no callback works is driven and held, or neither. A push by another thread
    keeps all three because a callback writes the driver's word before it pushes.
    `ProbeAlone` covers the words of an earlier life until the probe has cleared
    them.
  - `PinsSerialOwners` and, from it, `PinsOneOwner`, on a link that delivers. The
    run and `PinsOneOwner` have one thread that calls; what the masks really need
    is less, and `PinsSerialOwners` says what: in every behaviour in which no
    request or free of either chip overlaps another (`[]OneAtATime`), with any
    number of threads, no pin is exported twice. Sets, directions and resets of
    other threads, the worker and the probe may come between any two of
    their steps. When two of them do overlap it is false (section 3). `OwnerInv`
    says what the locals of a callback still know of the masks (`Knows`): a mask
    read and about to be written back is the mask as it is, or has nothing in
    common with the other. A reset keeps that because it only unexports
    GPIO pins, which no callback relies on to be there.
- `RcioPolls_proofs`: `PollsTypeCorrect`, `PollsRcLossSeen`,
  `PollsLostChannelsZero`, `PollsBoardLossSeen`, `PollsHeartbeatInTime` and
  `PollsArmedInTime`, for every `W`, `Period`, `MaxPass` and `ArmTicks` of the
  assumption. What the runs count in `age` the code has only as a difference of
  wrapped values. `Elapsed(p)`, the time since the last update of `p`, is such a
  difference, and it is the true one only while it is less than `W`; that it
  stays small is the invariant. `Recent` bounds it by the period and
  the passes that can come before `p` is polled again, which needs `Due` to be
  right, which needs `Elapsed` to be small (`DueElapsed`, `RecentRoom`). `RcInv`
  and `LinkInv` say this only of a receiver that is connected and a board that is
  alive: of the others a timeout may be arbitrarily old. `ArmInv` ties `age` to
  `armtimeout` until jiffies have gone half round, and says that `armed` goes back
  to one of two things since the worker last looked (`SinceLook`): the timeout
  lay ahead then, or somebody has enabled a channel since. Modular arithmetic
  enters through one lemma, `Wrap`.
- `RcioLifecycle_proofs`: `LifecycleTypeCorrect` and the six safety invariants of
  the run (`LifecycleWorkerSafe`, `LifecycleCallsSafe`, `LifecyclePwmCallsSafe`,
  `LifecycleOopsExplained`, `LifecycleCleanUnbind`, `LifecycleAdcShown`), for any
  `MaxLives` and `MaxFailures`, so also for failures that come together in threes
  or more. `LifecycleInv` says what exists at each place of `rcio_init` and
  `rcio_remove`, by whichever path the thread came: memory and lock
  (`MemoryInv`), what is published (`PublishedInv`), the worker (`TaskInv`), the
  PWM chips of this life and of earlier ones (`PwmInv`), which failure is to
  blame where the removal will meet something unexpected (`BlameInv`), and, as
  long as every board type could be read, which board probed since the machine
  booted accounts for the attributes that are switched off (`AdcInv`).

- `RcioCrc_proofs`: `CrcTypeCorrect`, `CrcSealIsRemainder`, `CrcWholeIsTaken`,
  `CrcGarbleIsSeen` and `CrcStuckLineRefused`, for packets of any size up to 62
  words, any header, words and stale check byte, and any change of one byte.
  - `TableIsDivision`: all 256 entries of `crc8_tab` are the remainders they
    stand for. The division shifts eight times; a shift without a carry is a
    doubling, and one with a carry is linear but for one remainder (`ShiftsTo`),
    so that arithmetic compares the entries, sixteen at a time.
  - `OneByteIsSeen`: xor with a byte and the division of a byte lose nothing
    (`XorInjective`, `DivideInjective`), so two packets that differ in one byte
    have different remainders after it and ever after.
  - `CrcInv` ties the loop to the reference: after `at - 1` bytes it has their
    remainder (`LoopInv`), also beyond the buffer; what happened on the
    line shows in the packet (`HurtInv`): its check value fits (`Fits`), does not
    fit, or its count is another one; and the verdict is about the loop's
    last value (`VerdictInv`).
  - The reference is a recursive function, so its properties need induction, and the
    library's theorems on induction take an operator, which the provers cannot
    instantiate. `NatSetInduction` has a set in the place of the operator and is
    proved from the well-foundedness of inclusion on finite sets; that the
    recursive function exists and unfolds (`RemaindersUnfold`) follows with it.

The inductive invariants were checked by TLC on the runs' instances before they
were proved.

The assumptions on constants are the `ASSUME`s of the modules, nothing more; TLC
evaluates them in every run: `PwmAssumption`, `RegsAssumption`, `SpiAssumption`,
`ProbeAssumption`, `PinsAssumption`, `LifecycleAssumption`, `CrcAssumption` and
`PollsAssumption`. `CrcAssumption` has packets of at most 62 words (they have
32, `protocol.h:375`), since a line stuck at one reads as a count of 63, which
must be no count a read asks for. Three parts of `PollsAssumption` are what the
bounds rest on. `4 * MaxPass <= W`: a pass is short against the range of jiffies
(which are 2^32 or 2^64; a pass takes milliseconds). `First[p] <= Period[p]`: no
probe sets a timeout later than an update does (`rcio_status.c:112`, `122`,
`rcio_safety.c:76`, `86`; in the ADC and RC input the two are equal). And where
the channels are watched the link works, since the measurements are cleared on
`-ENOTCONN` only.

Only model-checked: all liveness (`CallReturns`, `ForceZeroEnds`, `Failsafe`,
`DutyReachesBoard`, `UpdateIsMade`, `BoardCatchesUp`, `BindsEnd`), which is out of
the prover's reach.

## 5. What is not modelled

- **Requests hurt on the way to the board**, as bytes: what the board does with a
  count that fits is up to its firmware. In `RcioSpi` it refuses them.
- **GPIO on a firmware without it**: `RcioPins` begins with `gpio_supported` true; in
  `RcioLifecycle` it may be false.
- **16-bit truncation** of frequencies and of duties in microseconds; a duty
  and a rate are abstract values.
- **Uninitialised words** are modelled where they decide or are written back (the
  features of the firmware in both probes, the mask in `rcio_pwm_request` after a
  failed read); the values that `show` attributes
  print are not.
- **sysfs show attributes**: formatting, no state.
- `alarms` and status flags decoding only log.

## 6. Plan

Done: `RcioSpi` over `RegisterFile` with its refinement proof, `RcioPwm`,
`RcioPwmProbe`, `RcioPins`, `RcioPolls`, `RcioCrc`, `RcioLifecycle`, and proofs of
all safety properties the passing runs check.

Next, in this order:

1. The arithmetic of `rcio_pwm_config`: `new_frequency` and `duty_ms` in 16
   bits against the exact quotient.
2. `RcioPins` on a link that fails: what a failed push leaves behind.
3. A composition of the pins and the PWM outputs over one register file: what
   `gpio_chip_request` relies on when it asks for zero duties.
