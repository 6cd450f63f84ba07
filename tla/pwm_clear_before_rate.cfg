\* A rate change meets the worker between its test and its use of the flags.
CONSTANTS
  g1 = g1
  TimerCount = 1
  ChannelsPerTimer = 2
  AltChannels = 2
  MaxZeroedChannels = 1
  ZeroSkipUpdateCycles = 2
  ArmTicks = 1
  Freqs = {50, 400}
  DefaultFreq = 50
  Masks <- NoMask
  Clients = {k1}
  GpioThreads <- NoThreads
  MaxCountdown = 2
  Ways = {TRUE, FALSE}
  Faulty = FALSE
SPECIFICATION Spec
PROPERTY
  ClearBeforeRate
