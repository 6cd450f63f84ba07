\* A GPIO thread runs the update too, at one rate, on new firmware.
CONSTANTS
  g1 = g1
  TimerCount = 1
  ChannelsPerTimer = 2
  AltChannels = 2
  MaxZeroedChannels = 1
  ZeroSkipUpdateCycles = 2
  ArmTicks = 1
  Freqs = {50}
  DefaultFreq = 50
  Masks <- NoMask
  Clients = {k1}
  GpioThreads <- OneGpio
  MaxCountdown = 2
  Ways = {TRUE}
  Faulty = FALSE
SPECIFICATION FairSpec
INVARIANTS
  StoppedStaysZero
PROPERTY
  ForceZeroEnds
