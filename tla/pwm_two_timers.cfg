\* Two timers of one channel: two rate updates after one clear.
CONSTANTS
  g1 = g1
  TimerCount = 2
  ChannelsPerTimer = 1
  AltChannels = 1
  MaxZeroedChannels = 1
  ZeroSkipUpdateCycles = 2
  ArmTicks = 1
  Freqs = {50, 400}
  DefaultFreq = 50
  Masks <- NoMask
  Clients = {k1}
  GpioThreads <- NoThreads
  MaxCountdown = 2
  Ways = {TRUE, FALSE}
  Faulty = FALSE
SPECIFICATION Spec
INVARIANTS
  TypeOK
  StoppedStaysZero
  NoticedMeansCleared
