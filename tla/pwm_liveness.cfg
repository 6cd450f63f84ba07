\* One timer of one channel, on default_frequency in the old way, from the probe on; the user may ignore it.
CONSTANTS
  g1 = g1
  TimerCount = 1
  ChannelsPerTimer = 1
  AltChannels = 0
  MaxZeroedChannels = 1
  ZeroSkipUpdateCycles = 2
  ArmTicks = 1
  Freqs = {50, 400}
  DefaultFreq = 50
  Masks <- LowMask
  Clients = {k1}
  GpioThreads <- NoThreads
  MaxCountdown = 2
  Ways = {TRUE, FALSE}
  Faulty = FALSE
  EarlyClients = FALSE
SPECIFICATION ProbeSpec
INVARIANT
  ProbeTypeOK
PROPERTIES
  Failsafe
  DutyReachesBoard
  UpdateIsMade
