\* One timer of one channel, on default_frequency in the old way, and a client that does not wait for the probe.
CONSTANTS
  g1 = g1
  TimerCount = 1
  ChannelsPerTimer = 1
  AltChannels = 0
  MaxZeroedChannels = 1
  ZeroSkipUpdateCycles = 2
  ArmTicks = 1
  Freqs = {50, 400}
  DefaultFreq = 50
  Masks <- NoMask
  Clients = {k1}
  GpioThreads <- NoThreads
  MaxCountdown = 2
  Ways = {TRUE, FALSE}
  Faulty = FALSE
  EarlyClients = TRUE
SPECIFICATION ProbeSpec
PROPERTY
  UpdateIsMade
