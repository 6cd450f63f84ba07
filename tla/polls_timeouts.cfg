\* The receiver, the link, the heartbeat setting, configs, enables and disables
\* come and go, jiffies wrap.
CONSTANTS
  W = 8
  MaxPass = 1
  Period <- Periods
  First <- Firsts
  ArmTicks = 2
  Watches <- AllWatches
  Changes <- Disturbances
SPECIFICATION Spec
INVARIANTS
  TypeOK
  RcLossSeen
  LostChannelsZero
  BoardLossSeen
  HeartbeatInTime
  ArmedInTime
