\* GPIO users take two pins from their PWM users.
CONSTANTS
  u1 = u1
  u2 = u2
  Pins = {0, 1}
  Users = {u1}
  MaxUpdates = 2
  Settings <- TakingOnly
SPECIFICATION Spec
PROPERTY
  TakenStaysIgnored
