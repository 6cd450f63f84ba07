\* Two users on two pins and the worker on a link that delivers; or one user
\* on one pin, every call and every fault.
CONSTANTS
  u1 = u1
  u2 = u2
  Pins = {0, 1}
  Users = {u1, u2}
  MaxUpdates = 2
  Settings <- MostSettings
SPECIFICATION FairSpec
INVARIANTS
  TypeOK
  HeldPinDriven
  FreedPinReleased
  OneOwner
PROPERTY
  BoardCatchesUp
