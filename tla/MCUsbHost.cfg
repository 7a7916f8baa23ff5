CONSTANTS
  h1 = h1
  h2 = h2
  g1 = g1
  HciDevice <- Adapters
  GsmDevice <- Modems
  NoDevice = NoDevice
  FailAt = {"endpoints", "submit"}
SPECIFICATION Spec
INVARIANTS OnlyFailedInitsLeak NothingFreedInFlight ListensWhileOnline NoGhostDevice
PROPERTY UnpluggedGoesOffline
