CONSTANTS
  MaxChannel = 1
  MaxSpawn = 3
  WithRoom = {1, 2, 3}
  MaxFrames = 1
  MaxEager = 1
  Patience = {TRUE}
  Lines <- MixedLines
SPECIFICATION Spec
PROPERTIES CarrierLossNoticed
