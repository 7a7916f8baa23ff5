CONSTANTS
  MaxChannel = 2
  MaxSpawn = 2
  WithRoom = {1, 2}
  MaxFrames = 1
  MaxEager = 1
  Patience = {TRUE}
  Lines <- PlainLines
SPECIFICATION Spec
INVARIANTS TypeOK MuxExclusive
PROPERTIES HandlersReturn
