CONSTANTS
  MaxChannel = 1
  MaxSpawn = 2
  WithRoom = {1}
  MaxFrames = 2
  MaxEager = 1
  Patience = {TRUE, FALSE}
  Lines <- MixedLines
SPECIFICATION SafeSpec
INVARIANTS NoStaleHandles  ClosesItsOwnPipes CloseSticks StoppedClean NeverAstray SessionConsistent ChildAccounted
