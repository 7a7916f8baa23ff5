CONSTANTS
  Base = 6
  BufLen = 15
  RxSize = 30
  CmdSize = 4
  AclSize = 5
  Packets <- SmallPackets
  Strays <- SmallStrays
  MaxPackets = 3
  MaxData = 2
SPECIFICATION BridgeSpec
INVARIANTS BridgeTypeOK PacketsArrive NeverFull TypedOnce
