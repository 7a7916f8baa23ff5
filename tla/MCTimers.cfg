CONSTANTS
  Timer = {"nmea", "slow", "once"}
  Nil = Nil
  Interval <- Intervals
  Repeating = {"nmea", "slow"}
  RunNow = {"nmea"}
  Default = 8
  Min = 2
  Nested = {2}
  Width = 8
  MaxCalls = 5
  Pauses = {2}
  MaxNow = 8
  MaxDepth = 2
SPECIFICATION Spec
INVARIANTS ListSound LoopStep NoneOverdue
PROPERTIES CalledWhenDue
