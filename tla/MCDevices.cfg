CONSTANTS
  Talkers <- FewTalkers
  MaxCount <- FewMaxCount
  Prns <- FewPrns
  FirstSnr <- FewFirstSnr
  Plan <- FewPlan
  LowSnr = 0
  StepSnr = 1
  TopSnr = 2
  InUse = 2
  MaxChanges = 1
  Numbers <- SomeNumbers
  Names <- SomeNames
  MaxLine = 3
SPECIFICATION DevicesSpec
INVARIANTS GroupsComplete UsedAgree GroupsEnd RadioState SimTold
