CONSTANTS
  Talkers <- ShippedTalkers
  MaxCount <- ShippedMaxCount
  Prns <- ShippedPrns
  FirstSnr <- ShippedFirstSnr
  Plan <- ShippedPlan
  LowSnr = 5
  StepSnr = 3
  TopSnr = 49
  InUse = 20
  MaxChanges = 1
SPECIFICATION Spec
INVARIANTS AtMostTwelveUsed
