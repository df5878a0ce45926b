SPECIFICATION Spec
CONSTANTS
  k1 = k1 k2 = k2
  Items <- Two
  Broken = {k1}
  Flaky = {}
  FailLimit = 1
  FullWeights = {1}
  ProbeWeights = {1}
  MaxCredit = 1
  MaxWait = 2
  BatchSize = 2
  Lengths = {1, 4}
  MaxPackets = 2
  MaxParts = 2
  MaxCancels = 1
INVARIANTS TypeOK LegsInOrder PricedByLeg NothingPaidTwice FailsOnlyWhenCut
PROPERTIES RouteReturns RoadDataFlows
CHECK_DEADLOCK FALSE
