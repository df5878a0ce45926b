SPECIFICATION FairSpec
CONSTANTS
  k1 = k1 k2 = k2
  Items <- Two
  Caller = {"c1", "c2"}
  Broken = {k1}
  Flaky = {k2}
  Impatient = {}
  FailLimit = 2
  FullWeights = {2}
  ProbeWeights = {1}
  MaxCredit = 2
  MaxWait = 4
PROPERTIES TriesEachKey
CHECK_DEADLOCK FALSE
