SPECIFICATION Spec
CONSTANTS
  k1 = k1 k2 = k2
  Items <- Two
  Caller = {"c1","c2"}
  Broken = {}
  Flaky = {k1, k2}
  Impatient = {"c1"}
  FailLimit = 2
  FullWeights = {1, 2}
  ProbeWeights = {1}
  MaxCredit = 2
  MaxWait = 4
INVARIANTS TypeOK CreditBalanced FairRotation
PROPERTIES DeadKeyRests ThrottledKeyStays
CHECK_DEADLOCK FALSE
