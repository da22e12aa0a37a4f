SPECIFICATION BreakerFairSpec
CONSTANTS
  Callers = {"c1", "c2", "c3"}
  Threshold = 5
  Duration = 5
INVARIANTS
  OpenShields
PROPERTIES
  BreakerRecovers
