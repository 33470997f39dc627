SPECIFICATION Spec
CONSTANTS
  HbCallers = {"a", "b"}
  HbGroups = {"g1", "g2", "g3"}
  HbNone = None
  HbRegistrations <- MCRegistrations
  HbDependencies <- MCDependencies
  HbThreshold = 1
  HbResources = {"lock", "tx"}
  HbCrashes = 1
INVARIANTS FrozenTogether DegradedForACause
PROPERTIES SilenceIsNoticed
CHECK_DEADLOCK FALSE
