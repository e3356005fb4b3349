CONSTANTS
  Agents = {"task"}
  NoAgent = "head"
  Parent <- MCParent
  Unattended = {}
  Continuable = TRUE
  SlowTools = FALSE
  MaxTwins = 1
  MaxSent = 1
  MaxCrashes = 0

SPECIFICATION Spec
INVARIANT MessageDelivered
