CONSTANTS
  Agents = {"parent", "child"}
  NoAgent = "head"
  Parent <- MCParent
  Unattended = {"child"}
  Continuable = TRUE
  SlowTools = FALSE
  MaxTwins = 1
  MaxSent = 2
  MaxCrashes = 1

SPECIFICATION Spec
INVARIANTS TypeOK NoActiveChildOfEndedParent ParentHeardAll OutcomeTold
PROPERTIES ImplementsLife
