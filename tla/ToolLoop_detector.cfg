CONSTANTS
  Calls = {"read", "write", "reply"}
  Terminal = {"reply"}
  MaxCalls = 2
  MaxRounds = 4
  SameArgsTrigger = 3
  ErrorTrigger = 2
  PostNudgeErrorTrigger = 1
  Interruptible = TRUE

SPECIFICATION Spec
INVARIANTS TypeOK SuspectsExactly ExplorationUndisturbed SpinnerStopped
