\* A background event whose activation fails after the injection.
SPECIFICATION Spec
CONSTANTS
  h1 = h1
  Heads = {h1}
  DefaultHead = h1
  Inputs = {"agent_event"}
  RelaySteward = FALSE
  ServerRetries = 1
  MaxRows = 1
  MaxCrashes = 0
INVARIANT
  InjectedOnce
