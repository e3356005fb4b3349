\* A schedule trigger that waits beside a background event.
SPECIFICATION Spec
CONSTANTS
  h1 = h1
  Heads = {h1}
  DefaultHead = h1
  Inputs = {"agent_event", "schedule_trigger"}
  RelaySteward = FALSE
  ServerRetries = 1
  MaxRows = 2
  MaxCrashes = 0
INVARIANT
  TriggersRun
