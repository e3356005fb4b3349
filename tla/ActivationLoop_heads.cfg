\* Two heads on one table, with the relay steward off and no slash commands.
SPECIFICATION FairSpec
CONSTANTS
  h1 = h1
  h2 = h2
  Heads = {h1, h2}
  DefaultHead = h1
  Inputs = {"user_message", "agent_event"}
  RelaySteward = FALSE
  ServerRetries = 1
  MaxRows = 2
  MaxCrashes = 1
INVARIANTS
  HeldByOwner
PROPERTIES
  ImplementsLedger
  EveryEventSettled
