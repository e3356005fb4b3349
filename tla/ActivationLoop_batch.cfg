\* One head, three events of the kinds a busy conversation mixes, one crash.
SPECIFICATION Spec
CONSTANTS
  h1 = h1
  Heads = {h1}
  DefaultHead = h1
  Inputs = {"user_message", "command", "background_completed", "schedule_trigger"}
  RelaySteward = TRUE
  ServerRetries = 1
  MaxRows = 3
  MaxCrashes = 1
INVARIANTS
  TypeOK
  DoneMeansHandled
  AppendedOncePerLife
  CoalescedOnce
  StrandedForAReason
PROPERTIES
  SettledForever
  ArrivalOrder
