CONSTANTS
  Schedules = {"reminder", "task", "script"}
  KindOf <- MCKindOf
  NoRow = NoRow
  NoSchedule = "none"
  MaxRows = 1
  MaxQueued = 1
  MaxEdits = 1
  MaxFaults = 1
  MaxCrashes = 1

SPECIFICATION Spec
INVARIANTS TypeOK CancelledStaysSilent  OneTimeAnswered
PROPERTIES KeptUntilUserActs NagsUntilAcked AckedEnqueuesNothing
