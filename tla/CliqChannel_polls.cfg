CONSTANTS
  Texts = {"hello", "done"}
  UserTexts = {"done"}
  NoText = "none"
  Jobs <- MCJobs
  Slots = {s1}
  MaxAdapters = 2
  History = 1
  MaxChat = 3
  MaxCrashes = 1
  Window = 2
  Lag = 1
  RecentMax = 1
  PruneEvery = 2
  Keep = 5
SPECIFICATION Spec
INVARIANTS TypeOK HandedOnce EchoesStayOut SkippedForAReason HistoryStaysOut
CHECK_DEADLOCK FALSE
