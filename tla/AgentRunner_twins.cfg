CONSTANTS
  Agents = {"task"}
  NoAgent = "head"
  Parent <- MCParent
  Unattended = {}
  Continuable = TRUE
  SlowTools = TRUE
  MaxTwins = 2
  MaxSent = 3
  MaxCrashes = 1

SPECIFICATION Spec
INVARIANTS OneActiveLoop
PROPERTIES CancelEnds AnswerResumes
