CONSTANTS
  Calls = {"first", "second"}
  NoCall = "none"

SPECIFICATION Spec
INVARIANT SecondStartIsNoOp
CHECK_DEADLOCK FALSE
