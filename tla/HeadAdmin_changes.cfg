CONSTANTS
  a = a
  b = b
  default = default
  Ids = {default, a, b}
  Default = default
  Nobody = Nobody
  Agents = {"agent"}
  Schedules = {"schedule"}
  MaxSent = 2
  MaxArchivals = 1
  MaxChanges = 2
  MaxCrashes = 1

SPECIFICATION Spec
SYMMETRY MCSymmetry
INVARIANTS TypeOK DataFollowsHead NoCrossTalk FreeIdsAreClean NothingStranded OnlyDeadReaped
