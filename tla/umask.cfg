SPECIFICATION Spec
CONSTANTS
  Umask = "0002"
  MaxRuns = 1
  MaxKills = 0
INVARIANT OwnWorkAccepted
