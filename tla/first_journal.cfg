SPECIFICATION FairSpec
CONSTANTS
  Files = {dll, ini, weights}
  Ini = ini
  Weights = weights
  Present = {dll}
  Versions = {v1, v2}
  Original = Original
  Edited = Edited
  Absent = Absent
  None = None
  Debris = {"store"}
  MaxCrashes = 1
  MaxErrors = 0
  MaxEdits = 0
PROPERTIES UninstallSucceeds
