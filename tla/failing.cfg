SPECIFICATION Spec
CONSTANTS
  Files = {dll, ini, weights}
  Ini = ini
  Weights = weights
  Present = {ini, weights}
  Versions = {v1, v2}
  Original = Original
  Edited = Edited
  Absent = Absent
  None = None
  Debris = {"store", "stage", "backups", "update"}
  MaxCrashes = 1
  MaxErrors = 1
  MaxEdits = 1
INVARIANTS TypeOK JournalsAccepted SnapshotsKept
