SPECIFICATION FairSpec
CONSTANTS
  Files = {dll, ini, weights}
  Ini = ini
  Weights = weights
  Present = {dll, weights}
  Versions = {v1, v2}
  Original = Original
  Edited = Edited
  Absent = Absent
  None = None
  Debris = {"stage", "update"}
  MaxCrashes = 2
  MaxErrors = 0
  MaxEdits = 0
INVARIANTS OriginalsKept SettledIsWhole
PROPERTIES TransactionProperty UninstallSucceeds
