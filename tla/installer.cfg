SPECIFICATION Spec
CONSTANTS
  Umask = "0022"
  MaxRuns = 3
  MaxKills = 1
INVARIANTS
  TypeOK
  DeploysWhatWasChecked
  ExitTellsTruth
  FilledVenvIsRecognised
PROPERTIES
  ReadOnlyRuns
  WheelIsLastResort
  ForeignVenvKept
