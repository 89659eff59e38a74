SPECIFICATION Spec
CONSTANTS
  MaxLines = 3
  MaxTokens = 4
  MaxEdits = 1
INVARIANTS
  RequiredSettingsHold
  UserSettingsKept
  WaitChoiceSurvives
  UpdateIsIdempotent
  LineKeepsTheUsers
