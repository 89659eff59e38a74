SPECIFICATION Spec
CONSTANTS
  Exes = {e1, e2, e3}
  Runners = {r1, r2}
  Dlls <- TreeDlls
  DllName <- TreeNames
  Folder <- TreeFolders
  Names = {"a", "b", "version"}
  None = None
  MaxDepth = 3
  MaxModules = 3
INVARIANTS
  TheGameIsSelected
  LoaderEvidenceExact
  NothingSkippedSilently
  ConfirmedRunnerIsUsed
CHECK_DEADLOCK FALSE
