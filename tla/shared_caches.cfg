SPECIFICATION FairSpec
CONSTANTS
  Installers = {p1, p2}
  Folders = {f1, f2}
  None = None
  MaxKills = 2
INVARIANTS
  TypeOK
  PublishedIsWhole
  StagingOutlivesWine
PROPERTIES
  NeverWithdrawn
  EveryCallEnds
