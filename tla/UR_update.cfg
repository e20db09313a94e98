SPECIFICATION FairSpec
CONSTANTS
  FileOrder <- MCFileOrder
  DeltaFiles = {"bin"}
  PackFiles = {"share"}
  Options <- MCOptions
  Worlds <- MCWorlds
  StaleUnset = 2
  PostUpdate = FALSE
INVARIANTS
  TypeOK
  OnlySuspectsLeft
  ReachesNewest
PROPERTIES
  OnlyAnnounced
  RunEnds
