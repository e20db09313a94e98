SPECIFICATION Spec
CONSTANTS
  FileOrder <- MCFileOrder
  DeltaFiles = {"bin"}
  PackFiles = {"share"}
  Options <- MCOptions
  Worlds <- MCWorlds
  StaleUnset = 2
  PostUpdate = TRUE
PROPERTIES
  ScriptsBlock
