SPECIFICATION FairSpec
CONSTANTS
  A = A
  Ax = Ax
  B = B
  Bx = Bx
  V = V
  Root = Root
  Order <- MCOrder
  Parent <- MCParent
  Version = V
  LinkTarget = B
  Through <- MCThrough
  Manifests <- MCManifests
  Damages = {"none", "mine", "absent", "link", "old"}
  CrashBudget = 1
  FaultBudget = 1
  RunBudget = 3
INVARIANTS
  TypeOK
  OkMeansInstalled
PROPERTIES
  FilesStayPresent
  UserFilesKept
  OnlyListedTouched
  RunEnds
