SPECIFICATION FairSpec
CONSTANTS
  a = a
  b = b
  core = core
  x = x
  None = None
  Procs = {a, b}
  CacheDirs <- MCCacheDirs
  DataDirs <- MCDataDirs
  Inside <- MCInside
  RootOnly = {"staged"}
  Bundles = {core, x}
  Environments <- MCEnvironments
  FaultBudget = 1
  CrashBudget = 1
INVARIANTS
  TypeOK
  OneHolder
PROPERTIES
  HolderUndisturbed
  CleanTakesOnlyCache
  LockGivenBack
CHECK_DEADLOCK FALSE
