SPECIFICATION Spec
CONSTANTS
  Order <- MCOrder
  Parent <- MCParent
  Root = "/usr"
  Through <- MCThrough
  Bundles = {"core", "app"}
  Core = "core"
  Marker <- MCMarker
  Release = "release"
  VersionIn <- MCVersionIn
  Catalog <- MCCatalog
  Readable = {1, 2}
  StateFiles = {"state"}
  BootFiles = {"old/mine"}
  Whitelist = {"keep"}
  WithXattrs = {"app"}
  Requests <- MCRequests
  Worlds <- MCWorlds
  FaultBudget = 1
  KillBudget = 1
  RunBudget = 3
INVARIANT RepairOkMeansRight
