SPECIFICATION Spec
CONSTANTS
  core = core
  x = x
  y = y
  z = z
  binS = binS
  shareZ = shareZ
  mCore = mCore
  mX = mX
  mY = mY
  mZ = mZ
  Bundles = {core, x, y, z}
  Core = core
  Paths <- MCPaths
  Rank <- MCRank
  Marker <- MCMarker
  Content <- MCContent
  Manifests <- MCManifests
  Requests <- MCRequests
  FaultBudget = 1
  RunBudget = 3
INVARIANTS
  TypeOK
  IncludesInstalled
  FilesExact
  OrphansGone
  RecursiveSpares
PROPERTY
  TrackedOnlyOnRequest
