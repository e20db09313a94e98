SPECIFICATION Spec
CONSTANTS
  None = None
  AllRepos = AllRepos
  Main = Main
  Names = {"one", "two"}
  Lower <- MCLower
  Urls = {"u1", "u2"}
  Catalog <- MCCatalog
  Rank <- MCRank
  FileOrder <- MCFileOrder
  Base <- MCBase
  Commands <- MCCommands
  Core = "core"
  FaultBudget = 1
  CrashBudget = 1
  TemplateBudget = 1
INVARIANTS
  ListedReposWhole
  ScriptsRun
  TemplateTellsTruth
PROPERTIES
  OnItsOwnRepo
CHECK_DEADLOCK FALSE
